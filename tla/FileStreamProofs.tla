------------------------ MODULE FileStreamProofs ------------------------
(***************************************************************************)
(* Proofs about the two ways of sending a file: the transfer service of    *)
(* protocol v2 (TransferService) and the one-way stream beside it          *)
(* (LegacyTransfer).                                                       *)
(*                                                                         *)
(* The service: what is sent is what the source holds, a sound source is   *)
(* never failed, a status tells the end of its own transfer, and ids       *)
(* differ, for every size of packets, of the buffer and of the source,     *)
(* however the source cuts what it gives, and every number of transfers    *)
(* and faults.  Where a source stands is known at each step of both        *)
(* readings (Places), so that each piece read is the part of the contents  *)
(* that starts where the last one ended (Sound), and pieces that meet make *)
(* the packet the peer counts on.                                          *)
(*                                                                         *)
(* The stream: what is published is a whole file, what is left on the      *)
(* storage is known of, and audio keeps its order, for every file, size of *)
(* packets, width of sequence numbers and number of mishaps.  A packet's   *)
(* number tells where in the file it stands (Agree), with those on the air *)
(* and with what the segmenter cuts off next (Before), so that a receiver  *)
(* that has all up to the packet it expects (Receives) still has when it   *)
(* has taken it.                                                           *)
(***************************************************************************)
EXTENDS TransferService, LegacyTransfer, SequenceTheorems, TLAPS

-----------------------------------------------------------------------------
(* The invariant.                                                          *)

Byte == {"first", "other"} \X Nat
Errors == {"None", "InvalidMetadata", "UnsupportedSize", "SourceRead", "Peer", "Cancelled"}
Shown == States \cup {"Preparing", "Handshaking", "Transferring", "Verifying"}

SessionType == [state : States, id : Ids, sequence : Nat, error : Errors]
StatusType == [id : Ids, state : Shown, sequence : Nat, error : Errors]
SourceType == [kind : {"none", "file", "memory", "stream"}, data : Seq(Byte),
               position : Nat, length : Nat]

ServiceTypes ==
    /\ source \in SourceType
    /\ active \in BOOLEAN
    /\ step \in {"idle", "inspecting", "inspected", "reading"}
    /\ metadata \in Seq(Byte) /\ reading \in Seq(Byte) /\ packets \in Seq(Seq(Byte))
    /\ session \in SessionType
    /\ status \in StatusType
    /\ lastId \in Ids
    /\ truth \in [Ids -> States \cup {"none", "running"}]
    /\ calls \in 0..MaxTransfers
    /\ faults \in [all : Nat, since : Nat]

\* A session that has not ended.
Live == session.state \notin Terminal \cup {"Idle"}
Inspecting == step \in {"inspecting", "inspected"}
Sends == session.state \in {"WaitingForReady", "WaitingForDataAck", "WaitingForComplete"}

\* Who may do what: a source is held while it is inspected, and by a session that
\* has not ended, and only one of the two is going on.
Stages ==
    /\ Inspecting => active /\ calls > 0 /\ ~Live /\ packets = <<>> /\ status.id = 0
    /\ step = "reading" => session.state \in {"WaitingForReady", "WaitingForDataAck"}
    /\ Live => active
    /\ status.state \in Terminal => step = "idle" /\ ~active
    /\ session.id \in {0, lastId}

\* An end that is known is what became of the transfer.
Told ==
    /\ session.state \in Terminal /\ session.id # 0 => truth[session.id] = session.state
    /\ status.state \in Terminal /\ status.id # 0 => truth[status.id] = status.state

\* Where a source stands: where its packet ends.
PacketEnd(contents, n) ==
    IF (n + 1) * ServiceCapacity < Len(contents) THEN (n + 1) * ServiceCapacity
    ELSE Len(contents)

Places ==
    /\ source.position <= MaxFileSize /\ Len(metadata) <= MaxFileSize
    /\ Len(reading) <= ServiceCapacity
    /\ Inspecting => source.position = Len(metadata)
    /\ session.state = "WaitingForReady" => session.sequence = 0
    /\ session.state = "WaitingForReady" /\ step = "idle" => source.position = 0
    /\ step = "reading" =>
          /\ session.sequence * ServiceCapacity < Len(metadata)
          /\ Len(reading) < Expected
          /\ source.position = session.sequence * ServiceCapacity + Len(reading)
    /\ session.state = "WaitingForDataAck" =>
          /\ session.sequence * ServiceCapacity < Len(metadata)
          /\ step = "idle" => source.position = PacketEnd(metadata, session.sequence)
    /\ session.state = "WaitingForComplete" => session.sequence = TotalPackets

\* The first packets are read.
PacketsRead ==
    IF session.state = "WaitingForDataAck" /\ step = "idle" THEN session.sequence + 1
    ELSE session.sequence

\* Nothing was lost or invented of a source that neither fails nor changes.
Sound ==
    faults.since = 0 =>
        /\ source.kind = "file" => source.length = Len(source.data)
        /\ code \notin {"ReadFailed", "LengthMismatch", "SessionRejected"}
        /\ code = "UnsupportedSize" => Len(source.data) > MaxFileSize
        /\ code = "Started" => Len(source.data) <= MaxFileSize /\ session.error # "SourceRead"
        /\ step = "inspecting" =>
              /\ Len(metadata) <= Len(source.data)
              /\ metadata = SubSeq(source.data, 1, Len(metadata))
        /\ step = "inspected" \/ Sends => metadata = source.data
        /\ Sends => packets = SubSeq(Pieces(source.data), 1, PacketsRead)
        /\ step = "reading" =>
              reading = SubSeq(source.data, session.sequence * ServiceCapacity + 1,
                               session.sequence * ServiceCapacity + Len(reading))

ServiceInv == ServiceTypes /\ Stages /\ Told /\ Places /\ Sound

-----------------------------------------------------------------------------
(* Packets.                                                                *)

\* What a quotient is.
LEMMA Division ==
    ASSUME NEW m \in Nat, NEW d \in Nat \ {0}
    PROVE  /\ m \div d \in Nat
           /\ d * (m \div d) <= m
           /\ m < d * (m \div d) + d
  OBVIOUS

\* Multiplication by a constant keeps the order.
LEMMA Monotone ==
    ASSUME NEW a \in Nat, NEW b \in Nat, NEW d \in Nat, a <= b
    PROVE  a * d <= b * d
  OBVIOUS

\* One packet more.
LEMMA Successor ==
    ASSUME NEW n \in Nat, NEW d \in Nat
    PROVE  n * d \in Nat /\ (n + 1) * d = n * d + d
  OBVIOUS

\* There is a packet after the first n when they do not hold all.
LEMMA CountOf ==
    ASSUME ServiceAssumption, NEW s \in Seq(Byte), NEW n \in Nat
    PROVE  /\ PacketsOf(s) \in Nat
           /\ n < PacketsOf(s) <=> n * ServiceCapacity < Len(s)
  <1> DEFINE L == Len(s)
             C == ServiceCapacity
             q == PacketsOf(s)
  <1>1. L \in Nat /\ C \in Nat \ {0}
    BY DEF ServiceAssumption
  <1>2. q \in Nat /\ C * q <= L + C - 1 /\ L + C - 1 < C * q + C
    <2>1. L + C - 1 \in Nat
      BY <1>1
    <2>2. q = (L + C - 1) \div C
      BY DEF PacketsOf
    <2> HIDE DEF L, C, q
    <2> QED BY <1>1, <2>1, <2>2, Division
  <1> HIDE DEF L, C, q
  <1>3. C * q = q * C /\ q * C \in Nat /\ n * C \in Nat
    BY <1>1, <1>2
  <1>4. ASSUME n < q PROVE n * C < L
    <2>1. n + 1 \in Nat /\ n + 1 <= q
      BY <1>2, <1>4
    <2>2. (n + 1) * C <= q * C
      BY <2>1, <1>1, <1>2, Monotone
    <2>3. (n + 1) * C = n * C + C
      BY <1>1, Successor
    <2> QED BY <1>1, <1>2, <1>3, <2>2, <2>3
  <1>5. ASSUME ~(n < q) PROVE ~(n * C < L)
    <2>1. q <= n
      BY <1>2, <1>5
    <2>2. q * C <= n * C
      BY <2>1, <1>1, <1>2, Monotone
    <2> QED BY <1>1, <1>2, <1>3, <2>2
  <1> QED BY <1>2, <1>4, <1>5 DEF L, C, q

\* The n-th piece of some contents has the bytes from where the one before has
\* ended to its own end.
LEMMA PiecesShape ==
    ASSUME ServiceAssumption, NEW s \in Seq(Byte)
    PROVE  /\ Pieces(s) \in Seq(Seq(Byte)) /\ Len(Pieces(s)) = PacketsOf(s)
           /\ PacketsOf(s) \in Nat
           /\ \A n \in 1..PacketsOf(s) :
                 Pieces(s)[n] = SubSeq(s, (n - 1) * ServiceCapacity + 1,
                                       IF n * ServiceCapacity < Len(s) THEN n * ServiceCapacity
                                                                       ELSE Len(s))
  <1> DEFINE q == PacketsOf(s)
             To(n) == IF n * ServiceCapacity < Len(s) THEN n * ServiceCapacity ELSE Len(s)
             P(n) == SubSeq(s, (n - 1) * ServiceCapacity + 1, To(n))
  <1>1. q \in Nat
    BY CountOf
  <1>2. \A n \in 1..q : P(n) \in Seq(Byte)
    <2> SUFFICES ASSUME NEW n \in 1..q PROVE P(n) \in Seq(Byte)
      OBVIOUS
    <2>1. n \in Nat /\ n - 1 \in Nat
      BY <1>1
    <2>2. n * ServiceCapacity \in Nat /\ (n - 1) * ServiceCapacity \in Nat /\ Len(s) \in Nat
      BY <2>1, Successor DEF ServiceAssumption
    <2> DEFINE f == (n - 1) * ServiceCapacity + 1
               t == To(n)
    <2>3. f \in Nat /\ f >= 1 /\ t \in Nat /\ t <= Len(s)
      BY <2>2
    <2> HIDE DEF f, t
    <2>4. \A i \in f..t : s[i] \in Byte
      BY <2>3
    <2>5. SubSeq(s, f, t) \in Seq(Byte)
      BY <2>3, <2>4, SubSeqProperties
    <2> QED BY <2>5 DEF f, t
  <1>3. Pieces(s) = [n \in 1..q |-> P(n)]
    BY DEF Pieces
  <1> HIDE DEF P, q
  <1>4. Pieces(s) \in [1..q -> Seq(Byte)]
    BY <1>2, <1>3
  <1>5. Pieces(s) \in Seq(Seq(Byte)) /\ Len(Pieces(s)) = q
    BY <1>1, <1>4
  <1>6. \A n \in 1..q : Pieces(s)[n] = P(n)
    BY <1>3
  <1> QED BY <1>1, <1>5, <1>6 DEF P, q

-----------------------------------------------------------------------------
(* Readings.                                                               *)

\* What a source may give: no more than it was asked for, all that it has when it
\* tells its end, and something as long as it has something.
LEMMA ResultShape ==
    ASSUME ServiceTypes, NEW capacity \in Nat, NEW result \in Results(capacity)
    PROVE  \E n \in Nat :
              /\ n <= capacity /\ n <= Len(Rest)
              /\ result.bytes = SubSeq(Rest, 1, n)
              /\ result.ended \in BOOLEAN /\ (result.ended => n = Len(Rest))
              /\ (capacity > 0 /\ Len(Rest) > 0 => n > 0)
  <1>1. Rest \in Seq(Byte) /\ Len(Rest) \in Nat /\ (Rest = <<>> <=> Len(Rest) = 0)
    <2>1. source.data \in Seq(Byte) /\ source.position \in Nat /\ Len(source.data) \in Nat
      BY DEF ServiceTypes, SourceType
    <2>2. \A i \in source.position + 1..Len(source.data) : source.data[i] \in Byte
      BY <2>1
    <2>3. Rest \in Seq(Byte)
      BY <2>1, <2>2, SubSeqProperties DEF Rest
    <2> QED BY <2>3, EmptySeq
  <1>0. PICK n \in Counts(capacity) : \E e \in EndTold(capacity, n) :
            result = [bytes |-> SubSeq(Rest, 1, n), ended |-> e]
    BY DEF Results
  <1>2. PICK e \in EndTold(capacity, n) :
            result = [bytes |-> SubSeq(Rest, 1, n), ended |-> e]
    BY <1>0
  <1>3. result.bytes = SubSeq(Rest, 1, n) /\ result.ended = e
    BY <1>2
  <1>4. AtMost(capacity) \in Nat /\ AtMost(capacity) <= capacity /\ AtMost(capacity) <= Len(Rest)
        /\ (capacity > 0 /\ Len(Rest) > 0 => AtMost(capacity) > 0)
        /\ (AtMost(capacity) < capacity => AtMost(capacity) = Len(Rest))
    BY <1>1 DEF AtMost
  <1>5. n \in Nat /\ n <= AtMost(capacity) /\ (capacity > 0 /\ Len(Rest) > 0 => n > 0)
        /\ (source.kind = "file" => n = AtMost(capacity))
    BY <1>1, <1>4 DEF Counts
  <1>6. e \in BOOLEAN /\ (e => n = Len(Rest))
    <2>1. CASE Rest = <<>>
      BY <2>1, <1>1, <1>4, <1>5 DEF EndTold
    <2>2. CASE Rest # <<>> /\ source.kind = "file"
      <3>1. e = (n < capacity)
        BY <2>2, <1>2 DEF EndTold
      <3>2. e \in BOOLEAN
        BY <3>1
      <3>3. e => n < capacity
        BY <3>1
      <3> QED BY <3>2, <3>3, <2>2, <1>4, <1>5
    <2>3. CASE Rest # <<>> /\ source.kind = "memory"
      <3>1. e = (n = Len(Rest))
        BY <2>3, <1>2 DEF EndTold
      <3> QED BY <3>1
    <2>4. CASE Rest # <<>> /\ source.kind \notin {"file", "memory"}
      <3>1. EndTold(capacity, n) = IF n = Len(Rest) THEN BOOLEAN ELSE {FALSE}
        BY <2>4 DEF EndTold
      <3> QED BY <3>1, <1>2
    <2> QED BY <2>1, <2>2, <2>3, <2>4
  <1> QED BY <1>1, <1>3, <1>4, <1>5, <1>6

\* The same of a source that stands within its contents.
LEMMA ReadingShape ==
    ASSUME ServiceTypes, NEW capacity \in Nat, NEW result \in Results(capacity)
    PROVE  /\ result.bytes \in Seq(Byte) /\ Len(result.bytes) \in Nat
           /\ Len(result.bytes) <= capacity
           /\ (result.bytes = <<>> <=> Len(result.bytes) = 0)
           /\ result.ended \in BOOLEAN
           /\ source.position <= Len(source.data) =>
                 LET to == source.position + Len(result.bytes)
                 IN  /\ to <= Len(source.data)
                     /\ result.bytes = SubSeq(source.data, source.position + 1, to)
                     /\ result.ended => to = Len(source.data)
                     /\ capacity > 0 /\ source.position < Len(source.data) =>
                           Len(result.bytes) > 0
  <1> DEFINE data == source.data
             p == source.position
  <1>1. data \in Seq(Byte) /\ p \in Nat /\ Len(data) \in Nat
    BY DEF ServiceTypes, SourceType
  <1>2. \A i \in p + 1..Len(data) : data[i] \in Byte
    BY <1>1
  <1>3. /\ Rest \in Seq(Byte) /\ Len(Rest) = IF p < Len(data) THEN Len(data) - p ELSE 0
        /\ \A i \in 1..Len(data) - p : Rest[i] = data[p + i]
    <2> HIDE DEF data, p
    <2> DEFINE m == p + 1
               t == Len(data)
               R == SubSeq(data, m, t)
    <2>0. m \in Int /\ t \in Int /\ (\A i \in m..t : data[i] \in Byte)
      BY <1>1, <1>2
    <2> HIDE DEF m, t
    <2>1. /\ R \in Seq(Byte) /\ Len(R) = (IF m <= t THEN t - m + 1 ELSE 0)
          /\ \A i \in 1..t - m + 1 : R[i] = data[m + i - 1]
      BY <2>0, SubSeqProperties
    <2>2. Rest = R
      BY DEF Rest, data, p, m, t
    <2> HIDE DEF R
    <2>3. /\ Len(R) = (IF p < Len(data) THEN Len(data) - p ELSE 0)
          /\ \A i \in 1..Len(data) - p : R[i] = data[p + i]
      <3>1. t - m + 1 = Len(data) - p /\ (m <= t <=> p < Len(data))
        BY <1>1 DEF m, t
      <3>2. \A i \in 1..Len(data) - p : m + i - 1 = p + i
        BY <1>1 DEF m
      <3> QED BY <2>1, <3>1, <3>2
    <2> QED BY <2>1, <2>2, <2>3
  <1>4. PICK n \in Nat :
              /\ n <= capacity /\ n <= Len(Rest)
              /\ result.bytes = SubSeq(Rest, 1, n)
              /\ result.ended \in BOOLEAN /\ (result.ended => n = Len(Rest))
              /\ capacity > 0 /\ Len(Rest) > 0 => n > 0
    BY ResultShape
  <1> DEFINE b == result.bytes
  <1>5. b \in Seq(Byte) /\ Len(b) = n /\ (\A i \in 1..n : b[i] = Rest[i])
    <2>1. \A i \in 1..n : Rest[i] \in Byte
      BY <1>3, <1>4
    <2>2. /\ b \in Seq(Byte) /\ Len(b) = (IF 1 <= n THEN n - 1 + 1 ELSE 0)
          /\ \A i \in 1..n - 1 + 1 : b[i] = Rest[1 + i - 1]
      BY <1>4, <2>1, SubSeqProperties
    <2> HIDE DEF b
    <2> QED BY <2>2
  <1>6. b = <<>> <=> Len(b) = 0
    BY <1>5, EmptySeq
  <1>7. ASSUME p <= Len(data)
        PROVE  /\ p + n <= Len(data)
               /\ b = SubSeq(data, p + 1, p + n)
               /\ result.ended => p + n = Len(data)
               /\ capacity > 0 /\ p < Len(data) => n > 0
    <2> HIDE DEF data, p, b
    <2>1. Len(Rest) = Len(data) - p
      BY <1>1, <1>3, <1>7
    <2>2. p + n <= Len(data)
      BY <1>1, <1>4, <2>1
    <2> DEFINE m == p + 1
               t == p + n
               R == SubSeq(data, m, t)
    <2>3. m \in Int /\ t \in Int /\ (\A i \in m..t : data[i] \in Byte)
      BY <1>1, <2>2
    <2> HIDE DEF m, t
    <2>4. /\ R \in Seq(Byte) /\ Len(R) = (IF m <= t THEN t - m + 1 ELSE 0)
          /\ \A i \in 1..t - m + 1 : R[i] = data[m + i - 1]
      BY <2>3, SubSeqProperties
    <2> HIDE DEF R
    <2>5. Len(R) = n /\ (\A i \in 1..n : R[i] = data[p + i])
      BY <2>4, <1>1, <1>4 DEF m, t
    <2>6. \A i \in 1..n : b[i] = R[i]
      <3> SUFFICES ASSUME NEW i \in 1..n PROVE b[i] = R[i]
        OBVIOUS
      <3>1. i \in 1..Len(data) - p
        BY <1>1, <2>2, <2>1, <1>4
      <3>2. Rest[i] = data[p + i]
        BY <3>1, <1>3
      <3> QED BY <3>2, <1>5, <2>5
    <2>7. b = R
      BY <1>5, <2>4, <2>5, <2>6, SeqEqual
    <2> QED BY <1>1, <1>4, <2>1, <2>2, <2>7 DEF R, m, t
  <1> QED BY <1>4, <1>5, <1>6, <1>7

\* Two pieces that meet.
LEMMA Joined ==
    ASSUME NEW s \in Seq(Byte), NEW a \in Nat, NEW b \in Nat, NEW c \in Nat,
           a <= b, b <= c, c <= Len(s)
    PROVE  SubSeq(s, a + 1, b) \o SubSeq(s, b + 1, c) = SubSeq(s, a + 1, c)
  <1>1. Len(s) \in Nat
    OBVIOUS
  <1>2. a + 1 \in 1..Len(s) + 1 /\ b \in (a + 1) - 1..Len(s) /\ c \in b..Len(s)
    BY <1>1
  <1> QED BY <1>2, ConcatAdjacentSubSeq

\* The first piece and the one that meets it.
LEMMA JoinedFirst ==
    ASSUME NEW s \in Seq(Byte), NEW b \in Nat, NEW c \in Nat, b <= c, c <= Len(s)
    PROVE  SubSeq(s, 1, b) \o SubSeq(s, b + 1, c) = SubSeq(s, 1, c)
  <1>1. Len(s) \in Nat
    OBVIOUS
  <1>2. 1 \in 1..Len(s) + 1 /\ b \in 1 - 1..Len(s) /\ c \in b..Len(s)
    BY <1>1
  <1> QED BY <1>2, ConcatAdjacentSubSeq

\* One packet more of those that are read.
LEMMA OneMore ==
    ASSUME NEW all \in Seq(Seq(Byte)), NEW n \in Nat, n < Len(all)
    PROVE  Append(SubSeq(all, 1, n), all[n + 1]) = SubSeq(all, 1, n + 1)
  <1>1. Len(all) \in Nat /\ 1 \in 1..Len(all) /\ n + 1 \in 1..Len(all)
    OBVIOUS
  <1>2. SubSeq(all, 1, n + 1) = SubSeq(all, 1, n + 1 - 1) \o <<all[n + 1]>>
    BY <1>1, SubSeqRecursiveSecond
  <1>3. SubSeq(all, 1, n) \in Seq(Seq(Byte)) /\ all[n + 1] \in Seq(Byte)
    <2>1. \A i \in 1..n : all[i] \in Seq(Byte)
      BY <1>1
    <2> QED BY <1>1, <2>1, SubSeqProperties
  <1>4. n + 1 - 1 = n
    OBVIOUS
  <1> QED BY <1>2, <1>3, <1>4, AppendIsConcat

-----------------------------------------------------------------------------
(* The packet that is read.                                                *)

\* A packet ends where the next begins, or with the contents.
LEMMA ExpectedAt ==
    ASSUME ServiceAssumption, NEW s \in Seq(Byte), NEW n \in Nat,
           n * ServiceCapacity < Len(s)
    PROVE  LET size == IF n + 1 < PacketsOf(s) THEN ServiceCapacity
                       ELSE Len(s) - n * ServiceCapacity
           IN  /\ size \in 1..ServiceCapacity
               /\ n * ServiceCapacity \in Nat
               /\ n * ServiceCapacity + size = PacketEnd(s, n)
               /\ PacketEnd(s, n) \in Nat /\ PacketEnd(s, n) <= Len(s)
  <1> DEFINE L == Len(s)
             C == ServiceCapacity
             size == IF n + 1 < PacketsOf(s) THEN C ELSE L - n * C
  <1>1. L \in Nat /\ C \in Nat \ {0}
    BY DEF ServiceAssumption
  <1>2. n * C \in Nat /\ (n + 1) * C = n * C + C
    BY <1>1, Successor
  <1>3. n + 1 < PacketsOf(s) <=> (n + 1) * C < L
    <2>1. n + 1 \in Nat
      OBVIOUS
    <2> QED BY <2>1, CountOf
  <1>4. PacketEnd(s, n) = IF (n + 1) * C < L THEN (n + 1) * C ELSE L
    BY DEF PacketEnd
  <1>5. n * C < L
    OBVIOUS
  <1> HIDE DEF L, C
  <1> DEFINE a == n * C
             b == (n + 1) * C
  <1>6. a \in Nat /\ b = a + C /\ a < L /\ size = (IF b < L THEN C ELSE L - a)
        /\ PacketEnd(s, n) = IF b < L THEN b ELSE L
    BY <1>2, <1>3, <1>4, <1>5
  <1> HIDE DEF a, b, size
  <1>7. /\ size \in 1..C /\ a + size = PacketEnd(s, n)
        /\ PacketEnd(s, n) \in Nat /\ PacketEnd(s, n) <= L
    BY <1>1, <1>6
  <1> QED BY <1>6, <1>7 DEF a, size, L, C

\* The packet that is expected ends where it should, and is not empty.
LEMMA ExpectedShape ==
    ASSUME ServiceAssumption, ServiceTypes,
           session.sequence * ServiceCapacity < Len(metadata)
    PROVE  /\ Expected \in 1..ServiceCapacity
           /\ session.sequence \in Nat /\ session.sequence * ServiceCapacity \in Nat
           /\ session.sequence * ServiceCapacity + Expected = PacketEnd(metadata, session.sequence)
           /\ PacketEnd(metadata, session.sequence) \in Nat
           /\ PacketEnd(metadata, session.sequence) <= Len(metadata)
  <1>1. metadata \in Seq(Byte) /\ session.sequence \in Nat
    BY DEF ServiceTypes, SessionType
  <1> QED BY <1>1, ExpectedAt DEF Expected, TotalPackets

\* A read of a packet: it fails only when the contents end before the packet, and
\* goes on, or has all of it.
LEMMA ReadShape ==
    ASSUME ServiceAssumption, ServiceTypes, Places, ReadPacket
    PROVE  \E bytes \in Seq(Byte) :
              /\ Len(bytes) \in Nat /\ Len(reading) + Len(bytes) <= Expected
              /\ source' = [source EXCEPT !.position = @ + Len(bytes)]
              /\ source.position <= Len(source.data) =>
                    /\ source.position + Len(bytes) <= Len(source.data)
                    /\ bytes = SubSeq(source.data, source.position + 1,
                                      source.position + Len(bytes))
              /\ \/ /\ Ends("Failed", "SourceRead") /\ UNCHANGED <<reading, packets>>
                    /\ PacketEnd(metadata, session.sequence) > Len(source.data)
                 \/ /\ reading' = reading \o bytes /\ reading' \in Seq(Byte)
                    /\ Len(reading') = Len(reading) + Len(bytes)
                    /\ UNCHANGED truth
                    /\ \/ /\ Len(reading') < Expected
                          /\ UNCHANGED <<session, step, packets>>
                       \/ /\ Len(reading') = Expected
                          /\ packets' = Append(packets, reading')
                          /\ session' = [session EXCEPT !.state = "WaitingForDataAck"]
                          /\ step' = "idle"
  <1>1. /\ session.sequence * ServiceCapacity < Len(metadata)
        /\ Len(reading) < Expected
        /\ source.position = session.sequence * ServiceCapacity + Len(reading)
    BY DEF ReadPacket, Places
  <1>2. /\ Expected \in Nat /\ Expected > 0
        /\ session.sequence * ServiceCapacity \in Nat
        /\ session.sequence * ServiceCapacity + Expected = PacketEnd(metadata, session.sequence)
    BY <1>1, ExpectedShape DEF ServiceAssumption
  <1>3. /\ source.data \in Seq(Byte) /\ Len(source.data) \in Nat
        /\ reading \in Seq(Byte) /\ Len(reading) \in Nat
    BY DEF ServiceTypes, SourceType
  <1> DEFINE room == Expected - Len(reading)
  <1>4. room \in Nat /\ room > 0
    BY <1>1, <1>2, <1>3
  <1>5. PICK result \in Results(room) :
              /\ Moved(result)
              /\ IF result.bytes = <<>> \/ Cut(result)
                 THEN Ends("Failed", "SourceRead") /\ UNCHANGED <<reading, packets>>
                 ELSE /\ reading' = reading \o result.bytes
                      /\ UNCHANGED truth
                      /\ IF Len(reading') < Expected
                         THEN UNCHANGED <<session, step, packets>>
                         ELSE /\ packets' = Append(packets, reading')
                              /\ session' = [session EXCEPT !.state = "WaitingForDataAck"]
                              /\ step' = "idle"
    BY DEF ReadPacket
  <1> DEFINE bytes == result.bytes
             data == source.data
             p == source.position
  <1>6. /\ bytes \in Seq(Byte) /\ Len(bytes) \in Nat /\ Len(bytes) <= room
        /\ (bytes = <<>> <=> Len(bytes) = 0)
        /\ result.ended \in BOOLEAN
        /\ p <= Len(data) =>
              /\ p + Len(bytes) <= Len(data)
              /\ bytes = SubSeq(data, p + 1, p + Len(bytes))
              /\ result.ended => p + Len(bytes) = Len(data)
              /\ room > 0 /\ p < Len(data) => Len(bytes) > 0
    BY <1>4, ReadingShape
  <1>7. source' = [source EXCEPT !.position = @ + Len(bytes)]
    BY <1>5 DEF Moved
  <1>8. Len(reading) + Len(bytes) <= Expected
    BY <1>2, <1>3, <1>6
  <1>9. CASE bytes = <<>> \/ Cut(result)
    <2>1. Ends("Failed", "SourceRead") /\ UNCHANGED <<reading, packets>>
      BY <1>5, <1>9
    <2>2. PacketEnd(metadata, session.sequence) > Len(data)
      <3>1. SUFFICES ASSUME PacketEnd(metadata, session.sequence) <= Len(data) PROVE FALSE
        BY <1>2, <1>3
      <3>2. p + room = PacketEnd(metadata, session.sequence) /\ p \in Nat
        BY <1>1, <1>2, <1>3
      <3>3. p + room <= Len(data) /\ p < Len(data)
        BY <1>3, <1>4, <3>1, <3>2
      <3>4. Len(bytes) > 0
        BY <1>3, <1>4, <1>6, <3>2, <3>3
      <3>5. ~Cut(result)
        <4>1. CASE result.ended
          <5>1. p + Len(bytes) = Len(data)
            BY <1>3, <1>6, <3>2, <3>3, <4>1
          <5>2. ~(Len(reading) + Len(bytes) < Expected)
            BY <1>2, <1>3, <1>6, <3>2, <3>3, <5>1
          <5> QED BY <5>2 DEF Cut
        <4>2. CASE ~result.ended
          BY <4>2 DEF Cut
        <4> QED BY <4>1, <4>2
      <3> QED BY <1>6, <1>9, <3>4, <3>5
    <2> QED BY <1>6, <1>7, <1>8, <2>1, <2>2
  <1>10. CASE ~(bytes = <<>> \/ Cut(result))
    <2>1. reading' = reading \o bytes /\ UNCHANGED truth
      BY <1>5, <1>10
    <2>2. reading' \in Seq(Byte) /\ Len(reading') = Len(reading) + Len(bytes)
      BY <1>3, <1>6, <2>1, ConcatProperties
    <2>3. CASE Len(reading') < Expected
      <3>1. UNCHANGED <<session, step, packets>>
        BY <1>5, <1>10, <2>3
      <3> QED BY <1>6, <1>7, <1>8, <2>1, <2>2, <2>3, <3>1
    <2>4. CASE ~(Len(reading') < Expected)
      <3>1. /\ packets' = Append(packets, reading')
            /\ session' = [session EXCEPT !.state = "WaitingForDataAck"]
            /\ step' = "idle"
        BY <1>5, <1>10, <2>4
      <3>2. Len(reading') = Expected
        BY <1>2, <1>3, <1>6, <1>8, <2>2, <2>4
      <3> QED BY <1>6, <1>7, <1>8, <2>1, <2>2, <3>1, <3>2
    <2> QED BY <2>3, <2>4
  <1> QED BY <1>9, <1>10

-----------------------------------------------------------------------------
(* Types.                                                                  *)

\* The contents of a source are bytes.
LEMMA ContentsType ==
    ASSUME NEW name \in {"first", "other"}, NEW size \in Nat
    PROVE  Contents(name, size) \in Seq(Byte) /\ Len(Contents(name, size)) = size
  <1>1. Contents(name, size) \in [1..size -> Byte]
    BY DEF Contents, Byte
  <1> QED BY <1>1

\* A source is read, reset, and changed by others.
LEMMA SourceSteps ==
    ASSUME NEW s \in SourceType, NEW p \in Nat, NEW d \in Seq(Byte)
    PROVE  /\ [s EXCEPT !.position = p] \in SourceType
           /\ [s EXCEPT !.data = d] \in SourceType
  BY DEF SourceType

\* A start that is refused keeps the types.
LEMMA Rejected ==
    ASSUME NEW begun \in StatusType, NEW reason, NEW error \in Errors,
           Reject(begun, reason, error)
    PROVE  /\ code' = reason /\ active' = FALSE /\ step' = "idle"
           /\ status' \in StatusType /\ status'.id = begun.id /\ status'.state = "Failed"
  BY DEF Reject, StatusType, Shown, States, Terminal

\* A session that ends keeps the types.
LEMMA Ended ==
    ASSUME ServiceTypes, NEW state \in Terminal, NEW error \in Errors, Ends(state, error)
    PROVE  /\ session' \in SessionType /\ session'.id = session.id
           /\ session'.state = state /\ session'.error = error
           /\ truth' \in [Ids -> States \cup {"none", "running"}]
           /\ truth'[session.id] = state
           /\ \A i \in Ids \ {session.id} : truth'[i] = truth[i]
           /\ step' = "idle"
  BY DEF Ends, ServiceTypes, SessionType, States

\* What is told of a session.
LEMMA StatusOfType ==
    ASSUME NEW s \in SessionType
    PROVE  /\ StatusOf(s) \in StatusType /\ StatusOf(s).id = s.id
           /\ StatusOf(s).state \in Terminal <=> s.state \in Terminal
           /\ s.state \in Terminal => StatusOf(s).state = s.state
  <1>1. s.state \in States /\ s.id \in Ids /\ s.sequence \in Nat /\ s.error \in Errors
    BY DEF SessionType
  <1>2. /\ MapSenderState(s.state) \in Shown
        /\ MapSenderState(s.state) \in Terminal <=> s.state \in Terminal
        /\ s.state \in Terminal => MapSenderState(s.state) = s.state
    BY <1>1 DEF MapSenderState, States, Shown, Terminal
  <1> QED BY <1>1, <1>2 DEF StatusOf, StatusType

\* An id is drawn that is neither none nor the last one.
LEMMA NewId ==
    ASSUME ServiceAssumption, lastId \in Ids, MaxTransfers > 0, NEW candidate \in Ids \ {0}
    PROVE  NextTransferId(candidate) \in Ids \ {0, lastId}
  BY DEF ServiceAssumption, NextTransferId, Ids

\* Every step keeps the types.
LEMMA TypesNext ==
    ASSUME ServiceAssumption, ServiceTypes, Stages, Places, [ServiceNext]_serviceVars
    PROVE  ServiceTypes'
  <1> DEFINE Truths == [Ids -> States \cup {"none", "running"}]
             FaultsType == [all : Nat, since : Nat]
  <1>0. /\ source \in SourceType /\ metadata \in Seq(Byte) /\ reading \in Seq(Byte)
        /\ packets \in Seq(Seq(Byte)) /\ session \in SessionType /\ status \in StatusType
        /\ source.position \in Nat /\ lastId \in Ids /\ truth \in Truths
        /\ calls \in 0..MaxTransfers /\ faults \in FaultsType
        /\ 0 \in Ids
    BY DEF ServiceTypes, SourceType, Ids, ServiceAssumption
  <1>17. ASSUME Fault PROVE faults' \in FaultsType
    BY <1>0, <1>17 DEF Fault
  <1>18. ASSUME Rewound PROVE source' \in SourceType
    BY <1>0, <1>18, SourceSteps DEF Rewound
  <1>1. CASE StartTransfer
    <2>1. source' \in SourceType
      <3>1. PICK kind \in Kinds, size \in 0..MaxFileSize + 1 :
                source' = [kind |-> kind, data |-> Contents("first", size), position |-> 0,
                           length |-> size]
        BY <1>1 DEF StartTransfer
      <3>2. kind \in {"none", "file", "memory", "stream"} /\ size \in Nat
        BY DEF ServiceAssumption
      <3>3. Contents("first", size) \in Seq(Byte)
        BY <3>2, ContentsType
      <3> QED BY <3>1, <3>2, <3>3 DEF SourceType
    <2>2. StatusBegun \in StatusType
      BY <1>0 DEF StatusBegun, NoStatus, StatusType, Shown, Errors
    <2>3. active' \in BOOLEAN /\ step' \in {"idle", "inspecting"} /\ status' \in StatusType
      <3>1. CASE Reject(StatusBegun, "InvalidExtension", "InvalidMetadata")
        BY <3>1, <2>2, Rejected DEF Errors
      <3> QED BY <1>1, <3>1, <2>2 DEF StartTransfer
    <2>4. calls' \in 0..MaxTransfers /\ faults' \in FaultsType
      <3>1. calls < MaxTransfers /\ calls' = calls + 1 /\ faults' = [faults EXCEPT !.since = 0]
        BY <1>1 DEF StartTransfer
      <3>2. calls' \in 0..MaxTransfers
        BY <1>0, <3>1, SMTT(30) DEF ServiceAssumption
      <3>3. faults' \in FaultsType
        BY <1>0, <3>1
      <3> QED BY <3>2, <3>3
    <2>5. metadata' = <<>> /\ reading' = <<>> /\ packets' = <<>>
          /\ UNCHANGED <<session, lastId, truth>>
      BY <1>1 DEF StartTransfer
    <2> QED BY <1>0, <2>1, <2>3, <2>4, <2>5, EmptySeq DEF ServiceTypes
  <1>2. CASE StartBusy
    BY <1>0, <1>2 DEF StartBusy, ServiceAssumption, ServiceTypes
  <1>3. CASE InspectRead
    <2>1. PICK result \in Results(BufferSize) :
              IF TooLong(Counted(result))
              THEN /\ Reject(status, "UnsupportedSize", "UnsupportedSize")
                   /\ Rewound /\ UNCHANGED metadata
              ELSE /\ metadata' = Counted(result)
                   /\ Moved(result)
                   /\ step' = IF result.ended THEN "inspected" ELSE step
                   /\ UNCHANGED <<active, status, code>>
      BY <1>3 DEF InspectRead
    <2>2. UNCHANGED <<session, reading, packets, lastId, truth, calls, faults>>
      BY <1>3 DEF InspectRead
    <2>3. result.bytes \in Seq(Byte) /\ Len(result.bytes) \in Nat
      BY ReadingShape DEF ServiceAssumption
    <2>4. CASE TooLong(Counted(result))
      <3>1. Reject(status, "UnsupportedSize", "UnsupportedSize") /\ Rewound /\ UNCHANGED metadata
        BY <2>1, <2>4
      <3>2. active' = FALSE /\ step' = "idle" /\ status' \in StatusType
        BY <1>0, <3>1, Rejected DEF Errors
      <3> QED BY <1>0, <1>18, <3>1, <3>2, <2>2 DEF ServiceTypes
    <2>5. CASE ~TooLong(Counted(result))
      <3>1. metadata' \in Seq(Byte)
        <4>1. metadata' = metadata \o result.bytes
          BY <2>1, <2>5 DEF Counted
        <4> QED BY <1>0, <2>3, <4>1, ConcatProperties
      <3>2. source' \in SourceType
        <4>1. source' = [source EXCEPT !.position = @ + Len(result.bytes)]
          BY <2>1, <2>5 DEF Moved
        <4>2. source.position + Len(result.bytes) \in Nat
          BY <1>0, <2>3
        <4> QED BY <1>0, <4>1, <4>2, SourceSteps
      <3>3. step' \in {"inspected", step} /\ UNCHANGED <<active, status>>
        BY <2>1, <2>5
      <3> QED BY <1>0, <3>1, <3>2, <3>3, <2>2 DEF ServiceTypes
    <2> QED BY <2>4, <2>5
  <1>4. CASE LengthDiffers
    <2>1. active' = FALSE /\ step' = "idle" /\ status' \in StatusType
      BY <1>0, <1>4, Rejected DEF LengthDiffers, Errors
    <2> QED BY <1>0, <1>4, <1>18, <2>1 DEF LengthDiffers, ServiceTypes
  <1>5. CASE Begin
    <2>1. PICK candidate \in Ids \ {0} :
              /\ lastId' = NextTransferId(candidate)
              /\ session' = [NoSession EXCEPT !.state = "WaitingForReady",
                                              !.id = NextTransferId(candidate)]
              /\ truth' = [truth EXCEPT ![NextTransferId(candidate)] = "running"]
      BY <1>5 DEF Begin
    <2>2. NextTransferId(candidate) \in Ids
      <3>1. MaxTransfers > 0
        BY <1>0, <1>5 DEF Begin, Stages, Inspecting, ServiceAssumption
      <3> QED BY <1>0, <3>1, NewId
    <2>3. session' \in SessionType /\ lastId' \in Ids
      BY <1>0, <2>1, <2>2 DEF NoSession, SessionType, States, Errors
    <2>4. truth' \in Truths
      BY <1>0, <2>1, <2>2
    <2>5. status' \in StatusType
      BY <1>5, <2>3, StatusOfType DEF Begin
    <2>6. source' \in SourceType
      BY <1>5, <1>18 DEF Begin, Begun
    <2>7. step' = "idle" /\ UNCHANGED <<active, metadata, reading, packets, calls, faults>>
      BY <1>5 DEF Begin
    <2> QED BY <1>0, <2>3, <2>4, <2>5, <2>6, <2>7 DEF ServiceTypes
  <1>6. CASE InspectFails
    <2>1. active' = FALSE /\ step' = "idle" /\ status' \in StatusType
      BY <1>0, <1>6, Rejected DEF InspectFails, Errors
    <2> QED BY <1>0, <1>6, <1>17, <2>1 DEF InspectFails, ServiceTypes
  <1>7. CASE BeginFails
    <2>1. PICK candidate \in Ids \ {0} : lastId' = NextTransferId(candidate)
      BY <1>7 DEF BeginFails
    <2>2. lastId' \in Ids
      <3>1. MaxTransfers > 0
        BY <1>0, <1>7 DEF BeginFails, Stages, Inspecting, ServiceAssumption
      <3> QED BY <1>0, <2>1, <3>1, NewId
    <2>3. truth' = [truth EXCEPT ![lastId'] = "Failed"]
      BY <1>7 DEF BeginFails
    <2>4. truth' \in Truths
      BY <1>0, <2>2, <2>3 DEF States, Terminal
    <2>5. session' \in SessionType
      BY <1>0, <1>7 DEF BeginFails, NoSession, SessionType, States, Terminal, Errors
    <2>6. status' \in StatusType
      BY <1>0, <1>7, <2>2 DEF BeginFails, StatusType, Shown, States, Terminal, Errors
    <2>7. /\ step' = "idle" /\ active' = FALSE /\ faults' \in FaultsType
          /\ UNCHANGED <<source, metadata, reading, packets, calls>>
      BY <1>7, <1>17 DEF BeginFails
    <2> QED BY <1>0, <2>2, <2>4, <2>5, <2>6, <2>7 DEF ServiceTypes
  <1>8. CASE Acknowledged
    <2>1. PICK n \in Nat :
              IF n >= TotalPackets
              THEN /\ session' = [session EXCEPT !.state = "WaitingForComplete", !.sequence = n]
                   /\ UNCHANGED step
              ELSE /\ session' = [session EXCEPT !.sequence = n]
                   /\ step' = "reading"
      <3> DEFINE n == IF session.state = "WaitingForReady" THEN 0 ELSE session.sequence + 1
      <3>1. n \in Nat
        BY <1>0 DEF SessionType
      <3>2. IF n >= TotalPackets
            THEN /\ session' = [session EXCEPT !.state = "WaitingForComplete", !.sequence = n]
                 /\ UNCHANGED step
            ELSE /\ session' = [session EXCEPT !.sequence = n]
                 /\ step' = "reading"
        BY <1>8 DEF Acknowledged
      <3> HIDE DEF n
      <3> QED BY <3>1, <3>2
    <2>2. session' \in SessionType /\ step' \in {"reading", step}
      <3>1. CASE n >= TotalPackets
        <4>1. session' = [session EXCEPT !.state = "WaitingForComplete", !.sequence = n]
              /\ UNCHANGED step
          BY <2>1, <3>1
        <4> QED BY <1>0, <4>1 DEF SessionType, States
      <3>2. CASE ~(n >= TotalPackets)
        <4>1. session' = [session EXCEPT !.sequence = n] /\ step' = "reading"
          BY <2>1, <3>2
        <4> QED BY <1>0, <4>1 DEF SessionType
      <3> QED BY <3>1, <3>2
    <2>3. reading' = <<>> /\ UNCHANGED <<source, active, metadata, packets, status, code, lastId,
                                         truth, calls, faults>>
      BY <1>8 DEF Acknowledged
    <2> QED BY <1>0, <2>2, <2>3, EmptySeq DEF ServiceTypes
  <1>9. CASE ReadPacket
    <2>1. PICK bytes \in Seq(Byte) :
              /\ Len(bytes) \in Nat
              /\ source' = [source EXCEPT !.position = @ + Len(bytes)]
              /\ \/ Ends("Failed", "SourceRead") /\ UNCHANGED <<reading, packets>>
                 \/ /\ reading' \in Seq(Byte) /\ UNCHANGED truth
                    /\ \/ UNCHANGED <<session, step, packets>>
                       \/ /\ packets' = Append(packets, reading')
                          /\ session' = [session EXCEPT !.state = "WaitingForDataAck"]
                          /\ step' = "idle"
      BY <1>9, ReadShape
    <2>2. source' \in SourceType
      <3>1. source.position + Len(bytes) \in Nat
        BY <1>0, <2>1
      <3> QED BY <1>0, <2>1, <3>1, SourceSteps
    <2>3. UNCHANGED <<active, metadata, status, code, lastId, calls, faults>>
      BY <1>9 DEF ReadPacket
    <2>4. CASE Ends("Failed", "SourceRead") /\ UNCHANGED <<reading, packets>>
      BY <1>0, <2>2, <2>3, <2>4, Ended DEF Terminal, Errors, ServiceTypes
    <2>5. CASE reading' \in Seq(Byte) /\ UNCHANGED <<truth, session, step, packets>>
      BY <1>0, <2>2, <2>3, <2>5 DEF ServiceTypes
    <2>6. CASE /\ reading' \in Seq(Byte) /\ UNCHANGED truth
               /\ packets' = Append(packets, reading')
               /\ session' = [session EXCEPT !.state = "WaitingForDataAck"]
               /\ step' = "idle"
      <3>1. packets' \in Seq(Seq(Byte))
        BY <1>0, <2>6, AppendProperties
      <3>2. session' \in SessionType
        BY <1>0, <2>6 DEF SessionType, States
      <3> QED BY <1>0, <2>2, <2>3, <2>6, <3>1, <3>2 DEF ServiceTypes
    <2> QED BY <2>1, <2>4, <2>5, <2>6
  <1>10. CASE ReadFails
    <2>1. Ends("Failed", "SourceRead") /\ Fault
          /\ UNCHANGED <<source, active, metadata, reading, packets, status, lastId, calls>>
      BY <1>10 DEF ReadFails
    <2> QED BY <1>0, <1>17, <2>1, Ended DEF Terminal, Errors, ServiceTypes
  <1>11. CASE PeerCompletes
    BY <1>0, <1>11, Ended DEF PeerCompletes, Terminal, Errors, ServiceTypes
  <1>12. CASE PeerFails
    BY <1>0, <1>12, Ended DEF PeerFails, Terminal, Errors, ServiceTypes
  <1>13. CASE CancelTransfer
    <2>1. session' \in SessionType
      BY <1>0, <1>13 DEF CancelTransfer, SessionType, States, Errors
    <2>2. status' \in StatusType
      BY <1>13, <2>1, StatusOfType DEF CancelTransfer
    <2> QED BY <1>0, <1>13, <2>1, <2>2 DEF CancelTransfer, ServiceTypes
  <1>14. CASE RefreshSenderStatus
    <2>1. status' \in StatusType
      BY <1>0, <1>14, StatusOfType DEF RefreshSenderStatus
    <2> QED BY <1>0, <1>14, <2>1 DEF RefreshSenderStatus, Released, ServiceTypes
  <1>15. CASE SourceChanges
    <2>1. PICK size \in 0..MaxFileSize :
              source' = [source EXCEPT !.data = Contents("other", size)]
      BY <1>15 DEF SourceChanges
    <2>2. source' \in SourceType
      <3>1. Contents("other", size) \in Seq(Byte)
        BY ContentsType DEF ServiceAssumption
      <3> QED BY <1>0, <2>1, <3>1, SourceSteps
    <2> QED BY <1>0, <1>15, <1>17, <2>2 DEF SourceChanges, ServiceTypes
  <1>16. CASE UNCHANGED serviceVars
    BY <1>0, <1>16 DEF serviceVars, ServiceTypes
  <1> QED BY <1>1, <1>2, <1>3, <1>4, <1>5, <1>6, <1>7, <1>8, <1>9, <1>10, <1>11, <1>12, <1>13,
             <1>14, <1>15, <1>16 DEF ServiceNext, Starting, Sending

-----------------------------------------------------------------------------
(* Who does what.                                                          *)

\* What a session that begins takes.
LEMMA BeginShape ==
    ASSUME ServiceAssumption, ServiceTypes, Stages, Begin
    PROVE  \E id \in Ids \ {0, lastId} :
              /\ lastId' = id
              /\ session' = [state |-> "WaitingForReady", id |-> id, sequence |-> 0,
                             error |-> "None"]
              /\ truth' = [truth EXCEPT ![id] = "running"]
              /\ status' = StatusOf(session')
  <1>1. PICK candidate \in Ids \ {0} :
            /\ lastId' = NextTransferId(candidate)
            /\ session' = [NoSession EXCEPT !.state = "WaitingForReady",
                                            !.id = NextTransferId(candidate)]
            /\ truth' = [truth EXCEPT ![NextTransferId(candidate)] = "running"]
    BY DEF Begin
  <1>2. MaxTransfers > 0
    BY DEF Begin, Stages, Inspecting, ServiceAssumption, ServiceTypes
  <1>3. NextTransferId(candidate) \in Ids \ {0, lastId}
    BY <1>2, NewId DEF ServiceTypes
  <1>4. status' = StatusOf(session')
    BY DEF Begin
  <1>5. session' = [state |-> "WaitingForReady", id |-> NextTransferId(candidate),
                    sequence |-> 0, error |-> "None"]
    BY <1>1 DEF NoSession
  <1> QED BY <1>1, <1>3, <1>4, <1>5

\* A session that cannot begin, for its source cannot be set back.
LEMMA BeginFailsShape ==
    ASSUME ServiceAssumption, ServiceTypes, Stages, BeginFails
    PROVE  /\ lastId' \in Ids \ {0, lastId}
           /\ session' = [state |-> "Failed", id |-> 0, sequence |-> 0, error |-> "SourceRead"]
           /\ truth' = [truth EXCEPT ![lastId'] = "Failed"]
           /\ status'.id = lastId' /\ status'.state = "Failed"
  <1>1. PICK candidate \in Ids \ {0} : lastId' = NextTransferId(candidate)
    BY DEF BeginFails
  <1>2. MaxTransfers > 0
    BY DEF BeginFails, Stages, Inspecting, ServiceAssumption, ServiceTypes
  <1>3. lastId' \in Ids \ {0, lastId}
    BY <1>1, <1>2, NewId DEF ServiceTypes
  <1> QED BY <1>3 DEF BeginFails, NoSession, ServiceTypes, StatusType

\* A piece read by inspectSource: more of the contents, their end, or too much.
LEMMA InspectShape ==
    ASSUME ServiceAssumption, ServiceTypes, InspectRead
    PROVE  \E bytes \in Seq(Byte), ended \in BOOLEAN :
              /\ Len(bytes) \in Nat
              /\ source.position <= Len(source.data) =>
                    /\ source.position + Len(bytes) <= Len(source.data)
                    /\ bytes = SubSeq(source.data, source.position + 1,
                                      source.position + Len(bytes))
                    /\ ended => source.position + Len(bytes) = Len(source.data)
              /\ metadata \o bytes \in Seq(Byte)
              /\ Len(metadata \o bytes) = Len(metadata) + Len(bytes)
              /\ \/ /\ Len(metadata) + Len(bytes) > MaxFileSize
                    /\ Reject(status, "UnsupportedSize", "UnsupportedSize")
                    /\ Rewound /\ UNCHANGED metadata
                 \/ /\ Len(metadata) + Len(bytes) <= MaxFileSize
                    /\ metadata' = metadata \o bytes
                    /\ source' = [source EXCEPT !.position = @ + Len(bytes)]
                    /\ step' = IF ended THEN "inspected" ELSE step
                    /\ UNCHANGED <<active, status, code>>
  <1>1. PICK result \in Results(BufferSize) :
            IF TooLong(Counted(result))
            THEN /\ Reject(status, "UnsupportedSize", "UnsupportedSize")
                 /\ Rewound /\ UNCHANGED metadata
            ELSE /\ metadata' = Counted(result)
                 /\ Moved(result)
                 /\ step' = IF result.ended THEN "inspected" ELSE step
                 /\ UNCHANGED <<active, status, code>>
    BY DEF InspectRead
  <1> DEFINE bytes == result.bytes
             ended == result.ended
  <1>2. /\ bytes \in Seq(Byte) /\ Len(bytes) \in Nat /\ ended \in BOOLEAN
        /\ source.position <= Len(source.data) =>
              /\ source.position + Len(bytes) <= Len(source.data)
              /\ bytes = SubSeq(source.data, source.position + 1,
                                source.position + Len(bytes))
              /\ ended => source.position + Len(bytes) = Len(source.data)
    BY ReadingShape DEF ServiceAssumption
  <1>3. metadata \in Seq(Byte) /\ Len(metadata) \in Nat /\ MaxFileSize \in Nat
    BY DEF ServiceTypes, ServiceAssumption
  <1>4. /\ Counted(result) = metadata \o bytes
        /\ metadata \o bytes \in Seq(Byte)
        /\ Len(metadata \o bytes) = Len(metadata) + Len(bytes)
    BY <1>2, <1>3, ConcatProperties DEF Counted
  <1>5. CASE TooLong(Counted(result))
    <2>1. Len(metadata) + Len(bytes) > MaxFileSize
      BY <1>4, <1>5 DEF TooLong
    <2>2. Reject(status, "UnsupportedSize", "UnsupportedSize") /\ Rewound /\ UNCHANGED metadata
      BY <1>1, <1>5
    <2> QED BY <1>2, <1>4, <2>1, <2>2
  <1>6. CASE ~TooLong(Counted(result))
    <2>1. Len(metadata) + Len(bytes) <= MaxFileSize
      BY <1>2, <1>3, <1>4, <1>6 DEF TooLong
    <2>2. /\ metadata' = metadata \o bytes
          /\ source' = [source EXCEPT !.position = @ + Len(bytes)]
          /\ step' = IF ended THEN "inspected" ELSE step
          /\ UNCHANGED <<active, status, code>>
      BY <1>1, <1>4, <1>6 DEF Moved
    <2> QED BY <1>2, <1>4, <2>1, <2>2
  <1> QED BY <1>5, <1>6

\* An acknowledgement leads to the next packet, or to END after the last.
LEMMA AcknowledgedShape ==
    ASSUME ServiceTypes, Acknowledged
    PROVE  LET n == IF session.state = "WaitingForReady" THEN 0 ELSE session.sequence + 1
           IN  /\ n \in Nat
               /\ session'.id = session.id /\ session'.error = session.error
               /\ session'.sequence = n
               /\ \/ /\ n >= TotalPackets /\ UNCHANGED step
                     /\ session'.state = "WaitingForComplete"
                  \/ /\ ~(n >= TotalPackets) /\ step' = "reading"
                     /\ session'.state = session.state
  <1> DEFINE n == IF session.state = "WaitingForReady" THEN 0 ELSE session.sequence + 1
  <1>1. n \in Nat /\ session \in SessionType
    BY DEF ServiceTypes, SessionType
  <1>2. IF n >= TotalPackets
        THEN /\ session' = [session EXCEPT !.state = "WaitingForComplete", !.sequence = n]
             /\ UNCHANGED step
        ELSE /\ session' = [session EXCEPT !.sequence = n]
             /\ step' = "reading"
    BY DEF Acknowledged
  <1> HIDE DEF n
  <1>3. CASE n >= TotalPackets
    <2>1. /\ session' = [session EXCEPT !.state = "WaitingForComplete", !.sequence = n]
          /\ UNCHANGED step
      BY <1>2, <1>3
    <2>2. /\ session'.id = session.id /\ session'.error = session.error
          /\ session'.sequence = n /\ session'.state = "WaitingForComplete"
      BY <1>1, <2>1 DEF SessionType
    <2> QED BY <1>1, <1>3, <2>1, <2>2 DEF n
  <1>4. CASE ~(n >= TotalPackets)
    <2>1. session' = [session EXCEPT !.sequence = n] /\ step' = "reading"
      BY <1>2, <1>4
    <2>2. /\ session'.id = session.id /\ session'.error = session.error
          /\ session'.sequence = n /\ session'.state = session.state
      BY <1>1, <2>1 DEF SessionType
    <2> QED BY <1>1, <1>4, <2>1, <2>2 DEF n
  <1> QED BY <1>3, <1>4

\* Every step keeps who may do what.
LEMMA StagesNext ==
    ASSUME ServiceAssumption, ServiceTypes, Stages, Places, [ServiceNext]_serviceVars
    PROVE  Stages'
  <1> USE DEF Stages, Inspecting, Live, Terminal
  <1>0. /\ session \in SessionType /\ status \in StatusType /\ active \in BOOLEAN
        /\ step \in {"idle", "inspecting", "inspected", "reading"} /\ calls \in Nat
    BY DEF ServiceTypes, ServiceAssumption
  <1>1. CASE StartTransfer
    <2>1. status'.id = 0 /\ (status'.state \in Terminal => step' = "idle" /\ active' = FALSE)
          /\ (step' # "idle" => step' = "inspecting" /\ active' = TRUE)
      BY <1>1 DEF StartTransfer, StatusBegun, NoStatus, Reject
    <2>2. UNCHANGED <<session, lastId>> /\ packets' = <<>> /\ calls' > 0 /\ ~Live
      BY <1>0, <1>1 DEF StartTransfer
    <2> QED BY <2>1, <2>2
  <1>2. CASE StartBusy
    BY <1>0, <1>2 DEF StartBusy
  <1>3. CASE InspectRead
    <2>1. step = "inspecting" /\ UNCHANGED <<session, packets, lastId, calls>>
      BY <1>3 DEF InspectRead
    <2>2. \/ Reject(status, "UnsupportedSize", "UnsupportedSize")
          \/ step' \in {"inspected", step} /\ UNCHANGED <<active, status>>
      BY <1>3, InspectShape
    <2>3. CASE Reject(status, "UnsupportedSize", "UnsupportedSize")
      BY <1>0, <2>1, <2>3, Rejected DEF Errors
    <2>4. CASE step' \in {"inspected", step} /\ UNCHANGED <<active, status>>
      BY <1>0, <2>1, <2>4
    <2> QED BY <2>2, <2>3, <2>4
  <1>4. CASE LengthDiffers
    BY <1>0, <1>4, Rejected DEF LengthDiffers, Errors
  <1>5. CASE Begin
    <2>1. step = "inspected" /\ step' = "idle" /\ UNCHANGED active
      BY <1>5 DEF Begin
    <2>2. /\ session'.state = "WaitingForReady" /\ session'.id = lastId'
          /\ status'.state = "Handshaking"
      BY <1>5, BeginShape DEF StatusOf, MapSenderState
    <2> QED BY <2>1, <2>2
  <1>6. CASE InspectFails
    BY <1>0, <1>6, Rejected DEF InspectFails, Errors
  <1>7. CASE BeginFails
    <2>1. step' = "idle" /\ active' = FALSE
      BY <1>7 DEF BeginFails
    <2>2. session'.state = "Failed" /\ session'.id = 0
      BY <1>7, BeginFailsShape
    <2> QED BY <2>1, <2>2
  <1>8. CASE Acknowledged
    <2>1. /\ step = "idle" /\ session.state \in {"WaitingForReady", "WaitingForDataAck"}
          /\ UNCHANGED <<active, status, lastId>>
      BY <1>8 DEF Acknowledged
    <2>2. /\ session'.id = session.id
          /\ \/ step' = "idle" /\ session'.state = "WaitingForComplete"
             \/ step' = "reading" /\ session'.state = session.state
      BY <1>8, <2>1, AcknowledgedShape
    <2> QED BY <2>1, <2>2
  <1>9. CASE ReadPacket
    <2>1. step = "reading" /\ UNCHANGED <<active, status, lastId>>
      BY <1>9 DEF ReadPacket
    <2>2. \/ Ends("Failed", "SourceRead")
          \/ UNCHANGED <<session, step>>
          \/ session' = [session EXCEPT !.state = "WaitingForDataAck"] /\ step' = "idle"
      BY <1>9, ReadShape
    <2>3. CASE Ends("Failed", "SourceRead")
      <3>1. session'.id = session.id /\ session'.state = "Failed" /\ step' = "idle"
        BY <2>3, Ended DEF Errors
      <3> QED BY <2>1, <3>1
    <2>4. CASE UNCHANGED <<session, step>>
      BY <2>1, <2>4
    <2>5. CASE session' = [session EXCEPT !.state = "WaitingForDataAck"] /\ step' = "idle"
      <3>1. session'.id = session.id /\ session'.state = "WaitingForDataAck"
        BY <1>0, <2>5 DEF SessionType
      <3> QED BY <2>1, <2>5, <3>1
    <2> QED BY <2>2, <2>3, <2>4, <2>5
  <1>10. CASE ReadFails \/ PeerCompletes \/ PeerFails
    <2>1. PICK state \in Terminal, error \in Errors : Ends(state, error)
      BY <1>10 DEF ReadFails, PeerCompletes, PeerFails, Errors
    <2>2. session'.id = session.id /\ session'.state \in Terminal /\ step' = "idle"
      BY <2>1, Ended
    <2>3. ~Inspecting
      BY <1>10 DEF ReadFails, PeerCompletes, PeerFails
    <2>4. UNCHANGED <<active, status, lastId>>
      BY <1>10 DEF ReadFails, PeerCompletes, PeerFails
    <2> QED BY <2>2, <2>3, <2>4
  <1>11. CASE CancelTransfer
    <2>1. session'.state = "Cancelling" /\ session'.id = session.id /\ Live
      BY <1>0, <1>11 DEF CancelTransfer, SessionType
    <2>2. status'.state = "Cancelling"
      BY <1>11, <2>1 DEF CancelTransfer, StatusOf, MapSenderState
    <2> QED BY <1>11, <2>1, <2>2 DEF CancelTransfer
  <1>12. CASE RefreshSenderStatus
    <2>1. status'.state \in Terminal <=> session.state \in Terminal
      BY <1>0, <1>12, StatusOfType DEF RefreshSenderStatus
    <2> QED BY <1>0, <1>12, <2>1 DEF RefreshSenderStatus, Released
  <1>13. CASE SourceChanges
    BY <1>0, <1>13 DEF SourceChanges
  <1>14. CASE UNCHANGED serviceVars
    BY <1>0, <1>14 DEF serviceVars
  <1> QED BY <1>1, <1>2, <1>3, <1>4, <1>5, <1>6, <1>7, <1>8, <1>9, <1>10, <1>11, <1>12, <1>13,
             <1>14 DEF ServiceNext, Starting, Sending

\* An end is told as it was, and no transfer ends in two ways.
LEMMA ToldNext ==
    ASSUME ServiceAssumption, ServiceTypes, Stages, Places, Told, [ServiceNext]_serviceVars
    PROVE  Told'
  <1> USE DEF Told, Terminal
  <1>0. /\ session \in SessionType /\ status \in StatusType /\ session.id \in Ids
        /\ status.id \in Ids /\ truth \in [Ids -> States \cup {"none", "running"}]
    BY DEF ServiceTypes, SessionType, StatusType
  <1>15. ASSUME NEW state \in Terminal, NEW error \in Errors, Ends(state, error),
               status.state \notin Terminal, UNCHANGED status
        PROVE  Told'
    <2>1. session'.id = session.id /\ session'.state = state /\ truth'[session.id] = state
      BY <1>15, Ended
    <2> QED BY <1>15, <2>1
  <1>1. CASE StartTransfer
    <2>1. status'.id = 0 /\ UNCHANGED <<session, truth>>
      BY <1>1 DEF StartTransfer, StatusBegun, NoStatus, Reject
    <2> QED BY <2>1
  <1>2. CASE StartBusy
    BY <1>2 DEF StartBusy
  <1>3. CASE InspectRead
    <2>1. step = "inspecting" /\ status.id = 0 /\ UNCHANGED <<session, truth>>
      BY <1>3 DEF InspectRead, Stages, Inspecting
    <2>2. \/ Reject(status, "UnsupportedSize", "UnsupportedSize")
          \/ UNCHANGED status
      BY <1>3, InspectShape
    <2>3. status'.id = 0
      BY <1>0, <2>1, <2>2, Rejected DEF Errors
    <2> QED BY <2>1, <2>3
  <1>4. CASE LengthDiffers
    <2>1. status'.id = 0 /\ UNCHANGED <<session, truth>>
      BY <1>0, <1>4, Rejected DEF LengthDiffers, Errors, Stages, Inspecting
    <2> QED BY <2>1
  <1>5. CASE Begin
    <2>1. session'.state = "WaitingForReady" /\ status'.state = "Handshaking"
      BY <1>5, BeginShape DEF StatusOf, MapSenderState
    <2> QED BY <2>1
  <1>6. CASE InspectFails
    <2>1. status'.id = 0 /\ UNCHANGED <<session, truth>>
      BY <1>0, <1>6, Rejected DEF InspectFails, Errors, Stages, Inspecting
    <2> QED BY <2>1
  <1>7. CASE BeginFails
    <2>1. session'.id = 0 /\ status'.id = lastId' /\ status'.state = "Failed"
          /\ truth'[lastId'] = "Failed"
      BY <1>0, <1>7, BeginFailsShape
    <2> QED BY <2>1
  <1>8. CASE Acknowledged
    <2>1. session'.state \notin Terminal /\ UNCHANGED <<status, truth>>
      BY <1>8, AcknowledgedShape DEF Acknowledged
    <2> QED BY <2>1
  <1>9. CASE ReadPacket
    <2>1. step = "reading" /\ UNCHANGED status /\ status.state \notin Terminal
          /\ session.state \notin Terminal
      BY <1>9 DEF ReadPacket, Stages
    <2>2. \/ Ends("Failed", "SourceRead")
          \/ UNCHANGED <<session, truth>>
          \/ session' = [session EXCEPT !.state = "WaitingForDataAck"] /\ UNCHANGED truth
      BY <1>9, ReadShape
    <2>3. CASE Ends("Failed", "SourceRead")
      BY <1>15, <2>1, <2>3 DEF Errors
    <2>4. CASE UNCHANGED <<session, truth>>
      BY <2>1, <2>4
    <2>5. CASE session' = [session EXCEPT !.state = "WaitingForDataAck"] /\ UNCHANGED truth
      <3>1. session'.state = "WaitingForDataAck"
        BY <1>0, <2>5 DEF SessionType
      <3> QED BY <2>1, <2>5, <3>1
    <2> QED BY <2>2, <2>3, <2>4, <2>5
  <1>10. CASE ReadFails \/ PeerCompletes \/ PeerFails
    <2>1. PICK state \in Terminal, error \in Errors : Ends(state, error)
      BY <1>10 DEF ReadFails, PeerCompletes, PeerFails, Errors
    <2>2. UNCHANGED status /\ status.state \notin Terminal
      BY <1>10 DEF ReadFails, PeerCompletes, PeerFails, Stages, Live
    <2> QED BY <1>15, <2>1, <2>2
  <1>11. CASE CancelTransfer
    <2>1. session'.state = "Cancelling" /\ UNCHANGED truth
      BY <1>0, <1>11 DEF CancelTransfer, SessionType
    <2>2. status'.state = "Cancelling"
      BY <1>11, <2>1 DEF CancelTransfer, StatusOf, MapSenderState
    <2> QED BY <2>1, <2>2
  <1>12. CASE RefreshSenderStatus
    <2>1. /\ status'.id = session.id /\ UNCHANGED <<session, truth>>
          /\ status'.state \in Terminal => session.state = status'.state
      BY <1>0, <1>12, StatusOfType DEF RefreshSenderStatus
    <2> QED BY <2>1
  <1>13. CASE SourceChanges
    BY <1>13 DEF SourceChanges
  <1>14. CASE UNCHANGED serviceVars
    BY <1>14 DEF serviceVars
  <1> QED BY <1>1, <1>2, <1>3, <1>4, <1>5, <1>6, <1>7, <1>8, <1>9, <1>10, <1>11, <1>12, <1>13,
             <1>14 DEF ServiceNext, Starting, Sending

-----------------------------------------------------------------------------
(* Where a source stands.                                                  *)

\* Every step knows where the source stands.
LEMMA PlacesNext ==
    ASSUME ServiceAssumption, ServiceTypes, ServiceTypes', Stages, Places,
           [ServiceNext]_serviceVars
    PROVE  Places'
  <1> DEFINE C == ServiceCapacity
  <1>0. /\ source \in SourceType /\ source.position \in Nat /\ session \in SessionType
        /\ session.sequence \in Nat /\ metadata \in Seq(Byte) /\ Len(metadata) \in Nat
        /\ MaxFileSize \in Nat /\ C \in Nat \ {0} /\ Len(reading) \in Nat
        /\ source.position <= MaxFileSize /\ Len(metadata) <= MaxFileSize
        /\ Len(reading) <= C
    <2>1. source.position <= MaxFileSize /\ Len(metadata) <= MaxFileSize /\ Len(reading) <= C
      BY DEF Places
    <2>2. /\ source \in SourceType /\ session \in SessionType /\ metadata \in Seq(Byte)
          /\ reading \in Seq(Byte)
      BY DEF ServiceTypes
    <2>3. source.position \in Nat /\ session.sequence \in Nat
      BY <2>2 DEF SourceType, SessionType
    <2> QED BY <2>1, <2>2, <2>3 DEF ServiceAssumption
  \* A session that waits for no packet: only the position and the sizes matter.
  <1>1. ASSUME ~(Sends'), step' # "reading",
               source'.position <= MaxFileSize, Len(metadata') <= MaxFileSize,
               Len(reading') <= C, Inspecting' => source'.position = Len(metadata')
        PROVE  Places'
    BY <1>1 DEF Places, Sends
  \* What leaves the source where it is.
  <1>2. ASSUME UNCHANGED <<step, metadata, session, reading>>,
               source'.position = source.position
        PROVE  Places'
    BY <1>2 DEF Places, Inspecting, PacketEnd, Expected, TotalPackets, PacketsOf
  <1>3. ASSUME Inspecting PROVE ~Sends
    BY <1>3 DEF Stages, Live, Sends, Terminal, Inspecting
  <1>4. ASSUME Rewound PROVE source'.position = 0
    BY <1>0, <1>4 DEF Rewound, SourceType
  <1>5. CASE StartTransfer
    <2>1. source'.position = 0 /\ metadata' = <<>> /\ reading' = <<>>
          /\ session' = session /\ ~Sends /\ step' # "reading"
      BY <1>5 DEF StartTransfer, Reject, Sends, Terminal
    <2>2. Len(<<>>) = 0
      BY EmptySeq
    <2>3. ~(Sends') /\ step' # "reading" /\ source'.position <= MaxFileSize
          /\ Len(metadata') <= MaxFileSize /\ Len(reading') <= C
          /\ source'.position = Len(metadata')
      BY <1>0, <2>1, <2>2 DEF Sends
    <2> QED BY <1>1, <2>3
  <1>6. CASE StartBusy
    BY <1>2, <1>6 DEF StartBusy
  <1>7. CASE InspectRead
    <2>1. step = "inspecting" /\ UNCHANGED <<session, reading>>
      BY <1>7 DEF InspectRead
    <2>2. Inspecting /\ source.position = Len(metadata)
      BY <2>1 DEF Inspecting, Places
    <2>3. ~(Sends')
      BY <1>3, <2>1, <2>2 DEF Sends
    <2>4. PICK bytes \in Seq(Byte), ended \in BOOLEAN :
              /\ Len(bytes) \in Nat
              /\ Len(metadata \o bytes) = Len(metadata) + Len(bytes)
              /\ \/ /\ Reject(status, "UnsupportedSize", "UnsupportedSize")
                    /\ Rewound /\ UNCHANGED metadata
                 \/ /\ Len(metadata) + Len(bytes) <= MaxFileSize
                    /\ metadata' = metadata \o bytes
                    /\ source' = [source EXCEPT !.position = @ + Len(bytes)]
                    /\ step' = IF ended THEN "inspected" ELSE step
      BY <1>7, InspectShape, Zenon
    <2>5. CASE Reject(status, "UnsupportedSize", "UnsupportedSize") /\ Rewound
               /\ UNCHANGED metadata
      <3>1. step' = "idle" /\ source'.position = 0
        BY <1>4, <2>5 DEF Reject
      <3> QED BY <1>0, <1>1, <2>1, <2>3, <2>5, <3>1 DEF Inspecting
    <2>6. CASE /\ Len(metadata) + Len(bytes) <= MaxFileSize
               /\ metadata' = metadata \o bytes
               /\ source' = [source EXCEPT !.position = @ + Len(bytes)]
               /\ step' = IF ended THEN "inspected" ELSE step
      <3>1. source'.position = source.position + Len(bytes)
        BY <1>0, <2>6 DEF SourceType
      <3>2. Len(metadata') = Len(metadata) + Len(bytes) /\ step' # "reading"
        BY <2>1, <2>4, <2>6
      <3> QED BY <1>0, <1>1, <2>1, <2>2, <2>3, <2>6, <3>1, <3>2
    <2> QED BY <2>4, <2>5, <2>6
  <1>8. CASE LengthDiffers \/ InspectFails
    <2>1. /\ Inspecting /\ step' = "idle" /\ UNCHANGED <<metadata, session, reading>>
          /\ source'.position = 0 \/ source'.position = source.position
      BY <1>4, <1>8 DEF LengthDiffers, InspectFails, Inspecting, Reject
    <2>2. ~(Sends')
      BY <1>3, <2>1 DEF Sends
    <2> QED BY <1>0, <1>1, <2>1, <2>2 DEF Inspecting
  <1>9. CASE Begin
    <2>1. /\ step' = "idle" /\ UNCHANGED <<metadata, reading>> /\ source'.position = 0
      BY <1>4, <1>9 DEF Begin, Begun
    <2>2. session'.state = "WaitingForReady" /\ session'.sequence = 0
      BY <1>9, BeginShape
    <2> QED BY <1>0, <2>1, <2>2 DEF Places, Inspecting
  <1>10. CASE BeginFails
    <2>1. /\ step' = "idle" /\ UNCHANGED <<source, metadata, reading>>
          /\ session'.state = "Failed"
      BY <1>10, BeginFailsShape DEF BeginFails
    <2> QED BY <1>0, <1>1, <2>1 DEF Inspecting, Sends
  <1>11. CASE Acknowledged
    <2> DEFINE n == IF session.state = "WaitingForReady" THEN 0 ELSE session.sequence + 1
    <2>1. /\ step = "idle" /\ session.state \in {"WaitingForReady", "WaitingForDataAck"}
          /\ reading' = <<>> /\ Len(reading') = 0 /\ UNCHANGED <<source, metadata>>
      BY <1>11, EmptySeq DEF Acknowledged
    <2>2. /\ n \in Nat /\ session'.sequence = n
          /\ \/ n >= TotalPackets /\ step' = step /\ session'.state = "WaitingForComplete"
             \/ /\ ~(n >= TotalPackets) /\ step' = "reading"
                /\ session'.state = session.state
      BY <1>11, AcknowledgedShape
    <2>3. TotalPackets \in Nat /\ (n < TotalPackets <=> n * C < Len(metadata))
      BY <1>0, <2>2, CountOf DEF TotalPackets
    <2>4. n <= TotalPackets
      <3>1. CASE session.state = "WaitingForReady"
        BY <2>3, <3>1
      <3>2. CASE session.state = "WaitingForDataAck"
        <4>1. session.sequence < TotalPackets
          BY <1>0, <3>2, CountOf DEF TotalPackets, Places
        <4> QED BY <1>0, <2>3, <3>2, <4>1
      <3> QED BY <2>1, <3>1, <3>2
    <2>5. CASE n >= TotalPackets /\ step' = step /\ session'.state = "WaitingForComplete"
      <3>1. TotalPackets' = TotalPackets /\ n = TotalPackets
        BY <2>1, <2>2, <2>3, <2>4, <2>5 DEF TotalPackets, PacketsOf
      <3> QED BY <1>0, <2>1, <2>2, <2>5, <3>1 DEF Places, Inspecting
    <2>6. CASE /\ ~(n >= TotalPackets) /\ step' = "reading"
               /\ session'.state = session.state
      <3>1. n * C < Len(metadata)
        BY <2>2, <2>3, <2>6
      <3>2. source.position = n * C /\ n * C \in Nat
        <4>1. CASE session.state = "WaitingForReady"
          BY <1>0, <2>1, <4>1 DEF Places
        <4>2. CASE session.state = "WaitingForDataAck"
          <5>1. source.position = PacketEnd(metadata, session.sequence)
            BY <2>1, <4>2 DEF Places
          <5>2. n = session.sequence + 1
            BY <4>2
          <5>3. n * C \in Nat
            BY <1>0, <2>2, Successor
          <5> QED BY <3>1, <5>1, <5>2, <5>3 DEF PacketEnd
        <4> QED BY <2>1, <4>1, <4>2
      <3>3. Expected' \in 1..C
        BY <1>0, <2>1, <2>2, <3>1, ExpectedAt DEF Expected, TotalPackets
      <3>4. session.state = "WaitingForReady" => n = 0
        OBVIOUS
      <3> HIDE DEF n
      <3>5. /\ session'.sequence * C < Len(metadata') /\ Len(reading') < Expected'
            /\ source'.position = session'.sequence * C + Len(reading')
        BY <1>0, <2>1, <2>2, <3>1, <3>2, <3>3
      <3> QED BY <1>0, <2>1, <2>2, <2>6, <3>4, <3>5 DEF Places, Inspecting
    <2> QED BY <2>2, <2>5, <2>6
  <1>12. CASE ReadPacket
    <2> DEFINE a == session.sequence * C
    <2>1. /\ step = "reading" /\ session.state \in {"WaitingForReady", "WaitingForDataAck"}
          /\ a < Len(metadata) /\ Len(reading) < Expected
          /\ source.position = a + Len(reading)
          /\ session.state = "WaitingForReady" => session.sequence = 0
          /\ UNCHANGED metadata
      BY <1>12 DEF ReadPacket, Places, Stages
    <2>2. /\ Expected \in 1..C /\ a \in Nat /\ a + Expected = PacketEnd(metadata, session.sequence)
          /\ PacketEnd(metadata, session.sequence) <= Len(metadata)
      BY <2>1, ExpectedShape
    <2>3. PICK bytes \in Seq(Byte) :
              /\ Len(bytes) \in Nat /\ Len(reading) + Len(bytes) <= Expected
              /\ source' = [source EXCEPT !.position = @ + Len(bytes)]
              /\ \/ Ends("Failed", "SourceRead") /\ UNCHANGED <<reading, packets>>
                 \/ /\ Len(reading') = Len(reading) + Len(bytes)
                    /\ Len(reading') < Expected
                    /\ UNCHANGED <<session, step, packets>>
                 \/ /\ Len(reading') = Len(reading) + Len(bytes)
                    /\ Len(reading') = Expected
                    /\ session' = [session EXCEPT !.state = "WaitingForDataAck"]
                    /\ step' = "idle"
      BY <1>12, ReadShape
    <2>4. /\ source'.position = source.position + Len(bytes)
          /\ source'.position <= MaxFileSize
      <3>1. source'.position = source.position + Len(bytes)
        BY <1>0, <2>3 DEF SourceType
      <3> HIDE DEF a
      <3> QED BY <1>0, <2>1, <2>2, <2>3, <3>1
    <2>5. CASE Ends("Failed", "SourceRead") /\ UNCHANGED <<reading, packets>>
      <3>1. session'.state = "Failed" /\ step' = "idle"
        BY <2>5, Ended DEF Terminal, Errors
      <3> QED BY <1>0, <1>1, <2>1, <2>4, <2>5, <3>1 DEF Sends, Inspecting
    <2>6. CASE /\ Len(reading') = Len(reading) + Len(bytes)
               /\ Len(reading') < Expected
               /\ UNCHANGED <<session, step, packets>>
      <3>1. Expected' = Expected
        BY <2>1, <2>6 DEF Expected, TotalPackets, PacketsOf
      <3>2. source'.position = a + Len(reading')
        <4> HIDE DEF a
        <4> QED BY <1>0, <2>1, <2>2, <2>3, <2>4, <2>6
      <3>3. Len(reading') <= C
        BY <1>0, <2>2, <2>3, <2>6
      <3> QED BY <1>0, <2>1, <2>4, <2>6, <3>1, <3>2, <3>3 DEF Places, Inspecting
    <2>7. CASE /\ Len(reading') = Len(reading) + Len(bytes)
               /\ Len(reading') = Expected
               /\ session' = [session EXCEPT !.state = "WaitingForDataAck"]
               /\ step' = "idle"
      <3>1. session'.state = "WaitingForDataAck" /\ session'.sequence = session.sequence
        BY <1>0, <2>7 DEF SessionType
      <3>2. source'.position = PacketEnd(metadata', session'.sequence)
        <4>1. source'.position = a + Expected
          <5> HIDE DEF a
          <5> QED BY <1>0, <2>1, <2>2, <2>3, <2>4, <2>7
        <4> QED BY <2>1, <2>2, <3>1, <4>1
      <3>3. Len(reading') <= C
        BY <1>0, <2>2, <2>7
      <3> QED BY <1>0, <2>1, <2>4, <2>7, <3>1, <3>2, <3>3 DEF Places, Inspecting
    <2> QED BY <2>3, <2>5, <2>6, <2>7
  <1>13. CASE ReadFails \/ PeerCompletes \/ PeerFails
    <2>1. PICK state \in Terminal, error \in Errors : Ends(state, error)
      BY <1>13 DEF ReadFails, PeerCompletes, PeerFails, Terminal, Errors
    <2>2. session'.state \in Terminal /\ step' = "idle"
      BY <2>1, Ended
    <2>3. UNCHANGED <<source, metadata, reading>>
      BY <1>13 DEF ReadFails, PeerCompletes, PeerFails
    <2> QED BY <1>0, <1>1, <2>2, <2>3 DEF Sends, Inspecting, Terminal
  <1>14. CASE CancelTransfer
    <2>1. session'.state = "Cancelling" /\ step' = "idle" /\ UNCHANGED <<source, metadata, reading>>
      BY <1>0, <1>14 DEF CancelTransfer, SessionType
    <2> QED BY <1>0, <1>1, <2>1 DEF Sends, Inspecting
  <1>15. CASE RefreshSenderStatus
    BY <1>2, <1>15 DEF RefreshSenderStatus
  <1>16. CASE SourceChanges
    <2>1. source'.position = source.position /\ UNCHANGED <<step, metadata, session, reading>>
      BY <1>0, <1>16 DEF SourceChanges, SourceType
    <2> QED BY <1>2, <2>1
  <1>17. CASE UNCHANGED serviceVars
    BY <1>2, <1>17 DEF serviceVars
  <1> QED BY <1>5, <1>6, <1>7, <1>8, <1>9, <1>10, <1>11, <1>12, <1>13, <1>14, <1>15, <1>16,
             <1>17 DEF ServiceNext, Starting, Sending

-----------------------------------------------------------------------------
(* What is sent is the source.                                             *)

\* Every step keeps what was read the source.
LEMMA SoundNext ==
    ASSUME ServiceAssumption, ServiceTypes, Stages, Places, Sound, [ServiceNext]_serviceVars
    PROVE  Sound'
  <1> DEFINE C == ServiceCapacity
             data == source.data
  <1>0. /\ source \in SourceType /\ data \in Seq(Byte) /\ Len(data) \in Nat
        /\ session \in SessionType /\ session.sequence \in Nat
        /\ metadata \in Seq(Byte) /\ Len(metadata) \in Nat
        /\ reading \in Seq(Byte) /\ Len(reading) \in Nat
        /\ MaxFileSize \in Nat /\ C \in Nat \ {0} /\ faults \in [all : Nat, since : Nat]
    <2>1. /\ source \in SourceType /\ session \in SessionType /\ metadata \in Seq(Byte)
          /\ reading \in Seq(Byte) /\ faults \in [all : Nat, since : Nat]
      BY DEF ServiceTypes
    <2>2. data \in Seq(Byte) /\ session.sequence \in Nat
      BY <2>1 DEF SourceType, SessionType
    <2> QED BY <2>1, <2>2 DEF ServiceAssumption
  \* A fault is on record.
  <1>1. ASSUME Fault PROVE Sound'
    <2>1. faults'.since > 0
      BY <1>0, <1>1 DEF Fault
    <2> QED BY <2>1 DEF Sound
  \* The session is not one that sends, and the source is what it was.
  <1>2. ASSUME ~(Sends'), step' = "idle", UNCHANGED faults,
               source'.data = data, source'.length = source.length, source'.kind = source.kind,
               code' \notin {"ReadFailed", "LengthMismatch", "SessionRejected"},
               faults.since = 0 /\ code' = "UnsupportedSize" => Len(data) > MaxFileSize,
               faults.since = 0 /\ code' = "Started" =>
                  Len(data) <= MaxFileSize /\ session'.error # "SourceRead"
        PROVE  Sound'
    BY <1>2 DEF Sound
  <1>3. ASSUME Inspecting PROVE ~Sends /\ packets = <<>> /\ source.position = Len(metadata)
    BY <1>3 DEF Stages, Places, Live, Sends, Terminal, Inspecting
  <1>4. CASE StartTransfer
    <2>1. PICK kind \in Kinds, size \in 0..MaxFileSize + 1 :
              source' = [kind |-> kind, data |-> Contents("first", size), position |-> 0,
                         length |-> size]
      BY <1>4 DEF StartTransfer
    <2>2. source'.length = Len(source'.data) /\ source'.data \in Seq(Byte)
          /\ Len(source'.data) \in Nat
      <3>1. size \in Nat
        BY <1>0
      <3> QED BY <2>1, <3>1, ContentsType
    <2>3. /\ metadata' = <<>> /\ UNCHANGED session /\ ~Sends
          /\ step' \in {"inspecting", "idle"} /\ code' \in {"none", "InvalidExtension"}
      BY <1>4 DEF StartTransfer, Reject, Sends, Terminal
    <2>4. <<>> = SubSeq(source'.data, 1, Len(<<>>)) /\ Len(<<>>) <= Len(source'.data)
      <3>1. Len(<<>>) = 0
        BY EmptySeq
      <3>2. SubSeq(source'.data, 1, 0) = <<>>
        BY SubSeqEmpty
      <3> QED BY <2>2, <3>1, <3>2
    <2> QED BY <2>2, <2>3, <2>4 DEF Sound, Sends
  <1>5. CASE StartBusy
    BY <1>5 DEF StartBusy, Sound, Sends, PacketsRead
  <1>6. CASE InspectRead
    <2> SUFFICES ASSUME faults.since = 0 PROVE Sound'
      BY <1>6 DEF InspectRead, Sound
    <2>1. step = "inspecting" /\ UNCHANGED <<session, reading, packets, faults>>
      BY <1>6 DEF InspectRead
    <2>2. /\ Inspecting /\ source.position = Len(metadata) /\ ~Sends /\ packets = <<>>
          /\ ~(Sends')
      BY <1>3, <2>1 DEF Inspecting, Sends
    <2>3. /\ Len(metadata) <= Len(data) /\ metadata = SubSeq(data, 1, Len(metadata))
          /\ code \notin {"ReadFailed", "LengthMismatch", "SessionRejected"}
          /\ source.kind = "file" => source.length = Len(data)
      BY <2>1 DEF Sound
    <2>4. PICK bytes \in Seq(Byte), ended \in BOOLEAN :
              /\ Len(bytes) \in Nat
              /\ source.position <= Len(data) =>
                    /\ source.position + Len(bytes) <= Len(data)
                    /\ bytes = SubSeq(data, source.position + 1, source.position + Len(bytes))
                    /\ ended => source.position + Len(bytes) = Len(data)
              /\ Len(metadata \o bytes) = Len(metadata) + Len(bytes)
              /\ \/ /\ Len(metadata) + Len(bytes) > MaxFileSize
                    /\ Reject(status, "UnsupportedSize", "UnsupportedSize")
                    /\ Rewound /\ UNCHANGED metadata
                 \/ /\ metadata' = metadata \o bytes
                    /\ source' = [source EXCEPT !.position = @ + Len(bytes)]
                    /\ step' = IF ended THEN "inspected" ELSE step
                    /\ UNCHANGED <<active, status, code>>
      BY <1>6, InspectShape, Zenon
    <2> DEFINE m == Len(metadata)
               t == m + Len(bytes)
    <2>5. /\ t \in Nat /\ t <= Len(data) /\ bytes = SubSeq(data, m + 1, t)
          /\ (ended => t = Len(data))
      BY <1>0, <2>2, <2>3, <2>4
    <2>6. metadata \o bytes = SubSeq(data, 1, t)
      <3>1. m \in Nat /\ m <= t
        BY <1>0, <2>4
      <3> HIDE DEF m, t
      <3>2. SubSeq(data, 1, m) \o SubSeq(data, m + 1, t) = SubSeq(data, 1, t)
        BY <1>0, <2>5, <3>1, JoinedFirst
      <3>3. metadata = SubSeq(data, 1, m)
        BY <2>3 DEF m
      <3> QED BY <2>5, <3>2, <3>3
    <2>7. CASE /\ Len(metadata) + Len(bytes) > MaxFileSize
               /\ Reject(status, "UnsupportedSize", "UnsupportedSize")
               /\ Rewound /\ UNCHANGED metadata
      <3>1. step' = "idle" /\ code' = "UnsupportedSize"
        BY <2>7 DEF Reject
      <3>2. source'.data = data /\ source'.length = source.length /\ source'.kind = source.kind
        BY <1>0, <2>7 DEF Rewound, SourceType
      <3>3. Len(data) > MaxFileSize
        BY <1>0, <2>4, <2>5, <2>7
      <3> QED BY <1>2, <2>1, <2>2, <3>1, <3>2, <3>3
    <2>8. CASE /\ metadata' = metadata \o bytes
               /\ source' = [source EXCEPT !.position = @ + Len(bytes)]
               /\ step' = IF ended THEN "inspected" ELSE step
               /\ UNCHANGED <<active, status, code>>
      <3>1. source'.data = data /\ source'.length = source.length /\ source'.kind = source.kind
        BY <1>0, <2>8 DEF SourceType
      <3>2. Len(metadata') = t /\ metadata' = SubSeq(data, 1, t)
        BY <2>4, <2>6, <2>8
      <3>3. step' = "inspected" => metadata' = data
        BY <1>0, <2>1, <2>5, <2>8, <3>2, SubSeqFull
      <3>4. step' \in {"inspecting", "inspected"}
        BY <2>1, <2>8
      <3> HIDE DEF t, m
      <3> QED BY <2>1, <2>2, <2>5, <2>8, <3>1, <3>2, <3>3, <3>4 DEF Sound
    <2> QED BY <2>4, <2>7, <2>8
  <1>7. CASE LengthDiffers
    <2>1. faults.since # 0
      BY <1>7 DEF LengthDiffers, Mismatch, Sound
    <2> QED BY <1>7, <2>1 DEF LengthDiffers, Sound
  <1>8. CASE Begin
    <2> SUFFICES ASSUME faults.since = 0 PROVE Sound'
      BY <1>8 DEF Begin, Sound
    <2>1. /\ step = "inspected" /\ step' = "idle" /\ code' = "Started" /\ Rewound
          /\ UNCHANGED <<metadata, packets>>
      BY <1>8 DEF Begin, Begun
    <2>2. session'.state = "WaitingForReady" /\ session'.sequence = 0 /\ session'.error = "None"
      BY <1>8, BeginShape
    <2>3. source'.data = data /\ source'.length = source.length /\ source'.kind = source.kind
      BY <1>0, <2>1 DEF Rewound, SourceType
    <2>4. metadata = data /\ (source.kind = "file" => source.length = Len(data))
          /\ Len(data) <= MaxFileSize
      BY <2>1 DEF Sound, Places
    <2>5. packets = <<>> /\ SubSeq(Pieces(data), 1, 0) = <<>>
      BY <1>3, <2>1, SubSeqEmpty DEF Inspecting
    <2>6. PacketsRead' = 0
      BY <2>2 DEF PacketsRead
    <2> QED BY <2>1, <2>2, <2>3, <2>4, <2>5, <2>6 DEF Sound
  <1>9. CASE InspectFails \/ BeginFails \/ ReadFails \/ SourceChanges
    BY <1>1, <1>9 DEF InspectFails, BeginFails, ReadFails, SourceChanges
  <1>10. CASE Acknowledged
    <2> SUFFICES ASSUME faults.since = 0 PROVE Sound'
      BY <1>10 DEF Acknowledged, Sound
    <2> DEFINE n == IF session.state = "WaitingForReady" THEN 0 ELSE session.sequence + 1
    <2>1. /\ step = "idle" /\ session.state \in {"WaitingForReady", "WaitingForDataAck"}
          /\ reading' = <<>> /\ Len(reading') = 0
          /\ UNCHANGED <<source, metadata, packets, code, faults>>
      BY <1>10, EmptySeq DEF Acknowledged
    <2>2. /\ n \in Nat /\ session'.sequence = n /\ session'.error = session.error
          /\ \/ step' = step /\ session'.state = "WaitingForComplete"
             \/ step' = "reading" /\ session'.state = session.state
      BY <1>10, AcknowledgedShape
    <2>3. Sends /\ PacketsRead = n
      BY <2>1 DEF Sends, PacketsRead, Places
    <2>4. PacketsRead' = n
      BY <2>1, <2>2 DEF PacketsRead
    <2>5. SubSeq(data, n * C + 1, n * C + Len(reading')) = <<>>
      <3>1. n * C \in Nat
        BY <1>0, <2>2, Successor
      <3> HIDE DEF n
      <3> DEFINE a == n * C
      <3>2. a \in Nat
        BY <3>1
      <3> HIDE DEF a
      <3>3. a + 1 \in Int /\ a + Len(reading') \in Int /\ a + Len(reading') < a + 1
        BY <2>1, <3>2
      <3>4. SubSeq(data, a + 1, a + Len(reading')) = <<>>
        BY <3>3, SubSeqEmpty
      <3> QED BY <3>4 DEF a
    <2> HIDE DEF n
    <2> QED BY <2>1, <2>2, <2>3, <2>4, <2>5 DEF Sound
  <1>11. CASE ReadPacket
    <2> SUFFICES ASSUME faults.since = 0 PROVE Sound'
      BY <1>11 DEF ReadPacket, Sound
    <2> DEFINE k == session.sequence
               a == k * C
    <2>1. /\ step = "reading" /\ session.state \in {"WaitingForReady", "WaitingForDataAck"}
          /\ a < Len(metadata) /\ Len(reading) < Expected
          /\ source.position = a + Len(reading)
          /\ UNCHANGED <<metadata, code, faults>>
      BY <1>11 DEF ReadPacket, Places, Stages
    <2>2. /\ Sends /\ PacketsRead = k /\ metadata = data
          /\ packets = SubSeq(Pieces(data), 1, k)
          /\ reading = SubSeq(data, a + 1, a + Len(reading))
      BY <2>1 DEF Sends, PacketsRead, Sound
    <2>3. /\ Expected \in Nat /\ a \in Nat /\ a + Expected = PacketEnd(data, k)
          /\ PacketEnd(data, k) <= Len(data) /\ PacketEnd(data, k) \in Nat
      <3>1. Expected \in 1..C /\ a \in Nat /\ a + Expected = PacketEnd(metadata, k)
            /\ PacketEnd(metadata, k) <= Len(metadata) /\ PacketEnd(metadata, k) \in Nat
        BY <2>1, ExpectedShape
      <3>2. Expected \in Nat
        BY <1>0, <3>1
      <3> HIDE DEF a
      <3> QED BY <2>2, <3>1, <3>2
    <2>4. PICK bytes \in Seq(Byte) :
              /\ Len(bytes) \in Nat /\ Len(reading) + Len(bytes) <= Expected
              /\ source' = [source EXCEPT !.position = @ + Len(bytes)]
              /\ source.position <= Len(data) =>
                    /\ source.position + Len(bytes) <= Len(data)
                    /\ bytes = SubSeq(data, source.position + 1, source.position + Len(bytes))
              /\ \/ PacketEnd(metadata, k) > Len(data)
                 \/ /\ reading' = reading \o bytes /\ reading' \in Seq(Byte)
                    /\ Len(reading') = Len(reading) + Len(bytes)
                    /\ \/ UNCHANGED <<session, step, packets>>
                       \/ /\ Len(reading') = Expected
                          /\ packets' = Append(packets, reading')
                          /\ session' = [session EXCEPT !.state = "WaitingForDataAck"]
                          /\ step' = "idle"
      BY <1>11, ReadShape
    <2>5. reading' = reading \o bytes /\ Len(reading') = Len(reading) + Len(bytes)
      BY <2>2, <2>3, <2>4, SMTT(30)
    <2>6. reading' = SubSeq(data, a + 1, a + Len(reading'))
      <3> DEFINE p == source.position
                 c == p + Len(bytes)
      <3>1. Len(bytes) \in Nat /\ Len(reading) + Len(bytes) <= Expected
        BY <2>4
      <3>2. p <= Len(data) => bytes = SubSeq(data, p + 1, c)
        BY <2>4
      <3>3. p = a + Len(reading) /\ a \in Nat /\ a + Expected <= Len(data)
        BY <2>1, <2>3
      <3>4. SubSeq(data, a + 1, p) = reading
        BY <2>2, <3>3
      <3> HIDE DEF a, p, data, k
      <3>5. p \in Nat /\ a <= p /\ c \in Nat /\ p <= c /\ c <= Len(data)
            /\ c = a + Len(reading')
        BY <1>0, <2>3, <2>5, <3>1, <3>3, SMTT(30)
      <3> HIDE DEF c
      <3>6. bytes = SubSeq(data, p + 1, c)
        BY <1>0, <3>2, <3>5
      <3>7. SubSeq(data, a + 1, p) \o SubSeq(data, p + 1, c) = SubSeq(data, a + 1, c)
        <4>1. data \in Seq(Byte) /\ a \in Nat /\ p \in Nat /\ c \in Nat
              /\ a <= p /\ p <= c /\ c <= Len(data)
          BY <1>0, <3>3, <3>5
        <4> QED BY <4>1, Joined
      <3> QED BY <2>5, <3>4, <3>5, <3>6, <3>7
    <2>7. source'.data = data /\ source'.length = source.length /\ source'.kind = source.kind
      BY <1>0, <2>4 DEF SourceType
    <2>8. CASE UNCHANGED <<session, step, packets>>
      <3>1. PacketsRead' = PacketsRead /\ (Sends' <=> Sends)
        BY <2>8 DEF PacketsRead, Sends
      <3> QED BY <2>1, <2>2, <2>6, <2>7, <2>8, <3>1 DEF Sound
    <2>9. CASE /\ Len(reading') = Expected
               /\ packets' = Append(packets, reading')
               /\ session' = [session EXCEPT !.state = "WaitingForDataAck"]
               /\ step' = "idle"
      <3>1. /\ session'.state = "WaitingForDataAck" /\ session'.sequence = k
            /\ session'.error = session.error
        BY <1>0, <2>9 DEF SessionType
      <3>2. /\ Pieces(data) \in Seq(Seq(Byte)) /\ k < Len(Pieces(data))
            /\ Pieces(data)[k + 1] = SubSeq(data, a + 1, PacketEnd(data, k))
        <4>1. k < PacketsOf(data) /\ PacketsOf(data) \in Nat
          BY <1>0, <2>1, <2>2, CountOf
        <4>2. k + 1 \in 1..PacketsOf(data) /\ (k + 1) - 1 = k
          BY <1>0, <4>1, SMTT(30)
        <4>3. \A n \in 1..PacketsOf(data) :
                 Pieces(data)[n] = SubSeq(data, (n - 1) * C + 1,
                                          IF n * C < Len(data) THEN n * C ELSE Len(data))
          BY <1>0, PiecesShape
        <4>4. Pieces(data)[k + 1] =
                 SubSeq(data, ((k + 1) - 1) * C + 1,
                        IF (k + 1) * C < Len(data) THEN (k + 1) * C ELSE Len(data))
          BY <4>2, <4>3, Zenon
        <4>5. Pieces(data) \in Seq(Seq(Byte)) /\ Len(Pieces(data)) = PacketsOf(data)
          BY <1>0, PiecesShape
        <4> QED BY <4>1, <4>2, <4>4, <4>5 DEF PacketEnd
      <3>3. reading' = Pieces(data)[k + 1]
        BY <2>3, <2>6, <2>9, <3>2
      <3>4. packets' = SubSeq(Pieces(data), 1, k + 1)
        BY <1>0, <2>2, <2>9, <3>2, <3>3, OneMore
      <3>5. PacketsRead' = k + 1
        BY <2>9, <3>1 DEF PacketsRead
      <3> QED BY <2>1, <2>2, <2>7, <2>9, <3>1, <3>4, <3>5 DEF Sound
    <2>10. ~(PacketEnd(metadata, k) > Len(data))
      <3>1. metadata = data
        BY <2>2
      <3>2. PacketEnd(data, k) \in Nat /\ Len(data) \in Nat /\ PacketEnd(data, k) <= Len(data)
        BY <1>0, <2>3
      <3> HIDE DEF k, data
      <3> QED BY <3>1, <3>2
    <2> HIDE DEF k, data
    <2> QED BY <2>4, <2>8, <2>9, <2>10
  <1>12. CASE PeerCompletes \/ PeerFails
    <2>1. PICK state \in Terminal, error \in {"None", "Peer", "Cancelled"} : Ends(state, error)
      BY <1>12 DEF PeerCompletes, PeerFails, Terminal
    <2>2. session'.state \in Terminal /\ session'.error \in {"None", "Peer", "Cancelled"}
          /\ step' = "idle"
      BY <2>1, Ended DEF Errors
    <2>3. UNCHANGED <<source, code, faults>>
      BY <1>12 DEF PeerCompletes, PeerFails
    <2> QED BY <2>2, <2>3 DEF Sound, Sends, Terminal
  <1>13. CASE CancelTransfer
    <2>1. session'.state = "Cancelling" /\ session'.error = "Cancelled" /\ step' = "idle"
      BY <1>0, <1>13 DEF CancelTransfer, SessionType
    <2>2. UNCHANGED <<source, code, faults>>
      BY <1>13 DEF CancelTransfer
    <2> QED BY <2>1, <2>2 DEF Sound, Sends
  <1>14. CASE RefreshSenderStatus
    BY <1>14 DEF RefreshSenderStatus, Sound, Sends, PacketsRead
  <1>15. CASE UNCHANGED serviceVars
    BY <1>15 DEF serviceVars, Sound, Sends, PacketsRead
  <1> QED BY <1>4, <1>5, <1>6, <1>7, <1>8, <1>9, <1>10, <1>11, <1>12, <1>13, <1>14, <1>15
          DEF ServiceNext, Starting, Sending

-----------------------------------------------------------------------------
(* Theorems.                                                               *)

\* It holds at first.
LEMMA ServiceInvInit ==
    ASSUME ServiceAssumption, ServiceInit
    PROVE  ServiceInv
  <1> USE DEF ServiceInit, NoSource, NoSession, NoStatus
  <1>0. 0 \in Ids /\ <<>> \in Seq(Byte) /\ <<>> \in Seq(Seq(Byte)) /\ Len(<<>>) = 0
    BY EmptySeq DEF Ids, ServiceAssumption
  <1>1. ServiceTypes
    <2>1. source \in SourceType
      BY <1>0 DEF SourceType
    <2>2. session \in SessionType /\ status \in StatusType
      BY <1>0 DEF SessionType, StatusType, States, Shown, Errors
    <2>3. truth \in [Ids -> States \cup {"none", "running"}]
      OBVIOUS
    <2>4. calls \in 0..MaxTransfers /\ lastId \in Ids /\ active \in BOOLEAN
          /\ step \in {"idle", "inspecting", "inspected", "reading"}
      BY <1>0 DEF ServiceAssumption
    <2>5. faults \in [all : Nat, since : Nat]
      OBVIOUS
    <2>6. metadata \in Seq(Byte) /\ reading \in Seq(Byte) /\ packets \in Seq(Seq(Byte))
      BY <1>0, Zenon
    <2> HIDE DEF ServiceInit
    <2> QED BY <2>1, <2>2, <2>3, <2>4, <2>5, <2>6 DEF ServiceTypes
  <1>2. Stages /\ Told
    BY <1>0 DEF Stages, Told, Inspecting, Live, Terminal
  <1>3. Places
    BY <1>0 DEF Places, Inspecting, ServiceAssumption
  <1>4. Sound
    BY <1>0 DEF Sound, Sends
  <1> QED BY <1>1, <1>2, <1>3, <1>4 DEF ServiceInv

\* Every step keeps it.
LEMMA ServiceInvNext ==
    ASSUME ServiceAssumption, ServiceInv, [ServiceNext]_serviceVars
    PROVE  ServiceInv'
  <1> USE DEF ServiceInv
  <1>1. ServiceTypes'
    BY TypesNext
  <1> QED BY <1>1, StagesNext, ToldNext, PlacesNext, SoundNext

\* It implies the invariants that ServiceTrue is made of.
LEMMA ServiceInvIsTrue ==
    ASSUME ServiceAssumption, ServiceInv
    PROVE  ServiceTypeOK /\ PacketsAreTheSource /\ SoundSourceIsSent /\ StatusTruthful /\ SourceFree
  <1> USE DEF ServiceInv
  <1>0. /\ source.data \in Seq(Byte) /\ session.sequence \in Nat /\ metadata \in Seq(Byte)
        /\ packets \in Seq(Seq(Byte)) /\ source.position \in Nat /\ MaxFileSize \in Nat
    BY DEF ServiceTypes, SourceType, SessionType, ServiceAssumption
  <1>1. ServiceTypeOK
    <2>1. source.position \in 0..MaxFileSize + 1 /\ Len(metadata) <= MaxFileSize
          /\ Len(reading) <= ServiceCapacity
      BY <1>0 DEF Places
    <2>2. /\ session.state \in States /\ session.id \in Ids /\ status.id \in Ids
          /\ lastId \in Ids /\ active \in BOOLEAN
          /\ step \in {"idle", "inspecting", "inspected", "reading"}
      BY DEF ServiceTypes, SessionType, StatusType
    <2>3. step = "reading" => active
      BY DEF Stages, Live, Terminal
    <2> QED BY <2>1, <2>2, <2>3 DEF ServiceTypeOK
  <1>2. PacketsAreTheSource
    <2> SUFFICES ASSUME faults.since = 0,
                        session.state \in {"WaitingForDataAck", "WaitingForComplete"}
                 PROVE  /\ Len(packets) <= Len(Pieces(source.data))
                        /\ packets = SubSeq(Pieces(source.data), 1, Len(packets))
                        /\ session.state = "WaitingForComplete" => packets = Pieces(source.data)
      BY DEF PacketsAreTheSource
    <2> DEFINE all == Pieces(source.data)
               n == PacketsRead
    <2>1. metadata = source.data /\ packets = SubSeq(all, 1, n)
      BY DEF Sound, Sends
    <2>2. all \in Seq(Seq(Byte)) /\ Len(all) = PacketsOf(metadata) /\ Len(all) \in Nat
      BY <1>0, <2>1, PiecesShape
    <2>3. n \in Nat /\ n <= Len(all) /\ (session.state = "WaitingForComplete" => n = Len(all))
      <3>1. CASE session.state = "WaitingForDataAck"
        <4>1. session.sequence * ServiceCapacity < Len(metadata)
          BY <3>1 DEF Places
        <4>2. session.sequence < Len(all)
          BY <1>0, <2>2, <4>1, CountOf
        <4>3. n = session.sequence \/ n = session.sequence + 1
          BY DEF PacketsRead
        <4> HIDE DEF n
        <4> QED BY <1>0, <2>2, <3>1, <4>2, <4>3
      <3>2. CASE session.state = "WaitingForComplete"
        BY <1>0, <2>2, <3>2 DEF PacketsRead, Places, TotalPackets
      <3> QED BY <3>1, <3>2
    <2> HIDE DEF all, n
    <2>4. Len(packets) = n
      <3>1. \A i \in 1..n : all[i] \in Seq(Byte)
        BY <2>2, <2>3
      <3>2. Len(SubSeq(all, 1, n)) = IF 1 <= n THEN n - 1 + 1 ELSE 0
        BY <2>3, <3>1, SubSeqProperties
      <3> QED BY <2>1, <2>3, <3>2
    <2>5. session.state = "WaitingForComplete" => packets = all
      BY <2>1, <2>2, <2>3, SubSeqFull
    <2> QED BY <2>1, <2>2, <2>3, <2>4, <2>5 DEF all
  <1>3. SoundSourceIsSent
    BY DEF Sound, SoundSourceIsSent
  <1>4. StatusTruthful /\ SourceFree
    BY DEF Told, Stages, Live, Terminal, StatusTruthful, SourceFree
  <1> QED BY <1>1, <1>2, <1>3, <1>4

\* A transfer that starts has an id that the last one had not.
LEMMA NewIds ==
    ASSUME ServiceAssumption, ServiceInv, [ServiceNext]_serviceVars,
           code # "Started", code' = "Started"
    PROVE  session'.id \notin {0, lastId, session.id}
  <1>1. Begin
    <2>1. \/ Begin \/ StartTransfer \/ StartBusy \/ InspectFails \/ BeginFails \/ LengthDiffers
          \/ InspectRead \/ UNCHANGED code
      BY DEF ServiceNext, serviceVars, Starting, Sending, Acknowledged, ReadPacket, PeerCompletes,
             PeerFails, ReadFails, CancelTransfer, RefreshSenderStatus, SourceChanges
    <2>2. ASSUME InspectRead PROVE code' # "Started"
      <3>1. Reject(status, "UnsupportedSize", "UnsupportedSize") \/ UNCHANGED code
        BY <2>2, InspectShape DEF ServiceInv
      <3> QED BY <3>1 DEF Reject
    <2>3. ASSUME StartTransfer \/ StartBusy \/ InspectFails \/ BeginFails \/ LengthDiffers
          PROVE  code' # "Started"
      BY <2>3 DEF StartTransfer, StartBusy, InspectFails, BeginFails, LengthDiffers, Reject
    <2> QED BY <2>1, <2>2, <2>3
  <1>2. PICK id \in Ids \ {0, lastId} : session'.id = id
    BY <1>1, BeginShape DEF ServiceInv
  <1>3. session.id \in {0, lastId}
    BY DEF ServiceInv, Stages
  <1> QED BY <1>2, <1>3

\* The invariant holds of every behaviour: who holds the source, what each end was,
\* where the source stands in both readings of it, and that a source which neither
\* fails nor changes is read as it is (file_transfer_service.hpp startTransfer,
\* reliable_transfer_v2.hpp inspectSource and SenderSession::prepareNextDataOrEnd).
THEOREM ServiceInvariant == ServiceAssumption => (ServiceSpec => []ServiceInv)
  <1> SUFFICES ASSUME ServiceAssumption PROVE ServiceSpec => []ServiceInv
    OBVIOUS
  <1>1. ServiceInit => ServiceInv
    BY ServiceInvInit
  <1>2. ServiceInv /\ [ServiceNext]_serviceVars => ServiceInv'
    BY ServiceInvNext
  <1> QED BY <1>1, <1>2, PTL DEF ServiceSpec

\* What is sent is the source, however it cuts what it gives; a source that neither
\* fails nor changes is never the reason of a failure; a status that tells an end
\* tells that of the transfer it names; the source is let go of at the end; and no
\* two transfers in a row have one id (file_transfer_service.hpp startTransfer,
\* refreshSenderStatus).
THEOREM TransferServiceTrue == ServiceAssumption => (ServiceSpec => ServiceTrue)
  <1> SUFFICES ASSUME ServiceAssumption PROVE ServiceSpec => ServiceTrue
    OBVIOUS
  <1>1. ServiceSpec => []ServiceInv
    BY ServiceInvariant
  <1>2. ServiceInv => /\ ServiceTypeOK /\ PacketsAreTheSource /\ SoundSourceIsSent
                      /\ StatusTruthful /\ SourceFree
    BY ServiceInvIsTrue
  <1>3. ServiceInv /\ [ServiceNext]_serviceVars =>
           [code # "Started" /\ code' = "Started" =>
               session'.id \notin {0, lastId, session.id}]_serviceVars
    BY NewIds
  <1> QED BY <1>1, <1>2, <1>3, PTL DEF ServiceSpec, ServiceTrue, IdsDiffer

-----------------------------------------------------------------------------
(* The one-way stream: the inductive invariant.                            *)

FileByte == STRING \X Nat
Controls == [kind : {"START", "STOP"}, stream : Nat]
Datas == [kind : {"DATA"}, seq : 0..MaxSeq, payload : Seq(FileByte), first : BOOLEAN,
          last : BOOLEAN]
Frames == Controls \cup Datas
RxStates == {"Idle", "AwaitingFirst", "Receiving", "Completed", "Failed"}
Failures == {"None", "OpenFailed", "CleanupFailed", "Cancelled", "MissingFirst",
             "SequenceGap", "UnexpectedFirst", "SequenceLimit", "WriteFailed", "CloseFailed",
             "PublicationFailed", "Timeout", "InvalidPacket"}

SegmenterType == [next : 0..MaxSeq + 1, pending : Seq(FileByte), atEnd : BOOLEAN,
                  finished : BOOLEAN]
ReceiverType == [state : RxStates, failure : Failures, stream : Nat, expected : 0..MaxSeq + 1,
                 open : BOOLEAN, present : BOOLEAN, cleanupFailed : BOOLEAN]
AudioType == [data : Seq(FileByte), next : 0..MaxSeq, missing : Nat, started : BOOLEAN,
              complete : BOOLEAN]

LegacyTypes ==
    /\ stream \in 0..Len(Streams)
    /\ segmenter \in SegmenterType /\ returned \in Nat
    /\ air \in Seq(Frames)
    /\ rx \in ReceiverType
    /\ Active => partial \in Seq(FileByte)
    /\ published \in Seq(Seq(FileByte))
    /\ audio \in AudioType

\* Where a packet stands in its file, and where it ends.
At(p) == p.payload[1][2] - 1
End(p) == At(p) + Len(p.payload)

\* A packet is a piece of the file, with its number; the last one ends the file.
Piece(p, f) ==
    /\ p.payload # <<>> /\ At(p) \in Nat /\ End(p) <= Size[f]
    /\ p.payload = Bytes(f, At(p), Len(p.payload))
    /\ p.last => End(p) = Size[f]
    /\ p.first <=> p.seq = 0
    /\ p.seq = 0 => At(p) = 0

\* What the segmenter has cut off: the bytes read but for those read ahead.
Cursor == returned - Len(segmenter.pending)

\* A packet was cut off before what the segmenter cuts off next.
Before(p) ==
    /\ p.seq < segmenter.next
    /\ ~segmenter.finished =>
          /\ End(p) <= Cursor
          /\ p.seq + 1 = segmenter.next => End(p) = Cursor

\* Packets of one stream: a number means a place, and they do not overlap.
Agree(p, q) ==
    /\ p.seq = q.seq => At(p) = At(q) /\ End(p) = End(q)
    /\ q.seq = p.seq + 1 => At(q) = End(p)
    /\ q.seq > p.seq => At(q) >= End(p)

\* The packets among some frames, and their order.
IsData(frame) == frame.kind = "DATA"
DataOf(frames) == {frames[i] : i \in {k \in 1..Len(frames) : IsData(frames[k])}}
Rising(frames) ==
    \A i, j \in 1..Len(frames) :
        i < j /\ IsData(frames[i]) /\ IsData(frames[j]) => frames[i].seq <= frames[j].seq

Segmenting ==
    ~segmenter.finished =>
        /\ stream > 0
        /\ returned <= Size[Streams[stream]]
        /\ Len(segmenter.pending) <= returned
        /\ segmenter.pending =
              Bytes(Streams[stream], Cursor, Len(segmenter.pending))
        /\ segmenter.pending # <<>> /\ segmenter.atEnd => returned = Size[Streams[stream]]
        /\ segmenter.next = 0 => Cursor = 0

Flying ==
    /\ air # <<>> => stream > 0
    /\ \A p \in DataOf(air) : Piece(p, Streams[stream]) /\ Before(p)
    /\ \A p, q \in DataOf(air) : Agree(p, q)
    /\ Rising(air)

\* What is on the storage is known of.
Stored ==
    /\ Active => rx.present
    /\ ~rx.present => partial = Absent
    /\ ~Active /\ rx.present => rx.cleanupFailed \/ rx.failure = "CleanupFailed"

\* What was heard is of the streams so far, and what was heard of the last of them is
\* before all that would still be taken.
Unheard == ~audio.started => audio.next = 0 /\ audio.missing = 0 /\ audio.data = <<>>

HeardOfStreams ==
    \A k \in 1..Len(audio.data) : \E m \in 1..stream : audio.data[k][1] = Streams[m]

HeardBefore ==
    \A k \in 1..Len(audio.data) :
        stream > 0 /\ audio.data[k][1] = Streams[stream] =>
            /\ \A p \in DataOf(air) :
                  p.seq >= audio.next /\ p.seq - audio.next <= MaxGap =>
                      audio.data[k][2] <= At(p)
            /\ ~segmenter.finished => audio.data[k][2] <= Cursor

Hearing == Unheard /\ HeardOfStreams /\ AudioIsOrdered /\ HeardBefore

\* A receive is of the stream being sent and has all of it up to the packet that it
\* expects.
Receives ==
    Active =>
        /\ stream > 0
        /\ rx.expected <= segmenter.next
        /\ Len(partial) <= Size[Streams[stream]]
        /\ partial = Bytes(Streams[stream], 0, Len(partial))
        /\ rx.state = "AwaitingFirst" => rx.expected = 0
        /\ rx.expected = 0 => partial = <<>>
        /\ \A p \in DataOf(air) : p.seq = rx.expected => At(p) = Len(partial)
        /\ ~segmenter.finished /\ segmenter.next = rx.expected => Cursor = Len(partial)

LegacyInv == LegacyTypes /\ Segmenting /\ Flying /\ Stored /\ Hearing
WholeInv == Waits => Receives /\ PublishedIsWhole

-----------------------------------------------------------------------------
(* Bytes and frames.                                                       *)

LEMMA BytesShape ==
    ASSUME NEW f \in STRING, NEW a \in Nat, NEW n \in Nat
    PROVE  /\ Bytes(f, a, n) \in Seq(FileByte) /\ Len(Bytes(f, a, n)) = n
           /\ \A i \in 1..n : Bytes(f, a, n)[i] = <<f, a + i>>
  <1>1. ASSUME NEW i \in 1..n PROVE <<f, a + i>> \in FileByte
    <2>1. a + i \in Nat
      OBVIOUS
    <2> QED BY <2>1, Zenon DEF FileByte
  <1>2. Bytes(f, a, n) \in [1..n -> FileByte]
    BY <1>1, Zenon DEF Bytes
  <1>3. \A i \in 1..n : Bytes(f, a, n)[i] = <<f, a + i>>
    BY Zenon DEF Bytes
  <1> DEFINE s == Bytes(f, a, n)
  <1>4. s \in [1..n -> FileByte]
    BY <1>2
  <1> HIDE DEF s
  <1>5. s \in Seq(FileByte) /\ Len(s) = n
    BY <1>4
  <1> QED BY <1>3, <1>5 DEF s

LEMMA BytesJoin ==
    ASSUME NEW f \in STRING, NEW a \in Nat, NEW n \in Nat, NEW k \in Nat
    PROVE  Bytes(f, a, n) \o Bytes(f, a + n, k) = Bytes(f, a, n + k)
  <1> DEFINE s == Bytes(f, a, n)
             t == Bytes(f, a + n, k)
             u == Bytes(f, a, n + k)
  <1>0. a + n \in Nat /\ n + k \in Nat
    OBVIOUS
  <1>1. /\ s \in Seq(FileByte) /\ Len(s) = n
        /\ t \in Seq(FileByte) /\ Len(t) = k
        /\ u \in Seq(FileByte) /\ Len(u) = n + k
        /\ \A i \in 1..n : s[i] = <<f, a + i>>
        /\ \A i \in 1..k : t[i] = <<f, a + n + i>>
        /\ \A i \in 1..n + k : u[i] = <<f, a + i>>
    BY <1>0, BytesShape
  <1> HIDE DEF s, t, u
  <1>2. s \o t \in Seq(FileByte) /\ Len(s \o t) = n + k
    BY <1>1, ConcatProperties
  <1>3. \A i \in 1..n + k : (s \o t)[i] = u[i]
    <2> TAKE i \in 1..n + k
    <2>1. (s \o t)[i] = IF i <= n THEN s[i] ELSE t[i - n]
      BY <1>1, ConcatProperties
    <2>2. u[i] = <<f, a + i>>
      BY <1>1, Zenon
    <2>3. CASE i <= n
      <3>1. i \in 1..n
        BY <2>3
      <3>2. s[i] = <<f, a + i>>
        BY <1>1, <3>1, Zenon
      <3> QED BY <2>1, <2>2, <2>3, <3>2
    <2>4. CASE i > n
      <3>1. i - n \in 1..k /\ a + n + (i - n) = a + i /\ ~(i <= n)
        BY <2>4
      <3>2. t[i - n] = <<f, a + n + (i - n)>>
        BY <1>1, <3>1, Zenon
      <3> QED BY <2>1, <2>2, <3>1, <3>2, Zenon
    <2>5. i <= n \/ i > n
      OBVIOUS
    <2> QED BY <2>3, <2>4, <2>5, Zenon
  <1>4. s \o t = u
    BY <1>1, <1>2, <1>3, SeqEqual
  <1> QED BY <1>4 DEF s, t, u

LEMMA DataShape ==
    ASSUME NEW s \in Seq(Frames), NEW p \in DataOf(s)
    PROVE  /\ p \in Datas /\ p.kind = "DATA" /\ p.seq \in 0..MaxSeq
           /\ p.payload \in Seq(FileByte) /\ p.first \in BOOLEAN /\ p.last \in BOOLEAN
  <1>1. PICK i \in 1..Len(s) : p = s[i] /\ IsData(s[i])
    BY DEF DataOf
  <1>2. p \in Frames /\ p.kind = "DATA"
    BY <1>1 DEF IsData
  <1>3. p \notin Controls
    BY <1>2 DEF Controls
  <1>4. p \in Datas
    BY <1>2, <1>3 DEF Frames
  <1> QED BY <1>2, <1>4 DEF Datas

\* A frame is lost, or arrives.
LEMMA TailAir ==
    ASSUME NEW s \in Seq(Frames), s # <<>>
    PROVE  /\ Tail(s) \in Seq(Frames) /\ Head(s) \in Frames
           /\ DataOf(Tail(s)) \subseteq DataOf(s)
           /\ Rising(s) => Rising(Tail(s))
           /\ IsData(Head(s)) =>
                 /\ Head(s) \in DataOf(s)
                 /\ Rising(s) => \A q \in DataOf(Tail(s)) : Head(s).seq <= q.seq
  <1> DEFINE t == Tail(s)
  <1>1. /\ t \in Seq(Frames) /\ Len(t) = Len(s) - 1 /\ Len(s) \in Nat /\ Len(s) > 0
        /\ \A i \in 1..Len(t) : t[i] = s[i + 1]
        /\ Head(s) = s[1] /\ s[1] \in Frames
    BY HeadTailProperties, EmptySeq
  <1> HIDE DEF t
  <1>2. \A i \in 1..Len(t) : i + 1 \in 1..Len(s)
    BY <1>1
  <1>3. DataOf(t) \subseteq DataOf(s)
    <2> SUFFICES ASSUME NEW q \in DataOf(t) PROVE q \in DataOf(s)
      OBVIOUS
    <2>1. PICK i \in 1..Len(t) : q = t[i] /\ IsData(t[i])
      BY DEF DataOf
    <2> QED BY <1>1, <1>2, <2>1 DEF DataOf
  <1>4. Rising(s) => Rising(t)
    <2> SUFFICES ASSUME Rising(s), NEW i \in 1..Len(t), NEW j \in 1..Len(t), i < j,
                        IsData(t[i]), IsData(t[j])
                 PROVE  t[i].seq <= t[j].seq
      BY DEF Rising
    <2>1. i + 1 < j + 1 /\ i + 1 \in 1..Len(s) /\ j + 1 \in 1..Len(s)
      BY <1>2
    <2> QED BY <1>1, <2>1 DEF Rising
  <1>5. ASSUME IsData(s[1]) PROVE /\ s[1] \in DataOf(s)
                                  /\ Rising(s) => \A q \in DataOf(t) : s[1].seq <= q.seq
    <2>1. 1 \in 1..Len(s)
      BY <1>1
    <2>2. s[1] \in DataOf(s)
      BY <1>5, <2>1 DEF DataOf
    <2>3. ASSUME Rising(s), NEW q \in DataOf(t) PROVE s[1].seq <= q.seq
      <3>1. PICK i \in 1..Len(t) : q = t[i] /\ IsData(t[i])
        BY DEF DataOf
      <3>2. q = s[i + 1] /\ i + 1 \in 1..Len(s) /\ 1 < i + 1
        BY <1>1, <1>2, <3>1
      <3> QED BY <1>5, <2>1, <2>3, <3>1, <3>2 DEF Rising
    <2> QED BY <2>2, <2>3
  <1> QED BY <1>1, <1>3, <1>4, <1>5 DEF t

\* The first frame is repeated.
LEMMA RepeatedAir ==
    ASSUME NEW s \in Seq(Frames), s # <<>>
    PROVE  /\ <<Head(s)>> \o s \in Seq(Frames)
           /\ DataOf(<<Head(s)>> \o s) \subseteq DataOf(s)
           /\ Rising(s) => Rising(<<Head(s)>> \o s)
  <1> DEFINE t == <<Head(s)>> \o s
  <1>1. Len(s) \in Nat /\ Len(s) > 0 /\ Head(s) = s[1] /\ s[1] \in Frames
    BY EmptySeq, HeadTailProperties
  <1>2. <<Head(s)>> \in Seq(Frames) /\ Len(<<Head(s)>>) = 1 /\ <<Head(s)>>[1] = s[1]
    BY <1>1
  <1>3. /\ t \in Seq(Frames) /\ Len(t) = 1 + Len(s)
        /\ \A i \in 1..1 + Len(s) : t[i] = IF i <= 1 THEN <<Head(s)>>[i] ELSE s[i - 1]
    BY <1>2, ConcatProperties
  <1> HIDE DEF t
  <1> DEFINE place(i) == IF i = 1 THEN 1 ELSE i - 1
  <1>4. \A i \in 1..Len(t) : place(i) \in 1..Len(s) /\ t[i] = s[place(i)]
    BY <1>1, <1>2, <1>3
  <1>5. \A i, j \in 1..Len(t) : i < j => place(i) < place(j) \/ place(i) = place(j)
    BY <1>3
  <1> HIDE DEF place
  <1>6. DataOf(t) \subseteq DataOf(s)
    <2> SUFFICES ASSUME NEW q \in DataOf(t) PROVE q \in DataOf(s)
      OBVIOUS
    <2>1. PICK i \in 1..Len(t) : q = t[i] /\ IsData(t[i])
      BY DEF DataOf
    <2>2. place(i) \in 1..Len(s) /\ q = s[place(i)] /\ IsData(s[place(i)])
      BY <1>4, <2>1
    <2> QED BY <2>2 DEF DataOf
  <1>7. Rising(s) => Rising(t)
    <2> SUFFICES ASSUME Rising(s), NEW i \in 1..Len(t), NEW j \in 1..Len(t), i < j,
                        IsData(t[i]), IsData(t[j])
                 PROVE  t[i].seq <= t[j].seq
      BY DEF Rising
    <2>1. /\ place(i) \in 1..Len(s) /\ t[i] = s[place(i)]
          /\ place(j) \in 1..Len(s) /\ t[j] = s[place(j)]
      BY <1>4
    <2>2. CASE place(i) < place(j)
      BY <2>1, <2>2 DEF Rising
    <2>3. CASE place(i) = place(j)
      <3>1. t[i] \in DataOf(t)
        BY DEF DataOf
      <3>2. t[i].seq \in 0..MaxSeq
        BY <1>3, <3>1, DataShape
      <3> QED BY <2>1, <2>3, <3>2
    <2> QED BY <1>5, <2>2, <2>3
  <1> QED BY <1>3, <1>6, <1>7 DEF t

\* A frame is put on the air.
LEMMA AppendAir ==
    ASSUME NEW s \in Seq(Frames), NEW x \in Frames
    PROVE  /\ Append(s, x) \in Seq(Frames)
           /\ DataOf(Append(s, x)) \subseteq DataOf(s) \cup {x}
           /\ ~IsData(x) => DataOf(Append(s, x)) \subseteq DataOf(s)
           /\ Rising(s) /\ (IsData(x) => \A q \in DataOf(s) : q.seq <= x.seq) =>
                 Rising(Append(s, x))
  <1> DEFINE t == Append(s, x)
  <1>1. /\ t \in Seq(Frames) /\ Len(t) = Len(s) + 1 /\ Len(s) \in Nat
        /\ \A i \in 1..Len(s) : t[i] = s[i]
        /\ t[Len(s) + 1] = x
    BY AppendProperties
  <1> HIDE DEF t
  <1>2. \A i \in 1..Len(t) : i \in 1..Len(s) \/ i = Len(s) + 1
    BY <1>1
  <1>3. ASSUME NEW q \in DataOf(t) PROVE q \in DataOf(s) \/ (q = x /\ IsData(x))
    <2>1. PICK i \in 1..Len(t) : q = t[i] /\ IsData(t[i])
      BY DEF DataOf
    <2> QED BY <1>1, <1>2, <2>1 DEF DataOf
  <1>4. ASSUME Rising(s), IsData(x) => \A q \in DataOf(s) : q.seq <= x.seq PROVE Rising(t)
    <2> SUFFICES ASSUME NEW i \in 1..Len(t), NEW j \in 1..Len(t), i < j,
                        IsData(t[i]), IsData(t[j])
                 PROVE  t[i].seq <= t[j].seq
      BY DEF Rising
    <2>1. i \in 1..Len(s)
      BY <1>1, <1>2
    <2>2. CASE j \in 1..Len(s)
      BY <1>1, <1>4, <2>1, <2>2 DEF Rising
    <2>3. CASE j = Len(s) + 1
      <3>1. s[i] \in DataOf(s)
        BY <1>1, <2>1 DEF DataOf
      <3> QED BY <1>1, <1>4, <2>1, <2>3, <3>1
    <2> QED BY <1>2, <2>2, <2>3
  <1> QED BY <1>1, <1>3, <1>4 DEF t

-----------------------------------------------------------------------------
(* The segmenter.                                                          *)

LEMMA FileShape ==
    ASSUME LegacyAssumption, stream \in 1..Len(Streams)
    PROVE  Streams[stream] \in STRING /\ Size[Streams[stream]] \in Nat
           /\ Streams[stream] \in Range(Streams)
  <1>1. stream \in DOMAIN Streams /\ Streams \in Seq(STRING)
    BY DEF LegacyAssumption
  <1>2. Streams[stream] \in Range(Streams)
    BY <1>1 DEF Range
  <1> QED BY <1>1, <1>2 DEF LegacyAssumption

\* Where a piece stands is told by its first byte.
LEMMA AtShape ==
    ASSUME NEW f \in STRING, NEW a \in Nat, NEW n \in Nat, n > 0, NEW p \in Datas,
           p.payload = Bytes(f, a, n)
    PROVE  At(p) = a /\ End(p) = a + n /\ Len(p.payload) = n
  <1> DEFINE s == Bytes(f, a, n)
  <1>1. Len(s) = n /\ s[1] = <<f, a + 1>>
    <2>1. 1 \in 1..n
      OBVIOUS
    <2>2. Len(s) = n /\ \A i \in 1..n : s[i] = <<f, a + i>>
      BY BytesShape
    <2> HIDE DEF s
    <2> QED BY <2>1, <2>2, Zenon
  <1>2. p.payload = s
    OBVIOUS
  <1> HIDE DEF s
  <1>3. p.payload[1][2] = a + 1
    BY <1>1, <1>2
  <1> QED BY <1>1, <1>2, <1>3 DEF At, End

\* What a read returns is the bytes behind those that were returned before.
LEMMA ReadsShape ==
    ASSUME NEW f \in STRING, Size[f] \in Nat, NEW at \in Nat, LegacyAssumption,
           NEW r \in Reads(f, at), Honest(f, at, r)
    PROVE  \E k \in Nat :
              /\ r.data = Bytes(f, at, k) /\ Len(r.data) = k /\ at + k <= Size[f]
              /\ r.data \in Seq(FileByte)
              /\ r.state \in {"more", "end", "error"}
              /\ r.state = "more" => k > 0
              /\ r.state = "end" => at + k = Size[f]
  <1>1. PICK k \in {i \in 0..LegacyCap : at + i <= Size[f]}, s \in {"more", "end", "error"} :
            r = [data |-> Bytes(f, at, k), state |-> s]
    BY DEF Reads
  <1>2. k \in Nat /\ at + k <= Size[f]
    BY DEF LegacyAssumption
  <1> DEFINE d == Bytes(f, at, k)
  <1>3. d \in Seq(FileByte) /\ Len(d) = k
    BY <1>2, BytesShape
  <1>4. r.data = d /\ r.state = s
    BY <1>1
  <1> HIDE DEF d
  <1>5. (r.state = "more" => r.data # <<>>) /\ (r.state = "end" => at + Len(r.data) = Size[f])
    BY DEF Honest
  <1>6. d # <<>> => k > 0
    BY <1>2, <1>3
  <1> QED BY <1>2, <1>3, <1>4, <1>5, <1>6 DEF d

\* The segmenter breaks off.
Breaks ==
    /\ segmenter' = BrokenOff /\ air' = Append(air, Control("STOP", stream))
    /\ UNCHANGED stream

\* The segmenter cuts off packet p and is g then.
Cuts(p, g) ==
    /\ segmenter' = g /\ air' = Append(air, p) /\ UNCHANGED stream
    /\ p.kind = "DATA" /\ p.seq = segmenter.next
    /\ p.payload # <<>>
    /\ p.payload = Bytes(Streams[stream], Cursor, Len(p.payload))
    /\ Cursor + Len(p.payload) <= Size[Streams[stream]]
    /\ p.last => Cursor + Len(p.payload) = Size[Streams[stream]]
    /\ p.first <=> p.seq = 0
    /\ g.next = segmenter.next + 1
    /\ returned' = Cursor + Len(p.payload) + Len(g.pending)
    /\ returned' <= Size[Streams[stream]]
    /\ g.pending = Bytes(Streams[stream], Cursor + Len(p.payload), Len(g.pending))
    /\ g.pending # <<>> /\ g.atEnd => returned' = Size[Streams[stream]]

LEMMA SegmentShape ==
    ASSUME LegacyAssumption, LegacyTypes, Segmenting, Segment
    PROVE  /\ ~segmenter.finished /\ segmenter.next <= MaxSeq /\ returned' \in Nat
           /\ Breaks \/ \E p \in Datas, g \in SegmenterType : Cuts(p, g)
  <1> DEFINE f == Streams[stream]
             c == Cursor
             S == Size[f]
  <1>0. /\ ~segmenter.finished /\ segmenter.next <= MaxSeq /\ stream \in 1..Len(Streams)
        /\ UNCHANGED stream
    BY DEF Segment, Segmenting, LegacyTypes
  <1>1. /\ segmenter \in SegmenterType /\ segmenter.next \in 0..MaxSeq + 1
        /\ segmenter.pending \in Seq(FileByte) /\ Len(segmenter.pending) \in Nat
        /\ segmenter.atEnd \in BOOLEAN /\ returned \in Nat /\ MaxSeq \in Nat
    BY DEF LegacyTypes, SegmenterType, LegacyAssumption
  <1>2. f \in STRING /\ S \in Nat
    BY <1>0, FileShape
  <1>3. /\ returned <= S /\ Len(segmenter.pending) <= returned
        /\ segmenter.pending = Bytes(f, c, Len(segmenter.pending))
        /\ segmenter.pending # <<>> /\ segmenter.atEnd => returned = S
    BY <1>0 DEF Segmenting
  <1>4. c \in Nat /\ c = returned - Len(segmenter.pending)
    BY <1>1, <1>3 DEF Cursor
  <1>5. PICK r \in FirstRead(f) : \E l \in SecondRead(f, r) :
          /\ returned' = returned + (IF Ahead THEN 0 ELSE Len(r.data)) + Len(l.data)
          /\ IF Broken(r, l) \/ r.data = <<>>
             THEN /\ segmenter' = BrokenOff
                  /\ air' = Append(air, Control("STOP", stream))
             ELSE /\ segmenter' = [next |-> segmenter.next + 1, pending |-> l.data,
                                   atEnd |-> l.state = "end",
                                   finished |-> IsLast(r, l)]
                  /\ air' = Append(air, Data(segmenter.next, r.data,
                                             segmenter.next = 0, IsLast(r, l)))
    BY Zenon DEF Segment
  <1>6. PICK l \in SecondRead(f, r) :
          /\ returned' = returned + (IF Ahead THEN 0 ELSE Len(r.data)) + Len(l.data)
          /\ IF Broken(r, l) \/ r.data = <<>>
             THEN /\ segmenter' = BrokenOff
                  /\ air' = Append(air, Control("STOP", stream))
             ELSE /\ segmenter' = [next |-> segmenter.next + 1, pending |-> l.data,
                                   atEnd |-> l.state = "end",
                                   finished |-> IsLast(r, l)]
                  /\ air' = Append(air, Data(segmenter.next, r.data,
                                             segmenter.next = 0, IsLast(r, l)))
    BY <1>5, Zenon
  <1> DEFINE read == IF Ahead THEN returned ELSE returned + Len(r.data)
  <1> HIDE DEF f, S, c
  <1>7. PICK n \in Nat :
           /\ r.data = Bytes(f, c, n) /\ Len(r.data) = n /\ c + n <= S
           /\ r.data \in Seq(FileByte)
           /\ r.state \in {"more", "end", "error"}
           /\ r.state = "end" => c + n = S
           /\ read = c + n
    <2>1. CASE Ahead
      <3>1. r = [data |-> segmenter.pending,
                 state |-> IF segmenter.atEnd THEN "end" ELSE "more"]
        BY <2>1 DEF FirstRead
      <3>2. r.data = segmenter.pending /\ r.state = IF segmenter.atEnd THEN "end" ELSE "more"
        BY <3>1
      <3>3. segmenter.pending # <<>>
        BY <2>1 DEF Ahead
      <3>4. c + Len(segmenter.pending) = returned /\ read = returned
        BY <1>1, <1>4, <2>1
      <3> QED BY <1>1, <1>2, <1>3, <1>4, <3>2, <3>3, <3>4
    <2>2. CASE ~Ahead
      <3>1. r \in Reads(f, returned) /\ Honest(f, returned, r)
        BY <2>2 DEF FirstRead
      <3>2. c = returned
        BY <1>1, <1>4, <2>2 DEF Ahead
      <3>3. PICK k \in Nat :
              /\ r.data = Bytes(f, returned, k) /\ Len(r.data) = k /\ returned + k <= S
              /\ r.data \in Seq(FileByte)
              /\ r.state \in {"more", "end", "error"}
              /\ r.state = "end" => returned + k = S
        BY <1>1, <1>2, <3>1, ReadsShape DEF S
      <3>4. read = returned + k
        BY <2>2, <3>3
      <3> QED BY <3>2, <3>3, <3>4
    <2> QED BY <2>1, <2>2
  <1>8. returned' = read + Len(l.data)
    <2>1. Len(r.data) \in Nat
      BY <1>7
    <2> QED BY <1>1, <1>6, <2>1
  <1> HIDE DEF read
  <1>9. CASE Broken(r, l) \/ r.data = <<>>
    <2>1. Breaks
      BY <1>0, <1>6, <1>9, Zenon DEF Breaks
    <2>2. Len(l.data) \in Nat
      <3>1. CASE r.state = "more"
        <4>1. l \in Reads(f, c + n) /\ Honest(f, c + n, l) /\ c + n \in Nat
          BY <1>4, <1>7, <3>1 DEF SecondRead, read
        <4> QED BY <1>2, <4>1, ReadsShape DEF S
      <3>2. CASE r.state # "more"
        BY <3>2 DEF SecondRead
      <3> QED BY <3>1, <3>2
    <2>3. returned' \in Nat
      BY <1>4, <1>7, <1>8, <2>2, SMTT(30)
    <2> QED BY <1>0, <2>1, <2>3
  <1>10. CASE ~(Broken(r, l) \/ r.data = <<>>)
    <2>0. r.state \in {"more", "end"} /\ l.state # "error" /\ r.data # <<>>
      BY <1>7, <1>10 DEF Broken
    <2>1. PICK k \in Nat :
             /\ l.data = Bytes(f, c + n, k) /\ Len(l.data) = k /\ c + n + k <= S
             /\ l.data \in Seq(FileByte)
             /\ l.state \in {"more", "end"}
             /\ IsLast(r, l) => c + n = S
             /\ l.data # <<>> /\ l.state = "end" => c + n + k = S
      <3>0. c + n \in Nat
        BY <1>4, <1>7
      <3>1. CASE r.state = "more"
        <4>1. l \in Reads(f, c + n) /\ Honest(f, c + n, l)
          BY <1>7, <3>1 DEF SecondRead, read
        <4>2. PICK k \in Nat :
                /\ l.data = Bytes(f, c + n, k) /\ Len(l.data) = k /\ c + n + k <= Size[f]
                /\ l.data \in Seq(FileByte)
                /\ l.state \in {"more", "end", "error"}
                /\ l.state = "more" => k > 0
                /\ l.state = "end" => c + n + k = Size[f]
          BY <1>2, <3>0, <4>1, ReadsShape DEF S
        <4>3. IsLast(r, l) => l.data = <<>>
          BY <3>1 DEF IsLast
        <4>4. l.data = <<>> => k = 0
          BY <4>2
        <4>5. IsLast(r, l) => c + n = S
          BY <2>0, <3>0, <4>2, <4>3, <4>4 DEF S
        <4> QED BY <2>0, <4>2, <4>5 DEF S
      <3>2. CASE r.state # "more"
        <4>1. l = [data |-> <<>>, state |-> "end"]
          BY <3>2 DEF SecondRead
        <4>2. l.data = <<>> /\ l.state = "end"
          BY <4>1
        <4>3. Bytes(f, c + n, 0) = <<>>
          <5> DEFINE b == Bytes(f, c + n, 0)
          <5>1. b \in Seq(FileByte) /\ Len(b) = 0
            BY <1>2, <3>0, BytesShape
          <5> HIDE DEF b
          <5>2. b = <<>>
            BY <5>1, EmptySeq
          <5> QED BY <5>2 DEF b
        <4>4. c + n = S /\ c + n + 0 = S
          BY <1>2, <1>7, <2>0, <3>0, <3>2
        <4>5. <<>> \in Seq(FileByte) /\ Len(<<>>) = 0
          OBVIOUS
        <4> QED BY <1>2, <4>2, <4>3, <4>4, <4>5
      <3> QED BY <3>1, <3>2
    <2> DEFINE first == segmenter.next = 0
               last == IsLast(r, l)
               ends == l.state = "end"
               p == Data(segmenter.next, r.data, first, last)
               g == [next |-> segmenter.next + 1, pending |-> l.data, atEnd |-> ends,
                     finished |-> last]
    <2>2. first \in BOOLEAN /\ last \in BOOLEAN /\ ends \in BOOLEAN
      BY DEF IsLast
    <2>3. segmenter' = g /\ air' = Append(air, p)
      BY <1>6, <1>10, Zenon
    <2>4. (last => c + n = S) /\ (l.data # <<>> /\ ends => c + n + k = S)
          /\ (first <=> segmenter.next = 0)
      BY <2>1
    <2> HIDE DEF first, last, ends
    <2>5. segmenter.next \in 0..MaxSeq /\ segmenter.next + 1 \in 0..MaxSeq + 1
      BY <1>0, <1>1
    <2>6. /\ p \in Datas /\ p.kind = "DATA" /\ p.seq = segmenter.next /\ p.payload = r.data
          /\ p.first = first /\ p.last = last
      BY <1>7, <2>2, <2>5 DEF Data, Datas
    <2>7. /\ g \in SegmenterType /\ g.next = segmenter.next + 1 /\ g.pending = l.data
          /\ g.atEnd = ends
      BY <2>1, <2>2, <2>5 DEF SegmenterType
    <2> HIDE DEF p, g
    <2>8. returned' = c + n + k
      BY <1>7, <1>8, <2>1
    <2>9. returned' \in Nat /\ c + n \in Nat
      BY <1>4, <1>7, <2>1, <2>8
    <2>10. Cuts(p, g)
      BY <1>0, <1>7, <2>0, <2>1, <2>3, <2>4, <2>6, <2>7, <2>8 DEF Cuts, f, S, c
    <2> QED BY <1>0, <2>6, <2>7, <2>9, <2>10
  <1> QED BY <1>9, <1>10

-----------------------------------------------------------------------------
(* The receiver.                                                           *)

IsActive(r) == r.state \in {"AwaitingFirst", "Receiving"}

\* Nothing happens; a receive ends without a file; one begins; packet p is written;
\* with it, a file is published.
Unmoved == UNCHANGED <<rx, partial, published>>

Concluded ==
    /\ rx' \in ReceiverType /\ ~IsActive(rx') /\ UNCHANGED published
    /\ ~rx'.present => partial' = Absent
    /\ rx'.present => rx'.cleanupFailed \/ rx'.failure = "CleanupFailed"

Opened ==
    /\ rx' \in ReceiverType /\ rx'.state = "AwaitingFirst" /\ rx'.expected = 0
    /\ rx'.present /\ partial' = <<>> /\ UNCHANGED published

Expects(p) ==
    /\ Active
    /\ rx.state = "AwaitingFirst" => p.seq = 0
    /\ rx.state = "Receiving" => p.seq = rx.expected

Written(p) ==
    /\ Expects(p)
    /\ rx' \in ReceiverType /\ rx'.state = "Receiving" /\ rx'.expected = p.seq + 1
    /\ rx'.present = rx.present
    /\ partial' = partial \o p.payload /\ UNCHANGED published

Finished(p) ==
    /\ Expects(p) /\ p.last
    /\ rx' \in ReceiverType /\ ~IsActive(rx') /\ ~rx'.present
    /\ partial' = Absent /\ published' = Append(published, partial \o p.payload)

\* A partial file is cleaned up, or known of.
LEMMA CleanedShape ==
    ASSUME NEW r \in ReceiverType, NEW ok \in Outcomes, NEW before, NEW after,
           ~r.present => before = Absent,
           after = IF r.present /\ ok[2] THEN Absent ELSE before
    PROVE  LET c == Cleaned(r, ok)
           IN  /\ c \in ReceiverType /\ c.state = r.state /\ c.failure = r.failure
               /\ ~c.present => after = Absent
               /\ c.present => c.cleanupFailed
               /\ c.present <=> r.present /\ ~ok[2]
  <1> DEFINE present == r.present /\ ~ok[2]
             cleanup == ~(ok[1] /\ ok[2])
             c == [r EXCEPT !.open = FALSE, !.present = present, !.cleanupFailed = cleanup]
  <1>1. ok[1] \in BOOLEAN /\ ok[2] \in BOOLEAN /\ r.present \in BOOLEAN
    BY DEF Outcomes, ReceiverType
  <1>2. present \in BOOLEAN /\ cleanup \in BOOLEAN
    OBVIOUS
  <1>3. /\ present => cleanup
        /\ ~present => after = Absent
        /\ present <=> r.present /\ ~ok[2]
    BY <1>1
  <1>4. Cleaned(r, ok) = c
    BY DEF Cleaned
  <1> HIDE DEF present, cleanup
  <1>5. /\ c \in ReceiverType /\ c.state = r.state /\ c.failure = r.failure
        /\ c.present = present /\ c.cleanupFailed = cleanup
    BY <1>2 DEF ReceiverType
  <1> QED BY <1>3, <1>4, <1>5

LEMMA FailsShape ==
    ASSUME Stored, NEW r \in ReceiverType, NEW why \in Failures, NEW n,
           r.present = rx.present, FailsAfter(r, why, n)
    PROVE  Concluded
  <1> DEFINE failed == [r EXCEPT !.state = "Failed", !.failure = why]
  <1>1. PICK ok \in Outcomes : CleansUp(failed, n, ok) /\ rx' = Cleaned(failed, ok)
    BY DEF FailsAfter
  <1>2. failed \in ReceiverType /\ failed.present = rx.present /\ failed.state = "Failed"
    BY DEF ReceiverType, RxStates
  <1>3. partial' = IF failed.present /\ ok[2] THEN Absent ELSE partial
    BY <1>1 DEF CleansUp, RemovedPartial
  <1>4. UNCHANGED published
    BY DEF FailsAfter
  <1> HIDE DEF failed
  <1>5. ~failed.present => partial = Absent
    BY <1>2 DEF Stored
  <1>6. LET c == Cleaned(failed, ok)
        IN  /\ c \in ReceiverType /\ c.state = failed.state
            /\ ~c.present => partial' = Absent
            /\ c.present => c.cleanupFailed
    BY <1>2, <1>3, <1>5, CleanedShape, Zenon
  <1> QED BY <1>1, <1>2, <1>4, <1>6 DEF Concluded, IsActive

LEMMA NoTransferType ==
    ASSUME LegacyAssumption
    PROVE  NoTransfer \in ReceiverType
  <1>1. 0 \in 0..MaxSeq + 1
    BY DEF LegacyAssumption
  <1> QED BY <1>1 DEF NoTransfer, ReceiverType, RxStates, Failures

LEMMA StopShape ==
    ASSUME LegacyTypes, Stored, NEW id, Stop(id)
    PROVE  Unmoved \/ Concluded
  <1>1. CASE Active /\ Fail("Cancelled")
    <2>1. rx \in ReceiverType /\ "Cancelled" \in Failures
      BY DEF LegacyTypes, Failures
    <2> QED BY <1>1, <2>1, FailsShape DEF Fail
  <1> QED BY <1>1 DEF Stop, Keeps, Unmoved

LEMMA PreparesShape ==
    ASSUME LegacyAssumption, NEW id \in Nat, Prepares(id), UNCHANGED published
    PROVE  Concluded \/ Opened
  <1>0. NoTransfer \in ReceiverType /\ NoTransfer.expected = 0
    BY NoTransferType DEF NoTransfer
  <1>1. CASE /\ rx' = [NoTransfer EXCEPT !.state = "AwaitingFirst", !.stream = id,
                                         !.open = TRUE, !.present = TRUE]
             /\ partial' = <<>>
    <2>1. /\ rx' \in ReceiverType /\ rx'.state = "AwaitingFirst" /\ rx'.expected = 0
          /\ rx'.present
      BY <1>0, <1>1 DEF ReceiverType, RxStates
    <2> QED BY <1>1, <2>1 DEF Opened
  <1>2. CASE /\ rx' = [NoTransfer EXCEPT !.state = "Failed", !.failure = "OpenFailed"]
             /\ partial' = Absent
    <2>1. rx' \in ReceiverType /\ rx'.state = "Failed" /\ rx'.present = NoTransfer.present
      BY <1>0, <1>2 DEF ReceiverType, RxStates, Failures
    <2> QED BY <1>2, <2>1 DEF Concluded, IsActive, NoTransfer
  <1>3. CASE /\ rx' = [NoTransfer EXCEPT !.state = "Failed", !.failure = "CleanupFailed",
                                         !.present = TRUE]
             /\ partial' = <<>>
    <2>1. rx' \in ReceiverType /\ rx'.state = "Failed" /\ rx'.present
          /\ rx'.failure = "CleanupFailed"
      BY <1>0, <1>3 DEF ReceiverType, RxStates, Failures
    <2> QED BY <1>3, <2>1 DEF Concluded, IsActive
  <1> QED BY <1>1, <1>2, <1>3 DEF Prepares

LEMMA StartShape ==
    ASSUME LegacyAssumption, LegacyTypes, Stored, NEW id \in Nat, Start(id)
    PROVE  Unmoved \/ Concluded \/ Opened
  <1>0. rx \in ReceiverType
    BY DEF LegacyTypes
  <1>1. CASE Active /\ Keeps
    BY <1>1 DEF Keeps, Unmoved
  <1>2. CASE Prepares(id) /\ UNCHANGED published
    BY <1>2, PreparesShape
  <1>3. CASE /\ rx' = [Cleaned(rx, <<TRUE, FALSE>>) EXCEPT !.state = "Failed",
                          !.failure = "CleanupFailed"]
             /\ UNCHANGED <<partial, published>>
    <2> DEFINE c == Cleaned(rx, <<TRUE, FALSE>>)
    <2>1. <<TRUE, FALSE>> \in Outcomes /\ <<TRUE, FALSE>>[2] = FALSE
      BY DEF Outcomes
    <2>2. c \in ReceiverType /\ (c.present <=> rx.present)
      BY <1>0, <2>1, CleanedShape DEF Stored
    <2> HIDE DEF c
    <2>3. /\ rx' \in ReceiverType /\ rx'.state = "Failed" /\ rx'.failure = "CleanupFailed"
          /\ rx'.present = c.present
      BY <1>3, <2>2 DEF c, ReceiverType, RxStates, Failures
    <2> QED BY <1>3, <2>2, <2>3 DEF Concluded, IsActive, Stored
  <1> QED BY <1>1, <1>2, <1>3 DEF Start

\* What a packet does to the receiver.
LEMMA AcceptShape ==
    ASSUME LegacyAssumption, LegacyTypes, Stored, NEW p \in Datas, AcceptData(p)
    PROVE  Unmoved \/ Concluded \/ Written(p) \/ Finished(p)
  <1>0. /\ rx \in ReceiverType /\ rx.expected \in 0..MaxSeq + 1 /\ p.seq \in 0..MaxSeq
        /\ p.seq + 1 \in 0..MaxSeq + 1 /\ p.last \in BOOLEAN
    BY SMTT(30) DEF LegacyTypes, ReceiverType, Datas, LegacyAssumption
  <1>1. CASE Keeps
    BY <1>1 DEF Keeps, Unmoved
  <1>2. CASE Active /\ Fail(Refusal(p)) /\ Refusal(p) # "None"
    <2>1. Refusal(p) \in Failures
      BY DEF Refusal, Failures
    <2> QED BY <1>0, <1>2, <2>1, FailsShape DEF Fail
  <1>3. CASE Fail("SequenceLimit")
    <2>1. "SequenceLimit" \in Failures
      BY DEF Failures
    <2> QED BY <1>0, <1>3, <2>1, FailsShape DEF Fail
  <1>4. ASSUME Active, ~IsOldPacket(p), Refusal(p) = "None" PROVE Expects(p)
    <2>1. CASE rx.state = "AwaitingFirst"
      BY <1>4, <2>1 DEF Refusal, Expects
    <2>2. CASE rx.state = "Receiving"
      <3>1. ~(p.seq > rx.expected) /\ ~(p.seq < rx.expected)
        BY <1>4, <2>2 DEF Refusal, Skips, IsOldPacket
      <3>2. p.seq = rx.expected
        BY <1>0, <3>1
      <3> QED BY <1>4, <2>2, <3>2 DEF Expects
    <2> QED BY <1>4, <2>1, <2>2 DEF Active
  <1>5. CASE Active /\ ~IsOldPacket(p) /\ Refusal(p) = "None" /\ FailsAfter(rx, "WriteFailed", 1)
    <2>1. "WriteFailed" \in Failures
      BY DEF Failures
    <2> QED BY <1>0, <1>5, <2>1, FailsShape
  <1>6. CASE /\ Active /\ ~IsOldPacket(p) /\ Refusal(p) = "None"
             /\ rx' = [rx EXCEPT !.state = "Receiving", !.expected = p.seq + 1]
             /\ partial' = partial \o p.payload
             /\ UNCHANGED published
    <2>1. /\ rx' \in ReceiverType /\ rx'.state = "Receiving" /\ rx'.expected = p.seq + 1
          /\ rx'.present = rx.present
      BY <1>0, <1>6 DEF ReceiverType, RxStates
    <2> QED BY <1>4, <1>6, <2>1 DEF Written
  <1>7. CASE /\ Active /\ ~IsOldPacket(p) /\ Refusal(p) = "None" /\ p.last
             /\ Publishes([rx EXCEPT !.expected = p.seq + 1], partial \o p.payload)
    <2> DEFINE r == [rx EXCEPT !.expected = p.seq + 1]
    <2>1. r \in ReceiverType /\ r.present = rx.present
      BY <1>0 DEF ReceiverType
    <2> HIDE DEF r
    <2>2. CASE /\ rx' = [r EXCEPT !.state = "Completed", !.present = FALSE, !.open = FALSE]
               /\ partial' = Absent
               /\ published' = Append(published, partial \o p.payload)
      <3>1. rx' \in ReceiverType /\ rx'.state = "Completed" /\ ~rx'.present
        BY <2>1, <2>2 DEF ReceiverType, RxStates
      <3> QED BY <1>4, <1>7, <2>2, <3>1 DEF Finished, IsActive
    <2>3. ASSUME NEW why \in {"CloseFailed", "PublicationFailed"},
                 FailsAfter([r EXCEPT !.open = FALSE], why, 1)
          PROVE  Concluded
      <3>1. /\ [r EXCEPT !.open = FALSE] \in ReceiverType
            /\ [r EXCEPT !.open = FALSE].present = rx.present
        BY <2>1 DEF ReceiverType
      <3>2. why \in Failures
        BY DEF Failures
      <3> QED BY <2>3, <3>1, <3>2, FailsShape
    <2> QED BY <1>7, <2>2, <2>3 DEF Publishes, r
  <1> QED BY <1>1, <1>2, <1>3, <1>5, <1>6, <1>7 DEF AcceptData

\* What any step does to the receiver.
LEMMA ReceiverSteps ==
    ASSUME LegacyAssumption, LegacyTypes, Stored, LegacyNext
    PROVE  \/ Unmoved \/ Concluded
           \/ Arrives /\ Opened
           \/ Arrives /\ IsData(Head(air)) /\ (Written(Head(air)) \/ Finished(Head(air)))
  <1>0. rx \in ReceiverType /\ {"Timeout", "InvalidPacket", "Cancelled"} \subseteq Failures
    BY DEF LegacyTypes, Failures
  <1>1. CASE Arrives
    <2> DEFINE p == Head(air)
    <2>1. /\ \/ p.kind = "START" /\ Start(p.stream)
             \/ p.kind = "STOP" /\ Stop(p.stream)
             \/ p.kind = "DATA" /\ AcceptData(p)
          /\ air # <<>>
      BY <1>1 DEF Arrives
    <2>2. p \in Frames
      BY <2>1, TailAir DEF LegacyTypes
    <2> HIDE DEF p
    <2>3. CASE p.kind = "START" /\ Start(p.stream)
      <3>1. p.stream \in Nat
        BY <2>2, <2>3 DEF Frames, Controls, Datas
      <3> QED BY <1>1, <2>3, <3>1, StartShape
    <2>4. CASE p.kind = "STOP" /\ Stop(p.stream)
      BY <2>4, StopShape
    <2>5. CASE p.kind = "DATA" /\ AcceptData(p)
      <3>1. p \in Datas
        BY <2>2, <2>5 DEF Frames, Controls, Datas
      <3>2. IsData(p)
        BY <2>5 DEF IsData
      <3> QED BY <1>1, <2>5, <3>1, <3>2, AcceptShape DEF p
    <2> QED BY <2>1, <2>3, <2>4, <2>5 DEF p
  <1>2. CASE CheckTimeout
    BY <1>0, <1>2, FailsShape DEF CheckTimeout, Fail
  <1>3. CASE Upset
    BY <1>0, <1>3, FailsShape DEF Upset
  <1>4. CASE AbortAgain
    <2>1. PICK ok \in Outcomes : CleansUp(rx, 0, ok) /\ rx' = Cleaned(rx, ok)
      BY <1>4 DEF AbortAgain
    <2>2. partial' = IF rx.present /\ ok[2] THEN Absent ELSE partial
      BY <2>1 DEF CleansUp, RemovedPartial
    <2>3. LET c == Cleaned(rx, ok)
          IN  /\ c \in ReceiverType /\ c.state = rx.state
              /\ ~c.present => partial' = Absent
              /\ c.present => c.cleanupFailed
      BY <1>0, <2>2, CleanedShape, Zenon DEF Stored
    <2>4. rx.state = "Failed" /\ UNCHANGED published
      BY <1>4 DEF AbortAgain
    <2> QED BY <2>1, <2>3, <2>4 DEF Concluded, IsActive
  <1>5. CASE Reset
    <2>1. PICK ok \in Outcomes : CleansUp(rx, 1, ok) /\ rx' = ResetState(rx, ok)
      BY <1>5 DEF Reset
    <2>2. partial' = IF rx.present /\ ok[2] THEN Absent ELSE partial
      BY <2>1 DEF CleansUp, RemovedPartial
    <2> DEFINE c == Cleaned(rx, ok)
    <2>3. /\ c \in ReceiverType /\ c.present \in BOOLEAN
          /\ ~c.present => partial' = Absent
          /\ c.present <=> rx.present /\ ~ok[2]
      BY <1>0, <2>2, CleanedShape, Zenon DEF Stored, ReceiverType
    <2>4. UNCHANGED published
      BY <1>5 DEF Reset
    <2>5. NoTransfer \in ReceiverType /\ NoTransfer.state = "Idle" /\ ~NoTransfer.present
      BY NoTransferType DEF NoTransfer
    <2> HIDE DEF c
    <2>6. CASE ok[1] /\ ok[2]
      <3>1. rx' = NoTransfer
        BY <2>1, <2>6 DEF ResetState
      <3>2. partial' = Absent
        BY <2>3, <2>6
      <3> QED BY <2>4, <2>5, <3>1, <3>2 DEF Concluded, IsActive
    <2>7. CASE ~(ok[1] /\ ok[2])
      <3>1. rx' = [NoTransfer EXCEPT !.state = "Failed", !.failure = "CleanupFailed",
                                     !.present = c.present]
        BY <2>1, <2>7 DEF ResetState, c
      <3>2. /\ rx' \in ReceiverType /\ rx'.state = "Failed" /\ rx'.failure = "CleanupFailed"
            /\ rx'.present = c.present
        BY <2>3, <2>5, <3>1 DEF ReceiverType, RxStates, Failures
      <3> QED BY <2>3, <2>4, <3>2 DEF Concluded, IsActive
    <2> QED BY <2>6, <2>7
  <1>6. CASE BeginStream \/ Segment \/ TooManyPackets \/ GivesUp \/ Lost \/ Repeated \/ ResetAudio
    BY <1>6 DEF BeginStream, Segment, TooManyPackets, GivesUp, Lost, Repeated, ResetAudio, Unmoved
  <1> QED BY <1>1, <1>2, <1>3, <1>4, <1>5, <1>6 DEF LegacyNext

-----------------------------------------------------------------------------
(* The sender's steps.                                                     *)

\* No frame is added but a STOP, and the segmenter stays or breaks off.
Fewer ==
    /\ air' \in Seq(Frames) /\ DataOf(air') \subseteq DataOf(air)
    /\ Rising(air) => Rising(air')
    /\ air' # <<>> => stream > 0
    /\ UNCHANGED stream /\ returned' \in Nat
    /\ segmenter' \in SegmenterType /\ segmenter'.next = segmenter.next
    /\ segmenter'.finished \/ UNCHANGED <<segmenter, returned>>

LEMMA SenderSteps ==
    ASSUME LegacyAssumption, LegacyTypes, Segmenting, Flying, LegacyNext
    PROVE  \/ Fewer
           \/ BeginStream
           \/ ~segmenter.finished /\ \E p \in Datas, g \in SegmenterType : Cuts(p, g)
  <1>0. /\ segmenter \in SegmenterType /\ returned \in Nat /\ air \in Seq(Frames)
        /\ air # <<>> => stream > 0
    BY DEF LegacyTypes, Flying
  <1>1. /\ BrokenOff \in SegmenterType /\ BrokenOff.finished
        /\ BrokenOff.next = segmenter.next
    <2> DEFINE done == TRUE
               none == <<>>
               b == [[segmenter EXCEPT !.finished = done] EXCEPT !.pending = none]
    <2>1. done \in BOOLEAN /\ done /\ none \in Seq(FileByte) /\ BrokenOff = b
      BY DEF BrokenOff
    <2> HIDE DEF done, none
    <2>2. b \in SegmenterType /\ b.finished = done /\ b.next = segmenter.next
      BY <1>0, <2>1 DEF SegmenterType
    <2> HIDE DEF b
    <2> QED BY <2>1, <2>2
  <1>2. ASSUME ~segmenter.finished
        PROVE  /\ stream > 0 /\ Append(air, Control("STOP", stream)) \in Seq(Frames)
               /\ DataOf(Append(air, Control("STOP", stream))) \subseteq DataOf(air)
               /\ Rising(air) => Rising(Append(air, Control("STOP", stream)))
    <2>1. stream > 0 /\ stream \in Nat
      BY <1>2 DEF Segmenting, LegacyTypes
    <2>2. Control("STOP", stream) \in Frames /\ ~IsData(Control("STOP", stream))
      BY <2>1 DEF Control, Frames, Controls, IsData
    <2> QED BY <1>0, <2>1, <2>2, AppendAir
  <1>3. CASE Segment
    <2>1. /\ ~segmenter.finished /\ returned' \in Nat
          /\ Breaks \/ \E p \in Datas, g \in SegmenterType : Cuts(p, g)
      BY <1>3, SegmentShape
    <2>2. CASE Breaks
      BY <1>1, <1>2, <2>1, <2>2 DEF Breaks, Fewer
    <2> QED BY <2>1, <2>2
  <1>4. CASE TooManyPackets
    BY <1>0, <1>1, <1>2, <1>4 DEF TooManyPackets, Fewer
  <1>5. CASE GivesUp
    BY <1>0, <1>1, <1>5 DEF GivesUp, Fewer
  <1>6. CASE Lost \/ Arrives
    <2>1. air # <<>> /\ air' = Tail(air) /\ UNCHANGED <<stream, segmenter, returned>>
      BY <1>6 DEF Lost, Arrives
    <2> QED BY <1>0, <2>1, TailAir DEF Fewer
  <1>7. CASE Repeated
    <2>1. air # <<>> /\ air' = <<Head(air)>> \o air /\ UNCHANGED <<stream, segmenter, returned>>
      BY <1>7 DEF Repeated
    <2> QED BY <1>0, <2>1, RepeatedAir DEF Fewer
  <1>8. CASE CheckTimeout \/ Upset \/ AbortAgain \/ Reset \/ ResetAudio
    <2>1. UNCHANGED <<stream, segmenter, returned, air>>
      BY <1>8 DEF CheckTimeout, Upset, AbortAgain, Reset, ResetAudio
    <2> QED BY <1>0, <2>1 DEF Fewer
  <1> QED BY <1>3, <1>4, <1>5, <1>6, <1>7, <1>8 DEF LegacyNext

LEMMA SegmentingNext ==
    ASSUME LegacyAssumption, LegacyTypes, Segmenting, Flying, LegacyNext
    PROVE  Segmenting'
  <1>1. CASE Fewer
    BY <1>1 DEF Fewer, Segmenting, Cursor
  <1>2. CASE BeginStream
    <2>1. stream' \in 1..Len(Streams) /\ segmenter' = Fresh /\ returned' = 0
      BY <1>2 DEF BeginStream, LegacyTypes, LegacyAssumption
    <2>2. Streams[stream'] \in STRING /\ Size[Streams[stream']] \in Nat
      BY <2>1 DEF LegacyAssumption, Range
    <2>3. segmenter'.pending = <<>> /\ Len(segmenter'.pending) = 0
      BY <2>1 DEF Fresh
    <2>4. Bytes(Streams[stream'], 0, 0) = <<>>
      BY DEF Bytes
    <2>5. Cursor' = 0
      <3>1. Cursor' = returned' - Len(segmenter'.pending)
        BY DEF Cursor
      <3>2. returned' - Len(segmenter'.pending) = 0 - 0
        BY <2>1, <2>3, Zenon
      <3> QED BY <3>1, <3>2
    <2>6. stream' > 0 /\ returned' <= Size[Streams[stream']]
          /\ Len(segmenter'.pending) <= returned'
      BY <2>1, <2>2, <2>3
    <2>7. segmenter'.pending = Bytes(Streams[stream'], Cursor', Len(segmenter'.pending))
      BY <2>3, <2>4, <2>5
    <2> QED BY <2>3, <2>5, <2>6, <2>7 DEF Segmenting
  <1>3. CASE ~segmenter.finished /\ \E p \in Datas, g \in SegmenterType : Cuts(p, g)
    <2>1. PICK p \in Datas : \E g \in SegmenterType : Cuts(p, g)
      BY <1>3
    <2>2. PICK g \in SegmenterType : Cuts(p, g)
      BY <2>1
    <2>3. stream \in 1..Len(Streams) /\ UNCHANGED stream
      BY <1>3, <2>2 DEF Segmenting, LegacyTypes, Cuts
    <2>4. Len(p.payload) \in Nat /\ Len(g.pending) \in Nat /\ g.next \in Nat
          /\ segmenter.next \in Nat /\ Cursor \in Nat
      <3>1. Len(segmenter.pending) \in Nat /\ returned \in Nat /\ segmenter.next \in Nat
        BY DEF LegacyTypes, SegmenterType, LegacyAssumption
      <3>2. Cursor \in Nat
        BY <1>3, <3>1 DEF Segmenting, Cursor
      <3> QED BY <3>1, <3>2 DEF Datas, SegmenterType, LegacyAssumption
    <2>5. Cursor' = Cursor + Len(p.payload)
      <3>1. Cursor' = returned' - Len(g.pending)
        BY <2>2 DEF Cuts, Cursor
      <3> QED BY <2>2, <2>4, <3>1 DEF Cuts
    <2> QED BY <2>2, <2>3, <2>4, <2>5, SMTT(30) DEF Segmenting, Cuts
  <1> QED BY <1>1, <1>2, <1>3, SenderSteps

\* A packet that is cut off stands behind all that were, and before all that will be.
LEMMA CutsOrder ==
    ASSUME LegacyAssumption, LegacyTypes, Segmenting, Flying, ~segmenter.finished,
           NEW p \in Datas, NEW g \in SegmenterType, Cuts(p, g)
    PROVE  /\ Piece(p, Streams[stream]) /\ At(p) = Cursor /\ End(p) = Cursor'
           /\ Cursor \in Nat /\ Cursor' \in Nat /\ Cursor < Cursor'
           /\ \A q \in DataOf(air) :
                 q.seq \in Nat /\ q.seq < p.seq /\ Agree(q, p) /\ End(q) <= At(p)
  <1>1. stream \in 1..Len(Streams) /\ Streams[stream] \in STRING
    <2>1. stream \in 1..Len(Streams)
      BY DEF Segmenting, LegacyTypes
    <2> QED BY <2>1, FileShape
  <1>2. /\ Len(p.payload) \in Nat /\ Len(p.payload) > 0 /\ Len(g.pending) \in Nat
        /\ segmenter.next \in Nat /\ p.seq \in Nat
    BY SMTT(30) DEF Cuts, Datas, SegmenterType, LegacyTypes, LegacyAssumption
  <1>3. Cursor \in Nat
    <2>1. Len(segmenter.pending) \in Nat /\ returned \in Nat
      BY DEF LegacyTypes, SegmenterType
    <2> QED BY <2>1 DEF Segmenting, Cursor
  <1>4. At(p) = Cursor /\ End(p) = Cursor + Len(p.payload)
    <2>0. PICK k \in Nat : k = Len(p.payload)
      BY <1>2
    <2>1. PICK c \in Nat : c = Cursor
      BY <1>3
    <2>2. PICK name \in STRING : name = Streams[stream]
      BY <1>1
    <2>3. p.payload = Bytes(name, c, k) /\ k > 0
      BY <1>2, <2>0, <2>1, <2>2 DEF Cuts
    <2>4. At(p) = c /\ End(p) = c + k
      BY <2>3, AtShape
    <2> QED BY <2>0, <2>1, <2>4
  <1>5. Cursor' = Cursor + Len(p.payload)
    <2>1. Cursor' = returned' - Len(g.pending)
      BY DEF Cuts, Cursor
    <2> QED BY <1>2, <1>3, <2>1 DEF Cuts
  <1>6. Piece(p, Streams[stream])
    BY <1>2, <1>3, <1>4 DEF Piece, Cuts, Segmenting
  <1>7. ASSUME NEW q \in DataOf(air)
        PROVE  q.seq \in Nat /\ q.seq < p.seq /\ Agree(q, p) /\ End(q) <= At(p)
    <2>1. /\ q.seq \in Nat /\ q.seq < p.seq /\ End(q) <= Cursor
          /\ q.seq + 1 = segmenter.next => End(q) = Cursor
      BY <1>2, DataShape, SMTT(30) DEF Flying, Before, Cuts, LegacyTypes, LegacyAssumption
    <2>2. End(q) \in Int
      <3>1. At(q) \in Nat /\ Len(q.payload) \in Nat
        BY DataShape DEF Flying, Piece, LegacyTypes
      <3> QED BY <3>1 DEF End
    <2>3. p.seq = segmenter.next
      BY DEF Cuts
    <2> QED BY <1>2, <1>3, <1>4, <2>1, <2>2, <2>3 DEF Agree
  <1> QED BY <1>2, <1>3, <1>4, <1>5, <1>6, <1>7

LEMMA FlyingNext ==
    ASSUME LegacyAssumption, LegacyTypes, Segmenting, Flying, LegacyNext
    PROVE  Flying'
  <1> DEFINE f == Streams[stream]
  <1>0. air \in Seq(Frames)
    BY DEF LegacyTypes
  <1>1. CASE Fewer
    <2>1. PICK s : s = air'
      OBVIOUS
    <2>2. s # <<>> => stream > 0
      BY <1>1, <2>1 DEF Fewer
    <2>3. Rising(s) /\ DataOf(s) \subseteq DataOf(air)
      BY <1>1, <2>1 DEF Fewer, Flying
    <2>4. ASSUME NEW p \in DataOf(s)
          PROVE  Piece(p, Streams[stream]) /\ Before(p)'
      <3>1. Piece(p, Streams[stream]) /\ Before(p)
        BY <2>3 DEF Flying
      <3>2. Before(p)'
        BY <1>1, <3>1 DEF Fewer, Before, Cursor
      <3> QED BY <3>1, <3>2
    <2>5. \A p, q \in DataOf(s) : Agree(p, q)
      BY <2>3 DEF Flying
    <2>6. UNCHANGED stream
      BY <1>1 DEF Fewer
    <2> QED BY <2>1, <2>2, <2>3, <2>4, <2>5, <2>6 DEF Flying
  <1>2. CASE BeginStream
    <2>1. PICK x : x = Control("START", stream') /\ air' = <<x>>
      BY <1>2 DEF BeginStream
    <2>2. stream' > 0
      BY <1>2 DEF BeginStream, LegacyTypes, LegacyAssumption
    <2>3. ~IsData(x)
      BY <2>1 DEF Control, IsData
    <2>4. PICK s : s = air' /\ Len(s) = 1 /\ s[1] = x
      BY <2>1
    <2>5. \A i \in 1..Len(s) : ~IsData(s[i])
      BY <2>3, <2>4
    <2>6. DataOf(s) = {} /\ Rising(s)
      BY <2>5 DEF DataOf, Rising
    <2> QED BY <2>2, <2>4, <2>6 DEF Flying
  <1>3. CASE ~segmenter.finished /\ \E p \in Datas, g \in SegmenterType : Cuts(p, g)
    <2>1. PICK p \in Datas : \E g \in SegmenterType : Cuts(p, g)
      BY <1>3
    <2>2. PICK g \in SegmenterType : Cuts(p, g)
      BY <2>1
    <2>3. /\ Piece(p, Streams[stream]) /\ At(p) = Cursor /\ End(p) = Cursor'
          /\ Cursor \in Nat /\ Cursor' \in Nat /\ Cursor < Cursor'
          /\ \A q \in DataOf(air) :
                q.seq \in Nat /\ q.seq < p.seq /\ Agree(q, p) /\ End(q) <= At(p)
      BY <1>3, <2>2, CutsOrder
    <2>4. p \in Frames /\ p.seq \in Nat /\ segmenter.next \in Nat
      BY DEF Frames, Datas, LegacyAssumption, LegacyTypes, SegmenterType
    <2>5. PICK s : s = air' /\ s = Append(air, p)
      BY <2>2 DEF Cuts
    <2>6. DataOf(s) \subseteq DataOf(air) \cup {p} /\ Rising(s)
      BY <1>0, <2>3, <2>4, <2>5, AppendAir DEF Flying
    <2>7. ASSUME NEW q \in DataOf(air) PROVE Piece(q, Streams[stream]) /\ Before(q)'
      <3>1. Piece(q, Streams[stream]) /\ Before(q) /\ q.seq \in Nat /\ q.seq < p.seq
        BY <2>3 DEF Flying
      <3>2. End(q) \in Int
        <4>1. Len(q.payload) \in Nat
          BY <1>0, DataShape
        <4> QED BY <3>1, <4>1 DEF Piece, End
      <3>3. /\ q.seq < segmenter'.next /\ q.seq + 1 # segmenter'.next
            /\ End(q) <= Cursor'
        BY <1>3, <2>2, <2>3, <2>4, <3>1, <3>2, SMTT(30) DEF Cuts, Before
      <3> QED BY <3>1, <3>3 DEF Before
    <2>8. Before(p)'
      <3>1. p.seq < segmenter'.next
        BY <2>2, <2>4 DEF Cuts
      <3> QED BY <2>3, <3>1 DEF Before
    <2>9. ASSUME NEW q \in DataOf(air) PROVE Agree(q, p) /\ Agree(p, q)
      <3>1. q.seq \in Nat /\ q.seq < p.seq /\ Agree(q, p)
        BY <2>3
      <3> QED BY <2>4, <3>1 DEF Agree
    <2>10. Agree(p, p)
      BY <2>4 DEF Agree
    <2>11. \A q, r \in DataOf(s) : Agree(q, r)
      BY <2>6, <2>9, <2>10 DEF Flying
    <2>12. UNCHANGED stream /\ stream > 0
      BY <1>3, <2>2 DEF Cuts, Segmenting
    <2> QED BY <2>3, <2>5, <2>6, <2>7, <2>8, <2>11, <2>12 DEF Flying
  <1> QED BY <1>1, <1>2, <1>3, SenderSteps

-----------------------------------------------------------------------------
(* The storage and the listener.                                           *)

LEMMA StoredNext ==
    ASSUME LegacyAssumption, LegacyTypes, Stored, LegacyNext
    PROVE  Stored'
  <1>1. CASE Unmoved
    BY <1>1 DEF Unmoved, Stored, Active
  <1>2. CASE Concluded
    BY <1>2 DEF Concluded, IsActive, Stored, Active
  <1>3. CASE Opened
    BY <1>3 DEF Opened, Stored, Active
  <1>4. CASE \E p : Written(p)
    BY <1>4 DEF Written, Expects, Stored, Active
  <1>5. CASE \E p : Finished(p)
    BY <1>5 DEF Finished, IsActive, Stored, Active
  <1> QED BY <1>1, <1>2, <1>3, <1>4, <1>5, ReceiverSteps

\* Packet p is heard.
Heard(p) ==
    /\ audio' = AudioTaken(p)
    /\ p.seq >= audio.next /\ p.seq - audio.next <= MaxGap

LEMMA AudioSteps ==
    ASSUME LegacyAssumption, LegacyTypes, Hearing, LegacyNext
    PROVE  \/ UNCHANGED audio \/ audio' = NoAudio
           \/ Arrives /\ air # <<>> /\ IsData(Head(air)) /\ Heard(Head(air))
  <1>1. CASE Arrives
    <2> DEFINE p == Head(air)
    <2>1. /\ air # <<>>
          /\ UNCHANGED audio \/ (p.kind = "DATA" /\ AcceptAudio(p))
      BY <1>1 DEF Arrives
    <2>2. p \in Frames
      BY <2>1, TailAir DEF LegacyTypes
    <2> HIDE DEF p
    <2>3. CASE p.kind = "DATA" /\ AcceptAudio(p)
      <3>1. p.seq \in 0..MaxSeq /\ IsData(p)
        BY <2>2, <2>3 DEF Frames, Controls, Datas, IsData
      <3>2. audio.next \in 0..MaxSeq /\ MaxGap \in Nat /\ MaxSeq \in Nat
            /\ (~audio.started => audio.next = 0)
        BY DEF LegacyTypes, AudioType, LegacyAssumption, Hearing, Unheard
      <3>3. ASSUME ~AudioRefuses(p) PROVE p.seq >= audio.next
        BY <3>1, <3>2, <3>3 DEF AudioRefuses
      <3>4. CASE ~AudioRefuses(p) /\ ~(p.seq - audio.next > MaxGap)
        <4>1. p.seq - audio.next <= MaxGap
          BY <3>1, <3>2, <3>4
        <4> QED BY <1>1, <2>1, <2>3, <3>1, <3>3, <3>4, <4>1 DEF AcceptAudio, Heard, p
      <3> QED BY <2>3, <3>4 DEF AcceptAudio
    <2> QED BY <2>1, <2>3
  <1>2. CASE ResetAudio
    BY <1>2 DEF ResetAudio
  <1>3. CASE \/ BeginStream \/ Segment \/ TooManyPackets \/ GivesUp \/ Lost \/ Repeated
             \/ CheckTimeout \/ Upset \/ AbortAgain \/ Reset
    BY <1>3 DEF BeginStream, Segment, TooManyPackets, GivesUp, Lost, Repeated, CheckTimeout,
                Upset, AbortAgain, Reset
  <1> QED BY <1>1, <1>2, <1>3 DEF LegacyNext

LEMMA TakenShape ==
    ASSUME LegacyAssumption, LegacyTypes, NEW p \in Datas, Heard(p)
    PROVE  /\ audio' \in AudioType
           /\ audio'.data = audio.data \o p.payload
           /\ audio'.next = IF p.seq = MaxSeq THEN 0 ELSE p.seq + 1
           /\ audio'.started
  <1> DEFINE d == audio.data \o p.payload
             n == (p.seq + 1) % (MaxSeq + 1)
             m == audio.missing + (p.seq - audio.next)
             started == TRUE
  <1>1. /\ audio.data \in Seq(FileByte) /\ p.payload \in Seq(FileByte) /\ p.seq \in 0..MaxSeq
        /\ audio.next \in 0..MaxSeq /\ audio.missing \in Nat /\ MaxSeq \in Nat
        /\ p.last \in BOOLEAN /\ p.seq >= audio.next
    BY DEF LegacyTypes, AudioType, Datas, LegacyAssumption, Heard
  <1>2. d \in Seq(FileByte)
    BY <1>1, ConcatProperties
  <1>3. n = IF p.seq = MaxSeq THEN 0 ELSE p.seq + 1
    <2>1. CASE p.seq = MaxSeq
      BY <1>1, <2>1
    <2>2. CASE p.seq # MaxSeq
      <3> DEFINE k == p.seq + 1
                 w == MaxSeq + 1
      <3>1. k \in Nat /\ w \in Nat /\ k < w
        BY <1>1, <2>2
      <3> HIDE DEF k, w
      <3>2. k % w = k
        BY <3>1
      <3> QED BY <2>2, <3>2 DEF k, w
    <2> QED BY <2>1, <2>2
  <1>4. n \in 0..MaxSeq /\ m \in Nat
    <2>1. p.seq - audio.next \in Nat
      BY <1>1
    <2>2. m \in Nat
      BY <1>1, <2>1
    <2> HIDE DEF n, m
    <2>3. n \in 0..MaxSeq
      BY <1>1, <1>3
    <2> QED BY <2>2, <2>3
  <1>5. started \in BOOLEAN /\ started
    OBVIOUS
  <1>6. audio' = [data |-> d, next |-> n, missing |-> m, started |-> started,
                  complete |-> p.last]
    BY DEF Heard, AudioTaken
  <1> HIDE DEF d, n, m, started
  <1>7. /\ audio' \in AudioType /\ audio'.data = d /\ audio'.next = n
        /\ audio'.started = started
    BY <1>1, <1>2, <1>4, <1>5, <1>6 DEF AudioType
  <1> QED BY <1>3, <1>5, <1>7 DEF d

\* Where the bytes of a packet stand.
LEMMA PieceBytes ==
    ASSUME NEW f \in STRING, NEW p \in Datas, Piece(p, f)
    PROVE  /\ At(p) \in Nat /\ Len(p.payload) \in Nat /\ End(p) = At(p) + Len(p.payload)
           /\ \A i \in 1..Len(p.payload) : p.payload[i] = <<f, At(p) + i>>
  <1>1. Len(p.payload) \in Nat
    BY DEF Datas
  <1>2. At(p) \in Nat /\ p.payload = Bytes(f, At(p), Len(p.payload))
    BY DEF Piece
  <1>3. PICK a \in Nat : a = At(p)
    BY <1>2
  <1>4. PICK n \in Nat : n = Len(p.payload)
    BY <1>1
  <1>5. \A i \in 1..n : Bytes(f, a, n)[i] = <<f, a + i>>
    BY BytesShape
  <1>6. p.payload = Bytes(f, a, n)
    BY <1>2, <1>3, <1>4, Zenon
  <1>7. \A i \in 1..n : p.payload[i] = <<f, a + i>>
    BY <1>5, <1>6, Zenon
  <1> QED BY <1>1, <1>2, <1>3, <1>4, <1>7 DEF End

\* A packet that is heard: it flies, and its bytes come behind those heard before.
LEMMA HeardShape ==
    ASSUME LegacyAssumption, LegacyTypes, Flying,
           air # <<>>, IsData(Head(air)), Heard(Head(air))
    PROVE  LET p == Head(air)
               d == audio.data
           IN  /\ p \in Datas /\ p \in DataOf(air) /\ stream \in 1..Len(Streams)
               /\ Streams[stream] \in STRING
               /\ Piece(p, Streams[stream]) /\ Before(p)
               /\ d \in Seq(FileByte) /\ Len(d) \in Nat /\ audio' \in AudioType
               /\ Len(audio'.data) = Len(d) + Len(p.payload)
               /\ \A k \in 1..Len(audio'.data) :
                     \/ k \in 1..Len(d) /\ audio'.data[k] = d[k]
                     \/ /\ k - Len(d) \in 1..Len(p.payload) /\ k > Len(d)
                        /\ audio'.data[k] = <<Streams[stream], At(p) + (k - Len(d))>>
  <1> DEFINE p == Head(air)
             d == audio.data
             f == Streams[stream]
  <1>1. p \in DataOf(air) /\ p \in Datas
    BY TailAir, DataShape DEF LegacyTypes
  <1>2. stream \in 1..Len(Streams) /\ Piece(p, f) /\ Before(p)
    BY <1>1 DEF Flying, LegacyTypes
  <1>3. f \in STRING
    BY <1>2, FileShape
  <1> HIDE DEF p, f
  <1>4. /\ At(p) \in Nat /\ Len(p.payload) \in Nat
        /\ \A i \in 1..Len(p.payload) : p.payload[i] = <<f, At(p) + i>>
    BY <1>1, <1>2, <1>3, PieceBytes
  <1>5. audio' \in AudioType /\ audio'.data = d \o p.payload
    BY <1>1, TakenShape DEF p
  <1>6. d \in Seq(FileByte) /\ Len(d) \in Nat /\ p.payload \in Seq(FileByte)
    BY <1>1 DEF LegacyTypes, AudioType, Datas
  <1> HIDE DEF d
  <1>7. /\ Len(audio'.data) = Len(d) + Len(p.payload)
        /\ \A k \in 1..Len(d) + Len(p.payload) :
              audio'.data[k] = IF k <= Len(d) THEN d[k] ELSE p.payload[k - Len(d)]
    BY <1>5, <1>6, ConcatProperties
  <1>8. ASSUME NEW k \in 1..Len(audio'.data)
        PROVE  \/ k \in 1..Len(d) /\ audio'.data[k] = d[k]
               \/ /\ k - Len(d) \in 1..Len(p.payload) /\ k > Len(d)
                  /\ audio'.data[k] = <<f, At(p) + (k - Len(d))>>
    <2>1. CASE k <= Len(d)
      BY <1>4, <1>6, <1>7, <2>1
    <2>2. CASE k > Len(d)
      <3>1. k - Len(d) \in 1..Len(p.payload) /\ ~(k <= Len(d)) /\ k \in 1..Len(d) + Len(p.payload)
        BY <1>4, <1>6, <1>7, <2>2
      <3>2. audio'.data[k] = p.payload[k - Len(d)]
        BY <1>7, <3>1, Zenon
      <3>3. p.payload[k - Len(d)] = <<f, At(p) + (k - Len(d))>>
        BY <1>4, <3>1, Zenon
      <3> QED BY <2>2, <3>1, <3>2, <3>3, Zenon
    <2> QED BY <1>6, <2>1, <2>2
  <1> QED BY <1>1, <1>2, <1>3, <1>5, <1>6, <1>7, <1>8 DEF p, d, f

LEMMA UnheardNext ==
    ASSUME LegacyAssumption, LegacyTypes, Hearing, Flying, LegacyNext
    PROVE  Unheard'
  <1>1. CASE UNCHANGED audio
    BY <1>1 DEF Hearing, Unheard
  <1>2. CASE audio' = NoAudio
    BY <1>2 DEF NoAudio, Unheard
  <1>3. CASE air # <<>> /\ IsData(Head(air)) /\ Heard(Head(air))
    BY <1>3, TailAir, DataShape, TakenShape DEF Unheard, LegacyTypes
  <1> QED BY <1>1, <1>2, <1>3, AudioSteps

LEMMA HeardOfStreamsNext ==
    ASSUME LegacyAssumption, LegacyTypes, Segmenting, Flying, Hearing, LegacyNext
    PROVE  HeardOfStreams'
  <1>0. stream \in Nat /\ stream' \in Nat /\ stream <= stream'
    BY SenderSteps, SMTT(30) DEF LegacyTypes, LegacyAssumption, Fewer, BeginStream, Cuts
  <1>1. CASE UNCHANGED audio
    BY <1>0, <1>1 DEF Hearing, HeardOfStreams
  <1>2. CASE audio' = NoAudio
    <2>1. Len(audio'.data) = 0
      BY <1>2 DEF NoAudio
    <2> QED BY <2>1 DEF HeardOfStreams
  <1>3. CASE air # <<>> /\ IsData(Head(air)) /\ Heard(Head(air))
    <2> SUFFICES ASSUME NEW k \in 1..Len(audio'.data)
                 PROVE  \E m \in 1..stream' : audio'.data[k][1] = Streams[m]
      BY DEF HeardOfStreams
    <2>1. \/ k \in 1..Len(audio.data) /\ audio'.data[k] = audio.data[k]
          \/ audio'.data[k] = <<Streams[stream], At(Head(air)) + (k - Len(audio.data))>>
      BY <1>3, HeardShape
    <2>2. stream \in 1..stream'
      BY <1>0, <1>3, HeardShape
    <2>3. CASE k \in 1..Len(audio.data) /\ audio'.data[k] = audio.data[k]
      BY <1>0, <2>3 DEF Hearing, HeardOfStreams
    <2>4. CASE audio'.data[k] = <<Streams[stream], At(Head(air)) + (k - Len(audio.data))>>
      BY <2>2, <2>4
    <2> QED BY <2>1, <2>3, <2>4
  <1> QED BY <1>1, <1>2, <1>3, AudioSteps

LEMMA AudioIsOrderedNext ==
    ASSUME LegacyAssumption, LegacyTypes, Flying, Hearing, LegacyNext
    PROVE  AudioIsOrdered'
  <1>1. CASE UNCHANGED audio
    BY <1>1 DEF Hearing, AudioIsOrdered
  <1>2. CASE audio' = NoAudio
    <2>1. DOMAIN audio'.data = {}
      BY <1>2 DEF NoAudio
    <2> QED BY <2>1 DEF AudioIsOrdered
  <1>3. CASE air # <<>> /\ IsData(Head(air)) /\ Heard(Head(air))
    <2> DEFINE p == Head(air)
               d == audio.data
               f == Streams[stream]
    <2>1. /\ p \in Datas /\ p \in DataOf(air) /\ stream \in 1..Len(Streams)
          /\ f \in STRING
          /\ Piece(p, f) /\ d \in Seq(FileByte) /\ Len(d) \in Nat
          /\ \A k \in 1..Len(audio'.data) :
                \/ k \in 1..Len(d) /\ audio'.data[k] = d[k]
                \/ /\ k - Len(d) \in 1..Len(p.payload) /\ k > Len(d)
                   /\ audio'.data[k] = <<f, At(p) + (k - Len(d))>>
      BY <1>3, HeardShape
    <2>2. audio' \in AudioType
      BY <1>3, HeardShape
    <2>3. p.seq >= audio.next /\ p.seq - audio.next <= MaxGap
      BY <1>3 DEF Heard
    <2> HIDE DEF p, f
    <2>4. At(p) \in Nat
      BY <2>1, PieceBytes
    <2>5. \A k \in 1..Len(d) : d[k][2] \in Nat
      <3>1. d \in Seq(FileByte)
        BY <2>1
      <3> HIDE DEF d
      <3>2. \A k \in 1..Len(d) : d[k] \in FileByte
        BY <3>1
      <3>3. \A b \in FileByte : b[2] \in Nat
        BY DEF FileByte
      <3> QED BY <3>2, <3>3
    <2>6. \A k \in 1..Len(d) : d[k][1] = f => d[k][2] <= At(p)
      BY <2>1, <2>3 DEF Hearing, HeardBefore, f
    <2>7. \A i, j \in 1..Len(d) : i < j /\ d[i][1] = d[j][1] => d[i][2] < d[j][2]
      <3>1. DOMAIN d = 1..Len(d)
        BY <2>1
      <3> QED BY <3>1 DEF Hearing, AudioIsOrdered
    <2>8. DOMAIN audio'.data = 1..Len(audio'.data) /\ Len(audio'.data) \in Nat
      BY <2>2 DEF AudioType
    <2> HIDE DEF d
    <2>9. ASSUME NEW i \in 1..Len(audio'.data), NEW j \in 1..Len(audio'.data), i < j,
                 audio'.data[i][1] = audio'.data[j][1]
          PROVE  audio'.data[i][2] < audio'.data[j][2]
      <3>1. CASE j \in 1..Len(d) /\ audio'.data[j] = d[j]
        <4>1. i \in 1..Len(d) /\ ~(i > Len(d))
          BY <2>1, <2>9, <3>1
        <4>2. audio'.data[i] = d[i]
          BY <2>1, <4>1
        <4> QED BY <2>7, <2>9, <3>1, <4>1, <4>2
      <3>2. CASE /\ j - Len(d) \in 1..Len(p.payload) /\ j > Len(d)
                 /\ audio'.data[j] = <<f, At(p) + (j - Len(d))>>
        <4>0. /\ audio'.data[j][1] = f /\ audio'.data[j][2] = At(p) + (j - Len(d))
              /\ j - Len(d) \in Nat /\ j - Len(d) > 0
          BY <3>2
        <4>1. CASE i \in 1..Len(d) /\ audio'.data[i] = d[i]
          <5>1. d[i][1] = f /\ d[i][2] \in Nat /\ d[i][2] <= At(p)
            BY <2>5, <2>6, <2>9, <4>0, <4>1
          <5> QED BY <2>4, <4>0, <4>1, <5>1
        <4>2. CASE /\ i - Len(d) \in 1..Len(p.payload)
                   /\ audio'.data[i] = <<f, At(p) + (i - Len(d))>>
          <5>1. audio'.data[i][2] = At(p) + (i - Len(d)) /\ i - Len(d) \in Nat
            BY <4>2
          <5> QED BY <2>1, <2>4, <2>9, <4>0, <5>1
        <4> QED BY <2>1, <4>1, <4>2
      <3> QED BY <2>1, <3>1, <3>2
    <2> QED BY <2>8, <2>9 DEF AudioIsOrdered
  <1> QED BY <1>1, <1>2, <1>3, AudioSteps

LEMMA HeardBytes ==
    ASSUME LegacyTypes
    PROVE  \A k \in 1..Len(audio.data) : audio.data[k][2] \in Nat
  <1> DEFINE d == audio.data
  <1>1. d \in Seq(FileByte)
    BY DEF LegacyTypes, AudioType
  <1> HIDE DEF d
  <1>2. \A k \in 1..Len(d) : d[k] \in FileByte
    BY <1>1
  <1>3. \A b \in FileByte : b[2] \in Nat
    BY DEF FileByte
  <1>4. \A k \in 1..Len(d) : d[k][2] \in Nat
    BY <1>2, <1>3
  <1> QED BY <1>4 DEF d

LEMMA HeardBeforeNext ==
    ASSUME LegacyAssumption, LegacyTypes, Segmenting, Flying, Hearing, LegacyNext
    PROVE  HeardBefore'
  <1> DEFINE d == audio.data
  <1>0. /\ stream \in Nat /\ MaxSeq \in Nat /\ MaxGap \in Nat /\ MaxGap < MaxSeq
        /\ audio.next \in 0..MaxSeq
    BY DEF LegacyTypes, LegacyAssumption, AudioType
  <1>1. CASE UNCHANGED audio
    <2> SUFFICES ASSUME NEW k \in 1..Len(d), stream' > 0, d[k][1] = Streams[stream']
                 PROVE  /\ \A p \in DataOf(air') :
                              p.seq >= audio.next /\ p.seq - audio.next <= MaxGap =>
                                  d[k][2] <= At(p)
                        /\ ~segmenter'.finished => d[k][2] <= Cursor'
      BY <1>1 DEF HeardBefore
    <2>0. d[k][2] \in Nat
      BY HeardBytes
    <2>1. ASSUME UNCHANGED stream
          PROVE  /\ \A p \in DataOf(air) :
                       p.seq >= audio.next /\ p.seq - audio.next <= MaxGap => d[k][2] <= At(p)
                 /\ ~segmenter.finished => d[k][2] <= Cursor
      BY <2>1 DEF Hearing, HeardBefore
    <2>2. CASE Fewer
      <3>1. /\ UNCHANGED stream /\ DataOf(air') \subseteq DataOf(air)
            /\ segmenter'.finished \/ UNCHANGED <<segmenter, returned>>
        BY <2>2 DEF Fewer
      <3>2. ~segmenter'.finished => Cursor' = Cursor /\ ~segmenter.finished
        BY <3>1 DEF Cursor
      <3> QED BY <2>1, <3>1, <3>2
    <2>3. CASE BeginStream
      <3>1. stream' \in 1..Len(Streams) /\ stream' = stream + 1
        BY <1>0, <2>3 DEF BeginStream, LegacyTypes, LegacyAssumption
      <3>2. PICK m \in 1..stream : d[k][1] = Streams[m]
        BY DEF Hearing, HeardOfStreams
      <3>3. m # stream' /\ m \in DOMAIN Streams /\ stream' \in DOMAIN Streams
        BY <1>0, <3>1 DEF LegacyAssumption
      <3>4. Streams[m] # Streams[stream']
        BY <3>3 DEF LegacyAssumption, IsInjective
      <3> QED BY <3>2, <3>4
    <2>4. CASE ~segmenter.finished /\ \E p \in Datas, g \in SegmenterType : Cuts(p, g)
      <3>1. PICK p \in Datas : \E g \in SegmenterType : Cuts(p, g)
        BY <2>4
      <3>2. PICK g \in SegmenterType : Cuts(p, g)
        BY <3>1
      <3>3. At(p) = Cursor /\ Cursor \in Nat /\ Cursor' \in Nat /\ Cursor < Cursor'
        BY <2>4, <3>2, CutsOrder
      <3>4. UNCHANGED stream /\ air' = Append(air, p)
        BY <3>2 DEF Cuts
      <3>5. PICK s : s = air'
        OBVIOUS
      <3>6. DataOf(s) \subseteq DataOf(air) \cup {p}
        <4>1. p \in Frames /\ air \in Seq(Frames)
          BY DEF Frames, LegacyTypes
        <4> QED BY <3>4, <3>5, <4>1, AppendAir
      <3>7. d[k][2] <= Cursor
        BY <2>1, <2>4, <3>4
      <3>8. d[k][2] <= Cursor'
        BY <2>0, <3>3, <3>7
      <3> QED BY <2>1, <3>3, <3>4, <3>5, <3>6, <3>7, <3>8
    <2> QED BY <2>2, <2>3, <2>4, SenderSteps
  <1>2. CASE audio' = NoAudio
    <2>1. Len(audio'.data) = 0
      BY <1>2 DEF NoAudio
    <2> QED BY <2>1 DEF HeardBefore
  <1>3. CASE Arrives /\ air # <<>> /\ IsData(Head(air)) /\ Heard(Head(air))
    <2> DEFINE p == Head(air)
               f == Streams[stream]
    <2>1. /\ p \in Datas /\ p \in DataOf(air) /\ stream \in 1..Len(Streams) /\ f \in STRING
          /\ Piece(p, f) /\ Before(p) /\ Len(d) \in Nat
          /\ \A k \in 1..Len(audio'.data) :
                \/ k \in 1..Len(d) /\ audio'.data[k] = d[k]
                \/ /\ k - Len(d) \in 1..Len(p.payload) /\ k > Len(d)
                   /\ audio'.data[k] = <<f, At(p) + (k - Len(d))>>
      BY <1>3, HeardShape
    <2>2. /\ p.seq >= audio.next /\ p.seq - audio.next <= MaxGap /\ p.seq \in 0..MaxSeq
          /\ audio'.next = IF p.seq = MaxSeq THEN 0 ELSE p.seq + 1
      BY <1>3, <2>1, TakenShape DEF Heard, Datas
    <2>3. UNCHANGED <<stream, segmenter, returned>> /\ air' = Tail(air)
      BY <1>3 DEF Arrives
    <2>4. PICK s : s = air'
      OBVIOUS
    <2>5. /\ DataOf(s) \subseteq DataOf(air)
          /\ \A q \in DataOf(s) : p.seq <= q.seq /\ q.seq \in 0..MaxSeq
      <3>1. air \in Seq(Frames)
        BY DEF LegacyTypes
      <3>2. /\ DataOf(s) \subseteq DataOf(air)
            /\ \A q \in DataOf(s) : p.seq <= q.seq
        BY <1>3, <2>3, <2>4, <3>1, TailAir DEF Flying
      <3> QED BY <3>1, <3>2, DataShape
    <2> HIDE DEF p, f
    <2>6. At(p) \in Nat /\ Len(p.payload) \in Nat /\ End(p) = At(p) + Len(p.payload)
      BY <2>1, PieceBytes
    <2>7. ASSUME NEW k \in 1..Len(audio'.data), audio'.data[k][1] = f
          PROVE  audio'.data[k][2] \in Nat /\ audio'.data[k][2] <= End(p)
      <3>1. CASE k \in 1..Len(d) /\ audio'.data[k] = d[k]
        <4>1. d[k][2] \in Nat
          BY <3>1, HeardBytes
        <4>2. d[k][2] <= At(p)
          BY <2>1, <2>2, <2>7, <3>1 DEF Hearing, HeardBefore, f
        <4> QED BY <2>6, <3>1, <4>1, <4>2
      <3>2. CASE /\ k - Len(d) \in 1..Len(p.payload) /\ k > Len(d)
                 /\ audio'.data[k] = <<f, At(p) + (k - Len(d))>>
        <4>1. PICK i \in 1..Len(p.payload) : i = k - Len(d)
          BY <3>2, Zenon
        <4>2. audio'.data[k] = <<f, At(p) + i>>
          BY <3>2, <4>1, Zenon
        <4> QED BY <2>6, <4>1, <4>2
      <3> QED BY <2>1, <3>1, <3>2
    <2>8. ASSUME NEW q \in DataOf(s), q.seq >= audio'.next, q.seq - audio'.next <= MaxGap
          PROVE  At(q) >= End(p) /\ At(q) \in Nat
      <3>1. q \in DataOf(air) /\ p.seq <= q.seq /\ q.seq \in 0..MaxSeq
        BY <2>5
      <3>2. At(q) \in Nat
        BY <3>1 DEF Flying, Piece
      <3>3. CASE p.seq = MaxSeq
        <4>1. audio'.next = 0 /\ q.seq = MaxSeq
          BY <1>0, <2>2, <3>1, <3>3
        <4>2. FALSE
          BY <1>0, <2>8, <4>1
        <4> QED BY <4>2
      <3>4. CASE p.seq # MaxSeq
        <4>1. q.seq > p.seq
          BY <1>0, <2>2, <2>8, <3>1, <3>4
        <4>2. Agree(p, q)
          BY <2>1, <3>1 DEF Flying
        <4> QED BY <3>2, <4>1, <4>2 DEF Agree
      <3> QED BY <3>3, <3>4
    <2>9. ~segmenter.finished => End(p) <= Cursor /\ Cursor \in Int
      <3>1. returned \in Nat /\ Len(segmenter.pending) \in Nat
        BY DEF LegacyTypes, SegmenterType
      <3> QED BY <2>1, <3>1 DEF Before, Cursor
    <2>10. Cursor' = Cursor
      BY <2>3 DEF Cursor
    <2> SUFFICES ASSUME NEW k \in 1..Len(audio'.data), audio'.data[k][1] = f
                 PROVE  /\ \A q \in DataOf(s) :
                              q.seq >= audio'.next /\ q.seq - audio'.next <= MaxGap =>
                                  audio'.data[k][2] <= At(q)
                        /\ ~segmenter.finished => audio'.data[k][2] <= Cursor
      BY <2>3, <2>4, <2>10 DEF HeardBefore, f
    <2>11. audio'.data[k][2] \in Nat /\ audio'.data[k][2] <= End(p) /\ End(p) \in Nat
      BY <2>6, <2>7
    <2>12. ASSUME NEW q \in DataOf(s), q.seq >= audio'.next, q.seq - audio'.next <= MaxGap
           PROVE  audio'.data[k][2] <= At(q)
      BY <2>8, <2>11, <2>12
    <2> QED BY <2>9, <2>11, <2>12
  <1> QED BY <1>1, <1>2, <1>3, AudioSteps

-----------------------------------------------------------------------------
(* The invariant.                                                          *)

LEMMA LegacyTypesNext ==
    ASSUME LegacyAssumption, LegacyInv, LegacyNext
    PROVE  LegacyTypes'
  <1>0. LegacyTypes /\ Segmenting /\ Flying /\ Stored /\ Hearing
    BY DEF LegacyInv
  <1>1. /\ stream' \in 0..Len(Streams)
        /\ segmenter' \in SegmenterType /\ returned' \in Nat
        /\ air' \in Seq(Frames)
    <2>1. CASE Fewer
      BY <1>0, <2>1 DEF Fewer, LegacyTypes
    <2>2. CASE BeginStream
      <3>1. stream' \in 0..Len(Streams) /\ stream' \in Nat /\ returned' = 0
        BY <1>0, <2>2 DEF BeginStream, LegacyTypes, LegacyAssumption
      <3>2. segmenter' \in SegmenterType
        <4> DEFINE no == FALSE
                   none == <<>>
        <4>1. no \in BOOLEAN /\ none \in Seq(FileByte) /\ 0 \in 0..MaxSeq + 1
              /\ segmenter' = [next |-> 0, pending |-> none, atEnd |-> no, finished |-> no]
          BY <2>2 DEF BeginStream, Fresh, LegacyAssumption
        <4> HIDE DEF no, none
        <4> QED BY <4>1 DEF SegmenterType
      <3>3. Control("START", stream') \in Frames
        BY <3>1 DEF Control, Frames, Controls
      <3>4. <<Control("START", stream')>> \in Seq(Frames)
        BY <3>3
      <3>5. air' = <<Control("START", stream')>>
        BY <2>2 DEF BeginStream
      <3> QED BY <3>1, <3>2, <3>4, <3>5
    <2>3. CASE ~segmenter.finished /\ \E p \in Datas, g \in SegmenterType : Cuts(p, g)
      <3>1. PICK p \in Datas : \E g \in SegmenterType : Cuts(p, g)
        BY <2>3
      <3>2. PICK g \in SegmenterType : Cuts(p, g)
        BY <3>1
      <3>3. Cursor \in Nat
        BY <1>0, <2>3, <3>2, CutsOrder
      <3>4. Len(p.payload) \in Nat /\ Len(g.pending) \in Nat
        BY DEF Datas, SegmenterType
      <3>5. returned' \in Nat
        BY <3>2, <3>3, <3>4 DEF Cuts
      <3>6. air' \in Seq(Frames)
        BY <1>0, <3>2, AppendAir DEF Cuts, Frames, LegacyTypes
      <3> QED BY <1>0, <3>2, <3>5, <3>6 DEF Cuts, LegacyTypes
    <2> QED BY <1>0, <2>1, <2>2, <2>3, SenderSteps
  <1>2. /\ rx' \in ReceiverType
        /\ IsActive(rx') => partial' \in Seq(FileByte)
        /\ published' \in Seq(Seq(FileByte))
    <2>0. /\ rx \in ReceiverType /\ published \in Seq(Seq(FileByte))
          /\ Active => partial \in Seq(FileByte)
          /\ IsActive(rx) <=> Active
      BY <1>0 DEF LegacyTypes, IsActive, Active
    <2>1. CASE Unmoved
      BY <2>0, <2>1 DEF Unmoved
    <2>2. CASE Concluded
      BY <2>0, <2>2 DEF Concluded
    <2>3. CASE Opened
      BY <2>0, <2>3 DEF Opened
    <2>4. CASE Arrives /\ IsData(Head(air)) /\ (Written(Head(air)) \/ Finished(Head(air)))
      <3> DEFINE p == Head(air)
      <3>1. p \in Datas
        <4>1. air # <<>>
          BY <2>4 DEF Arrives
        <4> QED BY <1>0, <2>4, <4>1, TailAir, DataShape DEF LegacyTypes
      <3> HIDE DEF p
      <3>2. p.payload \in Seq(FileByte) /\ (Written(p) \/ Finished(p))
        BY <2>4, <3>1 DEF p, Datas
      <3>3. Active
        BY <3>2 DEF Written, Finished, Expects
      <3>4. partial \o p.payload \in Seq(FileByte)
        BY <2>0, <3>2, <3>3, ConcatProperties
      <3>5. CASE Written(p)
        BY <2>0, <3>4, <3>5 DEF Written
      <3>6. CASE Finished(p)
        <4>1. Append(published, partial \o p.payload) \in Seq(Seq(FileByte))
          BY <2>0, <3>4, AppendProperties
        <4> QED BY <3>6, <4>1 DEF Finished
      <3> QED BY <3>2, <3>5, <3>6
    <2> QED BY <1>0, <2>1, <2>2, <2>3, <2>4, ReceiverSteps
  <1>3. audio' \in AudioType
    <2>1. audio \in AudioType
      BY <1>0 DEF LegacyTypes
    <2>2. CASE audio' = NoAudio
      <3> DEFINE no == FALSE
                 none == <<>>
      <3>1. no \in BOOLEAN /\ none \in Seq(FileByte) /\ 0 \in 0..MaxSeq /\ 0 \in Nat
            /\ audio' = [data |-> none, next |-> 0, missing |-> 0, started |-> no,
                         complete |-> no]
        BY <2>2 DEF NoAudio, LegacyAssumption
      <3> HIDE DEF no, none
      <3> QED BY <3>1 DEF AudioType
    <2>3. CASE air # <<>> /\ IsData(Head(air)) /\ Heard(Head(air))
      BY <1>0, <2>3, HeardShape
    <2> QED BY <1>0, <2>1, <2>2, <2>3, AudioSteps
  <1>4. IsActive(rx') <=> Active'
    BY DEF IsActive, Active
  <1> QED BY <1>1, <1>2, <1>3, <1>4 DEF LegacyTypes

LEMMA ReceivesNext ==
    ASSUME LegacyAssumption, LegacyInv, Waits, Receives, LegacyNext
    PROVE  Receives'
  <1> DEFINE f == Streams[stream]
  <1>0. LegacyTypes /\ Segmenting /\ Flying /\ Stored /\ Hearing
    BY DEF LegacyInv
  <1>1. /\ segmenter.next \in Nat /\ rx.expected \in Nat /\ stream \in Nat
        /\ Active => partial \in Seq(FileByte) /\ Len(partial) \in Nat
    BY <1>0 DEF LegacyTypes, SegmenterType, ReceiverType, LegacyAssumption
  <1>2. CASE Unmoved
    <2> SUFFICES ASSUME Active PROVE Receives'
      BY <1>2 DEF Unmoved, Receives, Active
    <2>1. /\ rx' = rx /\ partial' = partial /\ Active'
      BY <1>2 DEF Unmoved, Active
    <2>2. ~BeginStream
      BY DEF BeginStream
    <2>3. CASE Fewer
      <3>1. /\ UNCHANGED stream /\ DataOf(air') \subseteq DataOf(air)
            /\ segmenter'.next = segmenter.next
            /\ segmenter'.finished \/ UNCHANGED <<segmenter, returned>>
        BY <2>3 DEF Fewer
      <3>2. ~segmenter'.finished => Cursor' = Cursor /\ ~segmenter.finished
        BY <3>1 DEF Cursor
      <3>3. PICK s : s = air'
        OBVIOUS
      <3>4. \A p \in DataOf(s) : p.seq = rx.expected => At(p) = Len(partial)
        BY <3>1, <3>3 DEF Receives
      <3> QED BY <2>1, <3>1, <3>2, <3>3, <3>4 DEF Receives
    <2>4. CASE ~segmenter.finished /\ \E p \in Datas, g \in SegmenterType : Cuts(p, g)
      <3>1. PICK p \in Datas : \E g \in SegmenterType : Cuts(p, g)
        BY <2>4
      <3>2. PICK g \in SegmenterType : Cuts(p, g)
        BY <3>1
      <3>3. At(p) = Cursor
        BY <1>0, <2>4, <3>2, CutsOrder
      <3>4. /\ UNCHANGED stream /\ air' = Append(air, p) /\ p.seq = segmenter.next
            /\ segmenter'.next = segmenter.next + 1
        BY <3>2 DEF Cuts
      <3>5. PICK s : s = air'
        OBVIOUS
      <3>6. DataOf(s) \subseteq DataOf(air) \cup {p}
        BY <1>0, <3>4, <3>5, AppendAir DEF Frames, LegacyTypes
      <3>7. p.seq = rx.expected => At(p) = Len(partial)
        BY <2>4, <3>3, <3>4 DEF Receives
      <3>8. \A q \in DataOf(s) : q.seq = rx.expected => At(q) = Len(partial)
        BY <3>6, <3>7 DEF Receives
      <3>9. rx.expected <= segmenter'.next /\ segmenter'.next # rx.expected
        BY <1>1, <3>4 DEF Receives
      <3> QED BY <2>1, <3>4, <3>5, <3>8, <3>9 DEF Receives
    <2> QED BY <1>0, <2>2, <2>3, <2>4, SenderSteps
  <1>3. CASE Concluded
    BY <1>3 DEF Concluded, IsActive, Receives, Active
  <1>4. CASE Finished(Head(air))
    BY <1>4 DEF Finished, IsActive, Receives, Active
  <1>5. CASE Arrives /\ Opened
    <2>1. /\ stream > 0 /\ UNCHANGED <<stream, segmenter, returned>> /\ air # <<>>
          /\ air' = Tail(air)
      BY <1>0, <1>5 DEF Arrives, Flying
    <2>2. PICK s : s = air'
      OBVIOUS
    <2>3. DataOf(s) \subseteq DataOf(air)
      BY <1>0, <2>1, <2>2, TailAir DEF LegacyTypes
    <2>4. /\ rx'.state = "AwaitingFirst" /\ rx'.expected = 0 /\ partial' = <<>>
          /\ Len(partial') = 0
      BY <1>5 DEF Opened
    <2>5. stream \in 1..Len(Streams)
      BY <1>0, <2>1 DEF LegacyTypes
    <2>6. f \in STRING /\ Size[f] \in Nat
      BY <2>5, FileShape
    <2>7. Bytes(f, 0, 0) = <<>>
      BY DEF Bytes
    <2>8. \A p \in DataOf(s) : p.seq = 0 => At(p) = 0
      BY <1>0, <2>3 DEF Flying, Piece
    <2>9. ~segmenter.finished /\ segmenter.next = 0 => Cursor = 0
      BY <1>0 DEF Segmenting
    <2>10. Cursor' = Cursor
      BY <2>1 DEF Cursor
    <2> QED BY <1>1, <2>1, <2>2, <2>4, <2>6, <2>7, <2>8, <2>9, <2>10 DEF Receives
  <1>6. CASE Arrives /\ IsData(Head(air)) /\ Written(Head(air))
    <2> DEFINE p == Head(air)
    <2>1. /\ UNCHANGED <<stream, segmenter, returned>> /\ air # <<>> /\ air' = Tail(air)
      BY <1>6 DEF Arrives
    <2>2. PICK s : s = air'
      OBVIOUS
    <2>3. p \in DataOf(air) /\ DataOf(s) \subseteq DataOf(air)
      BY <1>0, <1>6, <2>1, <2>2, TailAir DEF LegacyTypes
    <2>4. p \in Datas /\ p.seq \in Nat
      BY <1>0, <2>3, DataShape DEF LegacyTypes, LegacyAssumption
    <2>5. Written(p)
      BY <1>6
    <2> HIDE DEF p
    <2>6. /\ Active /\ stream \in 1..Len(Streams) /\ f \in STRING /\ Size[f] \in Nat
      <3>1. Active /\ stream > 0
        BY <2>5 DEF Written, Expects, Receives
      <3>2. stream \in 1..Len(Streams)
        BY <1>0, <3>1 DEF LegacyTypes
      <3> QED BY <3>1, <3>2, FileShape
    <2>7. p.seq = rx.expected
      BY <2>5, <2>6 DEF Written, Expects, Receives, Active
    <2>8. PICK n \in Nat : n = Len(partial)
      BY <1>1, <2>6
    <2>9. Piece(p, f) /\ Before(p) /\ At(p) = n
      BY <1>0, <2>3, <2>6, <2>7, <2>8 DEF Flying, Receives
    <2>10. PICK k \in Nat : k = Len(p.payload)
      BY <2>4 DEF Datas
    <2>11. /\ p.payload = Bytes(f, n, k) /\ End(p) = n + k /\ n + k <= Size[f]
           /\ partial = Bytes(f, 0, n) /\ p.payload # <<>> /\ n + k \in Nat
      BY <2>6, <2>8, <2>9, <2>10 DEF Piece, End, Receives
    <2>12. partial' = Bytes(f, 0, n + k) /\ Len(partial') = n + k
      <3>1. partial' = Bytes(f, 0, n) \o Bytes(f, n, k)
        BY <2>5, <2>11, Zenon DEF Written
      <3>2. ASSUME NEW name \in STRING
            PROVE  Bytes(name, 0, n) \o Bytes(name, n, k) = Bytes(name, 0, n + k)
        <4>1. PICK a \in Nat : a = 0
          OBVIOUS
        <4>2. Bytes(name, a, n) \o Bytes(name, a + n, k) = Bytes(name, a, n + k)
          BY BytesJoin
        <4>3. a + n = n
          BY <4>1
        <4> QED BY <4>1, <4>2, <4>3, Zenon
      <3>3. Bytes(f, 0, n) \o Bytes(f, n, k) = Bytes(f, 0, n + k)
        BY <2>6, <3>2, Zenon
      <3>4. Len(Bytes(f, 0, n + k)) = n + k
        BY <2>6, <2>11, BytesShape
      <3> QED BY <3>1, <3>3, <3>4, Zenon
    <2>13. rx'.state = "Receiving" /\ rx'.expected = p.seq + 1
      BY <2>5 DEF Written
    <2>14. p.seq < segmenter.next
           /\ (~segmenter.finished /\ segmenter.next = p.seq + 1 => Cursor = n + k)
      BY <2>9, <2>11 DEF Before
    <2>15. ASSUME NEW q \in DataOf(s), q.seq = p.seq + 1 PROVE At(q) = n + k
      <3>1. Agree(p, q)
        BY <1>0, <2>3 DEF Flying
      <3> QED BY <2>11, <2>15, <3>1 DEF Agree
    <2>16. Cursor' = Cursor
      BY <2>1 DEF Cursor
    <2>17. rx'.expected <= segmenter.next /\ rx'.expected # 0 /\ stream > 0
      BY <1>1, <2>4, <2>6, <2>13, <2>14
    <2> QED BY <2>1, <2>2, <2>11, <2>12, <2>13, <2>14, <2>15, <2>16, <2>17 DEF Receives
  <1> QED BY <1>0, <1>2, <1>3, <1>4, <1>5, <1>6, ReceiverSteps

\* What is published with packet p is the file being sent.
LEMMA PublishedNext ==
    ASSUME LegacyAssumption, LegacyInv, Waits, Receives, PublishedIsWhole, LegacyNext
    PROVE  PublishedIsWhole'
  <1> DEFINE f == Streams[stream]
  <1>0. LegacyTypes /\ Segmenting /\ Flying /\ Stored /\ Hearing
    BY DEF LegacyInv
  <1>1. CASE UNCHANGED published
    BY <1>1 DEF PublishedIsWhole
  <1>2. CASE Arrives /\ IsData(Head(air)) /\ Finished(Head(air))
    <2> DEFINE p == Head(air)
    <2>1. p \in DataOf(air) /\ p \in Datas /\ p.seq \in Nat
      <3>1. air # <<>>
        BY <1>2 DEF Arrives
      <3>2. p \in DataOf(air)
        BY <1>0, <1>2, <3>1, TailAir DEF LegacyTypes
      <3> QED BY <1>0, <3>2, DataShape DEF LegacyTypes, LegacyAssumption
    <2>2. Finished(p)
      BY <1>2
    <2> HIDE DEF p
    <2>3. /\ Active /\ stream \in 1..Len(Streams) /\ f \in STRING /\ Size[f] \in Nat
          /\ f \in Range(Streams)
      <3>1. Active /\ stream > 0
        BY <2>2 DEF Finished, Expects, Receives
      <3>2. stream \in 1..Len(Streams)
        BY <1>0, <3>1 DEF LegacyTypes
      <3> QED BY <3>1, <3>2, FileShape
    <2>4. p.seq = rx.expected
      BY <2>2, <2>3 DEF Finished, Expects, Receives, Active
    <2>5. PICK n \in Nat : n = Len(partial)
      <3>1. partial \in Seq(FileByte)
        BY <1>0, <2>3 DEF LegacyTypes
      <3> QED BY <3>1
    <2>6. Piece(p, f) /\ At(p) = n /\ p.last
      BY <1>0, <2>1, <2>2, <2>3, <2>4, <2>5 DEF Flying, Receives, Finished
    <2>7. PICK k \in Nat : k = Len(p.payload)
      BY <2>1 DEF Datas
    <2>8. /\ p.payload = Bytes(f, n, k) /\ n + k = Size[f] /\ partial = Bytes(f, 0, n)
      BY <2>3, <2>5, <2>6, <2>7 DEF Piece, End, Receives
    <2>9. partial \o p.payload = Content(f)
      <3>1. ASSUME NEW name \in STRING
            PROVE  Bytes(name, 0, n) \o Bytes(name, n, k) = Bytes(name, 0, n + k)
        <4>1. PICK a \in Nat : a = 0
          OBVIOUS
        <4>2. Bytes(name, a, n) \o Bytes(name, a + n, k) = Bytes(name, a, n + k)
          BY BytesJoin
        <4>3. a + n = n
          BY <4>1
        <4> QED BY <4>1, <4>2, <4>3, Zenon
      <3>2. Bytes(f, 0, n) \o Bytes(f, n, k) = Bytes(f, 0, n + k)
        BY <2>3, <3>1, Zenon
      <3> QED BY <2>8, <3>2, Zenon DEF Content
    <2>10. published \in Seq(Seq(FileByte)) /\ published' = Append(published, partial \o p.payload)
      BY <1>0, <2>2 DEF LegacyTypes, Finished
    <2>11. PICK c : c = Content(f)
      OBVIOUS
    <2>12. published' = Append(published, c) /\ c \in Seq(FileByte)
      <3>1. partial \o p.payload \in Seq(FileByte)
        BY <1>0, <2>1, <2>3, ConcatProperties DEF LegacyTypes, Datas
      <3> QED BY <2>9, <2>10, <2>11, <3>1
    <2>13. /\ published' \in Seq(Seq(FileByte)) /\ Len(published') = Len(published) + 1
           /\ Len(published) \in Nat
           /\ \A i \in 1..Len(published) : published'[i] = published[i]
           /\ published'[Len(published) + 1] = c
      BY <2>10, <2>12, AppendProperties
    <2> SUFFICES ASSUME NEW i \in DOMAIN published'
                 PROVE  \E name \in Range(Streams) : published'[i] = Content(name)
      BY DEF PublishedIsWhole
    <2>14. i \in 1..Len(published) \/ i = Len(published) + 1
      BY <2>13
    <2>15. CASE i \in 1..Len(published)
      <3>1. i \in DOMAIN published
        BY <2>10, <2>15
      <3> QED BY <2>13, <2>15, <3>1, Zenon DEF PublishedIsWhole
    <2>16. CASE i = Len(published) + 1
      BY <2>3, <2>11, <2>13, <2>16, Zenon
    <2> QED BY <2>14, <2>15, <2>16
  <1>3. UNCHANGED published \/ (Arrives /\ IsData(Head(air)) /\ Finished(Head(air)))
    BY <1>0, ReceiverSteps DEF Unmoved, Concluded, Opened, Written
  <1> QED BY <1>1, <1>2, <1>3

LEMMA LegacyInitInv ==
    ASSUME LegacyAssumption, LegacyInit
    PROVE  LegacyInv /\ WholeInv
  <1>1. /\ stream = 0 /\ segmenter = [Fresh EXCEPT !.finished = TRUE] /\ returned = 0
        /\ air = <<>> /\ rx = NoTransfer /\ partial = Absent /\ published = <<>>
        /\ audio = NoAudio
    BY DEF LegacyInit
  <1>2. 0 \in 0..MaxSeq /\ 0 \in 0..MaxSeq + 1 /\ 0 \in Nat /\ 0 \in 0..Len(Streams)
    BY DEF LegacyAssumption
  <1>3. segmenter \in SegmenterType /\ segmenter.finished
    <2> DEFINE no == FALSE
               yes == TRUE
               none == <<>>
               s == [next |-> 0, pending |-> none, atEnd |-> no, finished |-> yes]
    <2>1. no \in BOOLEAN /\ yes \in BOOLEAN /\ yes /\ none \in Seq(FileByte)
      OBVIOUS
    <2>2. segmenter = s
      BY <1>1 DEF Fresh
    <2> HIDE DEF no, yes, none
    <2>3. s \in SegmenterType /\ s.finished = yes
      BY <1>2, <2>1 DEF SegmenterType
    <2> HIDE DEF s
    <2> QED BY <2>1, <2>2, <2>3
  <1>4. audio \in AudioType /\ audio.data = <<>> /\ audio.next = 0 /\ audio.missing = 0
    <2> DEFINE no == FALSE
               none == <<>>
               a == [data |-> none, next |-> 0, missing |-> 0, started |-> no, complete |-> no]
    <2>1. no \in BOOLEAN /\ none \in Seq(FileByte) /\ none = <<>>
      OBVIOUS
    <2>2. audio = a
      BY <1>1 DEF NoAudio
    <2> HIDE DEF no, none
    <2>3. a \in AudioType /\ a.data = none /\ a.next = 0 /\ a.missing = 0
      BY <1>2, <2>1 DEF AudioType
    <2> HIDE DEF a
    <2> QED BY <2>1, <2>2, <2>3
  <1>5. rx \in ReceiverType /\ rx.state = "Idle" /\ ~rx.present /\ ~Active
    BY <1>1, NoTransferType DEF NoTransfer, Active
  <1>6. LegacyTypes
    BY <1>1, <1>2, <1>3, <1>4, <1>5 DEF LegacyTypes
  <1>7. DataOf(air) = {} /\ Rising(air)
    BY <1>1 DEF DataOf, Rising
  <1>8. Segmenting /\ Flying /\ Stored
    BY <1>1, <1>3, <1>5, <1>7 DEF Segmenting, Flying, Stored
  <1>9. Hearing
    <2>1. Len(audio.data) = 0 /\ DOMAIN audio.data = {}
      BY <1>4
    <2> QED BY <1>4, <2>1 DEF Hearing, Unheard, HeardOfStreams, AudioIsOrdered, HeardBefore
  <1>10. WholeInv
    BY <1>1, <1>5 DEF WholeInv, Receives, PublishedIsWhole
  <1> QED BY <1>6, <1>8, <1>9, <1>10 DEF LegacyInv

LEMMA LegacyStep ==
    ASSUME LegacyAssumption, LegacyInv, LegacyNext
    PROVE  LegacyInv'
  <1>1. LegacyTypes /\ Segmenting /\ Flying /\ Stored /\ Hearing
    BY DEF LegacyInv
  <1>2. LegacyTypes' /\ Segmenting' /\ Flying' /\ Stored'
    BY <1>1, LegacyTypesNext, SegmentingNext, FlyingNext, StoredNext
  <1>3. Unheard' /\ HeardOfStreams' /\ AudioIsOrdered' /\ HeardBefore'
    BY <1>1, UnheardNext, HeardOfStreamsNext, AudioIsOrderedNext, HeardBeforeNext
  <1> QED BY <1>2, <1>3 DEF LegacyInv, Hearing

LEMMA WholeStep ==
    ASSUME LegacyAssumption, LegacyInv, WholeInv, LegacyNext
    PROVE  WholeInv'
  <1>1. WholeInv' <=> (Waits => Receives' /\ PublishedIsWhole')
    BY DEF WholeInv
  <1> QED BY <1>1, ReceivesNext, PublishedNext DEF WholeInv

LEMMA LegacyStutter ==
    ASSUME LegacyInv, WholeInv, UNCHANGED legacyVars
    PROVE  LegacyInv' /\ WholeInv'
  <1>1. UNCHANGED <<stream, segmenter, returned, air, rx, partial, published, audio>>
    BY DEF legacyVars
  <1>2. Active' <=> Active
    BY <1>1 DEF Active
  <1>3. Cursor' = Cursor
    BY <1>1 DEF Cursor
  <1>4. LegacyTypes' /\ Segmenting'
    BY <1>1, <1>2, <1>3 DEF LegacyInv, LegacyTypes, Segmenting
  <1>5. Flying'
    BY <1>1, <1>3 DEF LegacyInv, Flying, Before
  <1>6. Stored' /\ Hearing'
    BY <1>1, <1>2, <1>3 DEF LegacyInv, Stored, Hearing, Unheard, HeardOfStreams,
                            AudioIsOrdered, HeardBefore
  <1>7. WholeInv'
    BY <1>1, <1>2, <1>3 DEF WholeInv, Receives, PublishedIsWhole
  <1> QED BY <1>4, <1>5, <1>6, <1>7 DEF LegacyInv

\* The inductive invariant of the one-way stream.
THEOREM LegacyInvariant ==
    LegacyAssumption => (LegacySpec => [](LegacyInv /\ WholeInv))
  <1> SUFFICES ASSUME LegacyAssumption PROVE LegacySpec => [](LegacyInv /\ WholeInv)
    OBVIOUS
  <1>1. LegacyInit => LegacyInv /\ WholeInv
    BY LegacyInitInv
  <1>2. (LegacyInv /\ WholeInv) /\ [LegacyNext]_legacyVars => (LegacyInv /\ WholeInv)'
    BY LegacyStep, WholeStep, LegacyStutter
  <1> QED BY <1>1, <1>2, PTL DEF LegacySpec

LEMMA LegacyInvTrue ==
    ASSUME LegacyAssumption, LegacyInv, WholeInv, Waits
    PROVE  LegacyTrue
  <1>1. LegacyTypes /\ Stored /\ Hearing
    BY DEF LegacyInv
  <1>2. PublishedIsWhole
    BY DEF WholeInv
  <1>3. LegacyTypeOK
    BY <1>1 DEF LegacyTypes, LegacyTypeOK, SegmenterType, ReceiverType, RxStates, AudioType
  <1>4. OrphanIsReported
    BY <1>1 DEF Stored, OrphanIsReported
  <1>5. AudioIsOrdered
    BY <1>1 DEF Hearing
  <1> QED BY <1>2, <1>3, <1>4, <1>5 DEF LegacyTrue

\* Where a stream begins only when the last session has ended.
THEOREM LegacyStreamTrue ==
    LegacyAssumption /\ Waits => (LegacySpec => []LegacyTrue)
  <1> SUFFICES ASSUME LegacyAssumption, Waits PROVE LegacySpec => []LegacyTrue
    OBVIOUS
  <1>1. LegacySpec => [](LegacyInv /\ WholeInv)
    BY LegacyInvariant
  <1>2. LegacyInv /\ WholeInv => LegacyTrue
    BY LegacyInvTrue
  <1> QED BY <1>1, <1>2, PTL

\* Whenever a stream begins: what is left on the storage is known of, and what is
\* heard keeps its order (Transfer::fail, cleanupStorage, AudioReassembler::acceptPacket).
THEOREM StorageAndAudioTrue ==
    LegacyAssumption => (LegacySpec => [](OrphanIsReported /\ AudioIsOrdered))
  <1> SUFFICES ASSUME LegacyAssumption
               PROVE  LegacySpec => [](OrphanIsReported /\ AudioIsOrdered)
    OBVIOUS
  <1>1. LegacySpec => [](LegacyInv /\ WholeInv)
    BY LegacyInvariant
  <1>2. LegacyInv => OrphanIsReported /\ AudioIsOrdered
    BY DEF LegacyInv, Stored, OrphanIsReported, Hearing
  <1> QED BY <1>1, <1>2, PTL

=============================================================================
