----------------------------- MODULE TextMessages -----------------------------
(***************************************************************************)
(* Live text between boards: TEXT cuts a message into chunks of one radio  *)
(* packet each, sends every chunk with up to MaxAttempts tries, and the    *)
(* boards that listen put the chunks together again (main.cpp commandText  *)
(* and rxTask, stream_sync.hpp TextMessageAssembler).  In the builds with  *)
(* control by radio, REMOTE sends a command in a single packet the same    *)
(* way, and the board that hears it runs it.                               *)
(*                                                                         *)
(* Nothing acknowledges a chunk.  A try that the sender takes for failed   *)
(* may have been heard, a try it takes for good may not, several boards    *)
(* speak at once, a board that speaks does not listen, and the chip keeps  *)
(* only FifoDepth unread packets.  A packet stands for its message and the *)
(* number of its chunk; the 22 characters it carries are abstracted to     *)
(* that pair, so a text is the sequence of the packets it was built of.    *)
(***************************************************************************)
EXTENDS Integers, Sequences, FiniteSets, Functions

CONSTANTS
    Boards,        \* the boards
    InRange,       \* InRange[b]: the boards that can hear board b
    Messages,      \* what is sent: texts, and commands for other boards
    NoMessage,     \* no message
    Remote,        \* the messages that are commands (REMOTE)
    Outboxes,      \* what the clients may send: functions from boards to the
                   \* messages of their clients, in this order
    Id,            \* Id[m]: the random number commandText gives text m
    Chunks,        \* Chunks[m]: how many packets m takes
    FifoDepth,     \* unread packets the radio chip holds
    DrainMax,      \* packets one pass of the worker reads at most
    MaxAttempts,   \* tries of one chunk
    MaxTextMishaps \* bound: packets a listening board misses, tries the sender takes
                   \* for failed, second copies within a try, packets that arrive with
                   \* a text header and no valid chunk, and STOPs, all together

TextAssumption ==
    /\ InRange \in [Boards -> SUBSET Boards]
    /\ NoMessage \notin Messages
    /\ Remote \subseteq Messages
    /\ \A box \in Outboxes :
          /\ box \in [Boards -> Seq(Messages)]
          /\ \A b \in Boards : IsInjective(box[b])
          /\ \A b \in Boards, c \in Boards :
                b # c => Range(box[b]) \cap Range(box[c]) = {}
    /\ Id \in [Messages -> Nat \ {0}]
    /\ Chunks \in [Messages -> Nat \ {0}]
    /\ \A m \in Remote : Chunks[m] = 1
    /\ {FifoDepth, DrainMax, MaxAttempts} \subseteq Nat \ {0}
    /\ MaxTextMishaps \in Nat

\* Two texts whose chunks are told apart by nothing are beyond the protocol:
\* their numbers are drawn at random from 32768.
IdsTell ==
    \A m, n \in Messages \ Remote :
        m # n /\ Id[m] = Id[n] => Chunks[m] # Chunks[n]

Packet == [msg : Messages, chunk : Nat \ {0}]
Garbled == [msg |-> NoMessage, chunk |-> 0]

VARIABLES
    outbox,    \* outbox[b]: what b's clients send
    begun,     \* begun[b]: how many messages of its outbox b has begun to send
    tx,        \* tx[b]: the chunk being sent, or Silent
    listening, \* listening[b]: the radio is in RxListening
    fifo,      \* fifo[b]: packets the chip holds unread
    assembler, \* assembler[b]: TextMessageAssembler
    pass,      \* pass[b]: the worker's pass over the pending packets
    printed,   \* history: texts b printed as TEXT RX
    executed,  \* history: commands b ran
    read,      \* history: packets b read, and Garbled where a reading was cut
    textMishaps \* mishaps so far

textVars == <<outbox, begun, tx, listening, fifo, assembler, pass, printed, executed, read,
          textMishaps>>

-----------------------------------------------------------------------------
(* The assembler of one board.                                             *)

NoText == [active |-> FALSE, id |-> 0, count |-> 0, next |-> 1, text |-> <<>>]

\* Chunk 0 of any text begins anew, whatever was under way.
Opened(asm, m, chunk) ==
    IF chunk = 1 THEN [active |-> TRUE, id |-> Id[m], count |-> Chunks[m],
                       next |-> 1, text |-> <<>>]
                 ELSE asm

\* Faulty: the number of chunks is not compared.
SameText_AnyCount(asm, m) == asm.id = Id[m]

SameText(asm, m) == asm.id = Id[m] /\ asm.count = Chunks[m]

Takes(asm, m, chunk) == asm.active /\ SameText(asm, m) /\ chunk = asm.next

\* A chunk nobody waits for, and one the text already has.
Ignores(asm, m, chunk) == ~asm.active \/ (SameText(asm, m) /\ chunk < asm.next)

Longer(asm, m, chunk) == Append(asm.text, [msg |-> m, chunk |-> chunk])

\* Faulty: a complete text leaves the assembler as it was.
Extended_Again(asm, m, chunk) ==
    IF chunk = asm.count THEN asm
    ELSE [asm EXCEPT !.next = chunk + 1, !.text = Longer(asm, m, chunk)]

Extended(asm, m, chunk) ==
    [asm EXCEPT !.active = chunk < asm.count, !.next = chunk + 1,
                !.text = Longer(asm, m, chunk)]

\* What accept does with a packet that has a text header: the new assembler
\* and the text it completes, <<>> when there is none.  A chunk that is neither
\* the next one nor ignored throws the text away.
AcceptChunk(asm, m, chunk) ==
    LET cur == Opened(asm, m, chunk)
    IN  [asm  |-> IF Takes(cur, m, chunk) THEN Extended(cur, m, chunk)
                  ELSE IF Ignores(cur, m, chunk) THEN cur ELSE NoText,
         done |-> IF Takes(cur, m, chunk) /\ chunk = cur.count
                  THEN Longer(cur, m, chunk) ELSE <<>>]

\* Faulty: an invalid chunk does not touch the assembler.
Accept_Keeps(asm, p) ==
    IF p = Garbled THEN [asm |-> asm, done |-> <<>>]
                   ELSE AcceptChunk(asm, p.msg, p.chunk)

Accept(asm, p) ==
    IF p = Garbled THEN [asm |-> NoText, done |-> <<>>]
                   ELSE AcceptChunk(asm, p.msg, p.chunk)

-----------------------------------------------------------------------------
Silent == [msg |-> NoMessage, chunk |-> 0, attempt |-> 0, copies |-> 0]
NoPass == [at |-> "none", count |-> 0, texts |-> <<>>, command |-> NoMessage]

TextsInit ==
    /\ outbox \in Outboxes
    /\ begun = [b \in Boards |-> 0]
    /\ tx = [b \in Boards |-> Silent]
    /\ listening = [b \in Boards |-> TRUE]
    /\ fifo = [b \in Boards |-> <<>>]
    /\ assembler = [b \in Boards |-> NoText]
    /\ pass = [b \in Boards |-> NoPass]
    /\ printed = [b \in Boards |-> <<>>]
    /\ executed = [b \in Boards |-> <<>>]
    /\ read = [b \in Boards |-> <<>>]
    /\ textMishaps = 0

TextMishap(n) == textMishaps + n <= MaxTextMishaps /\ textMishaps' = textMishaps + n

\* Nobody on board b holds the radio mutex.
RadioFree(b) == tx[b] = Silent /\ pass[b].at # "draining"

\* A board that starts to listen empties the chip's FIFO first (startRx).
EnterRx(b) ==
    /\ listening' = [listening EXCEPT ![b] = TRUE]
    /\ fifo' = [fifo EXCEPT ![b] = <<>>]

-----------------------------------------------------------------------------
(* Sending.                                                                *)

\* TEXT or REMOTE takes the radio and leaves RX; the assembler stays as it is.
TextBegins(b) ==
    /\ RadioFree(b) /\ begun[b] < Len(outbox[b])
    /\ begun' = [begun EXCEPT ![b] = @ + 1]
    /\ tx' = [tx EXCEPT ![b] = [msg |-> outbox[b][begun'[b]], chunk |-> 1,
                                attempt |-> 1, copies |-> 0]]
    /\ listening' = [listening EXCEPT ![b] = FALSE]
    /\ UNCHANGED <<outbox, fifo, assembler, pass, printed, executed, read, textMishaps>>

\* One copy of the packet goes on the air: once for each of the two halves of
\* transmitOnce.  Boards that listen and have room get it, or miss it.
OnAir(b) ==
    /\ tx[b] # Silent /\ tx[b].copies < 2
    /\ \E garbled \in BOOLEAN :
       LET could == {c \in InRange[b] : listening[c] /\ Len(fifo[c]) < FifoDepth}
           again == IF tx[b].copies = 1 THEN 1 ELSE 0
           p == IF garbled THEN Garbled
                           ELSE [msg |-> tx[b].msg, chunk |-> tx[b].chunk]
       IN \E got \in SUBSET could :
          /\ garbled => got # {} /\ tx[b].msg \notin Remote
          /\ TextMishap(Cardinality(could \ got) + again + IF garbled THEN 1 ELSE 0)
          /\ fifo' = [c \in Boards |-> IF c \in got THEN Append(fifo[c], p) ELSE fifo[c]]
    /\ tx' = [tx EXCEPT ![b].copies = @ + 1]
    /\ UNCHANGED <<outbox, begun, listening, assembler, pass, printed, executed, read>>

\* The chip reports the packet as sent: the next chunk follows.  After the last
\* one of a text the board listens again; after a command it is in standby,
\* until RX or the automatic resume, which begin a new session.
Succeeds(b) ==
    /\ tx[b] # Silent /\ tx[b].copies > 0
    /\ IF tx[b].chunk < Chunks[tx[b].msg]
       THEN /\ tx' = [tx EXCEPT ![b] = [msg |-> tx[b].msg, chunk |-> tx[b].chunk + 1,
                                        attempt |-> 1, copies |-> 0]]
            /\ UNCHANGED <<listening, fifo>>
       ELSE /\ tx' = [tx EXCEPT ![b] = Silent]
            /\ IF tx[b].msg \in Remote THEN UNCHANGED <<listening, fifo>>
                                      ELSE EnterRx(b)
    /\ UNCHANGED <<outbox, begun, assembler, pass, printed, executed, read, textMishaps>>

\* The try is taken for failed, whether or not a copy went out.  After the last
\* try the message is given up where it stands and the board stays out of RX.
Fails(b) ==
    /\ tx[b] # Silent /\ TextMishap(1)
    /\ tx' = [tx EXCEPT ![b] = IF tx[b].attempt < MaxAttempts
                               THEN [msg |-> tx[b].msg, chunk |-> tx[b].chunk,
                                     attempt |-> tx[b].attempt + 1, copies |-> 0]
                               ELSE Silent]
    /\ UNCHANGED <<outbox, begun, listening, fifo, assembler, pass, printed, executed, read>>

-----------------------------------------------------------------------------
(* The operator's STOP and RX.                                             *)

CommandStop(b) ==
    /\ RadioFree(b) /\ listening[b] /\ TextMishap(1)
    /\ listening' = [listening EXCEPT ![b] = FALSE]
    /\ UNCHANGED <<outbox, begun, tx, fifo, assembler, pass, printed, executed, read>>

\* Faulty: the assembler outlives the session.
CommandRx_Continues(b) ==
    /\ RadioFree(b) /\ ~listening[b]
    /\ EnterRx(b)
    /\ read' = [read EXCEPT ![b] = IF @ = <<>> THEN @ ELSE Append(@, Garbled)]
    /\ UNCHANGED <<outbox, begun, tx, assembler, pass, printed, executed, textMishaps>>

\* A new RX session starts with an empty assembler (resetRxSession).
CommandRx(b) ==
    /\ RadioFree(b) /\ ~listening[b]
    /\ EnterRx(b)
    /\ assembler' = [assembler EXCEPT ![b] = NoText]
    /\ read' = [read EXCEPT ![b] = IF @ = <<>> THEN @ ELSE Append(@, Garbled)]
    /\ UNCHANGED <<outbox, begun, tx, pass, printed, executed, textMishaps>>

-----------------------------------------------------------------------------
(* The worker's pass: it holds the radio while it reads up to DrainMax      *)
(* packets, then runs the command it heard and prints the texts.           *)

PassBegins(b) ==
    /\ RadioFree(b) /\ listening[b] /\ fifo[b] # <<>> /\ pass[b].at = "none"
    /\ pass' = [pass EXCEPT ![b].at = "draining"]
    /\ UNCHANGED <<outbox, begun, tx, listening, fifo, assembler, printed, executed, read,
                   textMishaps>>

\* Faulty: the pass goes on behind a command.
MayRead_GoesOn(b) ==
    /\ pass[b].at = "draining" /\ fifo[b] # <<>>
    /\ pass[b].count < DrainMax

MayRead(b) ==
    /\ pass[b].at = "draining" /\ fifo[b] # <<>>
    /\ pass[b].count < DrainMax /\ pass[b].command = NoMessage

ReadsText(b) ==
    /\ MayRead(b) /\ Head(fifo[b]).msg \notin Remote
    /\ LET p == Head(fifo[b])
           r == Accept(assembler[b], p)
       IN  /\ assembler' = [assembler EXCEPT ![b] = r.asm]
           /\ pass' = [pass EXCEPT ![b].count = @ + 1,
                                   ![b].texts = IF r.done = <<>> THEN @
                                                ELSE Append(@, r.done)]
           /\ read' = [read EXCEPT ![b] = Append(@, p)]
    /\ fifo' = [fifo EXCEPT ![b] = Tail(@)]
    /\ UNCHANGED <<outbox, begun, tx, listening, printed, executed, textMishaps>>

\* A command ends the pass, so that the next one is not read over it.
ReadsCommand(b) ==
    /\ MayRead(b) /\ Head(fifo[b]).msg \in Remote
    /\ pass' = [pass EXCEPT ![b].count = @ + 1, ![b].command = Head(fifo[b]).msg]
    /\ read' = [read EXCEPT ![b] = Append(@, Head(fifo[b]))]
    /\ fifo' = [fifo EXCEPT ![b] = Tail(@)]
    /\ UNCHANGED <<outbox, begun, tx, listening, assembler, printed, executed, textMishaps>>

PassEnds(b) ==
    /\ pass[b].at = "draining" /\ ~MayRead(b)
    /\ pass' = [pass EXCEPT ![b].at = "handing"]
    /\ UNCHANGED <<outbox, begun, tx, listening, fifo, assembler, printed, executed, read,
                   textMishaps>>

\* Faulty: what was read last is printed first.
LastFirst(s) == [k \in DOMAIN s |-> s[Len(s) - k + 1]]
HandsOver_LastFirst(b) ==
    /\ pass[b].at = "handing"
    /\ executed' = [executed EXCEPT ![b] = IF pass[b].command = NoMessage THEN @
                                           ELSE Append(@, pass[b].command)]
    /\ printed' = [printed EXCEPT ![b] = @ \o LastFirst(pass[b].texts)]
    /\ pass' = [pass EXCEPT ![b] = NoPass]
    /\ UNCHANGED <<outbox, begun, tx, listening, fifo, assembler, read, textMishaps>>

\* After giveRadio: the command first, then the texts of the pass.
HandsOver(b) ==
    /\ pass[b].at = "handing"
    /\ executed' = [executed EXCEPT ![b] = IF pass[b].command = NoMessage THEN @
                                           ELSE Append(@, pass[b].command)]
    /\ printed' = [printed EXCEPT ![b] = @ \o pass[b].texts]
    /\ pass' = [pass EXCEPT ![b] = NoPass]
    /\ UNCHANGED <<outbox, begun, tx, listening, fifo, assembler, read, textMishaps>>

-----------------------------------------------------------------------------
TextsNext ==
    \E b \in Boards :
        \/ TextBegins(b) \/ OnAir(b) \/ Succeeds(b) \/ Fails(b)
        \/ CommandStop(b) \/ CommandRx(b)
        \/ PassBegins(b) \/ ReadsText(b) \/ ReadsCommand(b) \/ PassEnds(b)
        \/ HandsOver(b)

TextsSpec == TextsInit /\ [][TextsNext]_textVars

-----------------------------------------------------------------------------
(* Properties.                                                             *)

TextTypeOK ==
    /\ \A b \in Boards : begun[b] \in 0..Len(outbox[b])
    /\ tx \in [Boards -> [msg : Messages, chunk : Nat \ {0},
                          attempt : 1..MaxAttempts, copies : 0..2] \cup {Silent}]
    /\ listening \in [Boards -> BOOLEAN]
    /\ \A b \in Boards : Len(fifo[b]) <= FifoDepth
    /\ \A b \in Boards : pass[b].at \in {"none", "draining", "handing"}
                        /\ pass[b].count <= DrainMax
    /\ \A b \in Boards : \A k \in DOMAIN fifo[b] : fifo[b][k] \in Packet \cup {Garbled}

\* The members of s at the places in K, in their order.
AtRank(K, j) == {k \in K : Cardinality({i \in K : i <= k}) = j}
Picked(s, K) == [j \in 1..Cardinality(K) |-> s[CHOOSE k \in AtRank(K, j) : TRUE]]

\* What a reader of the packets would put together: a text is complete where
\* its last chunk is read and the chunks before it are the packets read before
\* it, when repetitions of a packet are counted once.
Texts(packets) == Picked(packets, {k \in DOMAIN packets : packets[k].msg \notin Remote})

Repeats(s, k) == k > 1 /\ s[k] = s[k - 1] /\ s[k] # Garbled /\ Chunks[s[k].msg] > 1

Distinct(s) == Picked(s, {k \in DOMAIN s : ~Repeats(s, k)})

Whole(m) == [k \in 1..Chunks[m] |-> [msg |-> m, chunk |-> k]]

EndsText(s, k) ==
    /\ s[k] # Garbled
    /\ LET n == Chunks[s[k].msg]
       IN k >= n /\ \A i \in 1..n : s[k - n + i] = [msg |-> s[k].msg, chunk |-> i]

Endings(s) == Picked(s, {k \in DOMAIN s : EndsText(s, k)})

Reassembled(packets) ==
    LET last == Endings(Distinct(Texts(packets)))
    IN  [j \in DOMAIN last |-> Whole(last[j].msg)]

CommandsRead(packets) ==
    LET c == Picked(packets, {k \in DOMAIN packets : packets[k].msg \in Remote})
    IN  [k \in DOMAIN c |-> c[k].msg]

Settled(b) == pass[b].at = "none"

\* A board prints exactly the texts whose chunks it read one after the other,
\* in that order, whatever was lost, repeated, garbled or interleaved with other
\* senders' chunks: no text is mixed from two messages, cut short, or dropped
\* although its packets came in (TextMessageAssembler::accept, rxTask).
ShownAsRead ==
    \A b \in Boards : Settled(b) => printed[b] = Reassembled(read[b])

\* A text of more than one chunk is printed at most once by a board, although
\* each of its packets may be heard several times (the assembler goes inactive
\* with the last chunk, and only chunk 0 starts it again).
ShownOnce ==
    \A b \in Boards : \A k, l \in DOMAIN printed[b] :
        k < l /\ printed[b][k] = printed[b][l] => Len(printed[b][k]) = 1

\* The texts of one sender are printed in the order in which its clients gave
\* them, whatever is lost between (commandText runs to its end before the next).
ShownInOrder ==
    \A b \in Boards : \A k, l \in DOMAIN printed[b] :
        k < l => \A c \in Boards : \A i, j \in DOMAIN outbox[c] :
                    /\ printed[b][k] = Whole(outbox[c][i])
                    /\ printed[b][l] = Whole(outbox[c][j])
                    => i <= j

\* Every command a board reads is run, in order and as often as it was read: a
\* pass never reads a second command over one it still has to run (the drain
\* stops at a command, rxTask runs it when it has let go of the radio).
CommandsAllRun ==
    \A b \in Boards : Settled(b) => executed[b] = CommandsRead(read[b])

\* What boards make of the packets they hear, for texts and for commands.
TextsTrue == TextTypeOK /\ ShownAsRead /\ ShownOnce /\ ShownInOrder /\ CommandsAllRun

=============================================================================
