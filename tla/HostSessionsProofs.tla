------------------------- MODULE HostSessionsProofs -------------------------
(***************************************************************************)
(* Proofs about HostSessions, for any number of wireless PCs beside the    *)
(* wired one, any files, and any number of operations, retries and         *)
(* mishaps: transfers are steady, reports are true, and the upload         *)
(* commands implement the staging of one announced file at a time.         *)
(***************************************************************************)
EXTENDS HostSessions, TLAPS

Entries == [text : Lines, epoch : Nat]

\* The number of chunks that were damaged so far.
Damage == mishaps["damage"]

-----------------------------------------------------------------------------
(* The invariant.                                                          *)

\* A line t that PC p wrote, after d chunks were damaged: what it uploads is
\* its source.
Own(p, t, d) ==
    /\ t \in Lines
    /\ t.dir = "UPLOAD" /\ t.verb = "BEGIN" => t.file = Source[p]
    /\ t.dir = "UPLOAD" /\ t.verb = "DATA" =>
          /\ t.chunk \in Chunks
          /\ d = 0 => t.seq < Len(Source[p]) /\ t.chunk = Source[p][t.seq + 1]

\* A chunk c at place i is that of one of the files of a set.
InPlace(c, i, files) == \E f \in files : i <= Len(f) /\ c = f[i]

\* An answer a, where pub was published and hd was held: what it claims was so.
Truthful(a, pub, hd, d) ==
    /\ a \in Lines
    /\ a.dir = "UPLOAD" /\ a.verb = "END" => a.file \in pub
    /\ a.dir = "DOWNLOAD" /\ a.verb = "END" => a.file \in hd
    /\ a.dir = "DOWNLOAD" /\ a.verb = "DATA" =>
          a.chunk \in Chunks /\ (d = 0 => InPlace(a.chunk, a.seq + 1, hd))

AllOwn(p, q, d) == q \in Seq(Entries) /\ \A i \in 1..Len(q) : Own(p, q[i].text, d)
AllTruthful(q, pub, hd, d) == q \in Seq(Lines) /\ \A i \in 1..Len(q) : Truthful(q[i], pub, hd, d)

\* A session s of PC p keeps the place of its pending command, ...
Placed(p, s) ==
    /\ s \in PCs
    /\ Own(p, s.last, 0)
    /\ s.last.dir = "UPLOAD" => s.op \in {"idle", "upload"}
    /\ s.last.verb = "BEGIN" => s.n = 0
    /\ s.last.dir = "UPLOAD" /\ s.last.verb = "DATA" => s.last.seq = s.n
    /\ s.op \in {"readback", "download"} => s.n = Len(s.got)
    /\ s.op # "idle" => s.result = "none"

\* ... and reports what is so.
Honest(p, s, pub, hd, d) ==
    /\ s.result \in {"stored", "verified"} \/ s.op = "readback" => Source[p] \in pub
    /\ s.result = "verified" => s.got = Source[p]
    /\ s.result = "downloaded" => s.got \in hd
    /\ d = 0 /\ s.op \in {"readback", "download"} =>
          \A i \in 1..Len(s.got) : InPlace(s.got[i], i, hd)

LinesInv ==
    /\ line \in [Hosts -> Seq(Entries)]
    /\ \A p \in Hosts : AllOwn(p, line[p], Damage)
    /\ job \in Jobs \union {NoSession}
    /\ job # NoSession => Own(job.host, job.text, Damage)

AnswersInv ==
    /\ answer \in [Hosts -> Seq(Lines)]
    /\ \A p \in Hosts : AllTruthful(answer[p], published[p], held[p], Damage)

PcsInv ==
    /\ pc \in [Hosts -> PCs]
    /\ \A p \in Hosts : Placed(p, pc[p]) /\ Honest(p, pc[p], published[p], held[p], Damage)

\* What the name holds has been held since anybody began.
HeldInv ==
    /\ file \in Files \union {NoFile}
    /\ published \in [Hosts -> SUBSET Files] /\ held \in [Hosts -> SUBSET Files]
    /\ \A p \in Hosts : file # NoFile => file \in held[p]

BoardInv == SessionOK(up) /\ SessionOK(down) /\ StagedInOrder /\ OpenFileStays

\* A connection that is made after a break has an epoch of its own, and who is
\* at work is connected.
LinkInv ==
    /\ link \in [client : Wireless \union {NoHost}, epoch : Nat]
    /\ mishaps \in [DOMAIN Mishaps -> Nat]
    /\ mishaps["break"] <= Mishaps["break"]
    /\ link.epoch <= 2 * mishaps["break"] + (IF link.client = NoHost THEN 0 ELSE 1)
    /\ link.client # NoHost => link.epoch > 0
    /\ begun \in [Hosts -> 0..MaxWork]
    /\ \A p \in Hosts : pc[p].op # "idle" => Attached(p)

\* Connection e is that of PC p: it is the present one, or p wrote a line over it
\* that the board still has.
Speaks(q, e) == \E i \in 1..Len(q) : q[i].epoch = e
Uses(p, e) ==
    \/ Attached(p) /\ Epoch(p) = e
    \/ Speaks(line[p], e)
    \/ job # NoSession /\ job.host = p /\ job.epoch = e

\* A connection is one PC's, and an upload over it is of that PC's file.
OwnersInv ==
    /\ \A p \in Hosts, e \in Nat : Uses(p, e) => e <= link.epoch /\ (p \in Wireless <=> e > 0)
    /\ \A p, q \in Hosts, e \in Nat : Uses(p, e) /\ Uses(q, e) => p = q
    /\ up # NoSession => up.epoch <= link.epoch
    /\ \A p \in Hosts, e \in Nat :
          up # NoSession /\ up.epoch = e /\ Uses(p, e) => Source[p] = up.file

SessionsInv ==
    LinesInv /\ AnswersInv /\ PcsInv /\ HeldInv /\ BoardInv /\ LinkInv /\ OwnersInv

-----------------------------------------------------------------------------
(* Queues.                                                                 *)

LEMMA TailGives ==
    ASSUME NEW S, NEW q \in Seq(S), q # <<>>
    PROVE  /\ Head(q) \in S /\ Tail(q) \in Seq(S) /\ Len(Tail(q)) = Len(q) - 1
           /\ Head(q) = q[1] /\ \A i \in 1..Len(q) - 1 : Tail(q)[i] = q[i + 1]
           /\ Len(q) \in Nat /\ Len(q) >= 1
OBVIOUS

LEMMA AppendGives ==
    ASSUME NEW S, NEW q \in Seq(S), NEW e \in S
    PROVE  /\ Append(q, e) \in Seq(S) /\ Len(Append(q, e)) = Len(q) + 1 /\ Len(q) \in Nat
           /\ \A i \in 1..Len(q) : Append(q, e)[i] = q[i]
           /\ Append(q, e)[Len(q) + 1] = e
OBVIOUS

LEMMA ReplaceGives ==
    ASSUME NEW S, NEW q \in Seq(S), q # <<>>, NEW e \in S
    PROVE  LET r == [q EXCEPT ![1] = e] IN
           /\ r \in Seq(S) /\ Len(r) = Len(q) /\ r[1] = e
           /\ \A i \in 1..Len(q) : i # 1 => r[i] = q[i]
OBVIOUS

\* What a text or an answer says stays true: more is published and held, and
\* more chunks may have been damaged.
LEMMA OwnStays ==
    ASSUME NEW p, NEW t, NEW d, NEW e, e = 0 => d = 0, Own(p, t, d)
    PROVE  Own(p, t, e)
BY DEF Own

LEMMA TruthfulStays ==
    ASSUME NEW a, NEW pub, NEW hd, NEW d, NEW pub2, NEW hd2, NEW e,
           pub \subseteq pub2, hd \subseteq hd2, e = 0 => d = 0, Truthful(a, pub, hd, d)
    PROVE  Truthful(a, pub2, hd2, e)
BY DEF Truthful, InPlace

LEMMA HonestStays ==
    ASSUME NEW p, NEW s, NEW pub, NEW hd, NEW d, NEW pub2, NEW hd2, NEW e,
           pub \subseteq pub2, hd \subseteq hd2, e = 0 => d = 0, Honest(p, s, pub, hd, d)
    PROVE  Honest(p, s, pub2, hd2, e)
BY DEF Honest, InPlace

LEMMA AllOwnStays ==
    ASSUME NEW p, NEW q, NEW d, NEW e, e = 0 => d = 0, AllOwn(p, q, d)
    PROVE  AllOwn(p, q, e)
BY OwnStays DEF AllOwn

LEMMA AllTruthfulStays ==
    ASSUME NEW q, NEW pub, NEW hd, NEW d, NEW pub2, NEW hd2, NEW e,
           pub \subseteq pub2, hd \subseteq hd2, e = 0 => d = 0, AllTruthful(q, pub, hd, d)
    PROVE  AllTruthful(q, pub2, hd2, e)
BY TruthfulStays DEF AllTruthful

LEMMA AllOwnTail ==
    ASSUME NEW p, NEW q, NEW d, AllOwn(p, q, d), q # <<>>
    PROVE  /\ AllOwn(p, Tail(q), d) /\ Head(q) \in Entries /\ Own(p, Head(q).text, d)
           /\ Speaks(q, Head(q).epoch)
           /\ \A e : Speaks(Tail(q), e) => Speaks(q, e)
<1>1. /\ q \in Seq(Entries) /\ Head(q) \in Entries /\ Tail(q) \in Seq(Entries)
      /\ Len(Tail(q)) = Len(q) - 1 /\ Head(q) = q[1] /\ Len(q) \in Nat /\ Len(q) >= 1
      /\ \A i \in 1..Len(q) - 1 : Tail(q)[i] = q[i + 1]
  BY TailGives DEF AllOwn
<1>2. Own(p, Head(q).text, d) /\ Speaks(q, Head(q).epoch)
  BY <1>1 DEF AllOwn, Speaks
<1>3. \A i \in 1..Len(Tail(q)) : i + 1 \in 1..Len(q) /\ Tail(q)[i] = q[i + 1]
  BY <1>1
<1> QED BY <1>1, <1>2, <1>3 DEF AllOwn, Speaks

LEMMA AllOwnAppend ==
    ASSUME NEW p, NEW q, NEW d, NEW x \in Entries, AllOwn(p, q, d), Own(p, x.text, d)
    PROVE  /\ AllOwn(p, Append(q, x), d)
           /\ \A e : Speaks(Append(q, x), e) => Speaks(q, e) \/ e = x.epoch
<1>1. /\ Append(q, x) \in Seq(Entries) /\ Len(Append(q, x)) = Len(q) + 1 /\ Len(q) \in Nat
      /\ \A i \in 1..Len(q) : Append(q, x)[i] = q[i]
      /\ Append(q, x)[Len(q) + 1] = x
  BY AppendGives DEF AllOwn
<1>2. \A i \in 1..Len(Append(q, x)) : i \in 1..Len(q) \/ i = Len(q) + 1
  BY <1>1
<1> QED BY <1>1, <1>2 DEF AllOwn, Speaks

LEMMA AllTruthfulTail ==
    ASSUME NEW q, NEW pub, NEW hd, NEW d, AllTruthful(q, pub, hd, d), q # <<>>
    PROVE  /\ AllTruthful(Tail(q), pub, hd, d) /\ Truthful(Head(q), pub, hd, d)
           /\ Head(q) \in Lines
<1>1. /\ q \in Seq(Lines) /\ Head(q) \in Lines /\ Tail(q) \in Seq(Lines)
      /\ Len(Tail(q)) = Len(q) - 1 /\ Head(q) = q[1] /\ Len(q) \in Nat /\ Len(q) >= 1
      /\ \A i \in 1..Len(q) - 1 : Tail(q)[i] = q[i + 1]
  BY TailGives DEF AllTruthful
<1>2. \A i \in 1..Len(Tail(q)) : i + 1 \in 1..Len(q) /\ Tail(q)[i] = q[i + 1]
  BY <1>1
<1> QED BY <1>1, <1>2 DEF AllTruthful

LEMMA AllTruthfulAppend ==
    ASSUME NEW q, NEW pub, NEW hd, NEW d, NEW a, AllTruthful(q, pub, hd, d), Truthful(a, pub, hd, d)
    PROVE  AllTruthful(Append(q, a), pub, hd, d)
<1>1. a \in Lines
  BY DEF Truthful
<1>2. /\ Append(q, a) \in Seq(Lines) /\ Len(Append(q, a)) = Len(q) + 1 /\ Len(q) \in Nat
      /\ \A i \in 1..Len(q) : Append(q, a)[i] = q[i]
      /\ Append(q, a)[Len(q) + 1] = a
  BY <1>1, AppendGives DEF AllTruthful
<1>3. \A i \in 1..Len(Append(q, a)) : i \in 1..Len(q) \/ i = Len(q) + 1
  BY <1>2
<1> QED BY <1>2, <1>3 DEF AllTruthful

-----------------------------------------------------------------------------
(* What a PC writes, and how it goes on.                                   *)

LEMMA SourceGives ==
    ASSUME NEW p \in Hosts
    PROVE  /\ Source[p] \in Files /\ Source[p] \in Seq(Chunks) /\ Len(Source[p]) \in Nat
           /\ \A i \in 1..Len(Source[p]) : Source[p][i] \in Chunks
<1>1. Source[p] \in Files
  BY DEF Files
<1>2. Source[p] \in Seq(Chunks)
  BY <1>1, HostsAssumption
<1> QED BY <1>1, <1>2

LEMMA LineGives ==
    ASSUME NEW dir \in {"UPLOAD", "DOWNLOAD", "STORAGE"}, NEW verb \in Verbs
    PROVE  /\ Line(dir, verb) \in Lines
           /\ Line(dir, verb).dir = dir /\ Line(dir, verb).verb = verb
BY DEF Line, Lines

LEMMA FileGives ==
    ASSUME NEW l \in Lines, NEW f \in Files
    PROVE  LET t == [l EXCEPT !.file = f] IN
           t \in Lines /\ t.dir = l.dir /\ t.verb = l.verb /\ t.file = f
BY DEF Lines

\* A line without a file and without a chunk.
LEMMA PlainIsOwn ==
    ASSUME NEW p, NEW d, NEW dir \in {"UPLOAD", "DOWNLOAD", "STORAGE"}, NEW verb \in Verbs,
           verb # "DATA", dir = "UPLOAD" => verb # "BEGIN"
    PROVE  Own(p, Line(dir, verb), d)
BY LineGives DEF Own

LEMMA BeginGives ==
    ASSUME NEW p \in Hosts
    PROVE  /\ Own(p, BeginUpload(p), 0)
           /\ BeginUpload(p).dir = "UPLOAD" /\ BeginUpload(p).verb = "BEGIN"
BY SourceGives DEF Own, BeginUpload, Line, Lines, Verbs

LEMMA NextUploadGives ==
    ASSUME NEW p \in Hosts, NEW n \in Nat, n <= Len(Source[p])
    PROVE  /\ Own(p, NextUpload(p, n), 0)
           /\ NextUpload(p, n).dir = "UPLOAD" /\ NextUpload(p, n).verb \in {"DATA", "END"}
           /\ NextUpload(p, n).verb = "DATA" => NextUpload(p, n).seq = n
<1>1. CASE n = Len(Source[p])
  <2>1. NextUpload(p, n) = Line("UPLOAD", "END")
    BY <1>1 DEF NextUpload
  <2> QED BY <2>1, LineGives, PlainIsOwn DEF Verbs
<1>2. CASE n # Len(Source[p])
  <2> DEFINE l == Line("UPLOAD", "DATA")
             c == Source[p][n + 1]
  <2>1. n < Len(Source[p]) /\ c \in Chunks
    BY <1>2, SourceGives
  <2>2. l \in Lines /\ l.dir = "UPLOAD" /\ l.verb = "DATA"
    BY LineGives DEF Verbs
  <2>3. NextUpload(p, n) = [l EXCEPT !.seq = n, !.chunk = c]
    BY <1>2 DEF NextUpload
  <2>4. c = Source[p][n + 1]
    OBVIOUS
  <2> HIDE DEF l, c
  <2>5. /\ NextUpload(p, n) \in Lines
        /\ NextUpload(p, n).dir = "UPLOAD" /\ NextUpload(p, n).verb = "DATA"
        /\ NextUpload(p, n).seq = n /\ NextUpload(p, n).chunk = c
    BY <2>1, <2>2, <2>3 DEF Lines
  <2>6. Own(p, NextUpload(p, n), 0)
    BY <2>1, <2>4, <2>5 DEF Own
  <2> QED BY <2>5, <2>6
<1> QED BY <1>1, <1>2

LEMMA NextDownloadGives ==
    ASSUME NEW p, NEW s \in PCs
    PROVE  /\ Own(p, NextDownload(s), 0)
           /\ NextDownload(s).dir = "DOWNLOAD" /\ NextDownload(s).verb \in {"DATA", "END"}
<1>1. s.n \in Nat
  BY DEF PCs
<1>2. CASE Len(s.got) >= Len(s.meta)
  <2>1. NextDownload(s) = Line("DOWNLOAD", "END")
    BY <1>2 DEF NextDownload
  <2> QED BY <2>1, LineGives, PlainIsOwn DEF Verbs
<1>3. CASE ~ (Len(s.got) >= Len(s.meta))
  <2>1. NextDownload(s) = [Line("DOWNLOAD", "DATA") EXCEPT !.seq = s.n]
    BY <1>3 DEF NextDownload
  <2> QED BY <1>1, <2>1 DEF Own, Line, Lines, Verbs
<1> QED BY <1>2, <1>3

\* PC p writes nothing, or one line over its present connection.
Wrote(p) == line' = line \/ \E t : Own(p, t, 0) /\ Attached(p) /\ Post(p, t)

PcStep(p) ==
    /\ \E s : /\ pc' = [pc EXCEPT ![p] = s]
              /\ Placed(p, s)
              /\ Honest(p, s, published'[p], held'[p], Damage')
              /\ s.op # "idle" => Attached(p)
    /\ Wrote(p)

\* A session that has sent t.
Sent(s, t) == [s EXCEPT !.last = t, !.retries = 0]

LEMMA SentGives ==
    ASSUME NEW p, NEW s \in PCs, NEW t, Own(p, t, 0),
           s.op \in {"readback", "download"} => s.n = Len(s.got),
           s.op # "idle" => s.result = "none",
           t.dir = "UPLOAD" => s.op \in {"idle", "upload"},
           t.verb = "BEGIN" => s.n = 0,
           t.dir = "UPLOAD" /\ t.verb = "DATA" => t.seq = s.n
    PROVE  Placed(p, Sent(s, t))
<1>1. t \in Lines /\ 0 \in 0..HostTransferMaxRetries
  BY HostsAssumption DEF Own
<1>2. /\ Sent(s, t) \in PCs /\ Sent(s, t).last = t /\ Sent(s, t).op = s.op
      /\ Sent(s, t).n = s.n /\ Sent(s, t).got = s.got /\ Sent(s, t).result = s.result
  BY <1>1 DEF Sent, PCs
<1> QED BY <1>2 DEF Placed

LEMMA SentIsHonest ==
    ASSUME NEW p, NEW s \in PCs, NEW t, NEW pub, NEW hd, NEW d, Honest(p, s, pub, hd, d)
    PROVE  Honest(p, Sent(s, t), pub, hd, d)
BY DEF Honest, Sent, PCs

\* An operation that ends without success.
Ended(s, result) == [s EXCEPT !.op = "idle", !.result = result]

LEMMA EndedGives ==
    ASSUME NEW p, NEW s, Placed(p, s),
           NEW r \in {"none", "failed", "stored", "verified", "downloaded"}
    PROVE  /\ Placed(p, Ended(s, r)) /\ Ended(s, r).op = "idle"
           /\ Ended(s, r).result = r /\ Ended(s, r).got = s.got
BY DEF Placed, Ended, PCs

LEMMA QuietGives ==
    ASSUME NEW p, NEW op \in {"idle", "upload", "readback", "download"}
    PROVE  LET s == [Quiet EXCEPT !.op = op] IN
           /\ s \in PCs /\ s.op = op /\ s.n = 0 /\ s.got = <<>> /\ Len(s.got) = 0
           /\ s.result = "none" /\ s.last = Line("STORAGE", "DELETE")
<1>1. 0 \in 0..HostTransferMaxRetries
  BY HostsAssumption
<1>2. Line("STORAGE", "DELETE") \in Lines
  BY LineGives DEF Verbs
<1>3. <<>> \in Seq(Chunks) /\ Len(<<>>) = 0
  OBVIOUS
<1> QED BY <1>1, <1>2, <1>3 DEF Quiet, PCs

\* The facts about PC p that its steps need.
LEMMA PcGives ==
    ASSUME SessionsInv, NEW p \in Hosts
    PROVE  /\ pc[p] \in PCs /\ Placed(p, pc[p])
           /\ pc[p].op # "idle" => Attached(p)
           /\ Honest(p, pc[p], published[p], held[p], Damage)
           /\ pc \in [Hosts -> PCs] /\ Own(p, pc[p].last, 0)
           /\ pc[p].last \in Lines
BY DEF SessionsInv, PcsInv, LinkInv, Placed, Own

\* A PC that gives up tells the board.
LEMMA FailSteps ==
    ASSUME SessionsInv, NEW p \in Hosts, pc[p].op # "idle", Fail(p),
           UNCHANGED <<published, held>>, Damage' = Damage
    PROVE  PcStep(p)
<1>1. /\ pc[p] \in PCs /\ Placed(p, pc[p]) /\ Attached(p) /\ pc \in [Hosts -> PCs]
      /\ pc[p].last \in Lines
  BY PcGives
<1>2. pc' = [pc EXCEPT ![p] = Ended(pc[p], "failed")]
  BY <1>1 DEF Fail, Stop, Ended
<1>3. Placed(p, Ended(pc[p], "failed")) /\ Ended(pc[p], "failed").op = "idle"
      /\ Ended(pc[p], "failed").result = "failed"
  BY <1>1, EndedGives
<1>4. Honest(p, Ended(pc[p], "failed"), published'[p], held'[p], Damage')
  BY <1>3 DEF Honest
<1>5. pc[p].last.dir \in {"UPLOAD", "DOWNLOAD", "STORAGE"}
  BY <1>1 DEF Lines
<1>6. Own(p, Line(pc[p].last.dir, "CANCEL"), 0)
  BY <1>5, PlainIsOwn DEF Verbs
<1>7. Wrote(p)
  BY <1>1, <1>6 DEF Wrote, Fail
<1> QED BY <1>2, <1>3, <1>4, <1>7 DEF PcStep

\* A PC that has sent t goes on from session s.
LEMMA SendSteps ==
    ASSUME SessionsInv, NEW p \in Hosts, NEW s \in PCs, NEW t,
           Send(p, s, t), Placed(p, Sent(s, t)),
           Honest(p, s, published'[p], held'[p], Damage'), Own(p, t, 0), Attached(p)
    PROVE  PcStep(p)
<1>1. pc' = [pc EXCEPT ![p] = Sent(s, t)]
  BY DEF Send, Sent
<1>2. Honest(p, Sent(s, t), published'[p], held'[p], Damage')
  BY SentIsHonest
<1>3. Wrote(p)
  BY DEF Wrote, Send
<1> QED BY <1>1, <1>2, <1>3 DEF PcStep

\* What a PC may take an answer for.
LEMMA ReceivesGives ==
    ASSUME SessionsInv, NEW p \in Hosts, Receives(p)
    PROVE  /\ Head(answer[p]) \in Lines
           /\ Truthful(Head(answer[p]), published[p], held[p], Damage)
           /\ UNCHANGED <<published, held>> /\ Damage' = Damage
           /\ Honest(p, pc[p], published'[p], held'[p], Damage')
<1>1. AllTruthful(answer[p], published[p], held[p], Damage) /\ answer[p] # <<>>
  BY DEF SessionsInv, AnswersInv, Receives
<1>2. UNCHANGED <<published, held>> /\ Damage' = Damage
  BY DEF Receives, seen, Damage
<1>3. Honest(p, pc[p], published[p], held[p], Damage)
  BY PcGives
<1> QED BY <1>1, <1>2, <1>3, AllTruthfulTail

LEMMA ReceiveErrorSteps ==
    ASSUME SessionsInv, NEW p \in Hosts, ReceiveError(p)
    PROVE  PcStep(p)
BY ReceivesGives, FailSteps DEF ReceiveError

LEMMA ReceiveReadySteps ==
    ASSUME SessionsInv, NEW p \in Hosts, ReceiveReady(p)
    PROVE  PcStep(p)
<1>1. /\ Receives(p) /\ pc[p].op # "idle"
      /\ pc[p].last.dir = "UPLOAD" /\ pc[p].last.verb = "BEGIN"
      /\ Fail(p) \/ Send(p, pc[p], NextUpload(p, 0))
  BY DEF ReceiveReady, Pending
<1>2. /\ pc[p] \in PCs /\ Placed(p, pc[p]) /\ Attached(p)
  BY <1>1, PcGives
<1>3. /\ UNCHANGED <<published, held>> /\ Damage' = Damage
      /\ Honest(p, pc[p], published'[p], held'[p], Damage')
  BY <1>1, ReceivesGives
<1>4. CASE Fail(p)
  BY <1>1, <1>3, <1>4, FailSteps
<1>5. CASE Send(p, pc[p], NextUpload(p, 0))
  <2>1. 0 <= Len(Source[p]) /\ 0 \in Nat
    BY SourceGives
  <2>2. /\ Own(p, NextUpload(p, 0), 0)
        /\ NextUpload(p, 0).dir = "UPLOAD" /\ NextUpload(p, 0).verb \in {"DATA", "END"}
        /\ NextUpload(p, 0).verb = "DATA" => NextUpload(p, 0).seq = 0
    BY <2>1, NextUploadGives
  <2>3. /\ pc[p].op \in {"idle", "upload"} /\ pc[p].n = 0 /\ pc[p].result = "none"
    BY <1>1, <1>2 DEF Placed
  <2>4. Placed(p, Sent(pc[p], NextUpload(p, 0)))
    BY <1>2, <2>2, <2>3, SentGives
  <2> QED BY <1>2, <1>3, <1>5, <2>2, <2>4, SendSteps
<1> QED BY <1>1, <1>4, <1>5

LEMMA ReceiveAckSteps ==
    ASSUME SessionsInv, NEW p \in Hosts, ReceiveAck(p)
    PROVE  PcStep(p)
<1> DEFINE advanced == [pc[p] EXCEPT !.n = @ + 1]
           text == NextUpload(p, advanced.n)
<1>1. /\ Receives(p) /\ pc[p].op # "idle"
      /\ pc[p].last.dir = "UPLOAD" /\ pc[p].last.verb = "DATA"
      /\ Fail(p) \/ Send(p, advanced, text)
  BY DEF ReceiveAck, Pending
<1>2. /\ pc[p] \in PCs /\ Placed(p, pc[p]) /\ Attached(p)
  BY <1>1, PcGives
<1>3. /\ UNCHANGED <<published, held>> /\ Damage' = Damage
      /\ Honest(p, pc[p], published'[p], held'[p], Damage')
  BY <1>1, ReceivesGives
<1>4. CASE Fail(p)
  BY <1>1, <1>3, <1>4, FailSteps
<1>5. CASE Send(p, advanced, text)
  <2>1. /\ pc[p].n \in Nat /\ pc[p].n < Len(Source[p])
        /\ pc[p].op \in {"idle", "upload"} /\ pc[p].result = "none"
    BY <1>1, <1>2 DEF Placed, Own, PCs
  <2>2. /\ advanced \in PCs /\ advanced.n = pc[p].n + 1 /\ advanced.op = pc[p].op
        /\ advanced.got = pc[p].got /\ advanced.result = pc[p].result
    BY <1>2, <2>1 DEF PCs
  <2>3. advanced.n \in Nat /\ advanced.n <= Len(Source[p])
    BY <2>1, <2>2, SourceGives
  <2>4. Honest(p, advanced, published'[p], held'[p], Damage')
    BY <1>3, <2>2 DEF Honest
  <2> HIDE DEF advanced
  <2>5. /\ Own(p, text, 0)
        /\ text.dir = "UPLOAD" /\ text.verb \in {"DATA", "END"}
        /\ text.verb = "DATA" => text.seq = advanced.n
    BY <2>3, NextUploadGives
  <2> HIDE DEF text
  <2>6. Placed(p, Sent(advanced, text))
    BY <2>1, <2>2, <2>5, SentGives
  <2> QED BY <1>2, <1>5, <2>2, <2>4, <2>5, <2>6, SendSteps
<1> QED BY <1>1, <1>4, <1>5

LEMMA ReceiveCompleteSteps ==
    ASSUME SessionsInv, NEW p \in Hosts, ReceiveComplete(p)
    PROVE  PcStep(p)
<1> DEFINE s == [Quiet EXCEPT !.op = "readback"]
           text == Line("DOWNLOAD", "BEGIN")
<1>1. /\ Receives(p) /\ pc[p].op # "idle"
      /\ Head(answer[p]).dir = "UPLOAD" /\ Head(answer[p]).verb = "END"
      /\ \/ Fail(p)
         \/ /\ Head(answer[p]).file = Source[p]
            /\ Send(p, s, text) \/ (Stop(p, "stored") /\ UNCHANGED line)
  BY DEF ReceiveComplete, Pending
<1>2. /\ pc[p] \in PCs /\ Placed(p, pc[p]) /\ Attached(p) /\ pc \in [Hosts -> PCs]
  BY <1>1, PcGives
<1>3. /\ UNCHANGED <<published, held>> /\ Damage' = Damage
      /\ Truthful(Head(answer[p]), published[p], held[p], Damage)
  BY <1>1, ReceivesGives
<1>4. CASE Fail(p)
  BY <1>1, <1>3, <1>4, FailSteps
<1>5. ASSUME Head(answer[p]).file = Source[p]
      PROVE  Source[p] \in published'[p]
  BY <1>1, <1>3, <1>5 DEF Truthful
<1>6. CASE Head(answer[p]).file = Source[p] /\ Send(p, s, text)
  <2>1. /\ s \in PCs /\ s.op = "readback" /\ s.n = 0 /\ s.got = <<>> /\ Len(s.got) = 0
        /\ s.result = "none"
    BY QuietGives
  <2>2. Own(p, text, 0) /\ text.dir = "DOWNLOAD" /\ text.verb = "BEGIN"
    BY PlainIsOwn, LineGives DEF Verbs
  <2> HIDE DEF s, text
  <2>3. Honest(p, s, published'[p], held'[p], Damage')
    BY <1>5, <1>6, <2>1 DEF Honest
  <2>4. Placed(p, Sent(s, text))
    BY <2>1, <2>2, SentGives
  <2> QED BY <1>2, <1>6, <2>1, <2>2, <2>3, <2>4, SendSteps
<1>7. CASE Head(answer[p]).file = Source[p] /\ Stop(p, "stored") /\ UNCHANGED line
  <2>1. pc' = [pc EXCEPT ![p] = Ended(pc[p], "stored")]
    BY <1>2, <1>7 DEF Stop, Ended
  <2>2. /\ Placed(p, Ended(pc[p], "stored")) /\ Ended(pc[p], "stored").op = "idle"
        /\ Ended(pc[p], "stored").result = "stored"
    BY <1>2, EndedGives
  <2>3. Honest(p, Ended(pc[p], "stored"), published'[p], held'[p], Damage')
    BY <1>5, <1>7, <2>2 DEF Honest
  <2> QED BY <1>7, <2>1, <2>2, <2>3 DEF PcStep, Wrote
<1> QED BY <1>1, <1>4, <1>6, <1>7

LEMMA ReceiveDownloadReadySteps ==
    ASSUME SessionsInv, NEW p \in Hosts, ReceiveDownloadReady(p)
    PROVE  PcStep(p)
<1> DEFINE opened == [pc[p] EXCEPT !.meta = Head(answer[p]).file]
           text == NextDownload(opened)
<1>1. /\ Receives(p) /\ pc[p].op \in {"readback", "download"}
      /\ \/ pc' = [pc EXCEPT ![p] = opened] /\ UNCHANGED line
         \/ Fail(p)
         \/ Send(p, opened, text)
  BY DEF ReceiveDownloadReady
<1>2. /\ pc[p] \in PCs /\ Placed(p, pc[p]) /\ Attached(p) /\ Own(p, pc[p].last, 0)
  BY <1>1, PcGives
<1>3. /\ UNCHANGED <<published, held>> /\ Damage' = Damage
      /\ Head(answer[p]) \in Lines
      /\ Honest(p, pc[p], published'[p], held'[p], Damage')
  BY <1>1, ReceivesGives
<1>4. /\ opened \in PCs /\ opened.op = pc[p].op /\ opened.n = pc[p].n
      /\ opened.got = pc[p].got /\ opened.result = pc[p].result /\ opened.last = pc[p].last
  BY <1>2, <1>3 DEF PCs, Lines
<1> HIDE DEF opened
<1>5. Honest(p, opened, published'[p], held'[p], Damage')
  BY <1>3, <1>4 DEF Honest
<1>6. Placed(p, opened)
  BY <1>2, <1>4 DEF Placed
<1>7. CASE pc' = [pc EXCEPT ![p] = opened] /\ UNCHANGED line
  BY <1>2, <1>5, <1>6, <1>7 DEF PcStep, Wrote
<1>8. CASE Fail(p)
  BY <1>1, <1>3, <1>8, FailSteps
<1>9. CASE Send(p, opened, text)
  <2>1. Own(p, text, 0) /\ text.dir = "DOWNLOAD" /\ text.verb \in {"DATA", "END"}
    BY <1>4, NextDownloadGives
  <2>2. opened.n = Len(opened.got) /\ opened.result = "none"
    BY <1>1, <1>4, <1>6 DEF Placed
  <2> HIDE DEF text
  <2>3. Placed(p, Sent(opened, text))
    BY <1>4, <2>1, <2>2, SentGives
  <2> QED BY <1>2, <1>4, <1>5, <1>9, <2>1, <2>3, SendSteps
<1> QED BY <1>1, <1>7, <1>8, <1>9

LEMMA ReceivePieceSteps ==
    ASSUME SessionsInv, NEW p \in Hosts, ReceivePiece(p)
    PROVE  PcStep(p)
<1> DEFINE c == Head(answer[p]).chunk
           g == Append(pc[p].got, c)
           longer == [pc[p] EXCEPT !.got = g, !.n = @ + 1]
           text == NextDownload(longer)
<1>1. /\ Receives(p) /\ pc[p].op # "idle"
      /\ Head(answer[p]).dir = "DOWNLOAD" /\ Head(answer[p]).verb = "DATA"
      /\ pc[p].last.dir = "DOWNLOAD"
      /\ \/ Fail(p)
         \/ Head(answer[p]).seq = pc[p].n /\ Send(p, longer, text)
  BY DEF ReceivePiece, Pending
<1>2. /\ pc[p] \in PCs /\ Placed(p, pc[p]) /\ Attached(p)
  BY <1>1, PcGives
<1>3. /\ UNCHANGED <<published, held>> /\ Damage' = Damage
      /\ Truthful(Head(answer[p]), published[p], held[p], Damage)
      /\ Honest(p, pc[p], published'[p], held'[p], Damage')
  BY <1>1, ReceivesGives
<1>4. CASE Fail(p)
  BY <1>1, <1>3, <1>4, FailSteps
<1>5. CASE Head(answer[p]).seq = pc[p].n /\ Send(p, longer, text)
  <2>1. /\ c \in Chunks
        /\ Damage' = 0 => InPlace(c, pc[p].n + 1, held'[p])
    BY <1>1, <1>3, <1>5 DEF Truthful
  <2> HIDE DEF c
  <2>2. /\ pc[p].got \in Seq(Chunks) /\ pc[p].n \in Nat
    BY <1>2 DEF PCs
  <2>3. /\ g \in Seq(Chunks) /\ Len(pc[p].got) \in Nat
        /\ Len(g) = Len(pc[p].got) + 1
        /\ \A i \in 1..Len(pc[p].got) : g[i] = pc[p].got[i]
        /\ g[Len(pc[p].got) + 1] = c
    BY <2>1, <2>2, AppendGives
  <2> HIDE DEF g
  <2>4. /\ longer \in PCs /\ longer.op = pc[p].op /\ longer.n = pc[p].n + 1
        /\ longer.got = g /\ longer.result = pc[p].result
        /\ longer.last = pc[p].last
    <3>1. g \in Seq(Chunks) /\ pc[p].n + 1 \in Nat
      BY <2>2, <2>3
    <3>2. pc[p] \in PCs
      BY <1>2
    <3>3. longer \in PCs
      BY <3>1, <3>2 DEF PCs
    <3> QED BY <3>2, <3>3 DEF PCs
  <2> HIDE DEF longer
  <2>5. /\ longer.op \in {"readback", "download"} => pc[p].n = Len(pc[p].got)
        /\ longer.op # "idle" /\ longer.result = "none"
    BY <1>1, <1>2, <2>4 DEF Placed
  <2>6. \A i \in 1..Len(longer.got) : i \in 1..Len(pc[p].got) \/ i = Len(pc[p].got) + 1
    BY <2>3, <2>4
  <2>7. Damage' = 0 /\ longer.op \in {"readback", "download"} =>
           \A i \in 1..Len(longer.got) : InPlace(longer.got[i], i, held'[p])
    BY <1>3, <2>1, <2>3, <2>4, <2>5, <2>6 DEF Honest
  <2>8. longer.op = "readback" => Source[p] \in published'[p]
    BY <1>3, <2>4 DEF Honest
  <2>9. Honest(p, longer, published'[p], held'[p], Damage')
    BY <2>5, <2>7, <2>8 DEF Honest
  <2>10. Own(p, text, 0) /\ text.dir = "DOWNLOAD" /\ text.verb \in {"DATA", "END"}
    BY <2>4, NextDownloadGives
  <2> HIDE DEF text
  <2>11. longer.op \in {"readback", "download"} => longer.n = Len(longer.got)
    BY <2>3, <2>4, <2>5
  <2>12. Placed(p, Sent(longer, text))
    BY <2>4, <2>5, <2>10, <2>11, SentGives
  <2> QED BY <1>2, <1>5, <2>4, <2>9, <2>10, <2>12, SendSteps
<1> QED BY <1>1, <1>4, <1>5

LEMMA ReceiveDownloadCompleteSteps ==
    ASSUME SessionsInv, NEW p \in Hosts, ReceiveDownloadComplete(p)
    PROVE  PcStep(p)
<1>1. /\ Receives(p) /\ pc[p].op # "idle"
      /\ Head(answer[p]).dir = "DOWNLOAD" /\ Head(answer[p]).verb = "END"
  BY DEF ReceiveDownloadComplete, Pending
<1>2. /\ pc[p] \in PCs /\ Placed(p, pc[p]) /\ Attached(p) /\ pc \in [Hosts -> PCs]
  BY <1>1, PcGives
<1>3. /\ UNCHANGED <<published, held>> /\ Damage' = Damage
      /\ Truthful(Head(answer[p]), published[p], held[p], Damage)
      /\ Honest(p, pc[p], published'[p], held'[p], Damage')
  BY <1>1, ReceivesGives
<1>4. CASE Fail(p)
  BY <1>1, <1>3, <1>4, FailSteps
<1>5. ASSUME NEW result \in {"verified", "downloaded"}, Stop(p, result), UNCHANGED line,
             pc[p].got \in held'[p],
             result = "verified" => pc[p].op = "readback" /\ pc[p].got = Source[p]
      PROVE  PcStep(p)
  <2>1. pc' = [pc EXCEPT ![p] = Ended(pc[p], result)]
    BY <1>2, <1>5 DEF Stop, Ended
  <2>2. /\ Placed(p, Ended(pc[p], result)) /\ Ended(pc[p], result).op = "idle"
        /\ Ended(pc[p], result).result = result /\ Ended(pc[p], result).got = pc[p].got
    BY <1>2, <1>5, EndedGives
  <2>3. result = "verified" => Source[p] \in published'[p]
    BY <1>3, <1>5 DEF Honest
  <2>4. Honest(p, Ended(pc[p], result), published'[p], held'[p], Damage')
    BY <1>5, <2>2, <2>3 DEF Honest
  <2> QED BY <1>5, <2>1, <2>2, <2>4 DEF PcStep, Wrote
<1>6. CASE ~ Fail(p)
  <2>1. /\ Head(answer[p]).file = pc[p].got
        /\ pc[p].op = "readback" => pc[p].got = Source[p]
        /\ Stop(p, IF pc[p].op = "readback" THEN "verified" ELSE "downloaded")
        /\ UNCHANGED line
    BY <1>6 DEF ReceiveDownloadComplete, Intact
  <2>2. pc[p].got \in held'[p]
    BY <1>1, <1>3, <2>1 DEF Truthful
  <2>3. CASE pc[p].op = "readback"
    BY <1>5, <2>1, <2>2, <2>3
  <2>4. CASE pc[p].op # "readback"
    BY <1>5, <2>1, <2>2, <2>4
  <2> QED BY <2>3, <2>4
<1> QED BY <1>4, <1>6

LEMMA SamePcSteps ==
    ASSUME SessionsInv, NEW p \in Hosts, UNCHANGED <<pc, line, published, held>>,
           Damage' = Damage
    PROVE  PcStep(p)
<1>1. /\ pc[p] \in PCs /\ Placed(p, pc[p]) /\ pc \in [Hosts -> PCs]
      /\ pc[p].op # "idle" => Attached(p)
      /\ Honest(p, pc[p], published[p], held[p], Damage)
  BY PcGives
<1>2. pc' = [pc EXCEPT ![p] = pc[p]]
  BY <1>1
<1> QED BY <1>1, <1>2 DEF PcStep, Wrote

LEMMA ReceiveSteps ==
    ASSUME SessionsInv, NEW p \in Hosts, Receive(p)
    PROVE  Receives(p) /\ PcStep(p)
<1>1. CASE ReceiveOther(p)
  <2>1. Receives(p) /\ UNCHANGED <<pc, line>>
    BY <1>1 DEF ReceiveOther
  <2> QED BY <2>1, ReceivesGives, SamePcSteps
<1>2. Receives(p)
  BY DEF Receive, ReceiveError, ReceiveReady, ReceiveAck, ReceiveComplete,
         ReceiveDownloadReady, ReceivePiece, ReceiveDownloadComplete, ReceiveOther
<1> QED BY <1>1, <1>2, ReceiveErrorSteps, ReceiveReadySteps, ReceiveAckSteps,
           ReceiveCompleteSteps, ReceiveDownloadReadySteps, ReceivePieceSteps,
           ReceiveDownloadCompleteSteps DEF Receive

\* The kinds of mishaps are counted apart.
LEMMA MishapGives ==
    ASSUME SessionsInv, NEW kind \in {"line", "answer", "damage", "break", "late"}, Mishap(kind)
    PROVE  /\ mishaps' \in [DOMAIN Mishaps -> Nat]
           /\ mishaps'["break"] <= Mishaps["break"]
           /\ mishaps'["break"] = mishaps["break"] + (IF kind = "break" THEN 1 ELSE 0)
           /\ Damage' = 0 => Damage = 0
           /\ kind # "damage" => Damage' = Damage
           /\ kind = "damage" => Damage' # 0
<1>1. /\ mishaps \in [DOMAIN Mishaps -> Nat] /\ mishaps["break"] <= Mishaps["break"]
      /\ DOMAIN Mishaps = {"line", "answer", "damage", "break", "late"}
      /\ Mishaps \in [{"line", "answer", "damage", "break", "late"} -> Nat]
  BY HostsAssumption DEF SessionsInv, LinkInv
<1>2. mishaps[kind] < Mishaps[kind] /\ mishaps' = [mishaps EXCEPT ![kind] = @ + 1]
  BY DEF Mishap
<1> QED BY <1>1, <1>2 DEF Damage

LEMMA TimeoutSteps ==
    ASSUME SessionsInv, NEW p \in Hosts, Timeout(p)
    PROVE  PcStep(p)
<1> DEFINE s == [pc[p] EXCEPT !.retries = @ + 1]
<1>1. /\ pc[p].op # "idle"
      /\ UNCHANGED mishaps \/ Mishap("late")
      /\ UNCHANGED <<published, held>>
  BY DEF Timeout, Due, seen
<1>2. /\ pc[p] \in PCs /\ Placed(p, pc[p]) /\ Own(p, pc[p].last, 0) /\ Attached(p)
      /\ pc \in [Hosts -> PCs]
      /\ Honest(p, pc[p], published[p], held[p], Damage)
  BY <1>1, PcGives
<1>3. Damage' = Damage
  BY <1>1, MishapGives DEF Damage
<1>4. CASE Fail(p)
  BY <1>1, <1>3, <1>4, FailSteps
<1>5. CASE /\ MayRetry(p)
           /\ pc' = [pc EXCEPT ![p].retries = @ + 1]
           /\ Post(p, pc[p].last)
  <2>1. pc' = [pc EXCEPT ![p] = s]
    BY <1>2, <1>5
  <2>2. pc[p].retries + 1 \in 0..HostTransferMaxRetries
    BY <1>2, <1>5, HostsAssumption DEF MayRetry, PCs
  <2>3. /\ s \in PCs /\ s.op = pc[p].op /\ s.last = pc[p].last /\ s.n = pc[p].n
        /\ s.got = pc[p].got /\ s.result = pc[p].result
    BY <1>2, <2>2 DEF PCs
  <2> HIDE DEF s
  <2>4. Placed(p, s)
    BY <1>2, <2>3 DEF Placed
  <2>5. Honest(p, s, published'[p], held'[p], Damage')
    BY <1>1, <1>2, <1>3, <2>3 DEF Honest
  <2>6. Wrote(p)
    BY <1>2, <1>5 DEF Wrote
  <2> QED BY <1>2, <2>1, <2>4, <2>5, <2>6 DEF PcStep
<1> QED BY <1>4, <1>5 DEF Timeout

\* A PC that begins an operation has claimed nothing of it yet.
LEMMA StartSteps ==
    ASSUME SessionsInv, NEW p \in Hosts, Start(p)
    PROVE  PcStep(p)
<1>1. /\ Attached(p) /\ pc[p].op = "idle" /\ UNCHANGED mishaps
  BY DEF Start
<1>2. /\ pc[p] \in PCs /\ Placed(p, pc[p]) /\ pc \in [Hosts -> PCs]
      /\ Honest(p, pc[p], published[p], held[p], Damage)
  BY PcGives
<1>3. ASSUME NEW op \in {"upload", "download"}, NEW t, Own(p, t, 0),
             Send(p, [Quiet EXCEPT !.op = op], t), t.verb = "BEGIN",
             t.dir = "UPLOAD" => op = "upload"
      PROVE  PcStep(p)
  <2> DEFINE s == [Quiet EXCEPT !.op = op]
  <2>1. /\ s \in PCs /\ s.op = op /\ s.n = 0 /\ s.got = <<>> /\ Len(s.got) = 0
        /\ s.result = "none"
    BY <1>3, QuietGives
  <2>2. Send(p, s, t)
    BY <1>3
  <2> HIDE DEF s
  <2>3. Honest(p, s, published'[p], held'[p], Damage')
    BY <1>3, <2>1 DEF Honest
  <2>4. Placed(p, Sent(s, t))
    BY <1>3, <2>1, SentGives
  <2> QED BY <1>1, <1>3, <2>1, <2>2, <2>3, <2>4, SendSteps
<1>4. CASE Send(p, [Quiet EXCEPT !.op = "upload"], BeginUpload(p))
  BY <1>3, <1>4, BeginGives
<1>5. CASE Send(p, [Quiet EXCEPT !.op = "download"], Line("DOWNLOAD", "BEGIN"))
  <2>1. /\ Own(p, Line("DOWNLOAD", "BEGIN"), 0)
        /\ Line("DOWNLOAD", "BEGIN").dir = "DOWNLOAD" /\ Line("DOWNLOAD", "BEGIN").verb = "BEGIN"
    BY PlainIsOwn, LineGives DEF Verbs
  <2> QED BY <1>3, <1>5, <2>1
<1>6. CASE Post(p, Line("STORAGE", "DELETE")) /\ UNCHANGED <<pc, seen>>
  <2>1. Own(p, Line("STORAGE", "DELETE"), 0)
    BY PlainIsOwn DEF Verbs
  <2>2. Wrote(p)
    BY <1>1, <1>6, <2>1 DEF Wrote
  <2>3. pc' = [pc EXCEPT ![p] = pc[p]]
    BY <1>2, <1>6
  <2>4. Honest(p, pc[p], published'[p], held'[p], Damage')
    BY <1>1, <1>2, <1>6 DEF seen, Damage
  <2> QED BY <1>1, <1>2, <2>2, <2>3, <2>4 DEF PcStep
<1> QED BY <1>4, <1>5, <1>6 DEF Start

LEMMA BreakSteps ==
    ASSUME SessionsInv, NEW p \in Hosts, Break(p)
    PROVE  PcStep(p)
<1> DEFINE result == IF pc[p].op = "idle" THEN pc[p].result ELSE "failed"
<1>1. /\ pc[p] \in PCs /\ Placed(p, pc[p]) /\ pc \in [Hosts -> PCs]
      /\ Honest(p, pc[p], published[p], held[p], Damage)
  BY PcGives
<1>2. /\ UNCHANGED <<published, held, line>> /\ Damage' = Damage
      /\ pc' = [pc EXCEPT ![p] = Ended(pc[p], result)]
  <2>1. UNCHANGED <<published, held, line>> /\ Mishap("break")
    BY DEF Break, seen
  <2>2. pc' = [pc EXCEPT ![p] = Ended(pc[p], result)]
    BY <1>1 DEF Break, Ended
  <2> QED BY <2>1, <2>2, MishapGives
<1>3. result \in {"none", "failed", "stored", "verified", "downloaded"}
  BY <1>1 DEF PCs
<1>4. result # "failed" => result = pc[p].result
  OBVIOUS
<1> HIDE DEF result
<1>5. /\ Placed(p, Ended(pc[p], result)) /\ Ended(pc[p], result).op = "idle"
      /\ Ended(pc[p], result).result = result /\ Ended(pc[p], result).got = pc[p].got
  BY <1>1, <1>3, EndedGives
<1>6. Honest(p, Ended(pc[p], result), published'[p], held'[p], Damage')
  BY <1>1, <1>2, <1>4, <1>5 DEF Honest
<1> QED BY <1>2, <1>5, <1>6 DEF PcStep, Wrote

-----------------------------------------------------------------------------
(* What a step of a PC leaves of each part of the invariant.               *)

\* Nothing is forgotten of what was published and held, but for PC p.
Remembers(p) ==
    /\ \A q \in Hosts \ {p} : published[q] \subseteq published'[q] /\ held[q] \subseteq held'[q]
    /\ Damage' = 0 => Damage = 0

LEMMA PcStepKeepsPcs ==
    ASSUME SessionsInv, NEW p \in Hosts, PcStep(p), Remembers(p)
    PROVE  /\ PcsInv'
           /\ \A q \in Hosts : pc'[q].op # "idle" => Attached(q)
<1>1. PICK s : /\ pc' = [pc EXCEPT ![p] = s] /\ Placed(p, s)
               /\ Honest(p, s, published'[p], held'[p], Damage')
               /\ s.op # "idle" => Attached(p)
  BY DEF PcStep
<1>2. pc \in [Hosts -> PCs] /\ s \in PCs
  BY <1>1, PcGives DEF Placed
<1>3. pc' \in [Hosts -> PCs] /\ pc'[p] = s /\ \A q \in Hosts \ {p} : pc'[q] = pc[q]
  BY <1>1, <1>2
<1>4. ASSUME NEW q \in Hosts
      PROVE  /\ Placed(q, pc'[q]) /\ Honest(q, pc'[q], published'[q], held'[q], Damage')
             /\ pc'[q].op # "idle" => Attached(q)
  <2>1. CASE q = p
    BY <1>1, <1>3, <2>1
  <2>2. CASE q # p
    <3>1. pc'[q] = pc[q]
      BY <1>3, <2>2
    <3>2. /\ Placed(q, pc[q]) /\ Honest(q, pc[q], published[q], held[q], Damage)
          /\ pc[q].op # "idle" => Attached(q)
      BY PcGives
    <3>3. Honest(q, pc[q], published'[q], held'[q], Damage')
      <4>1. /\ published[q] \subseteq published'[q] /\ held[q] \subseteq held'[q]
            /\ Damage' = 0 => Damage = 0
        BY <2>2 DEF Remembers
      <4> QED BY <3>2, <4>1, HonestStays
    <3> QED BY <3>1, <3>2, <3>3
  <2> QED BY <2>1, <2>2
<1> QED BY <1>3, <1>4 DEF PcsInv

\* The lines of PC p go on with lines of its own.
LEMMA WroteKeeps ==
    ASSUME SessionsInv, NEW p \in Hosts, Wrote(p), Damage' = 0 => Damage = 0
    PROVE  /\ line' \in [Hosts -> Seq(Entries)]
           /\ \A q \in Hosts : AllOwn(q, line'[q], Damage')
           /\ \A q \in Hosts, e \in Nat :
                 Speaks(line'[q], e) => Speaks(line[q], e) \/ (Attached(q) /\ Epoch(q) = e)
<1>1. /\ line \in [Hosts -> Seq(Entries)]
      /\ \A q \in Hosts : AllOwn(q, line[q], Damage')
      /\ link.epoch \in Nat
  BY AllOwnStays DEF SessionsInv, LinesInv, LinkInv
<1>2. CASE line' = line
  BY <1>1, <1>2
<1>3. CASE \E t : Own(p, t, 0) /\ Attached(p) /\ Post(p, t)
  <2>1. PICK t : Own(p, t, 0) /\ Attached(p) /\ Post(p, t)
    BY <1>3
  <2> DEFINE x == [text |-> t, epoch |-> Epoch(p)]
  <2>2. Epoch(p) \in Nat
    BY <1>1 DEF Epoch
  <2>3. /\ x \in Entries /\ x.text = t /\ x.epoch = Epoch(p)
        /\ line' = [line EXCEPT ![p] = Append(@, x)]
    BY <2>1, <2>2 DEF Entries, Own, Post
  <2> HIDE DEF x
  <2>4. Own(p, x.text, Damage')
    BY <2>1, <2>3 DEF Own
  <2>5. /\ AllOwn(p, Append(line[p], x), Damage')
        /\ \A e : Speaks(Append(line[p], x), e) => Speaks(line[p], e) \/ e = x.epoch
    BY <1>1, <2>3, <2>4, AllOwnAppend
  <2>6. /\ line'[p] = Append(line[p], x) /\ \A q \in Hosts \ {p} : line'[q] = line[q]
        /\ Append(line[p], x) \in Seq(Entries)
    BY <1>1, <2>3, <2>5 DEF AllOwn
  <2>7. line' \in [Hosts -> Seq(Entries)]
    BY <1>1, <2>3, <2>6
  <2>8. \A q \in Hosts : AllOwn(q, line'[q], Damage')
    BY <1>1, <2>5, <2>6
  <2>9. ASSUME NEW q \in Hosts, NEW e \in Nat, Speaks(line'[q], e)
        PROVE  Speaks(line[q], e) \/ (Attached(q) /\ Epoch(q) = e)
    <3>1. CASE q = p
      BY <2>1, <2>3, <2>5, <2>6, <2>9, <3>1
    <3>2. CASE q # p
      BY <2>6, <2>9, <3>2
    <3> QED BY <3>1, <3>2
  <2> QED BY <2>7, <2>8, <2>9
<1> QED BY <1>2, <1>3 DEF Wrote

\* An upload stays, ends, or is begun by the PC whose command is handled.
UpFrom ==
    \/ up' = NoSession
    \/ up # NoSession /\ up'.epoch = up.epoch /\ up'.file = up.file
    \/ job # NoSession /\ up'.epoch = job.epoch /\ up'.file = Source[job.host]

\* Nobody comes to use a connection, and connections are counted upwards.
Narrows ==
    /\ \A p \in Hosts, e \in Nat : Uses(p, e)' => Uses(p, e)
    /\ link'.epoch \in Nat /\ link.epoch <= link'.epoch

LEMMA OwnersKept ==
    ASSUME SessionsInv, Narrows, UpFrom
    PROVE  OwnersInv'
<1>1. link.epoch \in Nat /\ link'.epoch \in Nat /\ link.epoch <= link'.epoch
  BY DEF SessionsInv, LinkInv, Narrows
<1>2. \A p \in Hosts, e \in Nat : Uses(p, e)' => e <= link'.epoch /\ (p \in Wireless <=> e > 0)
  BY <1>1 DEF SessionsInv, OwnersInv, Narrows
<1>3. \A p, q \in Hosts, e \in Nat : Uses(p, e)' /\ Uses(q, e)' => p = q
  BY DEF SessionsInv, OwnersInv, Narrows
<1>4. CASE up' = NoSession
  BY <1>2, <1>3, <1>4 DEF OwnersInv
<1>5. CASE up # NoSession /\ up'.epoch = up.epoch /\ up'.file = up.file
  <2>1. /\ up.epoch \in Nat /\ up.epoch <= link.epoch
        /\ \A p \in Hosts, e \in Nat : up.epoch = e /\ Uses(p, e) => Source[p] = up.file
    BY <1>5 DEF SessionsInv, OwnersInv, BoardInv, SessionOK, Sessions
  <2>2. up'.epoch <= link'.epoch
    BY <1>1, <1>5, <2>1
  <2>3. \A p \in Hosts, e \in Nat : up'.epoch = e /\ Uses(p, e)' => Source[p] = up'.file
    BY <1>5, <2>1 DEF Narrows
  <2> QED BY <1>2, <1>3, <2>2, <2>3 DEF OwnersInv
<1>6. CASE job # NoSession /\ up'.epoch = job.epoch /\ up'.file = Source[job.host]
  <2>1. job.host \in Hosts /\ job.epoch \in Nat
    BY <1>6 DEF SessionsInv, LinesInv, Jobs
  <2>2. Uses(job.host, job.epoch)
    BY <1>6 DEF Uses
  <2>3. job.epoch <= link.epoch
    BY <2>1, <2>2 DEF SessionsInv, OwnersInv
  <2>4. up'.epoch <= link'.epoch
    BY <1>1, <1>6, <2>1, <2>3
  <2>5. \A p \in Hosts, e \in Nat : up'.epoch = e /\ Uses(p, e)' => Source[p] = up'.file
    BY <1>6, <2>1, <2>2 DEF SessionsInv, OwnersInv, Narrows
  <2> QED BY <1>2, <1>3, <2>4, <2>5 DEF OwnersInv
<1> QED BY <1>4, <1>5, <1>6 DEF UpFrom

\* A session of the board grows older or ends.
Fades(s, t) == t = NoSession \/ t = s \/ (s # NoSession /\ \E x \in 0..SessionLife : t = [s EXCEPT !.age = x])

LEMMA FadedGives ==
    ASSUME NEW s, NEW t, SessionOK(s), Fades(s, t)
    PROVE  /\ SessionOK(t)
           /\ t # NoSession => /\ s # NoSession /\ t.file = s.file /\ t.data = s.data
                               /\ t.epoch = s.epoch /\ t.wireless = s.wireless
BY HostsAssumption DEF Fades, SessionOK, Sessions

LEMMA FadesKeep ==
    ASSUME SessionsInv, Fades(up, up'), Fades(down, down'), UNCHANGED file,
           Damage' = 0 => Damage = 0
    PROVE  BoardInv' /\ UpFrom
<1>1. SessionOK(up) /\ SessionOK(down) /\ StagedInOrder /\ OpenFileStays
  BY DEF SessionsInv, BoardInv
<1>2. /\ SessionOK(up')
      /\ up' # NoSession => up # NoSession /\ up'.file = up.file /\ up'.data = up.data
                            /\ up'.epoch = up.epoch
  BY <1>1, FadedGives
<1>3. /\ SessionOK(down')
      /\ down' # NoSession => down # NoSession /\ down'.file = down.file
  BY <1>1, FadedGives
<1>4. StagedInOrder'
  BY <1>1, <1>2 DEF StagedInOrder, Damage
<1>5. OpenFileStays'
  BY <1>1, <1>3 DEF OpenFileStays
<1>6. SessionOK(up)' /\ SessionOK(down)'
  BY <1>2, <1>3 DEF SessionOK
<1> QED BY <1>2, <1>4, <1>5, <1>6 DEF BoardInv, UpFrom

LEMMA SameFades ==
    ASSUME NEW s PROVE Fades(s, s)
BY DEF Fades

LEMMA AgedFades ==
    ASSUME NEW s, SessionOK(s)
    PROVE  Fades(s, Aged(s))
<1>1. CASE s = NoSession \/ s.age = SessionLife
  BY <1>1 DEF Aged, Fades
<1>2. CASE s # NoSession /\ s.age # SessionLife
  <2>1. s.age + 1 \in 0..SessionLife
    BY <1>2, HostsAssumption DEF SessionOK, Sessions
  <2>2. Aged(s) = [s EXCEPT !.age = s.age + 1]
    BY <1>2 DEF Aged
  <2> QED BY <1>2, <2>1, <2>2 DEF Fades
<1> QED BY <1>1, <1>2

LEMMA ExpiredFades ==
    ASSUME NEW s, NEW t \in Expire(s)
    PROVE  Fades(s, t)
BY DEF Expire, Fades

\* The part of the invariant that is about lines and connections, in a step that
\* leaves the command and the link alone.
LEMMA WroteKeepsRest ==
    ASSUME SessionsInv, NEW p \in Hosts, Wrote(p), UNCHANGED <<job, link>>, UpFrom,
           Damage' = 0 => Damage = 0
    PROVE  LinesInv' /\ OwnersInv'
<1>1. /\ line' \in [Hosts -> Seq(Entries)]
      /\ \A q \in Hosts : AllOwn(q, line'[q], Damage')
      /\ \A q \in Hosts, e \in Nat :
            Speaks(line'[q], e) => Speaks(line[q], e) \/ (Attached(q) /\ Epoch(q) = e)
  BY WroteKeeps
<1>2. /\ job' = job /\ job \in Jobs \union {NoSession}
      /\ job # NoSession => Own(job.host, job.text, Damage)
      /\ link' = link /\ link.epoch \in Nat
  BY DEF SessionsInv, LinesInv, LinkInv
<1>3. job # NoSession => Own(job.host, job.text, Damage')
  BY <1>2, OwnStays
<1>4. LinesInv'
  BY <1>1, <1>2, <1>3 DEF LinesInv
<1>5. \A q \in Hosts, e \in Nat : Uses(q, e)' => Uses(q, e)
  BY <1>1, <1>2 DEF Uses, Attached, Epoch
<1>6. Narrows
  BY <1>2, <1>5 DEF Narrows
<1> QED BY <1>4, <1>6, OwnersKept

LEMMA ReceiveKeeps ==
    ASSUME SessionsInv, NEW p \in Hosts, Receive(p)
    PROVE  SessionsInv'
<1>1. Receives(p) /\ PcStep(p)
  BY ReceiveSteps
<1>2. /\ answer[p] # <<>> /\ answer' = [answer EXCEPT ![p] = Tail(@)]
      /\ UNCHANGED <<file, up, down, job, link, begun, published, held, mishaps>>
  BY <1>1 DEF Receives, board, seen
<1>3. Remembers(p) /\ Damage' = Damage
  BY <1>2 DEF Remembers, Damage
<1>4. PcsInv' /\ \A q \in Hosts : pc'[q].op # "idle" => Attached(q)
  BY <1>1, <1>3, PcStepKeepsPcs
<1>5. BoardInv' /\ UpFrom
  BY <1>2, <1>3, FadesKeep, SameFades
<1>6. LinesInv' /\ OwnersInv'
  BY <1>1, <1>2, <1>3, <1>5, WroteKeepsRest DEF PcStep
<1>7. AnswersInv'
  <2>1. /\ answer \in [Hosts -> Seq(Lines)]
        /\ \A q \in Hosts : AllTruthful(answer[q], published[q], held[q], Damage)
    BY DEF SessionsInv, AnswersInv
  <2>2. AllTruthful(Tail(answer[p]), published[p], held[p], Damage)
    BY <1>2, <2>1, AllTruthfulTail
  <2>3. Tail(answer[p]) \in Seq(Lines)
    BY <2>2 DEF AllTruthful
  <2> QED BY <1>2, <1>3, <2>1, <2>2, <2>3 DEF AnswersInv
<1>8. HeldInv'
  BY <1>2 DEF SessionsInv, HeldInv
<1>9. LinkInv'
  BY <1>2, <1>4 DEF SessionsInv, LinkInv, Attached
<1> QED BY <1>4, <1>5, <1>6, <1>7, <1>8, <1>9 DEF SessionsInv

LEMMA TimeoutKeeps ==
    ASSUME SessionsInv, NEW p \in Hosts, Timeout(p)
    PROVE  SessionsInv'
<1>1. PcStep(p)
  BY TimeoutSteps
<1>2. /\ up' = Aged(up) /\ down' = Aged(down)
      /\ UNCHANGED <<file, job, answer, link, begun, published, held>>
      /\ UNCHANGED mishaps \/ Mishap("late")
  BY DEF Timeout, Due, seen
<1>3. /\ Remembers(p) /\ Damage' = Damage
      /\ mishaps' \in [DOMAIN Mishaps -> Nat] /\ mishaps'["break"] <= Mishaps["break"]
      /\ mishaps'["break"] = mishaps["break"]
  <2>1. CASE UNCHANGED mishaps
    BY <1>2, <2>1 DEF Remembers, Damage, SessionsInv, LinkInv
  <2>2. CASE Mishap("late")
    <3>1. mishaps["break"] \in Nat
      BY HostsAssumption DEF SessionsInv, LinkInv
    <3> QED BY <1>2, <2>2, <3>1, MishapGives DEF Remembers
  <2> QED BY <1>2, <2>1, <2>2
<1>4. PcsInv' /\ \A q \in Hosts : pc'[q].op # "idle" => Attached(q)
  BY <1>1, <1>3, PcStepKeepsPcs
<1>5. BoardInv' /\ UpFrom
  <2>1. SessionOK(up) /\ SessionOK(down)
    BY DEF SessionsInv, BoardInv
  <2>2. Fades(up, up') /\ Fades(down, down')
    BY <1>2, <2>1, AgedFades
  <2> QED BY <1>2, <1>3, <2>2, FadesKeep
<1>6. LinesInv' /\ OwnersInv'
  BY <1>1, <1>2, <1>3, <1>5, WroteKeepsRest DEF PcStep
<1>7. AnswersInv' /\ HeldInv'
  BY <1>2, <1>3 DEF SessionsInv, AnswersInv, HeldInv
<1>8. LinkInv'
  BY <1>2, <1>3, <1>4 DEF SessionsInv, LinkInv, Attached
<1> QED BY <1>4, <1>5, <1>6, <1>7, <1>8 DEF SessionsInv

LEMMA StartKeeps ==
    ASSUME SessionsInv, NEW p \in Hosts, Start(p)
    PROVE  SessionsInv'
<1>1. PcStep(p)
  BY StartSteps
<1>2. /\ UNCHANGED <<file, up, down, job, answer, link, mishaps>>
      /\ Remember(p) \/ UNCHANGED <<published, held>>
      /\ begun[p] < MaxWork /\ begun' = [begun EXCEPT ![p] = @ + 1]
  BY DEF Start, board, seen
<1>3. /\ published \in [Hosts -> SUBSET Files] /\ held \in [Hosts -> SUBSET Files]
      /\ file \in Files \union {NoFile}
      /\ answer \in [Hosts -> Seq(Lines)]
      /\ \A q \in Hosts : AllTruthful(answer[q], published[q], held[q], Damage)
      /\ \A q \in Hosts : file # NoFile => file \in held[q]
  BY DEF SessionsInv, HeldInv, AnswersInv
<1>4. /\ published' \in [Hosts -> SUBSET Files] /\ held' \in [Hosts -> SUBSET Files]
      /\ \A q \in Hosts \ {p} : published'[q] = published[q] /\ held'[q] = held[q]
      /\ \/ published'[p] = published[p] /\ held'[p] = held[p]
         \/ answer[p] = <<>> /\ held'[p] = {file} \ {NoFile}
  BY <1>2, <1>3 DEF Remember, seen
<1>5. Remembers(p) /\ Damage' = Damage
  BY <1>2, <1>4 DEF Remembers, Damage
<1>6. PcsInv' /\ \A q \in Hosts : pc'[q].op # "idle" => Attached(q)
  BY <1>1, <1>5, PcStepKeepsPcs
<1>7. BoardInv' /\ UpFrom
  BY <1>2, <1>5, FadesKeep, SameFades
<1>8. LinesInv' /\ OwnersInv'
  BY <1>1, <1>2, <1>5, <1>7, WroteKeepsRest DEF PcStep
<1>9. AnswersInv'
  <2>1. answer[p] = <<>> => AllTruthful(answer[p], published'[p], held'[p], Damage)
    BY <1>3 DEF AllTruthful
  <2>2. \A q \in Hosts : AllTruthful(answer[q], published'[q], held'[q], Damage)
    BY <1>3, <1>4, <2>1
  <2> QED BY <1>2, <1>3, <1>5, <2>2 DEF AnswersInv
<1>10. HeldInv'
  BY <1>2, <1>3, <1>4 DEF HeldInv
<1>11. LinkInv'
  <2>1. begun' \in [Hosts -> 0..MaxWork]
    BY <1>2, HostsAssumption DEF SessionsInv, LinkInv
  <2> QED BY <1>2, <1>6, <2>1 DEF SessionsInv, LinkInv, Attached
<1> QED BY <1>6, <1>7, <1>8, <1>9, <1>10, <1>11 DEF SessionsInv

LEMMA BreakKeeps ==
    ASSUME SessionsInv, NEW p \in Hosts, Break(p)
    PROVE  SessionsInv'
<1>1. PcStep(p)
  BY BreakSteps
<1>2. /\ UNCHANGED <<file, up, down, job, line, begun, published, held>>
      /\ Mishap("break") /\ Attached(p)
      /\ answer' = [answer EXCEPT ![p] = <<>>]
      /\ link' = IF p \in Wireless THEN [client |-> NoHost, epoch |-> link.epoch + 1] ELSE link
  BY DEF Break, board, seen
<1>3. /\ Remembers(p) /\ Damage' = Damage
      /\ mishaps' \in [DOMAIN Mishaps -> Nat] /\ mishaps'["break"] <= Mishaps["break"]
      /\ mishaps'["break"] = mishaps["break"] + 1
  BY <1>2, MishapGives DEF Remembers
<1>4. PcsInv' /\ \A q \in Hosts : pc'[q].op # "idle" => Attached(q)
  BY <1>1, <1>3, PcStepKeepsPcs
<1>5. BoardInv' /\ UpFrom
  BY <1>2, <1>3, FadesKeep, SameFades
<1>6. LinesInv'
  BY <1>2, <1>3 DEF SessionsInv, LinesInv
<1>7. /\ link \in [client : Wireless \union {NoHost}, epoch : Nat]
      /\ mishaps["break"] \in Nat
      /\ link.epoch <= 2 * mishaps["break"] + (IF link.client = NoHost THEN 0 ELSE 1)
      /\ link.client # NoHost => link.epoch > 0
      /\ Wireless \subseteq Hosts /\ NoHost \notin Hosts
  BY HostsAssumption DEF SessionsInv, LinkInv
<1>8. ASSUME p \in Wireless PROVE OwnersInv' /\ LinkInv'
  <2>1. /\ link.client = p /\ link'.client = NoHost /\ link'.epoch = link.epoch + 1
        /\ link' \in [client : Wireless \union {NoHost}, epoch : Nat]
    BY <1>2, <1>7, <1>8 DEF Attached
  <2>2. \A q \in Hosts, e \in Nat : Uses(q, e)' => Uses(q, e)
    BY <1>2, <1>7, <2>1 DEF Uses, Attached, Epoch
  <2>3. OwnersInv'
    BY <1>5, <1>7, <2>1, <2>2, OwnersKept DEF Narrows
  <2>4. \A q \in Hosts : pc'[q].op # "idle" => Attached(q)'
    <3>1. ASSUME NEW q \in Hosts, pc'[q].op # "idle"
          PROVE  q \notin Wireless
      <4>1. pc' = [pc EXCEPT ![p].op = "idle",
                             ![p].result = IF pc[p].op = "idle" THEN @ ELSE "failed"]
        BY DEF Break
      <4>2. pc \in [Hosts -> PCs]
        BY PcGives
      <4>3. pc'[p].op = "idle"
        BY <4>1, <4>2 DEF PCs
      <4> QED BY <1>4, <2>1, <3>1, <4>3 DEF Attached
    <3> QED BY <3>1 DEF Attached
  <2>5. LinkInv'
    <3>1. link'.epoch <= 2 * mishaps'["break"] + (IF link'.client = NoHost THEN 0 ELSE 1)
      BY <1>3, <1>7, <2>1
    <3>2. ~ link'.client # NoHost
      BY <2>1
    <3> QED BY <1>2, <1>3, <2>1, <2>4, <3>1, <3>2 DEF SessionsInv, LinkInv
  <2> QED BY <2>3, <2>5
<1>9. ASSUME p \notin Wireless PROVE OwnersInv' /\ LinkInv'
  <2>1. link' = link
    BY <1>2, <1>9
  <2>2. \A q \in Hosts, e \in Nat : Uses(q, e)' => Uses(q, e)
    BY <1>2, <2>1 DEF Uses, Attached, Epoch
  <2>3. OwnersInv'
    BY <1>5, <1>7, <2>1, <2>2, OwnersKept DEF Narrows
  <2>4. link.epoch <= 2 * mishaps'["break"] + (IF link.client = NoHost THEN 0 ELSE 1)
    BY <1>3, <1>7
  <2>5. LinkInv'
    BY <1>2, <1>3, <1>4, <2>1, <2>4 DEF SessionsInv, LinkInv, Attached
  <2> QED BY <2>3, <2>5
<1>10. AnswersInv'
  <2>1. AllTruthful(<<>>, published[p], held[p], Damage)
    BY DEF AllTruthful
  <2> QED BY <1>2, <1>3, <2>1 DEF SessionsInv, AnswersInv
<1>11. HeldInv'
  BY <1>2 DEF SessionsInv, HeldInv
<1> QED BY <1>4, <1>5, <1>6, <1>8, <1>9, <1>10, <1>11 DEF SessionsInv

-----------------------------------------------------------------------------
(* The links and the queue of the board.                                   *)

\* What steps that do not change what PCs know, nor the file, leave.
LEMMA PcsKept ==
    ASSUME SessionsInv, UNCHANGED <<pc, begun, file, published, held>>, Damage' = 0 => Damage = 0
    PROVE  /\ PcsInv' /\ HeldInv'
           /\ \A q \in Hosts : pc'[q].op # "idle" => Attached(q)
<1>1. ASSUME NEW q \in Hosts
      PROVE  Honest(q, pc[q], published[q], held[q], Damage')
  <2>1. Honest(q, pc[q], published[q], held[q], Damage)
    BY DEF SessionsInv, PcsInv
  <2> QED BY <2>1, HonestStays
<1> QED BY <1>1 DEF SessionsInv, PcsInv, HeldInv, LinkInv

LEMMA AnswersKept ==
    ASSUME SessionsInv, UNCHANGED <<answer, published, held>>, Damage' = 0 => Damage = 0
    PROVE  AnswersInv'
<1>1. ASSUME NEW q \in Hosts
      PROVE  AllTruthful(answer[q], published[q], held[q], Damage')
  <2>1. AllTruthful(answer[q], published[q], held[q], Damage)
    BY DEF SessionsInv, AnswersInv
  <2> QED BY <2>1, AllTruthfulStays
<1> QED BY <1>1 DEF SessionsInv, AnswersInv

\* A client that connects is the first to use its epoch.
LEMMA ConnectKeeps ==
    ASSUME SessionsInv, NEW p \in Hosts, Connect(p)
    PROVE  SessionsInv'
<1>1. /\ UNCHANGED <<file, up, down, job, line, answer, pc, begun, published, held, mishaps>>
      /\ p \in Wireless /\ link.client = NoHost
      /\ link' = [client |-> p, epoch |-> link.epoch + 1]
  BY DEF Connect, board, pcs, seen
<1>2. Damage' = Damage
  BY <1>1 DEF Damage
<1>3. PcsInv' /\ HeldInv' /\ AnswersInv' /\ \A q \in Hosts : pc'[q].op # "idle" => Attached(q)
  BY <1>1, <1>2, PcsKept, AnswersKept
<1>4. BoardInv'
  BY <1>1, <1>2, FadesKeep, SameFades
<1>5. LinesInv'
  BY <1>1, <1>2 DEF SessionsInv, LinesInv
<1>6. /\ link.epoch \in Nat /\ mishaps["break"] \in Nat
      /\ link.epoch <= 2 * mishaps["break"]
      /\ Wireless \subseteq Hosts /\ NoHost \notin Hosts
      /\ link'.client = p /\ link'.epoch = link.epoch + 1
      /\ link' \in [client : Wireless \union {NoHost}, epoch : Nat]
  BY <1>1, HostsAssumption DEF SessionsInv, LinkInv
<1>7. LinkInv'
  <2>1. \A q \in Hosts : pc'[q].op # "idle" => Attached(q)'
    BY <1>1, <1>3, <1>6 DEF Attached
  <2> QED BY <1>1, <1>6, <2>1 DEF SessionsInv, LinkInv
<1>8. \A q \in Hosts, e \in Nat : Uses(q, e)' => Uses(q, e) \/ (q = p /\ e = link.epoch + 1)
  BY <1>1, <1>6 DEF Uses, Attached, Epoch
<1>9. /\ \A q \in Hosts, e \in Nat : Uses(q, e) => e <= link.epoch /\ (q \in Wireless <=> e > 0)
      /\ \A q, r \in Hosts, e \in Nat : Uses(q, e) /\ Uses(r, e) => q = r
      /\ up # NoSession => up.epoch <= link.epoch
      /\ \A q \in Hosts, e \in Nat :
            up # NoSession /\ up.epoch = e /\ Uses(q, e) => Source[q] = up.file
  BY DEF SessionsInv, OwnersInv
<1>10. up # NoSession => up.epoch \in Nat
  BY DEF SessionsInv, BoardInv, SessionOK, Sessions
<1>11. \A q \in Hosts, e \in Nat : Uses(q, e)' => e <= link'.epoch /\ (q \in Wireless <=> e > 0)
  BY <1>1, <1>6, <1>8, <1>9
<1>12. \A q, r \in Hosts, e \in Nat : Uses(q, e)' /\ Uses(r, e)' => q = r
  <2>1. \A q \in Hosts : ~ Uses(q, link.epoch + 1)
    BY <1>6, <1>9
  <2>2. \A q \in Hosts, e \in Nat :
           Uses(q, e)' => (Uses(q, e) /\ e # link.epoch + 1) \/ (q = p /\ e = link.epoch + 1)
    BY <1>8, <2>1
  <2> QED BY <1>9, <2>2
<1>13. \A q \in Hosts, e \in Nat :
          up' # NoSession /\ up'.epoch = e /\ Uses(q, e)' => Source[q] = up'.file
  BY <1>1, <1>6, <1>8, <1>9, <1>10
<1>14. up' # NoSession => up'.epoch <= link'.epoch
  BY <1>1, <1>6, <1>9, <1>10
<1>15. OwnersInv'
  BY <1>11, <1>12, <1>13, <1>14 DEF OwnersInv
<1> QED BY <1>3, <1>4, <1>5, <1>7, <1>15 DEF SessionsInv

\* Lines that are lost, damaged or taken by the board.
LEMMA QueueKeeps ==
    ASSUME SessionsInv, UNCHANGED <<pc, begun, file, up, down, link, answer, published, held>>,
           line' \in [Hosts -> Seq(Entries)],
           \A q \in Hosts : AllOwn(q, line'[q], Damage'),
           \A q \in Hosts, e \in Nat : Speaks(line'[q], e) => Speaks(line[q], e),
           job' \in Jobs \union {NoSession},
           job' # NoSession => /\ Own(job'.host, job'.text, Damage')
                               /\ Uses(job'.host, job'.epoch),
           Damage' = 0 => Damage = 0,
           mishaps' \in [DOMAIN Mishaps -> Nat], mishaps'["break"] = mishaps["break"]
    PROVE  SessionsInv'
<1>1. PcsInv' /\ HeldInv' /\ AnswersInv' /\ \A q \in Hosts : pc'[q].op # "idle" => Attached(q)
  BY PcsKept, AnswersKept
<1>2. BoardInv' /\ UpFrom
  BY FadesKeep, SameFades
<1>3. LinesInv'
  BY DEF LinesInv
<1>4. \A q \in Hosts, e \in Nat : Uses(q, e)' => Uses(q, e)
  BY DEF Uses, Attached, Epoch
<1>5. link.epoch \in Nat
  BY DEF SessionsInv, LinkInv
<1>6. OwnersInv'
  BY <1>2, <1>4, <1>5, OwnersKept DEF Narrows
<1>7. LinkInv'
  BY <1>1 DEF SessionsInv, LinkInv, Attached
<1> QED BY <1>1, <1>2, <1>3, <1>6, <1>7 DEF SessionsInv

LEMMA LoseLineKeeps ==
    ASSUME SessionsInv, NEW p \in Hosts, LoseLine(p)
    PROVE  SessionsInv'
<1>1. /\ UNCHANGED <<pc, begun, file, up, down, link, answer, published, held, job>>
      /\ line[p] # <<>> /\ line' = [line EXCEPT ![p] = Tail(@)] /\ Mishap("line")
  BY DEF LoseLine, board, pcs, seen
<1>2. /\ Damage' = Damage /\ mishaps' \in [DOMAIN Mishaps -> Nat]
      /\ mishaps'["break"] = mishaps["break"]
  <2>1. mishaps["break"] \in Nat
    BY HostsAssumption DEF SessionsInv, LinkInv
  <2> QED BY <1>1, <2>1, MishapGives
<1>3. /\ line \in [Hosts -> Seq(Entries)] /\ \A q \in Hosts : AllOwn(q, line[q], Damage)
      /\ job \in Jobs \union {NoSession}
      /\ job # NoSession => Own(job.host, job.text, Damage)
  BY DEF SessionsInv, LinesInv
<1>4. /\ AllOwn(p, Tail(line[p]), Damage) /\ Tail(line[p]) \in Seq(Entries)
      /\ \A e : Speaks(Tail(line[p]), e) => Speaks(line[p], e)
  BY <1>1, <1>3, AllOwnTail DEF AllOwn
<1>5. /\ line' \in [Hosts -> Seq(Entries)]
      /\ line'[p] = Tail(line[p]) /\ \A q \in Hosts \ {p} : line'[q] = line[q]
  BY <1>1, <1>3, <1>4
<1>6. /\ \A q \in Hosts : AllOwn(q, line'[q], Damage')
      /\ \A q \in Hosts, e \in Nat : Speaks(line'[q], e) => Speaks(line[q], e)
  BY <1>2, <1>3, <1>4, <1>5
<1>7. job' # NoSession => Own(job'.host, job'.text, Damage') /\ Uses(job'.host, job'.epoch)
  BY <1>1, <1>2, <1>3 DEF Uses
<1> QED BY <1>1, <1>2, <1>3, <1>5, <1>6, <1>7, QueueKeeps

LEMMA AllOwnReplaced ==
    ASSUME NEW p, NEW q, NEW d, NEW x \in Entries, AllOwn(p, q, d), q # <<>>, Own(p, x.text, d),
           x.epoch = Head(q).epoch
    PROVE  LET r == [q EXCEPT ![1] = x] IN
           AllOwn(p, r, d) /\ \A e : Speaks(r, e) => Speaks(q, e)
<1> DEFINE r == [q EXCEPT ![1] = x]
<1>1. /\ r \in Seq(Entries) /\ Len(r) = Len(q) /\ r[1] = x
      /\ \A i \in 1..Len(q) : i # 1 => r[i] = q[i]
  BY ReplaceGives DEF AllOwn
<1>2. Head(q) = q[1] /\ 1 \in 1..Len(q)
  BY TailGives DEF AllOwn
<1> HIDE DEF r
<1>3. AllOwn(p, r, d)
  BY <1>1 DEF AllOwn
<1>4. \A e : Speaks(r, e) => Speaks(q, e)
  BY <1>1, <1>2 DEF Speaks
<1> QED BY <1>3, <1>4 DEF r

LEMMA DamageLineKeeps ==
    ASSUME SessionsInv, NEW p \in Hosts, DamageLine(p)
    PROVE  SessionsInv'
<1>1. PICK c \in Chunks : line' = [line EXCEPT ![p][1].text.chunk = c]
  BY DEF DamageLine
<1>2. /\ UNCHANGED <<pc, begun, file, up, down, link, answer, published, held, job>>
      /\ line[p] # <<>> /\ Mishap("damage")
      /\ Head(line[p]).text.dir = "UPLOAD" /\ Head(line[p]).text.verb = "DATA"
  BY DEF DamageLine, board, pcs, seen
<1>3. /\ Damage' # 0 /\ mishaps' \in [DOMAIN Mishaps -> Nat]
      /\ mishaps'["break"] = mishaps["break"]
  <2>1. mishaps["break"] \in Nat
    BY HostsAssumption DEF SessionsInv, LinkInv
  <2> QED BY <1>2, <2>1, MishapGives
<1>4. /\ line \in [Hosts -> Seq(Entries)]
      /\ \A q \in Hosts : AllOwn(q, line[q], Damage')
      /\ job \in Jobs \union {NoSession}
      /\ job # NoSession => Own(job.host, job.text, Damage')
  BY <1>3, AllOwnStays, OwnStays DEF SessionsInv, LinesInv
<1> DEFINE x == [Head(line[p]) EXCEPT !.text = [Head(line[p]).text EXCEPT !.chunk = c]]
           r == [line[p] EXCEPT ![1] = x]
<1>5. /\ line[p] \in Seq(Entries) /\ Head(line[p]) \in Entries /\ Head(line[p]) = line[p][1]
      /\ AllOwn(p, line[p], Damage')
  BY <1>2, <1>4, TailGives
<1>6. line' = [line EXCEPT ![p] = r]
  BY <1>1, <1>4, <1>5
<1>7. /\ x \in Entries /\ x.epoch = Head(line[p]).epoch
      /\ x.text = [Head(line[p]).text EXCEPT !.chunk = c]
  BY <1>5 DEF Entries, Lines
<1>8. Own(p, x.text, Damage')
  <2>1. Head(line[p]).text \in Lines
    BY <1>5 DEF Entries
  <2>2. /\ x.text \in Lines /\ x.text.dir = "UPLOAD" /\ x.text.verb = "DATA"
        /\ x.text.chunk = c
    BY <1>2, <1>7, <2>1 DEF Lines
  <2> QED BY <1>3, <2>2 DEF Own
<1> HIDE DEF x
<1>9. AllOwn(p, r, Damage') /\ \A e : Speaks(r, e) => Speaks(line[p], e)
  BY <1>2, <1>5, <1>7, <1>8, AllOwnReplaced
<1> HIDE DEF r
<1>10. /\ r \in Seq(Entries) /\ line' \in [Hosts -> Seq(Entries)]
       /\ line'[p] = r /\ \A q \in Hosts \ {p} : line'[q] = line[q]
  BY <1>4, <1>6, <1>9 DEF AllOwn
<1>11. /\ \A q \in Hosts : AllOwn(q, line'[q], Damage')
       /\ \A q \in Hosts, e \in Nat : Speaks(line'[q], e) => Speaks(line[q], e)
  BY <1>4, <1>9, <1>10
<1>12. job' # NoSession => Own(job'.host, job'.text, Damage') /\ Uses(job'.host, job'.epoch)
  BY <1>2, <1>4 DEF Uses
<1> QED BY <1>2, <1>3, <1>4, <1>10, <1>11, <1>12, QueueKeeps

LEMMA DispatchKeeps ==
    ASSUME SessionsInv, NEW p \in Hosts, Dispatch(p)
    PROVE  SessionsInv'
<1> DEFINE x == Head(line[p])
<1>1. /\ UNCHANGED <<pc, begun, file, up, down, link, answer, published, held, mishaps>>
      /\ line[p] # <<>> /\ line' = [line EXCEPT ![p] = Tail(@)]
      /\ \/ job' = NoSession
         \/ job' = [host |-> p, epoch |-> x.epoch, text |-> x.text, expired |-> FALSE]
  BY DEF Dispatch, pcs, seen
<1>2. Damage' = Damage /\ mishaps' \in [DOMAIN Mishaps -> Nat]
  BY <1>1 DEF Damage, SessionsInv, LinkInv
<1>3. /\ line \in [Hosts -> Seq(Entries)] /\ \A q \in Hosts : AllOwn(q, line[q], Damage)
  BY DEF SessionsInv, LinesInv
<1>4. /\ AllOwn(p, Tail(line[p]), Damage) /\ Tail(line[p]) \in Seq(Entries)
      /\ x \in Entries /\ Own(p, x.text, Damage) /\ Speaks(line[p], x.epoch)
      /\ \A e : Speaks(Tail(line[p]), e) => Speaks(line[p], e)
  BY <1>1, <1>3, AllOwnTail DEF AllOwn
<1> HIDE DEF x
<1>5. /\ line' \in [Hosts -> Seq(Entries)]
      /\ line'[p] = Tail(line[p]) /\ \A q \in Hosts \ {p} : line'[q] = line[q]
  BY <1>1, <1>3, <1>4
<1>6. /\ \A q \in Hosts : AllOwn(q, line'[q], Damage')
      /\ \A q \in Hosts, e \in Nat : Speaks(line'[q], e) => Speaks(line[q], e)
  BY <1>2, <1>3, <1>4, <1>5
<1>7. job' \in Jobs \union {NoSession}
  <2>1. x.epoch \in Nat /\ x.text \in Lines
    BY <1>4 DEF Entries
  <2>2. [host |-> p, epoch |-> x.epoch, text |-> x.text, expired |-> FALSE] \in Jobs
    BY <2>1 DEF Jobs
  <2> QED BY <1>1, <2>2
<1>8. job' # NoSession => Own(job'.host, job'.text, Damage') /\ Uses(job'.host, job'.epoch)
  <2>1. job' # NoSession => job'.host = p /\ job'.epoch = x.epoch /\ job'.text = x.text
    BY <1>1
  <2>2. Uses(p, x.epoch)
    BY <1>4 DEF Uses
  <2> QED BY <1>2, <1>4, <2>1, <2>2
<1> QED BY <1>1, <1>2, <1>5, <1>6, <1>7, <1>8, QueueKeeps

\* Answers that are lost or damaged.
LEMMA AnswerMishapKeeps ==
    ASSUME SessionsInv, UNCHANGED <<pc, begun, file, up, down, link, line, published, held, job>>,
           AnswersInv', Mishap("answer") \/ Mishap("damage")
    PROVE  SessionsInv'
<1>1. /\ Damage' = 0 => Damage = 0
      /\ mishaps' \in [DOMAIN Mishaps -> Nat] /\ mishaps'["break"] = mishaps["break"]
  <2>1. mishaps["break"] \in Nat
    BY HostsAssumption DEF SessionsInv, LinkInv
  <2> QED BY <2>1, MishapGives
<1>2. PcsInv' /\ HeldInv' /\ \A q \in Hosts : pc'[q].op # "idle" => Attached(q)
  BY <1>1, PcsKept
<1>3. BoardInv' /\ UpFrom
  BY <1>1, FadesKeep, SameFades
<1>4. LinesInv'
  BY <1>1, AllOwnStays, OwnStays DEF SessionsInv, LinesInv
<1>5. \A q \in Hosts, e \in Nat : Uses(q, e)' => Uses(q, e)
  BY DEF Uses, Attached, Epoch
<1>6. OwnersInv'
  <2>1. link.epoch \in Nat
    BY DEF SessionsInv, LinkInv
  <2> QED BY <1>3, <1>5, <2>1, OwnersKept DEF Narrows
<1>7. LinkInv'
  BY <1>1, <1>2 DEF SessionsInv, LinkInv, Attached
<1> QED BY <1>2, <1>3, <1>4, <1>6, <1>7 DEF SessionsInv

LEMMA LoseAnswerKeeps ==
    ASSUME SessionsInv, NEW p \in Hosts, LoseAnswer(p)
    PROVE  SessionsInv'
<1>1. /\ UNCHANGED <<pc, begun, file, up, down, link, line, published, held, job>>
      /\ answer[p] # <<>> /\ answer' = [answer EXCEPT ![p] = Tail(@)] /\ Mishap("answer")
  BY DEF LoseAnswer, board, pcs, seen
<1>2. answer \in [Hosts -> Seq(Lines)]
      /\ \A q \in Hosts : AllTruthful(answer[q], published[q], held[q], Damage)
  BY DEF SessionsInv, AnswersInv
<1>3. Damage' = Damage
  BY <1>1, MishapGives
<1>4. AllTruthful(Tail(answer[p]), published[p], held[p], Damage)
  BY <1>1, <1>2, AllTruthfulTail
<1>5. AnswersInv'
  <2>1. Tail(answer[p]) \in Seq(Lines)
    BY <1>4 DEF AllTruthful
  <2> QED BY <1>1, <1>2, <1>3, <1>4, <2>1 DEF AnswersInv
<1> QED BY <1>1, <1>3, <1>5, AnswerMishapKeeps

LEMMA AllTruthfulReplaced ==
    ASSUME NEW q, NEW pub, NEW hd, NEW d, NEW a, AllTruthful(q, pub, hd, d), q # <<>>,
           Truthful(a, pub, hd, d)
    PROVE  AllTruthful([q EXCEPT ![1] = a], pub, hd, d)
<1> DEFINE r == [q EXCEPT ![1] = a]
<1>1. a \in Lines
  BY DEF Truthful
<1>2. /\ r \in Seq(Lines) /\ Len(r) = Len(q) /\ r[1] = a
      /\ \A i \in 1..Len(q) : i # 1 => r[i] = q[i]
  BY <1>1, ReplaceGives DEF AllTruthful
<1> HIDE DEF r
<1>3. AllTruthful(r, pub, hd, d)
  BY <1>2 DEF AllTruthful
<1> QED BY <1>3 DEF r

LEMMA DamageAnswerKeeps ==
    ASSUME SessionsInv, NEW p \in Hosts, DamageAnswer(p)
    PROVE  SessionsInv'
<1>1. PICK c \in Chunks : answer' = [answer EXCEPT ![p][1].chunk = c]
  BY DEF DamageAnswer
<1>2. /\ UNCHANGED <<pc, begun, file, up, down, link, line, published, held, job>>
      /\ answer[p] # <<>> /\ Mishap("damage")
      /\ Head(answer[p]).dir = "DOWNLOAD" /\ Head(answer[p]).verb = "DATA"
  BY DEF DamageAnswer, board, pcs, seen
<1>3. Damage' # 0
  BY <1>2, MishapGives
<1>4. answer \in [Hosts -> Seq(Lines)]
      /\ \A q \in Hosts : AllTruthful(answer[q], published[q], held[q], Damage')
  BY <1>3, AllTruthfulStays DEF SessionsInv, AnswersInv
<1> DEFINE a == [Head(answer[p]) EXCEPT !.chunk = c]
           r == [answer[p] EXCEPT ![1] = a]
<1>5. /\ answer[p] \in Seq(Lines) /\ Head(answer[p]) \in Lines
      /\ Head(answer[p]) = answer[p][1]
  BY <1>2, <1>4, TailGives
<1>6. answer' = [answer EXCEPT ![p] = r]
  BY <1>1, <1>4, <1>5
<1>7. /\ a \in Lines /\ a.dir = "DOWNLOAD" /\ a.verb = "DATA" /\ a.chunk = c
  BY <1>2, <1>5 DEF Lines
<1> HIDE DEF a
<1>8. Truthful(a, published[p], held[p], Damage')
  BY <1>3, <1>7 DEF Truthful
<1>9. AllTruthful(r, published[p], held[p], Damage')
  BY <1>2, <1>4, <1>8, AllTruthfulReplaced
<1> HIDE DEF r
<1>10. AnswersInv'
  <2>1. r \in Seq(Lines)
    BY <1>9 DEF AllTruthful
  <2> QED BY <1>2, <1>4, <1>6, <1>9, <2>1 DEF AnswersInv
<1> QED BY <1>2, <1>10, AnswerMishapKeeps

\* Sessions that are over.
LEMMA ExpireKeeps ==
    ASSUME SessionsInv, ExpireOnDispatch \/ ExpireInMaintenance
    PROVE  SessionsInv'
<1>1. /\ UNCHANGED <<file, line, answer, link, pc, begun, published, held, mishaps>>
      /\ up' \in Expire(up) /\ down' \in Expire(down)
      /\ job' = job \/ (job # NoSession /\ job' = [job EXCEPT !.expired = TRUE])
  BY DEF ExpireOnDispatch, ExpireInMaintenance, ExpireHostSessions, wires, pcs, seen
<1>2. Damage' = Damage
  BY <1>1 DEF Damage
<1>3. PcsInv' /\ HeldInv' /\ AnswersInv' /\ \A q \in Hosts : pc'[q].op # "idle" => Attached(q)
  BY <1>1, <1>2, PcsKept, AnswersKept
<1>4. BoardInv' /\ UpFrom
  <2>1. Fades(up, up') /\ Fades(down, down')
    BY <1>1, ExpiredFades
  <2> QED BY <1>1, <1>2, <2>1, FadesKeep
<1>5. /\ job' \in Jobs \union {NoSession}
      /\ job' # NoSession => /\ job # NoSession /\ job'.host = job.host
                             /\ job'.epoch = job.epoch /\ job'.text = job.text
  BY <1>1 DEF SessionsInv, LinesInv, Jobs
<1>6. LinesInv'
  BY <1>1, <1>2, <1>5 DEF SessionsInv, LinesInv
<1>7. \A q \in Hosts, e \in Nat : Uses(q, e)' => Uses(q, e)
  BY <1>1, <1>5 DEF Uses, Attached, Epoch
<1>8. OwnersInv'
  <2>1. link.epoch \in Nat
    BY DEF SessionsInv, LinkInv
  <2> QED BY <1>1, <1>4, <1>7, <2>1, OwnersKept DEF Narrows
<1>9. LinkInv'
  BY <1>1, <1>3 DEF SessionsInv, LinkInv, Attached
<1> QED BY <1>3, <1>4, <1>6, <1>8, <1>9 DEF SessionsInv

-----------------------------------------------------------------------------
(* The handlers.                                                           *)

Grows ==
    \A p \in Hosts : published[p] \subseteq published'[p] /\ held[p] \subseteq held'[p]

\* A handler answers truthfully, forgets nothing and keeps what concerns the board.
HandlerStep ==
    /\ job # NoSession
    /\ \E a : /\ Answer(a)
              /\ \A p \in Hosts : Truthful(a, published'[p], held'[p], Damage)
    /\ Grows /\ HeldInv' /\ BoardInv' /\ UpFrom

LEMMA HandlerStepKeeps ==
    ASSUME SessionsInv, HandlerStep
    PROVE  SessionsInv'
<1>1. PICK a : /\ Answer(a)
               /\ \A p \in Hosts : Truthful(a, published'[p], held'[p], Damage)
  BY DEF HandlerStep
<1>2. /\ job' = NoSession /\ UNCHANGED <<line, link, pc, begun, mishaps>>
      /\ answer' = [p \in Hosts |-> IF Hears(p) THEN Append(answer[p], a) ELSE answer[p]]
  BY <1>1 DEF Answer, pcs
<1>3. Damage' = Damage
  BY <1>2 DEF Damage
<1>4. AnswersInv'
  <2>1. answer \in [Hosts -> Seq(Lines)]
    BY DEF SessionsInv, AnswersInv
  <2>2. ASSUME NEW p \in Hosts
        PROVE  AllTruthful(answer'[p], published'[p], held'[p], Damage)
    <3>1. AllTruthful(answer[p], published[p], held[p], Damage)
      BY DEF SessionsInv, AnswersInv
    <3>2. published[p] \subseteq published'[p] /\ held[p] \subseteq held'[p]
      BY DEF HandlerStep, Grows
    <3>3. AllTruthful(answer[p], published'[p], held'[p], Damage)
      BY <3>1, <3>2, AllTruthfulStays
    <3>4. AllTruthful(Append(answer[p], a), published'[p], held'[p], Damage)
      BY <1>1, <3>3, AllTruthfulAppend
    <3>5. answer'[p] = Append(answer[p], a) \/ answer'[p] = answer[p]
      BY <1>2
    <3> QED BY <3>3, <3>4, <3>5
  <2>3. \A p \in Hosts : answer'[p] \in Seq(Lines)
    BY <2>2 DEF AllTruthful
  <2>4. answer' \in [Hosts -> Seq(Lines)]
    BY <1>2, <2>3
  <2> QED BY <1>3, <2>2, <2>4 DEF AnswersInv
<1>5. PcsInv'
  <2>1. ASSUME NEW p \in Hosts
        PROVE  Honest(p, pc[p], published'[p], held'[p], Damage)
    <3>1. Honest(p, pc[p], published[p], held[p], Damage)
      BY DEF SessionsInv, PcsInv
    <3>2. published[p] \subseteq published'[p] /\ held[p] \subseteq held'[p]
      BY DEF HandlerStep, Grows
    <3> QED BY <3>1, <3>2, HonestStays
  <2> QED BY <1>2, <1>3, <2>1 DEF SessionsInv, PcsInv
<1>6. LinesInv'
  BY <1>2, <1>3 DEF SessionsInv, LinesInv
<1>7. LinkInv'
  BY <1>2 DEF SessionsInv, LinkInv, Attached
<1>8. \A q \in Hosts, e \in Nat : Uses(q, e)' => Uses(q, e)
  BY <1>2 DEF Uses, Attached, Epoch
<1>9. OwnersInv'
  <2>1. link.epoch \in Nat
    BY DEF SessionsInv, LinkInv
  <2> QED BY <1>2, <1>8, <2>1, OwnersKept DEF Narrows, HandlerStep
<1> QED BY <1>4, <1>5, <1>6, <1>7, <1>9 DEF SessionsInv, HandlerStep

\* The command that is handled.
LEMMA JobGives ==
    ASSUME SessionsInv, job # NoSession
    PROVE  /\ job.host \in Hosts /\ job.epoch \in Nat /\ job.text \in Lines
           /\ Own(job.host, job.text, Damage)
           /\ Uses(job.host, job.epoch)
           /\ job.host \in Wireless <=> job.epoch > 0
<1>1. job \in Jobs /\ Own(job.host, job.text, Damage)
  BY DEF SessionsInv, LinesInv
<1>2. job.host \in Hosts /\ job.epoch \in Nat /\ job.text \in Lines
  BY <1>1 DEF Jobs
<1>3. Uses(job.host, job.epoch)
  BY DEF Uses
<1> QED BY <1>1, <1>2, <1>3 DEF SessionsInv, OwnersInv

\* Answers that claim nothing about a file.
Plain(a) ==
    /\ a \in Lines
    /\ a.verb # "END"
    /\ a.dir = "DOWNLOAD" => a.verb # "DATA"

LEMMA PlainIsTruthful ==
    ASSUME NEW a, Plain(a), NEW pub, NEW hd, NEW d
    PROVE  Truthful(a, pub, hd, d)
BY DEF Plain, Truthful

LEMMA ErrorIsPlain ==
    ASSUME NEW dir \in {"UPLOAD", "DOWNLOAD", "STORAGE"}
    PROVE  Plain(Error(dir))
BY LineGives DEF Error, Plain, Verbs

\* A handler after which sessions are as before, or over.
LEMMA FadingSteps ==
    ASSUME SessionsInv, job # NoSession, NEW a, Answer(a),
           \A p \in Hosts : Truthful(a, published[p], held[p], Damage),
           Fades(up, up'), Fades(down, down'), UNCHANGED <<file, published, held>>
    PROVE  HandlerStep
<1>1. Damage' = Damage
  BY DEF Answer, Damage
<1>2. BoardInv' /\ UpFrom
  BY <1>1, FadesKeep
<1>3. HeldInv'
  BY DEF SessionsInv, HeldInv
<1> QED BY <1>2, <1>3 DEF HandlerStep, Grows

LEMMA PlainSteps ==
    ASSUME SessionsInv, job # NoSession, NEW a, Answer(a), Plain(a),
           Fades(up, up'), Fades(down, down'), UNCHANGED <<file, published, held>>
    PROVE  HandlerStep
BY FadingSteps, PlainIsTruthful

LEMMA TouchedFades ==
    ASSUME NEW s, s # NoSession
    PROVE  Fades(s, Touched(s)) /\ Fades(s, s) /\ Fades(s, NoSession)
<1>1. 0 \in 0..SessionLife
  BY HostsAssumption
<1> QED BY <1>1 DEF Fades, Touched

LEMMA RefusedSteps ==
    ASSUME SessionsInv, UploadRefused \/ DownloadRefused
    PROVE  HandlerStep
<1>1. /\ job # NoSession /\ UNCHANGED <<file, up, down, published, held>>
      /\ Answer(Error("UPLOAD")) \/ Answer(Error("DOWNLOAD"))
  BY DEF UploadRefused, DownloadRefused, Handles, seen
<1>2. Plain(Error("UPLOAD")) /\ Plain(Error("DOWNLOAD"))
  BY ErrorIsPlain
<1>3. Fades(up, up') /\ Fades(down, down')
  BY <1>1, SameFades
<1> QED BY <1>1, <1>2, <1>3, PlainSteps

LEMMA CancelSteps ==
    ASSUME SessionsInv, UploadCancel \/ DownloadCancel
    PROVE  HandlerStep
<1>1. /\ job # NoSession /\ UNCHANGED <<file, published, held>>
      /\ Answer(Line("UPLOAD", "CANCEL")) \/ Answer(Line("DOWNLOAD", "CANCEL"))
      /\ Fades(up, up') /\ Fades(down, down')
  BY DEF UploadCancel, DownloadCancel, UploadAdmits, DownloadAdmits, Handles, seen, Fades
<1>2. Plain(Line("UPLOAD", "CANCEL")) /\ Plain(Line("DOWNLOAD", "CANCEL"))
  BY LineGives DEF Plain, Verbs
<1> QED BY <1>1, <1>2, PlainSteps

LEMMA UnexpectedSteps ==
    ASSUME SessionsInv, UploadDataUnexpected \/ DownloadUnexpected
    PROVE  HandlerStep
<1>1. /\ job # NoSession /\ UNCHANGED <<file, published, held>>
      /\ Answer(Error("UPLOAD")) \/ Answer(Error("DOWNLOAD"))
      /\ Fades(up, up') /\ Fades(down, down')
  BY TouchedFades, SameFades
     DEF UploadDataUnexpected, DownloadUnexpected, UploadAdmits, DownloadAdmits, Handles, seen
<1>2. Plain(Error("UPLOAD")) /\ Plain(Error("DOWNLOAD"))
  BY ErrorIsPlain
<1> QED BY <1>1, <1>2, PlainSteps

\* The acknowledgement of a chunk.
LEMMA AckIsPlain ==
    ASSUME SessionsInv, job # NoSession, Len(up'.data) \in Nat
    PROVE  Plain(Ack)
<1>1. job.text.seq \in Nat
  BY JobGives DEF Lines
<1>2. Line("UPLOAD", "DATA") \in Lines /\ Line("UPLOAD", "DATA").dir = "UPLOAD"
      /\ Line("UPLOAD", "DATA").verb = "DATA"
  BY LineGives DEF Verbs
<1> DEFINE l == Line("UPLOAD", "DATA")
           n == Len(up'.data)
<1>3. Ack = [l EXCEPT !.seq = job.text.seq, !.total = n]
  BY DEF Ack
<1> HIDE DEF l, n
<1>4. Ack \in Lines /\ Ack.dir = "UPLOAD" /\ Ack.verb = "DATA"
  BY <1>1, <1>2, <1>3 DEF Lines, l, n
<1> QED BY <1>4 DEF Plain

LEMMA UploadDataAgainSteps ==
    ASSUME SessionsInv, UploadDataAgain
    PROVE  HandlerStep
<1>1. /\ job # NoSession /\ UNCHANGED <<file, down, published, held>>
      /\ up # NoSession /\ up' = Touched(up) /\ Answer(Ack)
  BY DEF UploadDataAgain, UploadAdmits, Handles, seen
<1>2. Len(up'.data) \in Nat
  BY <1>1 DEF SessionsInv, BoardInv, SessionOK, Sessions, Touched
<1>3. Plain(Ack) /\ Fades(up, up') /\ Fades(down, down')
  BY <1>1, <1>2, AckIsPlain, TouchedFades, SameFades
<1> QED BY <1>1, <1>3, PlainSteps

\* A session that a PC opens for a file.
LEMMA SessionGives ==
    ASSUME SessionsInv, job # NoSession, NEW f \in Files
    PROVE  /\ SessionOK(Session(f)) /\ Session(f) # NoSession
           /\ Session(f).file = f /\ Session(f).data = <<>> /\ Len(Session(f).data) = 0
           /\ Session(f).epoch = job.epoch /\ Session(f).wireless = (job.host \in Wireless)
<1>1. /\ job.host \in Hosts /\ job.epoch \in Nat
      /\ job.host \in Wireless <=> job.epoch > 0
  BY JobGives
<1>2. 0 \in 0..SessionLife /\ <<>> \in Seq(Chunks) /\ Len(f) \in Nat /\ Len(<<>>) = 0
  BY HostsAssumption
<1>3. /\ Session(f) \in Sessions /\ Session(f).file = f /\ Session(f).data = <<>>
      /\ Session(f).epoch = job.epoch /\ Session(f).wireless = (job.host \in Wireless)
  BY <1>1, <1>2 DEF Session, Sessions
<1>4. Session(f) # NoSession
  BY <1>3, HostsAssumption
<1>5. Session(f).wireless <=> Session(f).epoch > 0
  BY <1>1, <1>3
<1>6. Len(Session(f).data) = 0 /\ Len(Session(f).data) <= Len(Session(f).file)
  BY <1>2, <1>3
<1>7. SessionOK(Session(f))
  BY <1>3, <1>5, <1>6 DEF SessionOK
<1> QED BY <1>3, <1>4, <1>6, <1>7

LEMMA UploadBeginSteps ==
    ASSUME SessionsInv, UploadBegin
    PROVE  HandlerStep
<1> DEFINE f == job.text.file
           a == [Line("UPLOAD", "BEGIN") EXCEPT !.file = f]
<1>1. /\ job # NoSession /\ UNCHANGED <<file, down, published, held>>
      /\ job.text.dir = "UPLOAD" /\ job.text.verb = "BEGIN" /\ down = NoSession
  BY DEF UploadBegin, UploadAdmits, OwnedByAnother, Handles, seen
<1>2. CASE up' = Session(f) /\ Answer(a)
  <2>1. f = Source[job.host] /\ f \in Files
    BY <1>1, JobGives, SourceGives DEF Own
  <2>2. /\ SessionOK(up') /\ up' # NoSession /\ up'.data = <<>> /\ Len(up'.data) = 0
        /\ up'.epoch = job.epoch /\ up'.file = Source[job.host]
    BY <1>1, <1>2, <2>1, SessionGives
  <2>3. Plain(a)
    <3>1. Line("UPLOAD", "BEGIN") \in Lines /\ Line("UPLOAD", "BEGIN").dir = "UPLOAD"
          /\ Line("UPLOAD", "BEGIN").verb = "BEGIN"
      BY LineGives DEF Verbs
    <3>2. a \in Lines /\ a.dir = "UPLOAD" /\ a.verb = "BEGIN"
      BY <2>1, <3>1, FileGives
    <3> QED BY <3>2 DEF Plain
  <2>4. UpFrom
    BY <1>1, <2>2 DEF UpFrom
  <2>5. StagedInOrder'
    <3>1. Len(up'.file) \in Nat
      BY <2>1, <2>2, HostsAssumption
    <3> QED BY <2>2, <3>1 DEF StagedInOrder, IsPrefixOf
  <2>6. BoardInv'
    BY <1>1, <2>2, <2>5 DEF SessionsInv, BoardInv, SessionOK, OpenFileStays
  <2>7. HeldInv'
    BY <1>1 DEF SessionsInv, HeldInv
  <2>8. \A p \in Hosts : Truthful(a, published'[p], held'[p], Damage)
    BY <2>3, PlainIsTruthful
  <2> HIDE DEF a
  <2> QED BY <1>1, <1>2, <2>4, <2>6, <2>7, <2>8 DEF HandlerStep, Grows
<1>3. CASE up' \in {up, NoSession} /\ Answer(Error("UPLOAD"))
  <2>1. Plain(Error("UPLOAD")) /\ Fades(up, up') /\ Fades(down, down')
    BY <1>1, <1>3, ErrorIsPlain DEF Fades
  <2> QED BY <1>1, <1>3, <2>1, PlainSteps
<1> QED BY <1>2, <1>3 DEF UploadBegin

\* The next chunk is that of the file which was announced, because nobody but its
\* owner can send one.
LEMMA UploadDataSteps ==
    ASSUME SessionsInv, UploadData
    PROVE  HandlerStep
<1> DEFINE c == job.text.chunk
           g == Append(up.data, c)
           s == [Touched(up) EXCEPT !.data = g]
<1>1. /\ job # NoSession /\ UNCHANGED <<file, down, published, held>>
      /\ job.text.dir = "UPLOAD" /\ job.text.verb = "DATA"
      /\ down = NoSession /\ up # NoSession /\ Owns(up)
      /\ job.text.seq = Len(up.data)
      /\ \/ Len(up.data) < Len(up.file) /\ up' = s /\ Answer(Ack)
         \/ up' = NoSession /\ Answer(Error("UPLOAD"))
  <2>1. up # NoSession
    BY DEF UploadData
  <2>2. Touched(up).data = up.data
    BY <2>1 DEF SessionsInv, BoardInv, SessionOK, Sessions, Touched
  <2>3. [Touched(up) EXCEPT !.data = Append(@, c)] = s
    BY <2>2
  <2> QED BY <2>1, <2>3 DEF UploadData, UploadAdmits, OwnedByAnother, Handles, seen
<1>2. CASE Len(up.data) < Len(up.file) /\ up' = s /\ Answer(Ack)
  <2>1. /\ job.host \in Hosts /\ job.epoch \in Nat /\ Uses(job.host, job.epoch)
        /\ c \in Chunks
        /\ Damage = 0 => c = Source[job.host][Len(up.data) + 1]
    BY <1>1, JobGives DEF Own
  <2>2. up \in Sessions /\ (up.wireless <=> up.epoch > 0)
    BY <1>1 DEF SessionsInv, BoardInv, SessionOK
  <2>3. Source[job.host] = up.file
    BY <1>1, <2>1 DEF SessionsInv, OwnersInv, Owns
  <2> HIDE DEF c
  <2>4. /\ up.data \in Seq(Chunks) /\ up.file \in Files /\ up.epoch \in Nat
        /\ up.wireless \in BOOLEAN /\ 0 \in 0..SessionLife
    BY <2>2, HostsAssumption DEF Sessions
  <2>5. Len(up.file) \in Nat /\ up.file \in Seq(Chunks)
    BY <2>4, HostsAssumption
  <2>6. /\ g \in Seq(Chunks) /\ Len(g) = Len(up.data) + 1 /\ Len(up.data) \in Nat
        /\ \A i \in 1..Len(up.data) : g[i] = up.data[i]
        /\ g[Len(up.data) + 1] = c
    BY <2>1, <2>4, AppendGives
  <2> HIDE DEF g
  <2>7. /\ s \in Sessions /\ s.data = g /\ s.file = up.file /\ s.epoch = up.epoch
        /\ s.wireless = up.wireless
    <3>1. s \in Sessions
      BY <2>2, <2>4, <2>6 DEF Sessions, Touched
    <3> QED BY <2>2, <2>6, <3>1 DEF Sessions, Touched
  <2> HIDE DEF s
  <2>8. s # NoSession
    BY <2>7, HostsAssumption
  <2>9. SessionOK(s)
    BY <1>2, <2>2, <2>5, <2>6, <2>7 DEF SessionOK
  <2>10. StagedInOrder'
    <3>1. CASE Damage # 0
      BY <1>2, <3>1 DEF StagedInOrder, Damage, Answer
    <3>2. CASE Damage = 0
      <4>1. IsPrefixOf(up.data, up.file)
        BY <1>1, <3>2 DEF SessionsInv, BoardInv, StagedInOrder, Damage
      <4>2. \A i \in 1..Len(g) : i \in 1..Len(up.data) \/ i = Len(up.data) + 1
        BY <2>6
      <4>3. \A i \in 1..Len(g) : g[i] = up.file[i]
        BY <2>1, <2>3, <2>6, <3>2, <4>1, <4>2 DEF IsPrefixOf
      <4>4. Len(g) <= Len(up.file)
        BY <1>2, <2>5, <2>6
      <4>5. IsPrefixOf(s.data, s.file)
        BY <2>7, <4>3, <4>4 DEF IsPrefixOf
      <4> QED BY <1>2, <4>5 DEF StagedInOrder
    <3> QED BY <3>1, <3>2
  <2>11. BoardInv'
    BY <1>1, <1>2, <2>9, <2>10 DEF SessionsInv, BoardInv, SessionOK, OpenFileStays
  <2>12. UpFrom
    BY <1>1, <1>2, <2>7 DEF UpFrom
  <2>13. HeldInv'
    BY <1>1 DEF SessionsInv, HeldInv
  <2>14. Plain(Ack)
    <3>1. Len(up'.data) \in Nat
      BY <1>2, <2>6, <2>7
    <3> QED BY <1>1, <3>1, AckIsPlain
  <2>15. \A p \in Hosts : Truthful(Ack, published'[p], held'[p], Damage)
    BY <2>14, PlainIsTruthful
  <2> QED BY <1>1, <1>2, <2>11, <2>12, <2>13, <2>15 DEF HandlerStep, Grows
<1>3. CASE up' = NoSession /\ Answer(Error("UPLOAD"))
  <2>1. Plain(Error("UPLOAD")) /\ Fades(up, up') /\ Fades(down, down')
    BY <1>1, <1>3, ErrorIsPlain DEF Fades
  <2> QED BY <1>1, <1>3, <2>1, PlainSteps
<1> QED BY <1>1, <1>2, <1>3

\* Only the file that was announced is published, and it is the source of the PC
\* that announced it.
LEMMA UploadEndSteps ==
    ASSUME SessionsInv, UploadEnd
    PROVE  HandlerStep
<1> DEFINE f == up.file
           a == [Line("UPLOAD", "END") EXCEPT !.file = f]
<1>1. /\ job # NoSession /\ up # NoSession /\ up' = NoSession /\ down = NoSession /\ down' = down
      /\ \/ up.data = f /\ Published(up.data) /\ Answer(a)
         \/ Answer(Error("UPLOAD")) /\ UNCHANGED <<file, published, held>>
  BY DEF UploadEnd, UploadAdmits, OwnedByAnother, Handles, seen, Verified
<1>2. CASE up.data = f /\ Published(up.data) /\ Answer(a)
  <2>1. f \in Files
    BY <1>1 DEF SessionsInv, BoardInv, SessionOK, Sessions
  <2>2. /\ file' = f
        /\ published' = [p \in Hosts |-> published[p] \union {f}]
        /\ held' = [p \in Hosts |-> held[p] \union {f}]
    BY <1>2 DEF Published
  <2>3. /\ published \in [Hosts -> SUBSET Files] /\ held \in [Hosts -> SUBSET Files]
    BY DEF SessionsInv, HeldInv
  <2>4. Line("UPLOAD", "END") \in Lines /\ Line("UPLOAD", "END").dir = "UPLOAD"
        /\ Line("UPLOAD", "END").verb = "END"
    BY LineGives DEF Verbs
  <2>5. a \in Lines /\ a.dir = "UPLOAD" /\ a.verb = "END" /\ a.file = f
    BY <2>1, <2>4, FileGives
  <2> HIDE DEF f, a
  <2>6. \A p \in Hosts : Truthful(a, published'[p], held'[p], Damage)
    BY <2>2, <2>5 DEF Truthful
  <2>7. Grows
    BY <2>2 DEF Grows
  <2>8. HeldInv'
    BY <2>1, <2>2, <2>3 DEF HeldInv
  <2>9. BoardInv'
    BY <1>1 DEF BoardInv, SessionOK, StagedInOrder, OpenFileStays
  <2>10. UpFrom
    BY <1>1 DEF UpFrom
  <2> QED BY <1>1, <1>2, <2>6, <2>7, <2>8, <2>9, <2>10 DEF HandlerStep
<1>3. CASE Answer(Error("UPLOAD")) /\ UNCHANGED <<file, published, held>>
  <2>1. Plain(Error("UPLOAD")) /\ Fades(up, up') /\ Fades(down, down')
    BY <1>1, ErrorIsPlain DEF Fades
  <2> QED BY <1>1, <1>3, <2>1, PlainSteps
<1> QED BY <1>1, <1>2, <1>3

\* A download of what the name holds.
LEMMA DownloadBeginSteps ==
    ASSUME SessionsInv, DownloadBegin
    PROVE  HandlerStep
<1> DEFINE a == [Line("DOWNLOAD", "BEGIN") EXCEPT !.file = file]
<1>1. /\ job # NoSession /\ UNCHANGED <<file, up, published, held>> /\ up = NoSession
      /\ \/ file # NoFile /\ down' = Session(file) /\ Answer(a)
         \/ down' \in {down, NoSession} /\ Answer(Error("DOWNLOAD"))
  BY DEF DownloadBegin, DownloadAdmits, OwnedByAnother, Handles, seen
<1>2. CASE file # NoFile /\ down' = Session(file) /\ Answer(a)
  <2>1. file \in Files
    BY <1>2 DEF SessionsInv, HeldInv
  <2>2. SessionOK(down') /\ down'.file = file
    BY <1>1, <1>2, <2>1, SessionGives
  <2>3. Line("DOWNLOAD", "BEGIN") \in Lines /\ Line("DOWNLOAD", "BEGIN").dir = "DOWNLOAD"
        /\ Line("DOWNLOAD", "BEGIN").verb = "BEGIN"
    BY LineGives DEF Verbs
  <2>4. a \in Lines /\ a.dir = "DOWNLOAD" /\ a.verb = "BEGIN"
    BY <2>1, <2>3, FileGives
  <2> HIDE DEF a
  <2>5. \A p \in Hosts : Truthful(a, published'[p], held'[p], Damage)
    BY <2>4, PlainIsTruthful DEF Plain
  <2>6. BoardInv'
    BY <1>1, <2>2 DEF BoardInv, SessionOK, StagedInOrder, OpenFileStays
  <2>7. HeldInv'
    BY <1>1 DEF SessionsInv, HeldInv
  <2> QED BY <1>1, <1>2, <2>5, <2>6, <2>7 DEF HandlerStep, Grows, UpFrom
<1>3. CASE down' \in {down, NoSession} /\ Answer(Error("DOWNLOAD"))
  <2>1. Plain(Error("DOWNLOAD")) /\ Fades(up, up') /\ Fades(down, down')
    BY <1>1, <1>3, ErrorIsPlain DEF Fades
  <2> QED BY <1>1, <1>3, <2>1, PlainSteps
<1> QED BY <1>1, <1>2, <1>3

\* A piece of an open download is that of a file which the name has held, for as
\* long as the download is open.
LEMMA PieceGives ==
    ASSUME SessionsInv, down # NoSession, NEW i \in Nat, i < Len(down.file)
    PROVE  /\ Piece(i).chunk \in Chunks
           /\ \A p \in Hosts : Truthful(Piece(i), published[p], held[p], Damage)
<1>1. /\ down.file = file /\ file \in Files
  BY DEF SessionsInv, BoardInv, OpenFileStays, SessionOK, Sessions
<1>2. \A p \in Hosts : file \in held[p]
  BY <1>1, HostsAssumption DEF SessionsInv, HeldInv
<1>3. file \in Seq(Chunks) /\ Len(file) \in Nat /\ i + 1 \in 1..Len(file)
  BY <1>1, HostsAssumption
<1> DEFINE l == Line("DOWNLOAD", "DATA")
           c == file[i + 1]
<1>4. c \in Chunks
  BY <1>3
<1>5. l \in Lines /\ l.dir = "DOWNLOAD" /\ l.verb = "DATA"
  BY LineGives DEF Verbs
<1>6. Piece(i) = [l EXCEPT !.seq = i, !.chunk = c]
  BY <1>1 DEF Piece
<1> HIDE DEF l
<1>7. \A p \in Hosts : InPlace(c, i + 1, held[p])
  BY <1>2, <1>3 DEF InPlace
<1> HIDE DEF c
<1>8. /\ Piece(i) \in Lines /\ Piece(i).dir = "DOWNLOAD" /\ Piece(i).verb = "DATA"
      /\ Piece(i).seq = i /\ Piece(i).chunk = c
  BY <1>4, <1>5, <1>6 DEF Lines
<1> QED BY <1>4, <1>7, <1>8 DEF Truthful

LEMMA DownloadAgainSteps ==
    ASSUME SessionsInv, DownloadAgain
    PROVE  HandlerStep
<1>1. /\ job # NoSession /\ UNCHANGED <<file, up, published, held>>
      /\ down # NoSession /\ down' = Touched(down)
      /\ job.text.seq + 1 = Len(down.data) /\ Answer(Piece(job.text.seq))
  BY DEF DownloadAgain, DownloadAdmits, Handles, seen
<1>2. job.text.seq \in Nat
  BY <1>1, JobGives DEF Lines
<1>3. down \in Sessions /\ Len(down.data) <= Len(down.file)
  BY <1>1 DEF SessionsInv, BoardInv, SessionOK
<1>4. Len(down.data) \in Nat /\ Len(down.file) \in Nat
  BY <1>3, HostsAssumption DEF Sessions
<1>5. job.text.seq < Len(down.file)
  BY <1>1, <1>2, <1>3, <1>4
<1>6. \A p \in Hosts : Truthful(Piece(job.text.seq), published[p], held[p], Damage)
  BY <1>1, <1>2, <1>5, PieceGives
<1>7. Fades(up, up') /\ Fades(down, down')
  BY <1>1, TouchedFades, SameFades
<1> QED BY <1>1, <1>6, <1>7, FadingSteps

LEMMA DownloadDataSteps ==
    ASSUME SessionsInv, DownloadData
    PROVE  HandlerStep
<1> DEFINE i == job.text.seq
           c == Piece(i).chunk
           g == Append(down.data, c)
           s == [Touched(down) EXCEPT !.data = g]
<1>1. /\ job # NoSession /\ UNCHANGED <<file, up, published, held>> /\ up = NoSession
      /\ down # NoSession /\ i = Len(down.data) /\ Len(down.data) < Len(down.file)
      /\ \/ down' = s /\ Answer(Piece(i))
         \/ down' = NoSession /\ Answer(Error("DOWNLOAD"))
  <2>1. down # NoSession
    BY DEF DownloadData
  <2>2. Touched(down).data = down.data
    BY <2>1 DEF SessionsInv, BoardInv, SessionOK, Sessions, Touched
  <2>3. [Touched(down) EXCEPT !.data = Append(@, c)] = s
    BY <2>2
  <2> QED BY <2>1, <2>3 DEF DownloadData, DownloadAdmits, OwnedByAnother, Handles, seen
<1>2. CASE down' = s /\ Answer(Piece(i))
  <2>1. i \in Nat
    BY <1>1, JobGives DEF Lines
  <2>2. c \in Chunks /\ \A p \in Hosts : Truthful(Piece(i), published[p], held[p], Damage)
    BY <1>1, <2>1, PieceGives
  <2> HIDE DEF c, i
  <2>3. down \in Sessions /\ (down.wireless <=> down.epoch > 0)
    BY <1>1 DEF SessionsInv, BoardInv, SessionOK
  <2>4. down.data \in Seq(Chunks) /\ down.file \in Files /\ 0 \in 0..SessionLife
    BY <2>3, HostsAssumption DEF Sessions
  <2>5. Len(down.file) \in Nat
    BY <2>4, HostsAssumption
  <2>6. g \in Seq(Chunks) /\ Len(g) = Len(down.data) + 1 /\ Len(down.data) \in Nat
    BY <2>2, <2>4, AppendGives
  <2> HIDE DEF g
  <2>7. /\ s \in Sessions /\ s.data = g /\ s.file = down.file /\ s.epoch = down.epoch
        /\ s.wireless = down.wireless
    <3>1. s \in Sessions
      BY <2>3, <2>4, <2>6 DEF Sessions, Touched
    <3> QED BY <2>3, <2>6, <3>1 DEF Sessions, Touched
  <2> HIDE DEF s
  <2>8. SessionOK(s)
    BY <1>1, <2>3, <2>5, <2>6, <2>7 DEF SessionOK
  <2>9. OpenFileStays'
    BY <1>1, <1>2, <2>7 DEF SessionsInv, BoardInv, OpenFileStays
  <2>10. BoardInv'
    BY <1>1, <1>2, <2>8, <2>9 DEF BoardInv, SessionOK, StagedInOrder
  <2>11. HeldInv'
    BY <1>1 DEF SessionsInv, HeldInv
  <2>12. \A p \in Hosts : Truthful(Piece(i), published'[p], held'[p], Damage)
    BY <1>1, <2>2
  <2> QED BY <1>1, <1>2, <2>10, <2>11, <2>12 DEF HandlerStep, Grows, UpFrom
<1>3. CASE down' = NoSession /\ Answer(Error("DOWNLOAD"))
  <2>1. Plain(Error("DOWNLOAD")) /\ Fades(up, up') /\ Fades(down, down')
    BY <1>1, <1>3, ErrorIsPlain DEF Fades
  <2> QED BY <1>1, <1>3, <2>1, PlainSteps
<1> QED BY <1>1, <1>2, <1>3

LEMMA DownloadEndSteps ==
    ASSUME SessionsInv, DownloadEnd
    PROVE  HandlerStep
<1> DEFINE a == [Line("DOWNLOAD", "END") EXCEPT !.file = down.file]
<1>1. /\ job # NoSession /\ UNCHANGED <<file, up, published, held>> /\ down # NoSession
      /\ \/ down' = NoSession /\ Answer(a)
         \/ down' = Touched(down) /\ Answer(Error("DOWNLOAD"))
  BY DEF DownloadEnd, DownloadAdmits, Handles, seen
<1>2. Fades(up, up') /\ Fades(down, down')
  BY <1>1, TouchedFades, SameFades DEF Fades
<1>3. CASE Answer(a)
  <2>1. down.file = file /\ file \in Files
    BY <1>1 DEF SessionsInv, BoardInv, OpenFileStays, SessionOK, Sessions
  <2>2. \A p \in Hosts : file \in held[p]
    BY <2>1, HostsAssumption DEF SessionsInv, HeldInv
  <2>3. Line("DOWNLOAD", "END") \in Lines /\ Line("DOWNLOAD", "END").dir = "DOWNLOAD"
        /\ Line("DOWNLOAD", "END").verb = "END"
    BY LineGives DEF Verbs
  <2>4. a \in Lines /\ a.dir = "DOWNLOAD" /\ a.verb = "END" /\ a.file = file
    BY <2>1, <2>3, FileGives
  <2> HIDE DEF a
  <2>5. \A p \in Hosts : Truthful(a, published[p], held[p], Damage)
    BY <2>2, <2>4 DEF Truthful
  <2> QED BY <1>1, <1>2, <1>3, <2>5, FadingSteps
<1>4. CASE Answer(Error("DOWNLOAD"))
  <2>1. Plain(Error("DOWNLOAD"))
    BY ErrorIsPlain
  <2> QED BY <1>1, <1>2, <1>4, <2>1, PlainSteps
<1> QED BY <1>1, <1>3, <1>4

\* A file is deleted only while no transfer is open.
LEMMA StorageDeleteSteps ==
    ASSUME SessionsInv, StorageDelete
    PROVE  HandlerStep
<1>1. /\ job # NoSession /\ UNCHANGED <<up, down, published, held>>
      /\ Answer(Line("STORAGE", "DELETE"))
      /\ file' = file \/ (down = NoSession /\ file' = NoFile)
  BY DEF StorageDelete, HostTransferActive, Handles, seen
<1>2. \A p \in Hosts : Truthful(Line("STORAGE", "DELETE"), published'[p], held'[p], Damage)
  BY LineGives, PlainIsTruthful DEF Plain, Verbs
<1>3. BoardInv'
  <2>1. mishaps' = mishaps
    BY <1>1 DEF Answer
  <2> QED BY <1>1, <2>1 DEF SessionsInv, BoardInv, SessionOK, StagedInOrder, OpenFileStays
<1>4. HeldInv'
  BY <1>1 DEF SessionsInv, HeldInv
<1> QED BY <1>1, <1>2, <1>3, <1>4 DEF HandlerStep, Grows, UpFrom

LEMMA HandlerSteps ==
    ASSUME SessionsInv, Handler
    PROVE  HandlerStep
BY RefusedSteps, CancelSteps, UnexpectedSteps, UploadBeginSteps, UploadDataAgainSteps,
   UploadDataSteps, UploadEndSteps, DownloadBeginSteps, DownloadAgainSteps,
   DownloadDataSteps, DownloadEndSteps, StorageDeleteSteps DEF Handler

-----------------------------------------------------------------------------
(* Every step, and the first state.                                        *)

LEMMA NextKeeps ==
    ASSUME SessionsInv, Next
    PROVE  SessionsInv'
<1>1. CASE Board
  <2>1. ASSUME Handler PROVE SessionsInv'
    BY <2>1, HandlerSteps, HandlerStepKeeps
  <2> QED BY <1>1, <2>1, DispatchKeeps, ExpireKeeps DEF Board
<1>2. CASE ExpireInMaintenance
  BY <1>2, ExpireKeeps
<1>3. ASSUME NEW p \in Hosts,
             \/ Start(p) \/ Timeout(p) \/ Receive(p)
             \/ Connect(p) \/ Break(p)
             \/ LoseLine(p) \/ LoseAnswer(p) \/ DamageLine(p) \/ DamageAnswer(p)
      PROVE  SessionsInv'
  BY <1>3, StartKeeps, TimeoutKeeps, ReceiveKeeps, ConnectKeeps, BreakKeeps, LoseLineKeeps,
     LoseAnswerKeeps, DamageLineKeeps, DamageAnswerKeeps
<1> QED BY <1>1, <1>2, <1>3 DEF Next

LEMMA StutterKeeps ==
    ASSUME SessionsInv, UNCHANGED vars
    PROVE  SessionsInv'
BY DEF SessionsInv, LinesInv, AnswersInv, PcsInv, HeldInv, BoardInv, LinkInv, OwnersInv,
       StagedInOrder, OpenFileStays, Uses, Attached, Epoch, Damage,
       vars, board, wires, pcs, seen

LEMMA InitHolds ==
    ASSUME Init
    PROVE  SessionsInv
<1> DEFINE none == [kind \in DOMAIN Mishaps |-> 0]
<1>1. /\ file \in Stored /\ up = NoSession /\ down = NoSession /\ job = NoSession
      /\ link = [client |-> NoHost, epoch |-> 0]
      /\ line = [p \in Hosts |-> <<>>] /\ answer = [p \in Hosts |-> <<>>]
      /\ pc = [p \in Hosts |-> Quiet] /\ begun = [p \in Hosts |-> 0]
      /\ published = [p \in Hosts |-> {}] /\ held = [p \in Hosts |-> {file} \ {NoFile}]
      /\ mishaps = none
  BY DEF Init
<1>2. /\ mishaps \in [DOMAIN Mishaps -> Nat] /\ mishaps["break"] = 0
      /\ 0 <= Mishaps["break"] /\ MaxWork \in Nat /\ NoHost \notin Hosts
      /\ Wireless \subseteq Hosts /\ \A p, q \in Hosts \ Wireless : p = q
  BY <1>1, HostsAssumption
<1>3. LinesInv
  BY <1>1 DEF LinesInv, AllOwn
<1>4. AnswersInv
  BY <1>1 DEF AnswersInv, AllTruthful
<1>5. PcsInv
  <2>1. 0 \in 0..HostTransferMaxRetries /\ Line("STORAGE", "DELETE") \in Lines
    BY HostsAssumption, LineGives DEF Verbs
  <2>2. Quiet \in PCs
    BY <2>1 DEF Quiet, PCs
  <2>3. /\ Quiet.op = "idle" /\ Quiet.result = "none"
        /\ Quiet.last = Line("STORAGE", "DELETE")
    BY DEF Quiet
  <2>4. \A p : Own(p, Quiet.last, 0)
    BY <2>3, PlainIsOwn DEF Verbs
  <2>5. Quiet.last.dir = "STORAGE" /\ Quiet.last.verb = "DELETE"
    BY <2>3, LineGives DEF Verbs
  <2>6. \A p \in Hosts : Placed(p, Quiet) /\ Honest(p, Quiet, published[p], held[p], Damage)
    BY <2>2, <2>3, <2>4, <2>5 DEF Placed, Honest
  <2> QED BY <1>1, <2>2, <2>6 DEF PcsInv
<1>6. HeldInv
  <2>1. file \in Files \union {NoFile}
    BY <1>1 DEF Files
  <2>2. {file} \ {NoFile} \in SUBSET Files
    BY <2>1
  <2> QED BY <1>1, <2>1, <2>2 DEF HeldInv
<1>7. BoardInv
  BY <1>1 DEF BoardInv, SessionOK, StagedInOrder, OpenFileStays
<1>8. LinkInv
  <2>1. \A p \in Hosts : pc[p].op = "idle"
    BY <1>1 DEF Quiet
  <2>2. begun \in [Hosts -> 0..MaxWork]
    BY <1>1, <1>2
  <2>3. link.client = NoHost /\ link.epoch = 0
        /\ link \in [client : Wireless \union {NoHost}, epoch : Nat]
    BY <1>1
  <2>4. link.epoch <= 2 * mishaps["break"] + (IF link.client = NoHost THEN 0 ELSE 1)
    BY <1>2, <2>3
  <2>5. mishaps["break"] <= Mishaps["break"]
    BY <1>2
  <2> QED BY <1>2, <2>1, <2>2, <2>3, <2>4, <2>5 DEF LinkInv
<1>9. OwnersInv
  <2>1. \A p \in Hosts, e \in Nat : Uses(p, e) => e = 0 /\ p \notin Wireless
    BY <1>1, <1>2 DEF Uses, Speaks, Attached, Epoch
  <2>2. link.epoch = 0
    BY <1>1
  <2> QED BY <1>1, <1>2, <2>1, <2>2 DEF OwnersInv
<1> QED BY <1>3, <1>4, <1>5, <1>6, <1>7, <1>8, <1>9 DEF SessionsInv

\* Who uses which connection, what is under way in either direction and what the
\* board holds of it fit together, in every reachable state.
THEOREM SessionsInvariant == Spec => []SessionsInv
<1>1. SessionsInv /\ [Next]_vars => SessionsInv'
  BY NextKeeps, StutterKeeps
<1> QED BY <1>1, InitHolds, PTL DEF Spec

\* A transfer is of one file and in order, at the board as at the PC, with any
\* number of PCs, operations, retries and mishaps (TransfersSteady).
THEOREM TransfersAreSteady == Spec => []TransfersSteady
<1>1. SessionsInv => TransfersSteady
  <2> SUFFICES ASSUME SessionsInv PROVE TransfersSteady
    OBVIOUS
  <2>1. TypeOK
    BY DEF SessionsInv, LinesInv, AnswersInv, PcsInv, HeldInv, BoardInv, LinkInv, Entries, TypeOK
  <2>2. ReceivedInOrder
    <3> SUFFICES ASSUME NEW p \in Hosts, mishaps["damage"] = 0,
                        pc[p].op \in {"readback", "download"}
                 PROVE  \A i \in 1..Len(pc[p].got) :
                           \E f \in held[p] : i <= Len(f) /\ pc[p].got[i] = f[i]
      BY DEF ReceivedInOrder
    <3> QED BY DEF SessionsInv, PcsInv, Honest, Damage, InPlace
  <2> QED BY <2>1, <2>2 DEF SessionsInv, BoardInv, TransfersSteady
<1> QED BY <1>1, SessionsInvariant, PTL

\* A PC that reports success is right (ReportTrue).
THEOREM ReportsAreTrue == Spec => []ReportTrue
<1>1. SessionsInv => ReportTrue
  BY DEF SessionsInv, PcsInv, Honest, ReportTrue
<1> QED BY <1>1, SessionsInvariant, PTL

-----------------------------------------------------------------------------
(* The upload commands implement FileStaging.                              *)

\* The stage of the abstract specification.
Staged ==
    IF up = NoSession THEN NoSession
    ELSE [owner |-> <<up.wireless, up.epoch>>, announced |-> up.file,
          chunks |-> Len(up.data), intact |-> IsPrefixOf(up.data, up.file)]

Opened(o, f) == [owner |-> o, announced |-> f, chunks |-> 0, intact |-> TRUE]

StagingStep == [Staging!Next]_(Staging!vars)

LEMMA SameMaps ==
    ASSUME UNCHANGED <<file, Staged>> PROVE StagingStep
BY DEF StagingStep, Staging!vars, Staged

LEMMA DropMaps ==
    ASSUME Staged # NoSession, Staged' = NoSession, UNCHANGED file PROVE StagingStep
BY DEF StagingStep, Staging!Next, Staging!Drop, Staged

LEMMA OpenMaps ==
    ASSUME NEW o \in BOOLEAN \X (0..(2 * Mishaps["break"] + 2)), NEW f \in Files,
           Staged' = Opened(o, f), UNCHANGED file
    PROVE  StagingStep
BY DEF StagingStep, Staging!Next, Staging!Open, Staged, Opened

LEMMA ExtendMaps ==
    ASSUME NEW u \in BOOLEAN, Staged # NoSession, Staged.chunks < Len(Staged.announced),
           Staged' = [Staged EXCEPT !.chunks = @ + 1, !.intact = @ /\ u], UNCHANGED file
    PROVE  StagingStep
BY DEF StagingStep, Staging!Next, Staging!Extend, Staged

LEMMA PublishMaps ==
    ASSUME Staged # NoSession, Staged.chunks = Len(Staged.announced), Staged.intact,
           file' = Staged.announced, Staged' = NoSession
    PROVE  StagingStep
BY DEF StagingStep, Staging!Next, Staging!Publish, Staged

LEMMA DeleteMaps ==
    ASSUME Staged = NoSession, Staged' = Staged, file' = NoFile
    PROVE  StagingStep
BY DEF StagingStep, Staging!Next, Staging!Delete, Staged

\* An open upload is a stage.
LEMMA StagedGives ==
    ASSUME SessionsInv, up # NoSession
    PROVE  /\ Staged \in Stages /\ Staged # NoSession
           /\ Staged.announced = up.file /\ Staged.chunks = Len(up.data)
           /\ Staged.intact = IsPrefixOf(up.data, up.file)
           /\ up.data \in Seq(Chunks) /\ up.file \in Seq(Chunks) /\ up.file \in Files
           /\ Len(up.data) \in Nat /\ Len(up.file) \in Nat
<1>1. up \in Sessions
  BY DEF SessionsInv, BoardInv, SessionOK
<1>2. /\ up.wireless \in BOOLEAN /\ up.epoch \in Nat /\ up.file \in Files
      /\ up.data \in Seq(Chunks)
  BY <1>1 DEF Sessions
<1>3. up.file \in Seq(Chunks) /\ Len(up.data) \in Nat /\ Len(up.file) \in Nat
  BY <1>2, HostsAssumption
<1> DEFINE b == IsPrefixOf(up.data, up.file)
<1>4. b \in BOOLEAN
  BY DEF IsPrefixOf
<1>5. Staged = [owner |-> <<up.wireless, up.epoch>>, announced |-> up.file,
                chunks |-> Len(up.data), intact |-> b]
  BY DEF Staged
<1> HIDE DEF b
<1>6. Staged \in Stages /\ Staged.announced = up.file /\ Staged.chunks = Len(up.data)
      /\ Staged.intact = b
  BY <1>2, <1>3, <1>4, <1>5 DEF Stages
<1>7. Staged # NoSession
  BY <1>6, HostsAssumption
<1> QED BY <1>2, <1>3, <1>6, <1>7 DEF b

\* A session that is only touched, aged or over.
LEMMA FadingMaps ==
    ASSUME SessionsInv, Fades(up, up'), UNCHANGED file
    PROVE  StagingStep
<1>1. SessionOK(up)
  BY DEF SessionsInv, BoardInv
<1>2. CASE up' = NoSession
  <2>1. Staged' = NoSession
    BY <1>2 DEF Staged
  <2>2. CASE up = NoSession
    BY <2>1, <2>2, SameMaps DEF Staged
  <2>3. CASE up # NoSession
    BY <2>1, <2>3, StagedGives, DropMaps
  <2> QED BY <2>2, <2>3
<1>3. CASE up' # NoSession
  <2>1. /\ up # NoSession /\ up'.file = up.file /\ up'.data = up.data
        /\ up'.epoch = up.epoch /\ up'.wireless = up.wireless
    BY <1>1, <1>3, FadedGives
  <2>2. Staged' = Staged
    BY <1>3, <2>1 DEF Staged
  <2> QED BY <2>2, SameMaps
<1> QED BY <1>2, <1>3

LEMMA BeginMaps ==
    ASSUME SessionsInv, UploadBegin
    PROVE  StagingStep
<1> DEFINE f == job.text.file
           o == <<job.host \in Wireless, job.epoch>>
<1>1. /\ job # NoSession /\ UNCHANGED file
      /\ job.text.dir = "UPLOAD" /\ job.text.verb = "BEGIN"
      /\ up' = Session(f) \/ up' \in {up, NoSession}
  BY DEF UploadBegin, UploadAdmits, Handles
<1>2. CASE up' = Session(f)
  <2>1. f \in Files /\ job.host \in Hosts /\ Uses(job.host, job.epoch) /\ job.epoch \in Nat
    BY <1>1, JobGives, SourceGives DEF Own
  <2>2. job.epoch <= link.epoch
    BY <2>1 DEF SessionsInv, OwnersInv
  <2>3. /\ link.epoch \in Nat /\ mishaps["break"] \in Nat /\ Mishaps["break"] \in Nat
        /\ link.epoch <= 2 * mishaps["break"] + 1 /\ mishaps["break"] <= Mishaps["break"]
    BY HostsAssumption DEF SessionsInv, LinkInv
  <2>4. o \in BOOLEAN \X (0..(2 * Mishaps["break"] + 2))
    <3>1. job.epoch \in 0..(2 * Mishaps["break"] + 2)
      BY <2>1, <2>2, <2>3
    <3> DEFINE w == job.host \in Wireless
               e == 0..(2 * Mishaps["break"] + 2)
    <3>2. w \in BOOLEAN
      OBVIOUS
    <3> HIDE DEF w, e
    <3>3. <<w, job.epoch>> \in BOOLEAN \X e
      BY <3>1, <3>2 DEF e
    <3> QED BY <3>3 DEF w, e
  <2>5. /\ up' # NoSession /\ up'.file = f /\ up'.data = <<>> /\ Len(up'.data) = 0
        /\ <<up'.wireless, up'.epoch>> = o
    BY <1>1, <1>2, <2>1, SessionGives
  <2>6. IsPrefixOf(up'.data, up'.file) = TRUE
    <3>1. Len(f) \in Nat
      BY <2>1, HostsAssumption
    <3> QED BY <2>5, <3>1 DEF IsPrefixOf
  <2> HIDE DEF f, o
  <2>7. Staged' = Opened(o, f)
    BY <2>5, <2>6 DEF Staged, Opened
  <2> QED BY <1>1, <2>1, <2>4, <2>7, OpenMaps
<1>3. CASE up' \in {up, NoSession}
  BY <1>1, <1>3, FadingMaps DEF Fades
<1> QED BY <1>1, <1>2, <1>3

LEMMA DataMaps ==
    ASSUME SessionsInv, UploadData
    PROVE  StagingStep
<1> DEFINE c == job.text.chunk
           g == Append(up.data, c)
           f == up.file
           u == c = f[Len(up.data) + 1]
<1>1. /\ job # NoSession /\ UNCHANGED file /\ up # NoSession
      /\ job.text.dir = "UPLOAD" /\ job.text.verb = "DATA"
      /\ \/ Len(up.data) < Len(f) /\ up' = [Touched(up) EXCEPT !.data = Append(@, c)]
         \/ up' = NoSession
  BY DEF UploadData, UploadAdmits, Handles
<1>2. CASE Len(up.data) < Len(f) /\ up' = [Touched(up) EXCEPT !.data = Append(@, c)]
  <2>1. c \in Chunks
    BY <1>1, JobGives DEF Own
  <2>2. /\ Staged \in Stages /\ Staged # NoSession
        /\ Staged.announced = f /\ Staged.chunks = Len(up.data)
        /\ Staged.intact = IsPrefixOf(up.data, f)
        /\ up.data \in Seq(Chunks) /\ Len(up.data) \in Nat /\ Len(f) \in Nat
    BY <1>1, StagedGives
  <2>3. up \in Sessions
    BY <1>1 DEF SessionsInv, BoardInv, SessionOK
  <2> HIDE DEF c
  <2>4. /\ g \in Seq(Chunks) /\ Len(g) = Len(up.data) + 1
        /\ \A i \in 1..Len(up.data) : g[i] = up.data[i]
        /\ g[Len(up.data) + 1] = c
    BY <2>1, <2>2, AppendGives
  <2>5. /\ up'.data = g /\ up'.file = f /\ up'.epoch = up.epoch /\ up'.wireless = up.wireless
        /\ up' \in Sessions
    <3>1. Touched(up).data = up.data
      BY <2>3 DEF Sessions, Touched
    <3>2. up' = [Touched(up) EXCEPT !.data = g]
      BY <1>2, <3>1
    <3>3. 0 \in 0..SessionLife
      BY HostsAssumption
    <3> HIDE DEF g
    <3>4. up' \in Sessions
      BY <2>3, <2>4, <3>2, <3>3 DEF Sessions, Touched
    <3> QED BY <2>3, <3>2, <3>4 DEF Sessions, Touched
  <2> HIDE DEF g
  <2>6. IsPrefixOf(g, f) <=> IsPrefixOf(up.data, f) /\ u
    <3>1. \A i \in 1..Len(g) : i \in 1..Len(up.data) \/ i = Len(up.data) + 1
      BY <2>2, <2>4
    <3>2. \A i \in 1..Len(up.data) : i \in 1..Len(g)
      BY <2>2, <2>4
    <3>3. Len(up.data) + 1 \in 1..Len(g) /\ Len(g) <= Len(f) /\ Len(up.data) <= Len(f)
      BY <1>2, <2>2, <2>4
    <3> HIDE DEF f
    <3> QED BY <2>4, <3>1, <3>2, <3>3 DEF IsPrefixOf
  <2> DEFINE b == IsPrefixOf(up.data, f)
             e == IsPrefixOf(g, f)
  <2>7. b \in BOOLEAN /\ e \in BOOLEAN /\ u \in BOOLEAN
    BY DEF IsPrefixOf
  <2>8. up' # NoSession
    BY <2>5, HostsAssumption
  <2>9. Staged = [owner |-> <<up.wireless, up.epoch>>, announced |-> f,
                  chunks |-> Len(up.data), intact |-> b]
    BY <1>1 DEF Staged
  <2>10. Staged' = [owner |-> <<up.wireless, up.epoch>>, announced |-> f,
                    chunks |-> Len(up.data) + 1, intact |-> e]
    BY <2>4, <2>5, <2>8 DEF Staged
  <2>11. e = (b /\ u)
    BY <2>6, <2>7
  <2> HIDE DEF b, e, u, f
  <2>12. Staged' = [Staged EXCEPT !.chunks = @ + 1, !.intact = @ /\ u]
    <3> DEFINE v == Staged.intact /\ u
    <3>1. Staged.chunks = Len(up.data) /\ Staged.intact = b
      BY <2>9
    <3>2. v = e
      BY <2>11, <3>1
    <3> HIDE DEF v
    <3> DEFINE o == <<up.wireless, up.epoch>>
               n == Len(up.data)
    <3>3. /\ Staged = [owner |-> o, announced |-> f, chunks |-> n, intact |-> b]
          /\ Staged' = [owner |-> o, announced |-> f, chunks |-> n + 1, intact |-> v]
          /\ Staged.chunks = n
      BY <2>9, <2>10, <3>1, <3>2
    <3> HIDE DEF o, n
    <3> DEFINE longer == [Staged EXCEPT !.chunks = Staged.chunks + 1]
    <3>4. longer = [owner |-> o, announced |-> f, chunks |-> n + 1, intact |-> b]
      BY <3>3
    <3> HIDE DEF longer
    <3>5. Staged' = [longer EXCEPT !.intact = v]
      BY <3>3, <3>4
    <3> QED BY <3>5 DEF longer, v
  <2>13. Staged.chunks < Len(Staged.announced)
    BY <1>2, <2>2
  <2> QED BY <1>1, <2>2, <2>7, <2>12, <2>13, ExtendMaps
<1>3. CASE up' = NoSession
  BY <1>1, <1>3, FadingMaps DEF Fades
<1> QED BY <1>1, <1>2, <1>3

LEMMA EndMaps ==
    ASSUME SessionsInv, UploadEnd
    PROVE  StagingStep
<1>1. /\ up # NoSession /\ up' = NoSession
      /\ \/ up.data = up.file /\ file' = up.data
         \/ UNCHANGED file
  BY DEF UploadEnd, Verified, Published
<1>2. CASE up.data = up.file /\ file' = up.data
  <2>1. IsPrefixOf(up.data, up.file)
    BY <1>1, <1>2, StagedGives DEF IsPrefixOf
  <2>2. Staged' = NoSession
    BY <1>1 DEF Staged
  <2> QED BY <1>1, <1>2, <2>1, <2>2, StagedGives, PublishMaps
<1>3. CASE UNCHANGED file
  BY <1>1, <1>3, FadingMaps DEF Fades
<1> QED BY <1>1, <1>2, <1>3

LEMMA DeletionMaps ==
    ASSUME StorageDelete
    PROVE  StagingStep
<1>1. /\ up' = up
      /\ file' = file \/ (up = NoSession /\ file' = NoFile)
  BY DEF StorageDelete, HostTransferActive
<1>2. Staged' = Staged /\ (up = NoSession => Staged = NoSession)
  BY <1>1 DEF Staged
<1> QED BY <1>1, <1>2, SameMaps, DeleteMaps

LEMMA StepMaps ==
    ASSUME SessionsInv, [Next]_vars
    PROVE  StagingStep
<1>1. SessionOK(up)
  BY DEF SessionsInv, BoardInv
<1>2. CASE UNCHANGED vars
  BY <1>2, SameFades, FadingMaps DEF vars, board
<1>3. CASE Handler
  <2>1. ASSUME \/ UploadRefused \/ UploadCancel \/ UploadDataAgain \/ UploadDataUnexpected
               \/ DownloadRefused \/ DownloadBegin \/ DownloadCancel \/ DownloadAgain
               \/ DownloadUnexpected \/ DownloadData \/ DownloadEnd
        PROVE  Fades(up, up') /\ UNCHANGED file
    BY <2>1, SameFades, TouchedFades
       DEF UploadRefused, UploadCancel, UploadDataAgain, UploadDataUnexpected,
           DownloadRefused, DownloadBegin, DownloadCancel, DownloadAgain,
           DownloadUnexpected, DownloadData, DownloadEnd, Fades
  <2> QED BY <1>3, <2>1, FadingMaps, BeginMaps, DataMaps, EndMaps, DeletionMaps DEF Handler
<1>4. CASE ExpireOnDispatch \/ ExpireInMaintenance
  BY <1>4, ExpiredFades, FadingMaps
     DEF ExpireOnDispatch, ExpireInMaintenance, ExpireHostSessions
<1>5. ASSUME NEW p \in Hosts, Dispatch(p)
      PROVE  StagingStep
  BY <1>5, SameFades, FadingMaps DEF Dispatch
<1>6. ASSUME NEW p \in Hosts, Timeout(p)
      PROVE  StagingStep
  BY <1>1, <1>6, AgedFades, FadingMaps DEF Timeout
<1>7. ASSUME NEW p \in Hosts,
             \/ Start(p) \/ Receive(p) \/ Connect(p) \/ Break(p)
             \/ LoseLine(p) \/ LoseAnswer(p) \/ DamageLine(p) \/ DamageAnswer(p)
      PROVE  StagingStep
  <2>1. UNCHANGED board
    BY <1>7 DEF Start, Receive, ReceiveError, ReceiveReady, ReceiveAck, ReceiveComplete,
                ReceiveDownloadReady, ReceivePiece, ReceiveDownloadComplete, ReceiveOther,
                Receives, Connect, Break, LoseLine, LoseAnswer, DamageLine, DamageAnswer
  <2> QED BY <2>1, SameFades, FadingMaps DEF board
<1> QED BY <1>2, <1>3, <1>4, <1>5, <1>6, <1>7 DEF Next, Board

\* Whatever the PCs send and whatever is lost or damaged, the name is only ever given
\* a file that was announced and staged in order by one owner (ImplementsStaging).
THEOREM StagingImplemented == Spec => ImplementsStaging
<1>1. Init => Staging!Init
  BY DEF Init, Staging!Init, Files
<1>2. SessionsInv /\ [Next]_vars => [Staging!Next]_(Staging!vars)
  BY StepMaps DEF StagingStep
<1>3. Spec => [][Staging!Next]_(Staging!vars)
  BY <1>2, SessionsInvariant, PTL DEF Spec
<1> QED BY <1>1, <1>3, PTL DEF Spec, ImplementsStaging, Staging!Spec

=============================================================================
