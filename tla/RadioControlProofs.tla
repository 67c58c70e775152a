------------------------- MODULE RadioControlProofs -------------------------
(***************************************************************************)
(* Proofs about RadioControl, for any channels and levels and any number   *)
(* of resets of the chip and failures of the bus: while the chip answers   *)
(* and keeps its registers it does what the manager's state says, a loop   *)
(* that ends leaves no carrier on, and a fault heals.                      *)
(*                                                                         *)
(* The radio is a record that operators transform.  There is one lemma per *)
(* operation of the manager, which says that it keeps RadioInv; the steps  *)
(* of Next follow from them without a look into the chip.                  *)
(***************************************************************************)
EXTENDS RadioControl, TLAPS

Saves == [valid : BOOLEAN, regs : Registers]
Radios == [regs : Registers, ce : BOOLEAN, reuse : BOOLEAN, genuine : BOOLEAN,
           bus : {"ok", "low", "high"},
           carrier : {"None", "ContWave", "PayloadReuse"},
           saved : Saves, level : 0..3,
           state : States, channel : 0..125, before : 0..125,
           restorable : BOOLEAN, stale : BOOLEAN, ok : BOOLEAN]

\* The registers of a chip that is ready for packets.
Ready(c, l) == [power |-> TRUE, prx |-> FALSE, wave |-> FALSE, framed |-> TRUE,
                channel |-> c, level |-> l]

\* The state that the pins and CONFIG are in.
Fits(p, state, known) ==
    /\ p.ce <=> state = "RxListening"
    /\ known => /\ p.regs.power <=> state \in {"Standby", "RxListening"}
                /\ p.regs.prx <=> state = "RxListening"

\* The packet set-up is known unless registers of before the last boot were put
\* back ("stale"), and even then while nothing has failed ("clean"); the channel
\* and the level are not.
Known(r, clean) == clean \/ ~ r.stale

Packet(r, clean) ==
    /\ Known(r, clean) => Framed(r)
    /\ ~ r.stale => Tuned(r)
    /\ r.ce => r.regs.prx

Good(r, state, clean) == Packet(r, clean) /\ Fits(r, state, Known(r, clean))

\* A chip that has kept its registers: with a carrier on, the driver has saved
\* what brings it back to packets; otherwise it is in packet mode, also in a fault.
Steady(r, clean) ==
    IF r.state = "CwTest"
    THEN /\ Radiates(r) /\ r.regs.channel = r.channel
         /\ ~ r.stale => r.saved.regs = Ready(r.before, r.level)
    ELSE /\ Packet(r, clean)
         /\ r.state # "Fault" => Good(r, r.state, clean)

\* Without a failure, what the driver has saved is packet mode on some channel.
Plain(g) == g.power /\ ~ g.prx /\ ~ g.wave /\ g.framed
PlainSaved(r) == r.carrier # "None" => Plain(r.saved.regs)

\* The channel that was configured is known.
Kept(r, c) == IF r.state = "CwTest" THEN r.restorable /\ r.before = c ELSE r.channel = c

\* The driver has registers to restore exactly while it has a carrier.
Paired(r) == r.saved.valid <=> r.carrier # "None"

\* What holds of a radio on the configured channel c; "clean" is that nothing has
\* failed yet, "so" is sound.
RadioInv(r, c, clean, so) ==
    /\ r \in Radios /\ c \in 0..125 /\ clean \in BOOLEAN /\ so \in BOOLEAN
    /\ r.state # "Boot"
    /\ Kept(r, c)
    /\ Paired(r)
    /\ r.state = "CwTest" => r.carrier # "None"
    /\ clean => so /\ PlainSaved(r)
    /\ so => Answers(r) /\ Steady(r, clean)

-----------------------------------------------------------------------------
(* The driver.                                                             *)

\* What the driver's registers and pins do not touch.
Same(s, r) ==
    /\ s \in Radios
    /\ s.genuine = r.genuine /\ s.bus = r.bus /\ s.carrier = r.carrier /\ s.saved = r.saved
    /\ s.level = r.level /\ s.state = r.state /\ s.channel = r.channel
    /\ s.before = r.before /\ s.restorable = r.restorable /\ s.stale = r.stale
    /\ Answers(s) <=> Answers(r)

\* The fields that an access to the chip leaves.
LEMMA WriteGives ==
    ASSUME NEW r \in Radios, NEW g \in Registers
    PROVE  /\ Same(Write(r, g), r)
           /\ Write(r, g).regs = IF Answers(r) THEN g ELSE r.regs
           /\ Write(r, g).ce = r.ce /\ Write(r, g).reuse = r.reuse
BY DEF Write, Same, Radios, Answers

LEMMA CeGives ==
    ASSUME NEW r \in Radios, NEW high \in BOOLEAN
    PROVE  /\ Same(Ce(r, high), r) /\ Ce(r, high).ce = high
           /\ Ce(r, high).regs = r.regs /\ Ce(r, high).reuse = r.reuse
BY DEF Ce, Same, Radios, Answers

LEMMA FlushGives ==
    ASSUME NEW r \in Radios
    PROVE  /\ Same(FlushTx(r), r) /\ FlushTx(r).reuse = (~ Answers(r) /\ r.reuse)
           /\ FlushTx(r).regs = r.regs /\ FlushTx(r).ce = r.ce
<1>1. CASE Answers(r)
  <2>1. FlushTx(r) = [r EXCEPT !.reuse = FALSE]
    BY <1>1 DEF FlushTx
  <2> QED BY <1>1, <2>1 DEF Same, Radios, Answers
<1>2. CASE ~ Answers(r)
  <2>1. FlushTx(r) = r
    BY <1>2 DEF FlushTx
  <2>2. r.reuse \in BOOLEAN
    BY DEF Radios
  <2> QED BY <1>2, <2>1, <2>2 DEF Same
<1> QED BY <1>1, <1>2

LEMMA ReturnsGives ==
    ASSUME NEW r \in Radios, NEW ok \in BOOLEAN
    PROVE  /\ Same(Returns(r, ok), r) /\ Returns(r, ok).ok = ok
           /\ Returns(r, ok).regs = r.regs /\ Returns(r, ok).ce = r.ce
           /\ Returns(r, ok).reuse = r.reuse
BY DEF Returns, Same, Radios, Answers

LEMMA ReadGives ==
    ASSUME NEW r \in Radios
    PROVE  Read(r) \in Registers /\ (Answers(r) => Read(r) = r.regs)
BY DEF Read, Answers, Radios, Registers, Zeros, Ones

\* The defaults are packet mode, ready to send.
LEMMA InitDefaultsGives ==
    ASSUME NEW r \in Radios, NEW c \in 0..125
    PROVE  LET s == InitDefaults(r, c)
           IN /\ Same(s, r) /\ s.ok \in BOOLEAN
              /\ Answers(r) => s.ok /\ s.regs = Ready(c, r.level) /\ ~ s.ce /\ ~ s.reuse
<1> DEFINE g == Ready(c, r.level)
           p == Ce(r, FALSE)
           q == Write(p, g)
           f == FlushTx(q)
           o == Returns(f, Read(q).channel = c)
<1>1. InitDefaults(r, c) = o
  BY DEF InitDefaults, Ready
<1>2. g \in Registers /\ g.channel = c
  BY DEF Registers, Ready, Radios
<1>3. Same(p, r) /\ p.ce = FALSE
  BY CeGives
<1> HIDE DEF p, g
<1>4. Same(q, p) /\ (Answers(p) => q.regs = g) /\ q.ce = p.ce
  BY <1>2, <1>3, WriteGives DEF Same
<1> HIDE DEF q
<1>5. /\ Same(f, q) /\ f.reuse = (~ Answers(q) /\ q.reuse) /\ f.regs = q.regs /\ f.ce = q.ce
      /\ Answers(q) => Read(q) = q.regs
  BY <1>4, FlushGives, ReadGives DEF Same
<1> HIDE DEF f
<1>6. /\ Same(o, f) /\ o.ok = (Read(q).channel = c)
      /\ o.regs = f.regs /\ o.ce = f.ce /\ o.reuse = f.reuse
  BY <1>5, ReturnsGives DEF Same
<1> HIDE DEF o
<1>7. Same(o, r) /\ o.ok \in BOOLEAN
  BY <1>3, <1>4, <1>5, <1>6 DEF Same
<1>8. Answers(r) => o.ok /\ o.regs = g /\ ~ o.ce /\ ~ o.reuse
  BY <1>2, <1>3, <1>4, <1>5, <1>6 DEF Same
<1> QED BY <1>1, <1>7, <1>8 DEF g

\* Power, reception and its end change CONFIG and CE only.
LEMMA PowerGives ==
    ASSUME NEW r \in Radios, NEW on \in BOOLEAN
    PROVE  LET s == Returns(Write(r, [r.regs EXCEPT !.power = on]), TRUE)
           IN /\ Same(s, r) /\ s.ok /\ s.ce = r.ce /\ s.reuse = r.reuse
              /\ Answers(r) => s.regs = [r.regs EXCEPT !.power = on]
<1> DEFINE g == [r.regs EXCEPT !.power = on]
           q == Write(r, g)
<1>1. g \in Registers
  BY DEF Radios, Registers
<1> HIDE DEF g
<1>2. /\ Same(q, r) /\ (Answers(r) => q.regs = g) /\ q.ce = r.ce /\ q.reuse = r.reuse
  BY <1>1, WriteGives
<1> HIDE DEF q
<1>3. /\ Same(Returns(q, TRUE), q) /\ Returns(q, TRUE).ok
      /\ Returns(q, TRUE).regs = q.regs /\ Returns(q, TRUE).ce = q.ce
      /\ Returns(q, TRUE).reuse = q.reuse
  BY <1>2, ReturnsGives DEF Same
<1>4. Same(Returns(q, TRUE), r)
  BY <1>2, <1>3 DEF Same
<1> QED BY <1>2, <1>3, <1>4 DEF q, g

LEMMA StartRxGives ==
    ASSUME NEW r \in Radios
    PROVE  LET s == StartRx(r)
           IN /\ Same(s, r) /\ s.ok /\ s.ce /\ s.reuse = r.reuse
              /\ Answers(r) => s.regs = [r.regs EXCEPT !.power = TRUE, !.prx = TRUE]
<1> DEFINE g == [r.regs EXCEPT !.power = TRUE, !.prx = TRUE]
           q == Write(r, g)
           p == Ce(q, TRUE)
           o == Returns(p, TRUE)
<1>0. StartRx(r) = o
  BY DEF StartRx
<1>1. g \in Registers
  BY DEF Radios, Registers
<1> HIDE DEF g
<1>2. Same(q, r) /\ (Answers(r) => q.regs = g) /\ q.reuse = r.reuse
  BY <1>1, WriteGives
<1> HIDE DEF q
<1>3. Same(p, q) /\ p.ce /\ p.regs = q.regs /\ p.reuse = q.reuse
  BY <1>2, CeGives DEF Same
<1> HIDE DEF p
<1>4. Same(o, p) /\ o.ok /\ o.ce = p.ce /\ o.regs = p.regs /\ o.reuse = p.reuse
  BY <1>3, ReturnsGives DEF Same
<1> HIDE DEF o
<1>5. Same(o, r)
  BY <1>2, <1>3, <1>4 DEF Same
<1> QED BY <1>0, <1>2, <1>3, <1>4, <1>5 DEF g

LEMMA StopRxGives ==
    ASSUME NEW r \in Radios
    PROVE  LET s == StopRx(r)
           IN /\ Same(s, r) /\ s.ok /\ ~ s.ce /\ s.reuse = r.reuse
              /\ Answers(r) => s.regs = [r.regs EXCEPT !.prx = FALSE]
<1> DEFINE g == [r.regs EXCEPT !.prx = FALSE]
           p == Ce(r, FALSE)
           q == Write(p, g)
           o == Returns(q, TRUE)
<1>0. StopRx(r) = o
  BY DEF StopRx
<1>1. g \in Registers
  BY DEF Radios, Registers
<1>2. Same(p, r) /\ ~ p.ce /\ p.reuse = r.reuse
  BY CeGives
<1> HIDE DEF g, p
<1>3. Same(q, p) /\ (Answers(p) => q.regs = g) /\ q.reuse = p.reuse /\ q.ce = p.ce
  BY <1>1, <1>2, WriteGives DEF Same
<1> HIDE DEF q
<1>4. Same(o, q) /\ o.ok /\ o.ce = q.ce /\ o.regs = q.regs /\ o.reuse = q.reuse
  BY <1>3, ReturnsGives DEF Same
<1> HIDE DEF o
<1>5. Same(o, r)
  BY <1>2, <1>3, <1>4 DEF Same
<1>6. Answers(r) => o.regs = g
  BY <1>2, <1>3, <1>4 DEF Same
<1> QED BY <1>0, <1>2, <1>3, <1>4, <1>5, <1>6 DEF g

\* A power level that the chip takes is the driver's, and one it does not take too.
LEMMA PowerLevelGives ==
    ASSUME NEW r \in Radios, NEW l \in 0..3
    PROVE  LET s == SetRfPowerLevel(r, l)
           IN /\ Same(s, [r EXCEPT !.level = l]) /\ s.ok \in BOOLEAN
              /\ s.ce = r.ce /\ s.reuse = r.reuse
              /\ Answers(r) => s.ok /\ s.regs = [r.regs EXCEPT !.wave = FALSE, !.level = l]
<1> DEFINE g == [r.regs EXCEPT !.wave = FALSE, !.level = l]
           p == [r EXCEPT !.level = l]
           q == Write(p, g)
           o == Returns(q, Read(q).level = l)
<1>0. SetRfPowerLevel(r, l) = o
  BY DEF SetRfPowerLevel
<1>1. g \in Registers /\ g.level = l
  BY DEF Radios, Registers
<1>2. p \in Radios /\ p.ce = r.ce /\ p.reuse = r.reuse /\ (Answers(p) <=> Answers(r))
  BY DEF Radios, Answers
<1> HIDE DEF g, p
<1>3. Same(q, p) /\ (Answers(p) => q.regs = g) /\ q.reuse = p.reuse /\ q.ce = p.ce
  BY <1>1, <1>2, WriteGives
<1>4. Answers(q) => Read(q) = q.regs
  BY <1>3, ReadGives DEF Same
<1> HIDE DEF q
<1>5. /\ Same(o, q) /\ o.ok = (Read(q).level = l) /\ o.ce = q.ce /\ o.regs = q.regs
      /\ o.reuse = q.reuse
  BY <1>3, ReturnsGives DEF Same
<1> HIDE DEF o
<1>6. Same(o, p)
  BY <1>3, <1>5 DEF Same
<1>7. Answers(r) => o.ok /\ o.regs = g
  BY <1>1, <1>2, <1>3, <1>4, <1>5 DEF Same
<1>8. o.ok \in BOOLEAN /\ o.ce = r.ce /\ o.reuse = r.reuse
  BY <1>2, <1>3, <1>5
<1> QED BY <1>0, <1>6, <1>7, <1>8 DEF g, p

\* A frame that was sent, or given up, leaves packet mode, and no reuse.
LEMMA TransmitGives ==
    ASSUME NEW r \in Radios, NEW how \in Outcomes
    PROVE  LET s == TransmitOnce(r, how)
           IN /\ Same(s, r) /\ s.ok = (how # "fail") /\ ~ s.ce
              /\ Answers(r) => /\ ~ s.reuse
                               /\ s.regs = IF how = "first"
                                           THEN [r.regs EXCEPT !.power = TRUE, !.prx = FALSE]
                                           ELSE Ready(r.regs.channel, r.level)
<1> DEFINE g == IF how = "first" THEN [r.regs EXCEPT !.power = TRUE, !.prx = FALSE]
                                 ELSE Reprime(r)
           p == Ce(r, FALSE)
           q == Write(p, g)
           f == FlushTx(q)
           o == Returns(f, how # "fail")
<1>0. TransmitOnce(r, how) = o
  BY DEF TransmitOnce
<1>1. Read(r) \in Registers /\ (Answers(r) => Read(r) = r.regs)
  BY ReadGives
<1>2. Reprime(r) \in Registers
  BY <1>1 DEF Reprime, Registers, Radios
<1>3. g \in Registers
  BY <1>2 DEF Registers, Radios
<1>4. Answers(r) => Reprime(r) = Ready(r.regs.channel, r.level)
  BY <1>1 DEF Reprime, Ready
<1>5. Same(p, r) /\ ~ p.ce
  BY CeGives
<1> HIDE DEF g, p
<1>6. Same(q, p) /\ (Answers(p) => q.regs = g) /\ q.ce = p.ce
  BY <1>3, <1>5, WriteGives DEF Same
<1> HIDE DEF q
<1>7. Same(f, q) /\ f.reuse = (~ Answers(q) /\ q.reuse) /\ f.regs = q.regs /\ f.ce = q.ce
  BY <1>6, FlushGives DEF Same
<1> HIDE DEF f
<1>8. /\ Same(o, f) /\ o.ok = (how # "fail") /\ o.ce = f.ce /\ o.regs = f.regs
      /\ o.reuse = f.reuse
  BY <1>7, ReturnsGives DEF Same
<1> HIDE DEF o
<1>9. Same(o, r)
  BY <1>5, <1>6, <1>7, <1>8 DEF Same
<1>10. Answers(r) => ~ o.reuse /\ o.regs = g
  BY <1>5, <1>6, <1>7, <1>8 DEF Same
<1>11. o.ok = (how # "fail") /\ ~ o.ce
  BY <1>5, <1>6, <1>7, <1>8
<1> QED BY <1>0, <1>4, <1>9, <1>10, <1>11 DEF g

\* What a carrier does not touch.
Alike(s, r) ==
    /\ s \in Radios
    /\ s.genuine = r.genuine /\ s.bus = r.bus /\ s.level = r.level /\ s.state = r.state
    /\ s.channel = r.channel /\ s.before = r.before /\ s.restorable = r.restorable
    /\ s.stale = r.stale
    /\ Answers(s) <=> Answers(r)

LEMMA SameIsAlike ==
    ASSUME NEW r, NEW s, Same(s, r) PROVE Alike(s, r)
BY DEF Same, Alike

\* The end of a carrier restores the registers from before it.
LEMMA StopCarrierGives ==
    ASSUME NEW r \in Radios
    PROVE  LET s == StopContinuousCarrier(r)
           IN /\ Alike(s, r) /\ s.carrier = "None" /\ ~ s.saved.valid /\ ~ s.ce
              /\ Answers(r) /\ r.saved.valid => ~ s.reuse /\ s.regs = r.saved.regs
<1> DEFINE p == Ce(r, FALSE)
           f == FlushTx(p)
           plain == [r.regs EXCEPT !.wave = FALSE, !.level = r.level]
<1>1. plain \in Registers /\ r.saved \in Saves /\ r.saved.regs \in Registers
  BY DEF Radios, Registers, Saves
<1>2. Same(p, r) /\ ~ p.ce
  BY CeGives
<1> HIDE DEF p, plain
<1>3. Same(f, p) /\ f.ce = p.ce /\ (Answers(p) => ~ f.reuse)
  BY <1>2, FlushGives DEF Same
<1>4. Same(f, r) /\ ~ f.ce /\ (Answers(r) => ~ f.reuse)
  BY <1>2, <1>3 DEF Same
<1> HIDE DEF f
<1>5. CASE ~ r.saved.valid
  <2> DEFINE q == Write(f, plain)
  <2>1. Same(q, f) /\ q.ce = f.ce
    BY <1>1, <1>4, WriteGives DEF Same
  <2>2. Same(q, r) /\ ~ q.ce
    BY <1>4, <2>1 DEF Same
  <2>3. StopContinuousCarrier(r) = [q EXCEPT !.carrier = "None"]
    BY <1>5 DEF StopContinuousCarrier, plain, f, p
  <2> HIDE DEF q
  <2> QED BY <1>5, <2>2, <2>3 DEF Same, Alike, Radios, Answers
<1>6. CASE r.saved.valid
  <2> DEFINE q == Write(f, r.saved.regs)
             none == [valid |-> FALSE, regs |-> Zeros]
  <2>1. /\ Same(q, f) /\ q.ce = f.ce /\ q.reuse = f.reuse
        /\ q.regs = IF Answers(f) THEN r.saved.regs ELSE f.regs
    BY <1>1, <1>4, WriteGives DEF Same
  <2>2. Same(q, r) /\ ~ q.ce
    BY <1>4, <2>1 DEF Same
  <2>3. Answers(r) => ~ q.reuse /\ q.regs = r.saved.regs
    BY <1>4, <2>1 DEF Same
  <2>4. StopContinuousCarrier(r) = [q EXCEPT !.saved = none, !.carrier = "None"]
    BY <1>6 DEF StopContinuousCarrier, f, p
  <2>5. none \in Saves /\ none.valid = FALSE
    BY DEF Saves, Zeros, Registers
  <2> HIDE DEF none
  <2> DEFINE s == [q EXCEPT !.saved = none, !.carrier = "None"]
  <2> HIDE DEF q
  <2>6. /\ s \in Radios /\ s.saved = none /\ s.carrier = "None" /\ s.bus = q.bus
        /\ s.genuine = q.genuine /\ s.level = q.level /\ s.state = q.state
        /\ s.channel = q.channel /\ s.before = q.before /\ s.restorable = q.restorable
        /\ s.stale = q.stale /\ s.regs = q.regs /\ s.ce = q.ce /\ s.reuse = q.reuse
    <3>1. q \in Radios
      BY <2>2 DEF Same
    <3> QED BY <2>5, <3>1 DEF Radios
  <2> HIDE DEF s
  <2>7. Alike(s, r)
    BY <2>2, <2>6 DEF Same, Alike, Answers
  <2>8. StopContinuousCarrier(r) = s
    BY <2>4 DEF s
  <2> QED BY <2>2, <2>3, <2>5, <2>6, <2>7, <2>8
<1> QED BY <1>5, <1>6, <1>1 DEF Saves

\* The registers that a carrier finds: those that a carrier before it has saved, if
\* the driver still has one.
Found(r) == IF r.carrier = "None" THEN r.regs ELSE r.saved.regs

\* A carrier that starts is on the air, and the registers that it found are saved;
\* one that does not start leaves them as they were.
LEMMA StartCarrierGives ==
    ASSUME NEW r \in Radios, Paired(r), NEW c \in 0..125, NEW l \in 0..3, NEW sent \in BOOLEAN
    PROVE  LET s == StartContinuousCarrier(r, c, l, sent)
           IN /\ Alike(s, r) /\ Paired(s) /\ s.ok \in BOOLEAN /\ (s.ok <=> s.carrier # "None")
              /\ Answers(r) =>
                    IF s.ok
                    THEN Radiates(s) /\ s.regs.channel = c /\ s.saved.regs = Found(r)
                    ELSE s.regs = Found(r) /\ ~ s.reuse /\ ~ s.ce
<1> DEFINE old  == IF r.carrier = "None" THEN r ELSE StopContinuousCarrier(r)
           save == [old EXCEPT !.saved = [valid |-> TRUE, regs |-> Read(old)]]
           wave == [Read(old) EXCEPT !.power = TRUE, !.prx = FALSE, !.wave = old.genuine,
                                     !.channel = c, !.level = l]
           low  == Ce(save, FALSE)
           w    == Write(low, wave)
           on   == FlushTx(w)
           flat == [wave EXCEPT !.wave = FALSE, !.framed = FALSE]
           v    == Write(on, flat)
           bare == FlushTx(v)
           reuse == IF Answers(r) THEN [bare EXCEPT !.reuse = TRUE] ELSE bare
           first == Returns(Ce([on EXCEPT !.carrier = "ContWave"], TRUE), TRUE)
           second == Returns(Ce([reuse EXCEPT !.carrier = "PayloadReuse"], TRUE), TRUE)
           third == Returns(StopContinuousCarrier(bare), FALSE)
<1>1. StartContinuousCarrier(r, c, l, sent) =
        CASE Read(on).wave -> first
          [] ~ Read(on).wave /\ sent /\ Answers(r) -> second
          [] OTHER -> third
  BY DEF StartContinuousCarrier
<1>2. Alike(old, r) /\ (Answers(r) => old.regs = Found(r))
  BY StopCarrierGives DEF Alike, Paired, Found
<1> HIDE DEF old
<1>3. Read(old) \in Registers /\ (Answers(old) => Read(old) = old.regs)
  BY <1>2, ReadGives DEF Alike
<1>4. /\ wave \in Registers /\ flat \in Registers /\ wave.channel = c /\ flat.channel = c
      /\ wave.power /\ ~ wave.prx /\ flat.power /\ ~ flat.prx
  <2>1. old.genuine \in BOOLEAN
    BY <1>2 DEF Alike, Radios
  <2>2. ASSUME NEW g \in Registers, NEW b \in BOOLEAN
        PROVE  LET h == [g EXCEPT !.power = TRUE, !.prx = FALSE, !.wave = b]
               IN  h \in Registers /\ h.power /\ ~ h.prx
    BY DEF Registers
  <2>3. ASSUME NEW g \in Registers
        PROVE  LET h == [g EXCEPT !.channel = c, !.level = l]
               IN  h \in Registers /\ h.channel = c /\ h.power = g.power /\ h.prx = g.prx
    <3>1. c \in 0..127
      OBVIOUS
    <3> QED BY <3>1 DEF Registers
  <2>4. ASSUME NEW g \in Registers
        PROVE  LET h == [g EXCEPT !.wave = FALSE, !.framed = FALSE]
               IN  /\ h \in Registers /\ h.channel = g.channel
                   /\ h.power = g.power /\ h.prx = g.prx
    BY DEF Registers
  <2> DEFINE own == [Read(old) EXCEPT !.power = TRUE, !.prx = FALSE, !.wave = old.genuine]
  <2>5. own \in Registers /\ own.power /\ ~ own.prx
    BY <1>3, <2>1, <2>2
  <2>6. wave = [own EXCEPT !.channel = c, !.level = l]
    OBVIOUS
  <2> HIDE DEF own, wave
  <2>7. wave \in Registers /\ wave.channel = c /\ wave.power /\ ~ wave.prx
    BY <2>3, <2>5, <2>6
  <2> QED BY <2>4, <2>7
<1>5. Alike(save, r) /\ save.saved.valid /\ save.saved.regs = Read(old) /\ save.saved \in Saves
  BY <1>2, <1>3 DEF Alike, Radios, Saves, Answers
<1> HIDE DEF wave, flat, save
<1>6. Same(low, save)
  BY <1>5, CeGives DEF Alike
<1> HIDE DEF low
<1>7. Same(w, low) /\ (Answers(low) => w.regs = wave)
  BY <1>4, <1>6, WriteGives DEF Same
<1> HIDE DEF w
<1>8. Same(on, w) /\ on.regs = w.regs
  BY <1>7, FlushGives DEF Same
<1> HIDE DEF on
<1>9. Same(v, on) /\ (Answers(on) => v.regs = flat)
  BY <1>4, <1>8, WriteGives DEF Same
<1> HIDE DEF v
<1>10. Same(bare, v) /\ bare.regs = v.regs
  BY <1>9, FlushGives DEF Same
<1> HIDE DEF bare
<1>11. /\ Alike(on, r) /\ on.saved = save.saved
       /\ Answers(r) => on.regs = wave
  BY <1>5, <1>6, <1>7, <1>8 DEF Same, Alike
<1>12. /\ Alike(bare, r) /\ bare.saved = save.saved
       /\ Answers(r) => bare.regs = flat
  BY <1>9, <1>10, <1>11 DEF Same, Alike
<1>13. Answers(r) => Read(old) = Found(r)
  BY <1>2, <1>3 DEF Alike
<1>14. CASE Read(on).wave
  <2> DEFINE a == [on EXCEPT !.carrier = "ContWave"]
             b == Ce(a, TRUE)
  <2>1. Alike(a, r) /\ a.carrier = "ContWave" /\ a.saved = on.saved /\ a.regs = on.regs
    BY <1>11 DEF Alike, Radios, Answers
  <2> HIDE DEF a
  <2>2. Same(b, a) /\ b.ce /\ b.regs = a.regs
    BY <2>1, CeGives DEF Alike
  <2> HIDE DEF b
  <2>3. Same(Returns(b, TRUE), b) /\ Returns(b, TRUE).ok /\ Returns(b, TRUE).ce = b.ce
        /\ Returns(b, TRUE).regs = b.regs
    BY <2>2, ReturnsGives DEF Same
  <2>4. first = Returns(b, TRUE) /\ StartContinuousCarrier(r, c, l, sent) = first
    BY <1>1, <1>14 DEF a, b
  <2> HIDE DEF first
  <2>5. Alike(first, r) /\ first.ok /\ first.carrier = "ContWave" /\ first.saved = save.saved
        /\ first.ce /\ first.regs = on.regs
    BY <1>11, <2>1, <2>2, <2>3, <2>4 DEF Same, Alike
  <2>6. Answers(r) => Read(on) = on.regs /\ on.regs = wave
    BY <1>11, ReadGives DEF Alike
  <2>7. Answers(r) => Radiates(first) /\ first.regs.channel = c
    BY <1>4, <1>14, <2>5, <2>6 DEF Radiates
  <2> QED BY <1>5, <1>13, <2>4, <2>5, <2>7 DEF Paired
<1>15. CASE ~ Read(on).wave /\ sent /\ Answers(r)
  <2> DEFINE a == [reuse EXCEPT !.carrier = "PayloadReuse"]
             b == Ce(a, TRUE)
  <2>1. Alike(reuse, r) /\ reuse.saved = save.saved /\ reuse.regs = flat /\ reuse.reuse
    BY <1>12, <1>15 DEF Alike, Radios, Answers
  <2>2. StartContinuousCarrier(r, c, l, sent) = second
    BY <1>1, <1>15
  <2> HIDE DEF reuse
  <2>3. /\ Alike(a, r) /\ a.carrier = "PayloadReuse" /\ a.saved = save.saved /\ a.regs = flat
        /\ a.reuse
    BY <2>1 DEF Alike, Radios, Answers
  <2>4. second = Returns(b, TRUE)
    OBVIOUS
  <2> HIDE DEF a
  <2>5. Same(b, a) /\ b.ce /\ b.regs = a.regs /\ b.reuse = a.reuse
    BY <2>3, CeGives DEF Alike
  <2> HIDE DEF b
  <2>6. Same(Returns(b, TRUE), b) /\ Returns(b, TRUE).ok /\ Returns(b, TRUE).ce = b.ce
        /\ Returns(b, TRUE).regs = b.regs /\ Returns(b, TRUE).reuse = b.reuse
    BY <2>5, ReturnsGives DEF Same
  <2> HIDE DEF second
  <2>7. Alike(second, r) /\ second.ok /\ second.carrier = "PayloadReuse"
        /\ second.saved = save.saved /\ second.ce /\ second.regs = flat /\ second.reuse
    BY <2>3, <2>4, <2>5, <2>6 DEF Same, Alike
  <2>8. Radiates(second) /\ second.regs.channel = c
    BY <1>4, <2>7 DEF Radiates
  <2> QED BY <1>5, <1>13, <2>2, <2>7, <2>8 DEF Paired
<1>16. CASE ~ Read(on).wave /\ ~ (sent /\ Answers(r))
  <2> DEFINE a == StopContinuousCarrier(bare)
  <2>1. /\ Alike(a, bare) /\ a.carrier = "None" /\ ~ a.saved.valid /\ ~ a.ce
        /\ Answers(bare) /\ bare.saved.valid => ~ a.reuse /\ a.regs = bare.saved.regs
    BY <1>12, StopCarrierGives DEF Alike
  <2>2. StartContinuousCarrier(r, c, l, sent) = third /\ third = Returns(a, FALSE)
    BY <1>1, <1>16
  <2> HIDE DEF a, third
  <2>3. /\ Same(Returns(a, FALSE), a) /\ Returns(a, FALSE).ok = FALSE
        /\ Returns(a, FALSE).ce = a.ce
        /\ Returns(a, FALSE).regs = a.regs /\ Returns(a, FALSE).reuse = a.reuse
    BY <2>1, ReturnsGives DEF Alike
  <2>4. Alike(third, r) /\ third.ok = FALSE /\ third.carrier = "None" /\ ~ third.saved.valid
        /\ ~ third.ce
    BY <1>12, <2>1, <2>2, <2>3 DEF Same, Alike
  <2>5. Answers(r) => ~ third.reuse /\ third.regs = Read(old)
    BY <1>5, <1>12, <2>1, <2>2, <2>3 DEF Alike
  <2> QED BY <1>13, <2>2, <2>4, <2>5 DEF Paired
<1> QED BY <1>14, <1>15, <1>16

-----------------------------------------------------------------------------
(* The manager.                                                            *)

\* An operation enters its state if the driver has succeeded.
LEMMA EntersGives ==
    ASSUME NEW r \in Radios, NEW state \in States
    PROVE  LET s == Enters(r, state)
           IN /\ s \in Radios /\ s.state = IF r.ok THEN state ELSE "Fault"
              /\ s.ok = r.ok /\ s.regs = r.regs /\ s.ce = r.ce /\ s.reuse = r.reuse
              /\ s.bus = r.bus /\ s.carrier = r.carrier /\ s.saved = r.saved
              /\ s.level = r.level /\ s.channel = r.channel /\ s.before = r.before
              /\ s.restorable = r.restorable /\ s.stale = r.stale
              /\ Answers(s) <=> Answers(r)
BY DEF Enters, Radios, States, Answers

\* Booting makes packet mode of any chip that answers.
LEMMA BootKeeps ==
    ASSUME NEW r \in Radios, NEW c \in 0..125, NEW clean \in BOOLEAN,
           Paired(r), clean => Answers(r) /\ PlainSaved(r)
    PROVE  LET s == Boot(r, c)
           IN /\ RadioInv(s, c, clean, Answers(r)) /\ s.bus = r.bus
              /\ s.state = (IF s.ok THEN "Standby" ELSE "Fault") /\ s.ok \in BOOLEAN
              /\ Answers(r) => s.ok /\ PacketMode(s) /\ s.regs.power /\ ~ s.regs.prx /\ ~ s.ce
<1> DEFINE b == [r EXCEPT !.channel = c, !.before = c, !.restorable = FALSE]
           p == Probe(b)
           i == InitDefaults(p, c)
           d == IF p.ok THEN [i EXCEPT !.stale = FALSE] ELSE p
           s == Enters(d, "Standby")
<1>0. Boot(r, c) = s
  BY DEF Boot
<1>1. /\ b \in Radios /\ b.channel = c /\ b.bus = r.bus /\ b.carrier = r.carrier
      /\ b.saved = r.saved /\ (Answers(b) <=> Answers(r))
  BY DEF Radios, Answers
<1> HIDE DEF b
<1>2. Same(p, b) /\ p.ok = Answers(b)
  BY <1>1, ReturnsGives DEF Probe, Answers
<1> HIDE DEF p
<1>3. /\ Same(i, p) /\ i.ok \in BOOLEAN
      /\ Answers(p) => i.ok /\ ~ i.ce /\ i.regs = Ready(c, p.level) /\ ~ i.reuse
  <2>1. p \in Radios
    BY <1>2 DEF Same
  <2> QED BY <2>1, InitDefaultsGives
<1> HIDE DEF i
<1>4. /\ d \in Radios /\ d.ok \in BOOLEAN /\ d.channel = c /\ d.bus = r.bus
      /\ d.carrier = r.carrier /\ d.saved = r.saved /\ (Answers(d) <=> Answers(r))
  <2>1. CASE p.ok
    <3>1. d = [i EXCEPT !.stale = FALSE] /\ i \in Radios
      BY <1>3, <2>1 DEF Same
    <3> HIDE DEF d
    <3>2. /\ d \in Radios /\ d.ok = i.ok /\ d.channel = i.channel /\ d.bus = i.bus
          /\ d.carrier = i.carrier /\ d.saved = i.saved
      BY <3>1 DEF Radios
    <3> QED BY <1>1, <1>2, <1>3, <3>2 DEF Same, Answers
  <2>2. CASE ~ p.ok
    BY <1>1, <1>2, <2>2 DEF Same, Answers
  <2> QED BY <2>1, <2>2
<1>5. Answers(r) => d.ok /\ d.regs = Ready(c, d.level) /\ ~ d.ce /\ ~ d.reuse /\ ~ d.stale
  <2>1. SUFFICES ASSUME Answers(r)
                 PROVE  d.ok /\ d.regs = Ready(c, d.level) /\ ~ d.ce /\ ~ d.reuse /\ ~ d.stale
    OBVIOUS
  <2>2. d = [i EXCEPT !.stale = FALSE] /\ i \in Radios /\ Answers(p)
    BY <1>1, <1>2, <1>3, <2>1 DEF Same
  <2>3. /\ d.ok = i.ok /\ d.regs = i.regs /\ d.ce = i.ce /\ d.reuse = i.reuse
        /\ d.level = i.level /\ d.stale = FALSE
    BY <2>2 DEF Radios
  <2> QED BY <1>3, <2>2, <2>3 DEF Same
<1> HIDE DEF d
<1>6. /\ s \in Radios /\ s.state = IF d.ok THEN "Standby" ELSE "Fault"
      /\ s.ok = d.ok /\ s.regs = d.regs /\ s.ce = d.ce /\ s.reuse = d.reuse
      /\ s.bus = d.bus /\ s.carrier = d.carrier /\ s.saved = d.saved
      /\ s.level = d.level /\ s.channel = d.channel /\ s.stale = d.stale
      /\ Answers(s) <=> Answers(d)
  BY <1>4, EntersGives DEF States
<1> HIDE DEF s
<1>7. Answers(r) => /\ s.regs.power /\ ~ s.regs.prx /\ ~ s.regs.wave /\ s.regs.framed
                    /\ s.regs.channel = s.channel /\ s.regs.level = s.level
  BY <1>4, <1>5, <1>6 DEF Ready
<1>8. Answers(r) => s.ok /\ PacketMode(s) /\ s.regs.power /\ ~ s.regs.prx /\ ~ s.ce
  BY <1>5, <1>6, <1>7 DEF PacketMode, Framed, Tuned
<1>9. Answers(r) => Steady(s, clean)
  BY <1>6, <1>8 DEF Steady, Good, Packet, Fits, PacketMode
<1>10. RadioInv(s, c, clean, Answers(r))
  <2>1. Answers(r) \in BOOLEAN
    BY DEF Answers
  <2>2. Kept(s, c) /\ s.state # "Boot" /\ s.state # "CwTest"
    BY <1>4, <1>6 DEF Kept
  <2>3. Paired(s) /\ (clean => Answers(r) /\ PlainSaved(s))
    BY <1>4, <1>6 DEF Paired, PlainSaved
  <2> QED BY <1>4, <1>6, <1>9, <2>1, <2>2, <2>3 DEF RadioInv
<1> QED BY <1>0, <1>4, <1>6, <1>8, <1>10

\* A carrier that is stopped leaves standby in packet mode.
LEMMA StopCwKeeps ==
    ASSUME NEW r, NEW c, NEW clean, NEW so,
           RadioInv(r, c, clean, so), r.state = "CwTest"
    PROVE  LET s == StopCw(r)
           IN RadioInv(s, c, clean, so) /\ s.state = "Standby" /\ s.ok = TRUE /\ s.bus = r.bus
<1>0. c \in 0..125 /\ clean \in BOOLEAN /\ so \in BOOLEAN
  BY DEF RadioInv
<1> USE <1>0
<1> DEFINE p == StopContinuousCarrier(r)
           s == StopCw(r)
<1>1. /\ Alike(p, r) /\ p.carrier = "None" /\ ~ p.saved.valid /\ ~ p.ce
      /\ Answers(r) /\ r.saved.valid => ~ p.reuse /\ p.regs = r.saved.regs
  BY StopCarrierGives DEF RadioInv
<1>2. r.restorable /\ r.before = c /\ c \in 0..125
  BY DEF RadioInv, Kept
<1>3. s = [p EXCEPT !.channel = r.before, !.restorable = FALSE, !.state = "Standby",
                   !.ok = TRUE]
  BY <1>2 DEF StopCw
<1> HIDE DEF p, s
<1>4. /\ s \in Radios /\ s.channel = c /\ s.state = "Standby" /\ s.ok = TRUE
      /\ s.carrier = "None" /\ s.saved = p.saved /\ s.ce = p.ce /\ s.reuse = p.reuse
      /\ s.regs = p.regs /\ s.level = r.level /\ s.bus = r.bus /\ s.stale = r.stale
      /\ (Answers(s) <=> Answers(r))
  BY <1>1, <1>2, <1>3 DEF Alike, Radios, States, Answers
<1>5. so => s.regs = r.saved.regs /\ ~ s.reuse /\ ~ s.ce
  BY <1>1, <1>4 DEF RadioInv, Paired
<1>6. so => /\ clean => Plain(s.regs)
            /\ ~ s.stale => s.regs = Ready(c, s.level)
  BY <1>2, <1>4, <1>5 DEF RadioInv, Steady, PlainSaved
<1>7. so => Good(s, "Standby", clean)
  BY <1>4, <1>5, <1>6 DEF Good, Packet, Fits, Known, Framed, Tuned, Plain, Ready
<1>8. so => Steady(s, clean)
  BY <1>4, <1>7 DEF Steady, Good
<1>9. RadioInv(s, c, clean, so)
  BY <1>1, <1>4, <1>8 DEF RadioInv, Kept, Paired, PlainSaved
<1> QED BY <1>4, <1>9 DEF s

-----------------------------------------------------------------------------
\* An operation of the manager has succeeded, and entered its state, or failed.
Ends(s, ok, state) == s.ok = ok /\ s.state = IF ok THEN state ELSE "Fault"

\* An operation that the driver makes without a carrier keeps what is known of the
\* radio if it leaves packet mode, and the pins as the state it enters has them.
LEMMA EntersKeeps ==
    ASSUME NEW r, NEW c, NEW clean, NEW so,
           RadioInv(r, c, clean, so), r.state # "CwTest",
           NEW p, Same(p, r), p.ok \in BOOLEAN,
           NEW state \in {"Standby", "RxListening", "Sleep", "PowerDown"},
           so => Good(p, state, clean)
    PROVE  RadioInv(Enters(p, state), c, clean, so) /\ Ends(Enters(p, state), p.ok, state)
<1>0. c \in 0..125 /\ clean \in BOOLEAN /\ so \in BOOLEAN
  BY DEF RadioInv
<1> USE <1>0
<1> DEFINE s == Enters(p, state)
<1>1. /\ s \in Radios /\ s.state = IF p.ok THEN state ELSE "Fault"
      /\ s.ok = p.ok /\ s.regs = p.regs /\ s.ce = p.ce /\ s.reuse = p.reuse
      /\ s.bus = p.bus /\ s.carrier = p.carrier /\ s.saved = p.saved
      /\ s.level = p.level /\ s.channel = p.channel /\ s.stale = p.stale
      /\ Answers(s) <=> Answers(p)
  BY EntersGives DEF Same, States
<1> HIDE DEF s
<1>2. so => Packet(s, clean) /\ Good(s, state, clean)
  BY <1>1 DEF Good, Packet, Fits, Known, Framed, Tuned
<1>3. so => Steady(s, clean)
  BY <1>1, <1>2 DEF Steady
<1>4. RadioInv(s, c, clean, so)
  BY <1>1, <1>3 DEF RadioInv, Same, Kept, Paired, PlainSaved
<1> QED BY <1>1, <1>4 DEF s, Ends

\* The end of reception.
LEMMA LeaveRxKeeps ==
    ASSUME NEW r, NEW c, NEW clean, NEW so,
           RadioInv(r, c, clean, so), r.state = "RxListening"
    PROVE  RadioInv(LeaveRx(r), c, clean, so) /\ Ends(LeaveRx(r), TRUE, "Standby")
<1>0. c \in 0..125 /\ clean \in BOOLEAN /\ so \in BOOLEAN
  BY DEF RadioInv
<1> USE <1>0
<1> DEFINE p == StopRx(r)
<1>1. r \in Radios /\ r.regs \in Registers
  BY DEF RadioInv, Radios
<1>2. /\ Same(p, r) /\ p.ok /\ ~ p.ce /\ p.reuse = r.reuse
      /\ Answers(r) => p.regs = [r.regs EXCEPT !.prx = FALSE]
  BY <1>1, StopRxGives
<1>3. Same(p, r) /\ p.ok \in BOOLEAN /\ r.state # "CwTest"
  BY <1>2 DEF Same, Radios
<1> HIDE DEF p
<1>4. so => Good(p, "Standby", clean)
  BY <1>1, <1>2 DEF RadioInv, Steady, Good, Packet, Fits, Known, Framed, Tuned, Registers, Same
<1>5. /\ RadioInv(Enters(p, "Standby"), c, clean, so)
      /\ Ends(Enters(p, "Standby"), p.ok, "Standby")
  BY <1>3, <1>4, EntersKeeps
<1> QED BY <1>2, <1>3, <1>5 DEF LeaveRx, p

\* The start of reception, which cannot fail.
LEMMA EnterRxKeeps ==
    ASSUME NEW r, NEW c, NEW clean, NEW so,
           RadioInv(r, c, clean, so), r.state # "CwTest"
    PROVE  RadioInv(EnterRx(r), c, clean, so) /\ Ends(EnterRx(r), TRUE, "RxListening")
<1>0. c \in 0..125 /\ clean \in BOOLEAN /\ so \in BOOLEAN
  BY DEF RadioInv
<1> USE <1>0
<1> DEFINE p == StartRx(r)
<1>1. r \in Radios /\ r.regs \in Registers
  BY DEF RadioInv, Radios
<1>2. /\ Same(p, r) /\ p.ok /\ p.ce /\ p.reuse = r.reuse
      /\ Answers(r) => p.regs = [r.regs EXCEPT !.power = TRUE, !.prx = TRUE]
  BY <1>1, StartRxGives
<1>3. Same(p, r) /\ p.ok \in BOOLEAN /\ r.state # "CwTest"
  BY <1>2 DEF Same, Radios
<1> HIDE DEF p
<1>4. so => Good(p, "RxListening", clean)
  BY <1>1, <1>2 DEF RadioInv, Steady, Good, Packet, Fits, Known, Framed, Tuned, Registers, Same
<1>5. /\ RadioInv(Enters(p, "RxListening"), c, clean, so)
      /\ Ends(Enters(p, "RxListening"), p.ok, "RxListening")
  BY <1>3, <1>4, EntersKeeps
<1> QED BY <1>2, <1>3, <1>5 DEF EnterRx, p

\* A frame, sent from any state but a carrier.
LEMMA SendKeeps ==
    ASSUME NEW r, NEW c, NEW clean, NEW so,
           RadioInv(r, c, clean, so), r.state # "CwTest", NEW how \in Outcomes
    PROVE  /\ RadioInv(SendPayload(r, how), c, clean, so)
           /\ Ends(SendPayload(r, how), how # "fail", "Standby")
<1>0. c \in 0..125 /\ clean \in BOOLEAN /\ so \in BOOLEAN
  BY DEF RadioInv
<1> USE <1>0
<1> DEFINE p == TransmitOnce(r, how)
<1>1. r \in Radios /\ r.regs \in Registers
  BY DEF RadioInv, Radios
<1>2. /\ Same(p, r) /\ p.ok = (how # "fail") /\ ~ p.ce
      /\ Answers(r) => /\ ~ p.reuse
                       /\ p.regs = IF how = "first"
                                   THEN [r.regs EXCEPT !.power = TRUE, !.prx = FALSE]
                                   ELSE Ready(r.regs.channel, r.level)
  BY <1>1, TransmitGives
<1>3. p.ok \in BOOLEAN
  BY <1>2
<1> HIDE DEF p
<1>4. so => Answers(r) /\ Packet(r, clean)
  BY DEF RadioInv, Steady
<1>5. so => Good(p, "Standby", clean)
  <2>1. CASE how = "first"
    BY <1>1, <1>2, <1>4, <2>1 DEF Good, Packet, Fits, Known, Framed, Tuned, Registers, Same
  <2>2. CASE how # "first"
    BY <1>1, <1>2, <1>4, <2>2 DEF Good, Packet, Fits, Known, Framed, Tuned, Ready, Same
  <2> QED BY <2>1, <2>2
<1>6. /\ RadioInv(Enters(p, "Standby"), c, clean, so)
      /\ Ends(Enters(p, "Standby"), p.ok, "Standby")
  BY <1>2, <1>3, <1>5, EntersKeeps
<1> QED BY <1>2, <1>6 DEF SendPayload, p

\* A frame that was received, or not.
LEMMA ReceiveKeeps ==
    ASSUME NEW r, NEW c, NEW clean, NEW so,
           RadioInv(r, c, clean, so), r.state = "RxListening", NEW read \in BOOLEAN
    PROVE  /\ RadioInv(ReceivePayload(r, read), c, clean, so)
           /\ Ends(ReceivePayload(r, read), read, "RxListening")
<1>0. c \in 0..125 /\ clean \in BOOLEAN /\ so \in BOOLEAN
  BY DEF RadioInv
<1> USE <1>0
<1> DEFINE p == Returns(r, read)
<1>1. r \in Radios
  BY DEF RadioInv
<1>2. /\ Same(p, r) /\ p.ok = read /\ p.regs = r.regs /\ p.ce = r.ce /\ p.reuse = r.reuse
      /\ p.ok \in BOOLEAN
  BY <1>1, ReturnsGives
<1> HIDE DEF p
<1>3. so => Good(p, "RxListening", clean)
  BY <1>2 DEF RadioInv, Steady, Good, Packet, Fits, Known, Framed, Tuned, Same
<1>4. /\ RadioInv(Enters(p, "RxListening"), c, clean, so)
      /\ Ends(Enters(p, "RxListening"), p.ok, "RxListening")
  BY <1>2, <1>3, EntersKeeps
<1> QED BY <1>2, <1>4 DEF ReceivePayload, p

\* Power off from standby, to either of the two states.
LEMMA PowerOffKeeps ==
    ASSUME NEW r, NEW c, NEW clean, NEW so,
           RadioInv(r, c, clean, so), r.state = "Standby",
           NEW state \in {"Sleep", "PowerDown"}
    PROVE  /\ RadioInv(Enters(PowerDown(r), state), c, clean, so)
           /\ Ends(Enters(PowerDown(r), state), TRUE, state)
<1>0. c \in 0..125 /\ clean \in BOOLEAN /\ so \in BOOLEAN
  BY DEF RadioInv
<1> USE <1>0
<1> DEFINE p == PowerDown(r)
<1>1. r \in Radios /\ r.regs \in Registers
  BY DEF RadioInv, Radios
<1>2. /\ Same(p, r) /\ p.ok /\ p.ce = r.ce /\ p.reuse = r.reuse
      /\ Answers(r) => p.regs = [r.regs EXCEPT !.power = FALSE]
  BY <1>1, PowerGives DEF PowerDown
<1>3. Same(p, r) /\ p.ok \in BOOLEAN /\ r.state # "CwTest"
  BY <1>2 DEF Same, Radios
<1> HIDE DEF p
<1>4. so => Good(p, state, clean)
  BY <1>1, <1>2 DEF RadioInv, Steady, Good, Packet, Fits, Known, Framed, Tuned, Registers, Same
<1>5. state \in {"Standby", "RxListening", "Sleep", "PowerDown"} /\ state # "Standby"
      /\ state # "RxListening"
  OBVIOUS
<1>6. /\ RadioInv(Enters(p, state), c, clean, so)
      /\ Ends(Enters(p, state), p.ok, state)
  BY <1>3, <1>4, <1>5, EntersKeeps
<1> QED BY <1>2, <1>3, <1>6 DEF p

\* Power on again.
LEMMA WakeKeeps ==
    ASSUME NEW r, NEW c, NEW clean, NEW so,
           RadioInv(r, c, clean, so), r.state \in {"Sleep", "PowerDown"}
    PROVE  RadioInv(Wake(r), c, clean, so) /\ Ends(Wake(r), TRUE, "Standby")
<1>0. c \in 0..125 /\ clean \in BOOLEAN /\ so \in BOOLEAN
  BY DEF RadioInv
<1> USE <1>0
<1> DEFINE p == PowerUp(r)
<1>1. r \in Radios /\ r.regs \in Registers
  BY DEF RadioInv, Radios
<1>2. /\ Same(p, r) /\ p.ok /\ p.ce = r.ce /\ p.reuse = r.reuse
      /\ Answers(r) => p.regs = [r.regs EXCEPT !.power = TRUE]
  BY <1>1, PowerGives DEF PowerUp
<1>3. Same(p, r) /\ p.ok \in BOOLEAN /\ r.state # "CwTest"
  BY <1>2 DEF Same, Radios
<1> HIDE DEF p
<1>4. so => Good(p, "Standby", clean)
  BY <1>1, <1>2 DEF RadioInv, Steady, Good, Packet, Fits, Known, Framed, Tuned, Registers, Same
<1>5. /\ RadioInv(Enters(p, "Standby"), c, clean, so)
      /\ Ends(Enters(p, "Standby"), p.ok, "Standby")
  BY <1>3, <1>4, EntersKeeps
<1> QED BY <1>2, <1>3, <1>5 DEF Wake, p

\* A power level, set in standby; the driver keeps it even if the chip does not.
LEMMA PowerLevelKeeps ==
    ASSUME NEW r, NEW c, NEW clean, NEW so,
           RadioInv(r, c, clean, so), r.state = "Standby", NEW l \in 0..3
    PROVE  /\ RadioInv(SetPowerLevel(r, l), c, clean, so)
           /\ SetPowerLevel(r, l).state # "CwTest"
<1>0. c \in 0..125 /\ clean \in BOOLEAN /\ so \in BOOLEAN
  BY DEF RadioInv
<1> USE <1>0
<1> DEFINE b == [r EXCEPT !.level = l]
           p == SetRfPowerLevel(r, l)
           s == SetPowerLevel(r, l)
<1>1. r \in Radios /\ r.regs \in Registers
  BY DEF RadioInv, Radios
<1>2. /\ b.genuine = r.genuine /\ b.bus = r.bus /\ b.carrier = r.carrier /\ b.saved = r.saved
      /\ b.level = l /\ b.state = r.state /\ b.channel = r.channel /\ b.stale = r.stale
      /\ (Answers(b) <=> Answers(r))
  BY <1>1 DEF Radios, Answers
<1>3. /\ Same(p, b) /\ p.ok \in BOOLEAN /\ p.ce = r.ce /\ p.reuse = r.reuse
      /\ Answers(r) => p.ok /\ p.regs = [r.regs EXCEPT !.wave = FALSE, !.level = l]
  BY <1>1, PowerLevelGives
<1> HIDE DEF b, p
<1>4. s = IF p.ok THEN p ELSE [p EXCEPT !.state = "Fault"]
  BY DEF SetPowerLevel, p
<1> HIDE DEF s
<1>5. /\ s \in Radios /\ s.state \in {"Standby", "Fault"} /\ s.channel = r.channel
      /\ s.carrier = r.carrier /\ s.saved = r.saved /\ (Answers(s) <=> Answers(r))
  <2>1. CASE p.ok
    BY <1>1, <1>2, <1>3, <1>4, <2>1 DEF Same
  <2>2. CASE ~ p.ok
    BY <1>1, <1>2, <1>3, <1>4, <2>2 DEF Same, Radios, States, Answers
  <2> QED BY <2>1, <2>2
<1>6. Answers(r) => s = p
  BY <1>3, <1>4
<1>7. so => Steady(s, clean)
  <2> SUFFICES ASSUME so PROVE Steady(s, clean)
    OBVIOUS
  <2>1. Good(r, "Standby", clean) /\ Answers(r)
    BY DEF RadioInv, Steady
  <2>2. /\ s.state = "Standby" /\ s.level = l /\ s.ce = r.ce /\ s.reuse = r.reuse
        /\ s.channel = r.channel /\ s.regs = [r.regs EXCEPT !.wave = FALSE, !.level = l]
        /\ s.stale = r.stale
    BY <1>2, <1>3, <1>6, <2>1 DEF Same
  <2>3. Good(s, "Standby", clean)
    BY <1>1, <2>1, <2>2 DEF Good, Packet, Fits, Known, Framed, Tuned, Registers
  <2> QED BY <2>2, <2>3 DEF Steady, Good
<1>8. RadioInv(s, c, clean, so)
  BY <1>5, <1>7 DEF RadioInv, Kept, Paired, PlainSaved
<1> QED BY <1>5, <1>8 DEF s

\* In packet mode and in standby the registers are those of a chip that is ready.
LEMMA StandbyIsReady ==
    ASSUME NEW r \in Radios, Framed(r), Tuned(r), r.regs.power = TRUE, r.regs.prx = FALSE
    PROVE  r.regs = Ready(r.channel, r.level)
<1>1. r.regs \in Registers
  BY DEF Radios
<1>2. /\ r.regs.wave = FALSE /\ r.regs.framed = TRUE
      /\ r.regs.channel = r.channel /\ r.regs.level = r.level
  BY <1>1 DEF Framed, Tuned, Registers
<1>3. r.regs = [power |-> r.regs.power, prx |-> r.regs.prx, wave |-> r.regs.wave,
                framed |-> r.regs.framed, channel |-> r.regs.channel,
                level |-> r.regs.level]
  BY <1>1 DEF Registers
<1> QED BY <1>2, <1>3 DEF Ready

\* The carrier is on, or the radio is in a fault.
Keyed(s) == s.ok \in BOOLEAN /\ s.state = IF s.ok THEN "CwTest" ELSE "Fault"

\* A carrier, started from standby.
LEMMA StartCwKeeps ==
    ASSUME NEW r, NEW c, NEW clean, NEW so,
           RadioInv(r, c, clean, so), r.state = "Standby",
           NEW ch \in 0..125, NEW l \in 0..3, NEW sent \in BOOLEAN
    PROVE  RadioInv(StartCw(r, ch, l, sent), c, clean, so) /\ Keyed(StartCw(r, ch, l, sent))
<1>0. c \in 0..125 /\ clean \in BOOLEAN /\ so \in BOOLEAN
  BY DEF RadioInv
<1> USE <1>0
<1> DEFINE q == StartContinuousCarrier(r, ch, l, sent)
           old == r.stale \/ r.carrier # "None"
           p == [q EXCEPT !.stale = old]
           s == StartCw(r, ch, l, sent)
<1>1. r \in Radios /\ Paired(r) /\ r.channel = c
  BY DEF RadioInv, Kept
<1>2. /\ Alike(q, r) /\ Paired(q) /\ q.ok \in BOOLEAN /\ (q.ok <=> q.carrier # "None")
      /\ Answers(r) =>
            IF q.ok
            THEN Radiates(q) /\ q.regs.channel = ch /\ q.saved.regs = Found(r)
            ELSE q.regs = Found(r) /\ ~ q.reuse /\ ~ q.ce
  BY <1>1, StartCarrierGives
<1> HIDE DEF q
<1>3. /\ p \in Radios /\ p.ok = q.ok /\ p.regs = q.regs /\ p.ce = q.ce /\ p.reuse = q.reuse
      /\ p.bus = q.bus /\ p.carrier = q.carrier /\ p.saved = q.saved /\ p.level = r.level
      /\ p.channel = r.channel /\ p.stale = old
  <2>1. q \in Radios /\ old \in BOOLEAN /\ q.level = r.level /\ q.channel = r.channel
    BY <1>1, <1>2 DEF Alike, Radios
  <2> HIDE DEF old
  <2> QED BY <2>1 DEF Radios
<1>4. s = IF p.ok
          THEN [p EXCEPT !.before = r.channel, !.restorable = TRUE, !.channel = ch,
                         !.state = "CwTest"]
          ELSE [p EXCEPT !.state = "Fault"]
  BY DEF StartCw, q
<1> HIDE DEF p, s
<1>5. Answers(p) <=> Answers(r)
  BY <1>2, <1>3 DEF Alike, Answers
<1>6. so => /\ Answers(r)
            /\ clean => Plain(Found(r))
            /\ ~ old => Found(r) = Ready(r.channel, r.level)
  <2> SUFFICES ASSUME so
               PROVE  /\ Answers(r)
                      /\ clean => Plain(Found(r))
                      /\ ~ old => Found(r) = Ready(r.channel, r.level)
    OBVIOUS
  <2>1. Answers(r) /\ Good(r, "Standby", clean) /\ (clean => PlainSaved(r))
    BY DEF RadioInv, Steady
  <2>2. r.regs.power \in BOOLEAN /\ r.regs.prx \in BOOLEAN
    BY <1>1 DEF Radios, Registers
  <2>3. clean => Plain(Found(r))
    BY <2>1, <2>2 DEF Good, Packet, Fits, Known, Framed, Plain, PlainSaved, Found
  <2>4. ASSUME ~ old PROVE Found(r) = Ready(r.channel, r.level)
    <3>1. /\ Framed(r) /\ Tuned(r) /\ r.regs.power = TRUE /\ r.regs.prx = FALSE
          /\ Found(r) = r.regs
      BY <2>1, <2>2, <2>4 DEF Good, Packet, Fits, Known, Found
    <3> QED BY <1>1, <3>1, StandbyIsReady
  <2> QED BY <2>1, <2>3, <2>4
<1>7. CASE p.ok
  <2>1. s = [p EXCEPT !.before = r.channel, !.restorable = TRUE, !.channel = ch,
                      !.state = "CwTest"]
    BY <1>4, <1>7
  <2>2. r.channel \in 0..125
    BY <1>1 DEF Radios
  <2>3. /\ s \in Radios /\ s.state = "CwTest" /\ s.before = r.channel /\ s.restorable = TRUE
        /\ s.channel = ch /\ s.ok = p.ok /\ s.carrier = p.carrier /\ s.saved = p.saved
    BY <1>3, <2>1, <2>2 DEF Radios, States
  <2>4. /\ s.regs = p.regs /\ s.ce = p.ce /\ s.reuse = p.reuse /\ s.bus = p.bus
        /\ s.level = p.level /\ s.stale = p.stale
    BY <1>3, <2>1 DEF Radios
  <2>5. Answers(s) <=> Answers(r)
    BY <1>5, <2>4 DEF Answers
  <2>6. so => Radiates(s) /\ s.regs.channel = ch /\ s.saved.regs = Found(r)
    BY <1>2, <1>3, <1>6, <1>7, <2>3, <2>4 DEF Radiates
  <2>7. so => Steady(s, clean)
    BY <1>3, <1>6, <2>3, <2>4, <2>6 DEF Steady
  <2>8. clean => so /\ PlainSaved(s)
    BY <1>6, <2>6 DEF RadioInv, PlainSaved
  <2>9. Kept(s, c) /\ Paired(s) /\ s.carrier # "None"
    BY <1>1, <1>2, <1>3, <1>7, <2>3 DEF Kept, Paired
  <2>10. RadioInv(s, c, clean, so)
    BY <1>6, <2>3, <2>5, <2>7, <2>8, <2>9 DEF RadioInv
  <2> QED BY <1>2, <1>3, <1>7, <2>3, <2>10 DEF s, Keyed
<1>8. CASE ~ p.ok
  <2>1. s = [p EXCEPT !.state = "Fault"]
    BY <1>4, <1>8
  <2>2. /\ s \in Radios /\ s.state = "Fault" /\ s.channel = r.channel /\ s.level = r.level
        /\ s.ok = p.ok /\ s.carrier = p.carrier /\ s.saved = p.saved /\ s.ce = p.ce
        /\ s.regs = p.regs /\ s.reuse = p.reuse /\ s.bus = p.bus /\ s.stale = p.stale
    BY <1>3, <2>1 DEF Radios, States
  <2>3. Answers(s) <=> Answers(r)
    BY <1>5, <2>2 DEF Answers
  <2>4. so => Packet(s, clean)
    <3>1. so => s.regs = Found(r) /\ ~ s.reuse /\ ~ s.ce /\ s.stale = old
      BY <1>2, <1>3, <1>6, <1>8, <2>2
    <3>2. ASSUME so, clean PROVE Framed(s)
      <4>1. Plain(Found(r)) /\ s.regs = Found(r) /\ ~ s.reuse
        BY <1>6, <3>1, <3>2
      <4> QED BY <4>1 DEF Framed, Plain
    <3>3. ASSUME so, ~ s.stale PROVE Framed(s) /\ Tuned(s)
      <4>1. s.stale = old /\ s.regs = Found(r) /\ ~ s.reuse
        BY <3>1, <3>3
      <4> HIDE DEF old
      <4>2. Found(r) = Ready(r.channel, r.level)
        BY <1>6, <3>3, <4>1
      <4> QED BY <2>2, <4>1, <4>2 DEF Framed, Tuned, Ready
    <3> QED BY <3>1, <3>2, <3>3 DEF Packet, Known
  <2>5. so => Steady(s, clean)
    BY <2>2, <2>4 DEF Steady
  <2>6. Kept(s, c) /\ Paired(s) /\ s.carrier = "None"
    BY <1>1, <1>2, <1>3, <1>8, <2>2 DEF Kept, Paired
  <2>7. clean => so /\ PlainSaved(s)
    BY <2>6 DEF RadioInv, PlainSaved
  <2>8. RadioInv(s, c, clean, so)
    BY <1>6, <2>2, <2>3, <2>5, <2>6, <2>7 DEF RadioInv
  <2> QED BY <1>2, <1>3, <1>8, <2>2, <2>8 DEF s, Keyed
<1> QED BY <1>7, <1>8

-----------------------------------------------------------------------------
(* What the application calls.                                             *)

\* A chip that answers is sound once a fault has been left.
Mended(so, r) == so \/ (r.state = "Fault" /\ Answers(r))

\* ensureStandby returns from any state to standby, or reports a fault.
LEMMA EnsureStandbyKeeps ==
    ASSUME NEW r, NEW c, NEW clean, NEW so,
           RadioInv(r, c, clean, so)
    PROVE  /\ RadioInv(EnsureStandby(r), c, clean, Mended(so, r))
           /\ EnsureStandby(r).ok \in BOOLEAN
           /\ Ends(EnsureStandby(r), EnsureStandby(r).ok, "Standby")
<1>0. c \in 0..125 /\ clean \in BOOLEAN /\ so \in BOOLEAN
  BY DEF RadioInv
<1> USE <1>0
<1> DEFINE s == EnsureStandby(r)
<1>1. r \in Radios /\ r.state \in States /\ r.state # "Boot"
  BY DEF RadioInv, Radios
<1>2. ASSUME RadioInv(s, c, clean, so), r.state # "Fault"
      PROVE  RadioInv(s, c, clean, Mended(so, r))
  BY <1>2 DEF Mended, RadioInv
<1>3. CASE r.state = "Fault"
  <2> DEFINE b == Boot(r, r.channel)
  <2>1. Paired(r) /\ (clean => Answers(r) /\ PlainSaved(r)) /\ r.channel = c
    BY <1>3 DEF RadioInv, Kept
  <2>2. /\ RadioInv(b, c, clean, Answers(r)) /\ b.ok \in BOOLEAN
        /\ b.state = IF b.ok THEN "Standby" ELSE "Fault"
    BY <1>1, <2>1, BootKeeps
  <2>3. s = b
    BY <1>3 DEF EnsureStandby
  <2> HIDE DEF b, s
  <2>4. (Mended(so, r) => Answers(r)) /\ Mended(so, r) \in BOOLEAN
    BY DEF Mended, RadioInv
  <2>5. RadioInv(b, c, clean, Mended(so, r))
    <3>1. clean => Mended(so, r)
      BY DEF Mended, RadioInv
    <3> QED BY <2>2, <2>4, <3>1 DEF RadioInv
  <2> QED BY <2>2, <2>3, <2>5 DEF Ends, s
<1>4. CASE r.state = "CwTest"
  <2>1. /\ RadioInv(StopCw(r), c, clean, so) /\ StopCw(r).state = "Standby"
        /\ StopCw(r).ok = TRUE
    BY <1>4, StopCwKeeps
  <2>2. s = StopCw(r) /\ r.state # "Fault"
    BY <1>4 DEF EnsureStandby
  <2> QED BY <1>2, <2>1, <2>2 DEF Ends
<1>5. CASE r.state = "RxListening"
  <2>1. RadioInv(LeaveRx(r), c, clean, so) /\ Ends(LeaveRx(r), TRUE, "Standby")
    BY <1>5, LeaveRxKeeps
  <2>2. s = LeaveRx(r) /\ r.state # "Fault"
    BY <1>5 DEF EnsureStandby
  <2> QED BY <1>2, <2>1, <2>2 DEF Ends
<1>6. CASE r.state \in {"Sleep", "PowerDown"}
  <2>1. RadioInv(Wake(r), c, clean, so) /\ Ends(Wake(r), TRUE, "Standby")
    BY <1>6, WakeKeeps
  <2>2. s = Wake(r) /\ r.state # "Fault"
    BY <1>6 DEF EnsureStandby
  <2> QED BY <1>2, <2>1, <2>2 DEF Ends
<1>7. CASE r.state = "Standby"
  <2> DEFINE p == Returns(r, TRUE)
  <2>1. Same(p, r) /\ p.ok = TRUE /\ p.regs = r.regs /\ p.ce = r.ce /\ p.reuse = r.reuse
    <3>1. TRUE \in BOOLEAN /\ r \in Radios
      BY <1>1
    <3> QED BY <3>1, ReturnsGives
  <2>2. s = p /\ r.state # "Fault"
    BY <1>7 DEF EnsureStandby
  <2> HIDE DEF p, s
  <2>3. so => Good(p, "Standby", clean)
    BY <1>7, <2>1 DEF RadioInv, Steady, Good, Packet, Fits, Known, Framed, Tuned, Same
  <2>4. so => Steady(p, clean)
    BY <1>7, <2>1, <2>3 DEF Steady, Good, Same
  <2>5. RadioInv(p, c, clean, so)
    BY <1>7, <2>1, <2>4 DEF RadioInv, Same, Kept, Paired, PlainSaved
  <2>6. Ends(p, TRUE, "Standby")
    BY <1>7, <2>1 DEF Ends, Same
  <2> QED BY <1>2, <2>1, <2>2, <2>5, <2>6 DEF s
<1> QED BY <1>1, <1>3, <1>4, <1>5, <1>6, <1>7 DEF States

\* RX, and a carrier, from any state.
LEMMA StartRxLockedKeeps ==
    ASSUME NEW r, NEW c, NEW clean, NEW so,
           RadioInv(r, c, clean, so)
    PROVE  /\ RadioInv(StartRxLocked(r), c, clean, Mended(so, r))
           /\ StartRxLocked(r).state # "CwTest"
<1> DEFINE s == EnsureStandby(r)
           m == Mended(so, r)
<1>1. RadioInv(s, c, clean, m) /\ s.ok \in BOOLEAN /\ Ends(s, s.ok, "Standby")
  BY EnsureStandbyKeeps
<1>2. StartRxLocked(r) = IF s.ok THEN EnterRx(s) ELSE s
  BY DEF StartRxLocked
<1> HIDE DEF s, m
<1>3. CASE s.ok
  <2>1. s.state # "CwTest"
    BY <1>1, <1>3 DEF Ends
  <2>2. RadioInv(EnterRx(s), c, clean, m) /\ Ends(EnterRx(s), TRUE, "RxListening")
    BY <1>1, <2>1, EnterRxKeeps
  <2> QED BY <1>2, <1>3, <2>2 DEF Ends, m
<1>4. CASE ~ s.ok
  BY <1>1, <1>2, <1>4 DEF Ends, m
<1> QED BY <1>3, <1>4

\* No carrier is on unless the call reports it.
OnIfOk(s) == ~ s.ok => s.state # "CwTest"

LEMMA CarrierLockedKeeps ==
    ASSUME NEW r, NEW c, NEW clean, NEW so,
           RadioInv(r, c, clean, so), NEW ch \in 0..125, NEW l \in 0..3, NEW sent \in BOOLEAN
    PROVE  /\ RadioInv(CarrierLocked(r, ch, l, sent), c, clean, Mended(so, r))
           /\ OnIfOk(CarrierLocked(r, ch, l, sent))
<1> DEFINE s == EnsureStandby(r)
           m == Mended(so, r)
           t == CarrierLocked(r, ch, l, sent)
<1>1. RadioInv(s, c, clean, m) /\ s.ok \in BOOLEAN /\ Ends(s, s.ok, "Standby")
  BY EnsureStandbyKeeps
<1>2. t = IF s.ok THEN StartCw(s, ch, l, sent) ELSE s
  BY DEF CarrierLocked
<1> HIDE DEF s, m, t
<1>3. CASE s.ok
  <2>1. RadioInv(s, c, clean, m) /\ s.state = "Standby"
    BY <1>1, <1>3 DEF Ends
  <2>2. RadioInv(StartCw(s, ch, l, sent), c, clean, m) /\ Keyed(StartCw(s, ch, l, sent))
    <3>1. RadioInv(StartCw(s, ch, l, sent), c, clean, m)
      BY <2>1, StartCwKeeps, ZenonT(40)
    <3>2. Keyed(StartCw(s, ch, l, sent))
      BY <2>1, StartCwKeeps, ZenonT(40)
    <3> QED BY <3>1, <3>2
  <2> QED BY <1>2, <1>3, <2>2 DEF Keyed, OnIfOk, m, t
<1>4. CASE ~ s.ok
  BY <1>1, <1>2, <1>4 DEF Ends, OnIfOk, m, t
<1> QED BY <1>3, <1>4

\* A text or a remote command, after which RX may be resumed.
LEMMA SendLockedKeeps ==
    ASSUME NEW r, NEW c, NEW clean, NEW so,
           RadioInv(r, c, clean, so), NEW how \in Outcomes
    PROVE  LET t == SendLocked(r, how)
           IN /\ RadioInv(t, c, clean, Mended(so, r)) /\ t.state # "CwTest"
              /\ RadioInv(EnterRx(t), c, clean, Mended(so, r)) /\ EnterRx(t).state # "CwTest"
<1> DEFINE s == EnsureStandby(r)
           m == Mended(so, r)
           t == SendLocked(r, how)
<1>1. RadioInv(s, c, clean, m) /\ s.ok \in BOOLEAN /\ Ends(s, s.ok, "Standby")
  BY EnsureStandbyKeeps
<1>2. t = IF s.ok THEN SendPayload(s, how) ELSE s
  BY DEF SendLocked
<1> HIDE DEF s, m, t
<1>3. RadioInv(t, c, clean, m) /\ t.state # "CwTest"
  <2>1. s.state # "CwTest"
    BY <1>1 DEF Ends
  <2>2. /\ RadioInv(SendPayload(s, how), c, clean, m)
        /\ Ends(SendPayload(s, how), how # "fail", "Standby")
    BY <1>1, <2>1, SendKeeps
  <2> QED BY <1>1, <1>2, <2>1, <2>2 DEF Ends
<1>4. RadioInv(EnterRx(t), c, clean, m) /\ Ends(EnterRx(t), TRUE, "RxListening")
  BY <1>3, EnterRxKeeps
<1> QED BY <1>3, <1>4 DEF Ends, m, t

\* The response of the receive worker, and one turn of a file pass.
LEMMA RespondKeeps ==
    ASSUME NEW r, NEW c, NEW clean, NEW so,
           RadioInv(r, c, clean, so), r.state = "RxListening", NEW how \in Outcomes
    PROVE  RadioInv(Respond(r, how), c, clean, so) /\ Respond(r, how).state # "CwTest"
<1> DEFINE p == LeaveRx(r)
           q == SendPayload(p, how)
<1>1. RadioInv(p, c, clean, so) /\ Ends(p, TRUE, "Standby")
  BY LeaveRxKeeps
<1>2. p.state # "CwTest"
  BY <1>1 DEF Ends
<1> HIDE DEF p
<1>3. RadioInv(q, c, clean, so) /\ Ends(q, how # "fail", "Standby")
  BY <1>1, <1>2, SendKeeps
<1>4. q.state # "CwTest"
  BY <1>3 DEF Ends
<1> HIDE DEF q
<1>5. RadioInv(EnterRx(q), c, clean, so) /\ Ends(EnterRx(q), TRUE, "RxListening")
  BY <1>3, <1>4, EnterRxKeeps
<1> QED BY <1>5 DEF Respond, Ends, p, q

LEMMA FrameTurnKeeps ==
    ASSUME NEW r, NEW c, NEW clean, NEW so,
           RadioInv(r, c, clean, so), r.state # "CwTest", NEW how \in Outcomes,
           NEW read \in BOOLEAN
    PROVE  RadioInv(FrameTurn(r, how, read), c, clean, so)
           /\ FrameTurn(r, how, read).state # "CwTest"
<1> DEFINE s == SendPayload(r, how)
           e == EnterRx(s)
           t == ReceivePayload(e, read)
           u == LeaveRx(t)
<1>1. FrameTurn(r, how, read) =
        IF ~ s.ok THEN s ELSE IF t.state = "RxListening" THEN u ELSE t
  BY DEF FrameTurn
<1>2. RadioInv(s, c, clean, so) /\ Ends(s, how # "fail", "Standby")
  BY SendKeeps
<1>3. s.state # "CwTest"
  BY <1>2 DEF Ends
<1> HIDE DEF s
<1>4. RadioInv(e, c, clean, so) /\ Ends(e, TRUE, "RxListening")
  BY <1>2, <1>3, EnterRxKeeps
<1>5. e.state = "RxListening"
  BY <1>4 DEF Ends
<1> HIDE DEF e
<1>6. RadioInv(t, c, clean, so) /\ Ends(t, read, "RxListening")
  BY <1>4, <1>5, ReceiveKeeps
<1>7. t.state # "CwTest"
  BY <1>6 DEF Ends
<1> HIDE DEF t
<1>8. t.state = "RxListening" => RadioInv(u, c, clean, so) /\ Ends(u, TRUE, "Standby")
  BY <1>6, LeaveRxKeeps
<1>9. t.state = "RxListening" => u.state # "CwTest"
  BY <1>8 DEF Ends
<1> QED BY <1>1, <1>2, <1>3, <1>6, <1>7, <1>8, <1>9

-----------------------------------------------------------------------------
(* The invariant.                                                          *)

Loops == [kind : {"none", "cw", "tx", "morse"}, asked : BOOLEAN,
          channel : 0..125, level : 0..3]

\* The types of all but the radio.
RestOK ==
    /\ loop \in Loops
    /\ worker \in {"idle", "on", "report", "off", "pass", "key", "resume", "resuming"}
    /\ test \in BOOLEAN
    /\ configured \in 0..125
    /\ sound \in BOOLEAN
    /\ faults \in 0..MaxFaults

\* Nobody keys the carrier during a file pass, nor once the worker has ended its
\* own and rests; and only a carrier loop gets that far.
Quiet == worker \in {"pass", "report", "off"} => radio.state # "CwTest"
Cycle == worker \in {"on", "report", "off"} => loop.kind = "cw"

ControlInv == RestOK /\ RadioInv(radio, configured, faults = 0, sound) /\ Quiet /\ Cycle

\* What a step keeps of the radio, and that a loop it ends leaves no carrier.
RadioKept == RadioInv(radio, configured, faults = 0, sound)'
NoCarrierLeft == loop.kind # "none" /\ loop'.kind = "none" => radio'.state # "CwTest"
StepKeeps == RestOK' /\ RadioKept /\ Quiet' /\ Cycle' /\ NoCarrierLeft

\* Leaving the radio as r keeps what is known if r does.
LEMMA LeavesKeeps ==
    ASSUME ControlInv, NEW r, Leaves(r), configured' = configured, faults' = faults,
           RadioInv(r, configured, faults = 0, Mended(sound, radio))
    PROVE  RadioKept /\ radio' = r /\ sound' \in BOOLEAN
<1>1. radio' = r /\ sound' \in BOOLEAN
  BY DEF Leaves
<1>2. sound' => Mended(sound, radio)
  BY DEF Leaves, Mended, ControlInv, RadioInv
<1>3. RadioInv(r, configured, faults = 0, sound')
  <2>1. sound => sound'
    BY DEF Leaves
  <2> QED BY <1>1, <1>2, <2>1 DEF RadioInv, ControlInv
<1> QED BY <1>1, <1>3 DEF RadioKept

\* A command that leaves no carrier, or comes while there is no loop.
LEMMA CommandKeeps ==
    ASSUME ControlInv, NEW r, Commanded(r),
           RadioInv(r, configured, faults = 0, Mended(sound, radio)),
           loop' \in Loops, loop'.kind = loop.kind,
           r.state # "CwTest" \/ (loop.kind = "none" /\ Free)
    PROVE  StepKeeps
<1>1. /\ Leaves(r) /\ worker' = worker /\ test' = test /\ configured' = configured
      /\ faults' = faults
  BY DEF Commanded
<1>2. RadioKept /\ radio' = r /\ sound' \in BOOLEAN
  BY <1>1, LeavesKeeps
<1>3. RestOK'
  BY <1>1, <1>2 DEF ControlInv, RestOK
<1>4. Quiet' /\ Cycle'
  BY <1>1, <1>2 DEF ControlInv, Quiet, Cycle, Free
<1>5. NoCarrierLeft
  BY DEF NoCarrierLeft
<1> QED BY <1>2, <1>3, <1>4, <1>5 DEF StepKeeps

\* No loop, and none that is asked to stop.
LEMMA StoppedKeepsLoop ==
    ASSUME ControlInv, LoopStopped
    PROVE  loop' \in Loops /\ loop'.kind = loop.kind /\ loop.kind = "none" /\ Free
BY DEF LoopStopped, ControlInv, RestOK, Loops

LEMMA ToStandbyKeeps ==
    ASSUME ControlInv, LoopStopped, Commanded(EnsureStandby(radio)) PROVE StepKeeps
<1>1. RadioInv(radio, configured, faults = 0, sound)
  BY DEF ControlInv, RestOK
<1>2. RadioInv(EnsureStandby(radio), configured, faults = 0, Mended(sound, radio))
  BY <1>1, EnsureStandbyKeeps
<1> QED BY <1>2, StoppedKeepsLoop, CommandKeeps

\* SLEEP and POWERDOWN.
LEMMA PoweringOffKeeps ==
    ASSUME ControlInv, LoopStopped, NEW state \in {"Sleep", "PowerDown"}, NEW s,
           s = EnsureStandby(radio),
           Commanded(IF s.ok THEN Enters(PowerDown(s), state) ELSE s)
    PROVE  StepKeeps
<1> DEFINE m == Mended(sound, radio)
           t == IF s.ok THEN Enters(PowerDown(s), state) ELSE s
<1>1. RadioInv(radio, configured, faults = 0, sound)
  BY DEF ControlInv, RestOK
<1>2. RadioInv(s, configured, faults = 0, m) /\ Ends(s, s.ok, "Standby")
  BY <1>1, EnsureStandbyKeeps
<1>3. s.ok => s.state = "Standby"
  BY <1>2 DEF Ends
<1> HIDE DEF m
<1>4. s.ok => RadioInv(Enters(PowerDown(s), state), configured, faults = 0, m)
  BY <1>1, <1>2, <1>3, PowerOffKeeps
<1>5. RadioInv(t, configured, faults = 0, m) /\ Commanded(t)
  BY <1>2, <1>4
<1> HIDE DEF t
<1> QED BY <1>5, StoppedKeepsLoop, CommandKeeps DEF m

LEMMA PowerCommandKeeps ==
    ASSUME ControlInv, NEW l \in Levels, CommandPower(l) PROVE StepKeeps
<1> DEFINE m == Mended(sound, radio)
           s == EnsureStandby(radio)
           t == IF s.ok THEN SetPowerLevel(s, l) ELSE s
<1>1. RadioInv(radio, configured, faults = 0, sound) /\ l \in 0..3
  BY ControlAssumption DEF ControlInv, RestOK
<1>2. RadioInv(s, configured, faults = 0, m) /\ Ends(s, s.ok, "Standby")
  BY <1>1, EnsureStandbyKeeps
<1>3. s.ok => s.state = "Standby"
  BY <1>2 DEF Ends
<1>4. LoopStopped /\ Commanded(t)
  BY DEF CommandPower, Then
<1> HIDE DEF m, s
<1>5. s.ok => RadioInv(SetPowerLevel(s, l), configured, faults = 0, m)
  BY <1>1, <1>2, <1>3, PowerLevelKeeps
<1>6. RadioInv(t, configured, faults = 0, m)
  BY <1>2, <1>5
<1> HIDE DEF t
<1> QED BY <1>4, <1>6, StoppedKeepsLoop, CommandKeeps DEF m

\* CW START and RX.
LEMMA CarrierCommandKeeps ==
    ASSUME ControlInv, NEW c \in Channels, NEW l \in Levels, NEW sent \in BOOLEAN,
           CommandCwStart(c, l, sent)
    PROVE  StepKeeps
<1> DEFINE t == CarrierLocked(radio, c, l, sent)
<1>1. RadioInv(radio, configured, faults = 0, sound) /\ c \in 0..125 /\ l \in 0..3
  BY ControlAssumption DEF ControlInv, RestOK
<1>2. RadioInv(t, configured, faults = 0, Mended(sound, radio))
  BY <1>1, CarrierLockedKeeps
<1>3. LoopStopped /\ Commanded(t)
  BY DEF CommandCwStart
<1> HIDE DEF t
<1> QED BY <1>2, <1>3, StoppedKeepsLoop, CommandKeeps

LEMMA RxCommandKeeps ==
    ASSUME ControlInv, CommandRx PROVE StepKeeps
<1>1. RadioInv(radio, configured, faults = 0, sound)
  BY DEF ControlInv, RestOK
<1>2. RadioInv(StartRxLocked(radio), configured, faults = 0, Mended(sound, radio))
  BY <1>1, StartRxLockedKeeps
<1>3. Commanded(StartRxLocked(radio)) /\ loop' = loop /\ loop.kind = "none" /\ Free
      /\ loop' \in Loops
  BY DEF CommandRx, ControlInv, RestOK
<1> QED BY <1>2, <1>3, CommandKeeps

\* TEXT and REMOTE, which may come between two steps of a loop.
LEMMA SendingKeeps ==
    ASSUME ControlInv, NEW how \in Outcomes, NEW t, t = SendLocked(radio, how), NEW u,
           u \in {t, EnterRx(t)}, Commanded(u), UNCHANGED loop
    PROVE  StepKeeps
<1>1. RadioInv(radio, configured, faults = 0, sound)
  BY DEF ControlInv, RestOK
<1>2. /\ RadioInv(t, configured, faults = 0, Mended(sound, radio)) /\ t.state # "CwTest"
      /\ RadioInv(EnterRx(t), configured, faults = 0, Mended(sound, radio))
      /\ EnterRx(t).state # "CwTest"
  BY <1>1, SendLockedKeeps
<1>3. RadioInv(u, configured, faults = 0, Mended(sound, radio)) /\ u.state # "CwTest"
  BY <1>2
<1>4. loop' = loop /\ loop' \in Loops
  BY DEF ControlInv, RestOK
<1> QED BY <1>3, <1>4, CommandKeeps

\* CHANNEL boots the chip, whatever it was doing.
LEMMA ChannelKeeps ==
    ASSUME ControlInv, NEW c \in Channels, CommandChannel(c) PROVE StepKeeps
<1> DEFINE clean == faults = 0
           b == Boot(radio, c)
<1>1. radio \in Radios /\ Paired(radio) /\ (clean => Answers(radio) /\ PlainSaved(radio))
      /\ c \in 0..125 /\ clean \in BOOLEAN /\ (sound => Answers(radio))
  BY ControlAssumption DEF ControlInv, RestOK, RadioInv
<1>2. /\ radio' = b /\ sound' = (sound \/ Answers(radio)) /\ configured' = c
      /\ worker' = worker /\ test' = test /\ faults' = faults
      /\ LoopStopped
  BY DEF CommandChannel
<1> HIDE DEF clean
<1>3. RadioInv(b, c, clean, Answers(radio))
  BY <1>1, BootKeeps
<1> HIDE DEF b
<1>4. sound' = Answers(radio)
  BY <1>1, <1>2 DEF Answers
<1>5. RadioKept
  BY <1>2, <1>3, <1>4 DEF RadioKept, clean
<1>6. loop' \in Loops /\ loop'.kind = loop.kind /\ loop.kind = "none" /\ Free
  BY <1>2, StoppedKeepsLoop
<1>7. RestOK'
  BY <1>1, <1>2, <1>6 DEF ControlInv, RestOK
<1>8. Quiet' /\ Cycle'
  BY <1>2, <1>6 DEF ControlInv, Quiet, Cycle, Free
<1> QED BY <1>5, <1>6, <1>7, <1>8 DEF StepKeeps, NoCarrierLeft

\* TESTMODE ON ends a carrier, or reception, and nothing else.
LEMMA TestModeOnKeeps ==
    ASSUME ControlInv, TestModeOn PROVE StepKeeps
<1>1. RadioInv(radio, configured, faults = 0, sound)
  BY DEF ControlInv, RestOK
<1>2. /\ radio' = CASE radio.state = "CwTest" -> StopCw(radio)
                    [] radio.state = "RxListening" -> LeaveRx(radio)
                    [] OTHER -> radio
      /\ test' = TRUE /\ worker' = worker /\ configured' = configured
      /\ sound' = sound /\ faults' = faults /\ LoopStopped
  BY DEF TestModeOn
<1>3. RadioInv(radio', configured, faults = 0, sound)
  <2>1. CASE radio.state = "CwTest"
    BY <1>1, <1>2, <2>1, StopCwKeeps
  <2>2. CASE radio.state = "RxListening"
    BY <1>1, <1>2, <2>2, LeaveRxKeeps
  <2>3. CASE radio.state \notin {"CwTest", "RxListening"}
    BY <1>1, <1>2, <2>3
  <2> QED BY <2>1, <2>2, <2>3
<1>4. loop' \in Loops /\ loop'.kind = loop.kind /\ loop.kind = "none" /\ Free
  BY <1>2, StoppedKeepsLoop
<1>5. RadioKept
  BY <1>2, <1>3 DEF RadioKept
<1>6. RestOK'
  BY <1>2, <1>4 DEF ControlInv, RestOK
<1>7. Quiet' /\ Cycle'
  BY <1>2, <1>4 DEF ControlInv, Quiet, Cycle, Free
<1> QED BY <1>4, <1>5, <1>6, <1>7 DEF StepKeeps, NoCarrierLeft

\* Steps that leave the radio alone.
LEMMA RadioAloneKeeps ==
    ASSUME ControlInv, UNCHANGED <<radio, sound, configured, faults>>, RestOK', Cycle',
           worker' \in {"pass", "report", "off"} => worker \in {"pass", "report", "off"},
           loop.kind # "none" /\ loop'.kind = "none" => worker \in {"pass", "report", "off"}
    PROVE  StepKeeps
<1>1. RadioKept
  BY DEF RadioKept, ControlInv
<1> QED BY <1>1 DEF StepKeeps, ControlInv, Quiet, NoCarrierLeft

LEMMA AskStopKeeps ==
    ASSUME ControlInv, AskStop PROVE StepKeeps
<1>1. loop' = [loop EXCEPT !.asked = TRUE] /\ loop \in Loops /\ loop.kind # "none"
      /\ UNCHANGED <<radio, worker, test, configured, sound, faults>>
  BY DEF AskStop, ControlInv, RestOK
<1>2. loop' \in Loops /\ loop'.kind = loop.kind
  BY <1>1 DEF Loops
<1>3. RestOK' /\ Cycle'
  BY <1>1, <1>2 DEF ControlInv, RestOK, Cycle
<1> QED BY <1>1, <1>2, <1>3, RadioAloneKeeps

LEMMA StartLoopKeeps ==
    ASSUME ControlInv, NEW kind \in {"cw", "tx", "morse"}, NEW c \in 0..125, NEW l \in 0..3,
           StartLoop(kind, c, l)
    PROVE  StepKeeps
<1>1. /\ loop' = [kind |-> kind, asked |-> FALSE, channel |-> c, level |-> l]
      /\ loop.kind = "none"
      /\ UNCHANGED <<radio, worker, test, configured, sound, faults>>
  BY DEF StartLoop
<1>2. loop' \in Loops
  BY <1>1 DEF Loops
<1>3. RestOK' /\ Cycle'
  BY <1>1, <1>2 DEF ControlInv, RestOK, Cycle
<1> QED BY <1>1, <1>3, RadioAloneKeeps

\* STORAGE TXHEX leaves standby and starts the loop.
LEMMA StoredTxKeeps ==
    ASSUME ControlInv, CommandStoredTx PROVE StepKeeps
<1> DEFINE s == EnsureStandby(radio)
<1>1. RadioInv(radio, configured, faults = 0, sound)
  BY DEF ControlInv, RestOK
<1>2. RadioInv(s, configured, faults = 0, Mended(sound, radio)) /\ Ends(s, s.ok, "Standby")
  BY <1>1, EnsureStandbyKeeps
<1>3. /\ Leaves(s) /\ worker' = worker /\ test' = test /\ configured' = configured
      /\ faults' = faults /\ loop.kind = "none"
      /\ loop' = [kind |-> "tx", asked |-> FALSE, channel |-> 76, level |-> 3]
  BY DEF CommandStoredTx, Commanded
<1> HIDE DEF s
<1>4. RadioKept /\ radio' = s /\ sound' \in BOOLEAN
  BY <1>2, <1>3, LeavesKeeps
<1>5. loop' \in Loops /\ loop'.kind = "tx"
  BY <1>3 DEF Loops
<1>6. RestOK'
  BY <1>3, <1>4, <1>5 DEF ControlInv, RestOK
<1>7. Quiet' /\ Cycle'
  BY <1>2, <1>3, <1>4 DEF ControlInv, Quiet, Cycle, Ends
<1> QED BY <1>4, <1>5, <1>6, <1>7 DEF StepKeeps, NoCarrierLeft

LEMMA TestModeOffKeeps ==
    ASSUME ControlInv, TestModeOff PROVE StepKeeps
<1>1. test' = FALSE
      /\ UNCHANGED <<radio, loop, worker, configured, sound, faults>>
  BY DEF TestModeOff
<1>2. RestOK' /\ Cycle'
  BY <1>1 DEF ControlInv, RestOK, Cycle
<1> QED BY <1>1, <1>2, RadioAloneKeeps

-----------------------------------------------------------------------------
(* The loop worker.                                                        *)

LEMMA ClearedLoop ==
    ASSUME loop \in Loops, ClearLoop
    PROVE  loop' \in Loops /\ loop'.kind = "none"
BY DEF Loops, ClearLoop

\* A step of the worker that leaves the radio as r, without a carrier unless the
\* worker stays with it.
LEMMA WorkerKeeps ==
    ASSUME ControlInv, NEW r, radio' = r, Elsewhere, RadioKept,
           UNCHANGED loop \/ ClearLoop, worker' \in {"idle", "on", "report", "off", "pass",
                                                     "key", "resume", "resuming"},
           r.state = "CwTest" => UNCHANGED loop /\ worker' \in {"idle", "on", "key"},
           worker' \in {"on", "report", "off"} => UNCHANGED loop /\ loop.kind = "cw"
    PROVE  StepKeeps
<1>1. /\ test' = test /\ configured' = configured
      /\ faults' = faults /\ sound' \in BOOLEAN
  BY DEF Elsewhere, RadioKept, RadioInv
<1>2. loop \in Loops /\ loop' \in Loops
  BY ClearedLoop DEF ControlInv, RestOK
<1>3. RestOK'
  BY <1>1, <1>2 DEF ControlInv, RestOK
<1>4. Quiet' /\ Cycle'
  BY DEF Quiet, Cycle
<1>5. NoCarrierLeft
  BY DEF NoCarrierLeft
<1> QED BY <1>3, <1>4, <1>5 DEF StepKeeps

LEMMA CwOnKeeps ==
    ASSUME ControlInv, NEW sent \in BOOLEAN, CwOn(sent) PROVE StepKeeps
<1> DEFINE r == CarrierLocked(radio, loop.channel, loop.level, sent)
<1>1. RadioInv(radio, configured, faults = 0, sound)
      /\ loop.channel \in 0..125 /\ loop.level \in 0..3
  BY DEF ControlInv, RestOK, Loops
<1>2. RadioInv(r, configured, faults = 0, Mended(sound, radio)) /\ OnIfOk(r)
  <2>1. RadioInv(r, configured, faults = 0, Mended(sound, radio))
    BY <1>1, CarrierLockedKeeps
  <2>2. OnIfOk(r)
    BY <1>1, CarrierLockedKeeps, ZenonT(40)
  <2> QED BY <2>1, <2>2
<1>3. /\ Leaves(r) /\ Elsewhere /\ loop.kind = "cw"
      /\ worker' = IF r.ok THEN "on" ELSE "idle"
      /\ IF r.ok THEN UNCHANGED loop ELSE ClearLoop
  BY DEF CwOn, AtWork
<1> HIDE DEF r
<1>4. configured' = configured /\ faults' = faults
  BY <1>3 DEF Elsewhere
<1>5. RadioKept /\ radio' = r /\ sound' \in BOOLEAN
  BY <1>2, <1>3, <1>4, LeavesKeeps
<1> QED BY <1>2, <1>3, <1>5, WorkerKeeps DEF OnIfOk

LEMMA CwOffKeeps ==
    ASSUME ControlInv, CwOff PROVE StepKeeps
<1> DEFINE r == IF radio.state = "CwTest" THEN StopCw(radio) ELSE radio
<1>1. RadioInv(radio, configured, faults = 0, sound)
  BY DEF ControlInv, RestOK
<1>2. RadioInv(r, configured, faults = 0, sound) /\ r.state # "CwTest"
  BY <1>1, StopCwKeeps
<1>3. /\ Leaves(r) /\ Elsewhere /\ worker = "on"
      /\ IF loop.asked THEN ClearLoop /\ worker' = "idle"
                       ELSE UNCHANGED loop /\ worker' \in {"report", "off"}
  BY DEF CwOff
<1> HIDE DEF r
<1>4. configured' = configured /\ faults' = faults
  BY <1>3 DEF Elsewhere
<1>5. RadioKept /\ radio' = r /\ sound' \in BOOLEAN
  <2>1. radio' = r
    BY <1>3 DEF Leaves
  <2>2. radio.state = "Fault" => r.state = "Fault"
    BY DEF r
  <2>3. sound \in BOOLEAN /\ radio.state # "Boot"
    BY <1>1 DEF RadioInv
  <2>4. ~ (radio.state \in {"Fault", "Boot"} /\ r.state # "Fault")
    BY <2>2, <2>3
  <2>5. sound' = sound
    BY <1>3, <2>3, <2>4 DEF Leaves
  <2> QED BY <1>1, <1>2, <1>4, <2>1, <2>3, <2>5 DEF RadioKept
<1>6. loop.kind = "cw"
  BY <1>3 DEF ControlInv, Cycle
<1> QED BY <1>2, <1>3, <1>5, <1>6, WorkerKeeps

\* The steps of a carrier loop that only move the worker.
LEMMA WaitingKeeps ==
    ASSUME ControlInv, CwStopTimesOut \/ CwReport \/ CwRest \/ TxEnd \/ ResumeChecks
    PROVE  StepKeeps
<1>1. /\ UNCHANGED <<radio, sound, test, configured, faults>>
      /\ UNCHANGED loop \/ ClearLoop
  BY DEF CwStopTimesOut, CwReport, CwRest, TxEnd, ResumeChecks, Elsewhere
<1>2. loop' \in Loops
  BY <1>1, ClearedLoop DEF ControlInv, RestOK
<1>3. /\ worker' \in {"idle", "off", "resume", "resuming"}
      /\ worker' = "off" => worker = "report" /\ UNCHANGED loop
      /\ loop.kind # "none" /\ loop'.kind = "none" => worker \in {"pass", "off"}
  BY DEF CwStopTimesOut, CwReport, CwRest, TxEnd, ResumeChecks, Elsewhere
<1>4. RestOK'
  BY <1>1, <1>2, <1>3 DEF ControlInv, RestOK
<1>5. Cycle'
  BY <1>3 DEF ControlInv, Cycle
<1> QED BY <1>1, <1>3, <1>4, <1>5, RadioAloneKeeps

\* A file pass, or a message, begins in standby.
LEMMA BeginKeeps ==
    ASSUME ControlInv, TxBegin \/ MorseBegin PROVE StepKeeps
<1> DEFINE r == EnsureStandby(radio)
<1>1. RadioInv(radio, configured, faults = 0, sound)
  BY DEF ControlInv, RestOK
<1>2. RadioInv(r, configured, faults = 0, Mended(sound, radio)) /\ Ends(r, r.ok, "Standby")
  BY <1>1, EnsureStandbyKeeps
<1>3. /\ Leaves(r) /\ Elsewhere /\ worker' \in {"pass", "key", "resume"}
      /\ UNCHANGED loop \/ ClearLoop
  BY DEF TxBegin, MorseBegin
<1> HIDE DEF r
<1>4. configured' = configured /\ faults' = faults
  BY <1>3 DEF Elsewhere
<1>5. RadioKept /\ radio' = r /\ sound' \in BOOLEAN
  BY <1>2, <1>3, <1>4, LeavesKeeps
<1>6. r.state # "CwTest"
  BY <1>2 DEF Ends
<1> QED BY <1>3, <1>5, <1>6, WorkerKeeps

LEMMA TxTurnKeeps ==
    ASSUME ControlInv, NEW how \in Outcomes, NEW read \in BOOLEAN, TxTurn(how, read)
    PROVE  StepKeeps
<1> DEFINE r == FrameTurn(radio, how, read)
<1>1. RadioInv(radio, configured, faults = 0, sound)
  BY DEF ControlInv, RestOK
<1>2. /\ worker = "pass" /\ radio' = r /\ worker' = worker /\ sound' = sound
      /\ UNCHANGED loop /\ Elsewhere
  BY DEF TxTurn
<1>3. radio.state # "CwTest"
  BY <1>2 DEF ControlInv, Quiet
<1>4. RadioInv(r, configured, faults = 0, sound) /\ r.state # "CwTest"
  BY <1>1, <1>3, FrameTurnKeeps
<1> HIDE DEF r
<1>5. RadioKept
  BY <1>2, <1>4 DEF RadioKept, Elsewhere
<1> QED BY <1>1, <1>2, <1>4, <1>5, WorkerKeeps

\* The carrier goes on with the key.
LEMMA KeyDownKeeps ==
    ASSUME ControlInv, NEW sent \in BOOLEAN, KeyDown(sent) PROVE StepKeeps
<1> DEFINE r == StartCw(radio, loop.channel, loop.level, sent)
<1>1. RadioInv(radio, configured, faults = 0, sound)
      /\ loop.channel \in 0..125 /\ loop.level \in 0..3
  BY DEF ControlInv, RestOK, Loops
<1>2. /\ radio.state = "Standby" /\ radio' = r /\ sound' = sound /\ Elsewhere
      /\ worker' = IF r.ok THEN "key" ELSE "resume"
      /\ IF r.ok THEN UNCHANGED loop ELSE ClearLoop
  BY DEF KeyDown
<1>3. RadioInv(r, configured, faults = 0, sound)
  BY <1>1, <1>2, StartCwKeeps, ZenonT(40)
<1>4. Keyed(r)
  BY <1>1, <1>2, StartCwKeeps, ZenonT(40)
<1> HIDE DEF r
<1>5. RadioKept
  BY <1>2, <1>3 DEF RadioKept, Elsewhere
<1>6. r.state = "CwTest" => r.ok
  BY <1>4 DEF Keyed
<1> QED BY <1>1, <1>2, <1>5, <1>6, WorkerKeeps

\* The carrier goes off with it, and at the end of the message.
LEMMA KeyUpKeeps ==
    ASSUME ControlInv, KeyUp \/ MorseEnd PROVE StepKeeps
<1> DEFINE r == IF radio.state = "CwTest" THEN StopCw(radio) ELSE radio
<1>1. RadioInv(radio, configured, faults = 0, sound)
  BY DEF ControlInv, RestOK
<1>2. RadioInv(r, configured, faults = 0, sound) /\ r.state # "CwTest"
  BY <1>1, StopCwKeeps
<1>3. /\ radio' = r /\ sound' = sound /\ Elsewhere /\ worker' \in {"key", "resume"}
      /\ UNCHANGED loop \/ ClearLoop
  BY DEF KeyUp, MorseEnd
<1> HIDE DEF r
<1>4. RadioKept
  BY <1>2, <1>3 DEF RadioKept, Elsewhere
<1> QED BY <1>1, <1>2, <1>3, <1>4, WorkerKeeps

\* RX is resumed from standby.
LEMMA ResumeKeeps ==
    ASSUME ControlInv, Resume PROVE StepKeeps
<1> DEFINE r == IF radio.state = "Standby" THEN EnterRx(radio) ELSE radio
<1>1. RadioInv(radio, configured, faults = 0, sound)
  BY DEF ControlInv, RestOK
<1>2. radio.state = "Standby" =>
          RadioInv(EnterRx(radio), configured, faults = 0, sound)
          /\ Ends(EnterRx(radio), TRUE, "RxListening")
  BY <1>1, EnterRxKeeps
<1>3. RadioInv(r, configured, faults = 0, sound)
  BY <1>1, <1>2
<1>4. /\ radio' = r /\ sound' = sound /\ Elsewhere /\ worker' = "idle" /\ UNCHANGED loop
  BY DEF Resume
<1> HIDE DEF r
<1>5. RadioKept
  BY <1>3, <1>4 DEF RadioKept, Elsewhere
<1> QED BY <1>1, <1>4, <1>5, WorkerKeeps

-----------------------------------------------------------------------------
(* The receive worker and the hardware.                                    *)

LEMMA PollingKeeps ==
    ASSUME ControlInv, NEW r, Polls, Commanded(r), UNCHANGED loop,
           RadioInv(r, configured, faults = 0, sound)
    PROVE  StepKeeps
<1>1. /\ Leaves(r) /\ radio.state = "RxListening" /\ loop.kind = "none" /\ Free
      /\ worker' = worker /\ test' = test /\ configured' = configured
      /\ faults' = faults
  BY DEF Polls, Commanded
<1>2. radio' = r /\ sound' = sound
  BY <1>1 DEF Leaves, ControlInv, RestOK
<1>3. RadioKept
  BY <1>1, <1>2 DEF RadioKept
<1>4. RestOK'
  BY <1>1, <1>2 DEF ControlInv, RestOK
<1>5. Quiet' /\ Cycle'
  BY <1>1 DEF ControlInv, Quiet, Cycle, Free
<1> QED BY <1>3, <1>4, <1>5 DEF StepKeeps, NoCarrierLeft

LEMMA RxWorkerKeeps ==
    ASSUME ControlInv, RxFails \/ \E how \in Outcomes : RxResponds(how) PROVE StepKeeps
<1>1. RadioInv(radio, configured, faults = 0, sound)
  BY DEF ControlInv, RestOK
<1>2. CASE RxFails
  <2>1. Polls /\ Commanded(ReceivePayload(radio, FALSE)) /\ UNCHANGED loop
    BY <1>2 DEF RxFails
  <2>2. radio.state = "RxListening"
    BY <2>1 DEF Polls
  <2>3. RadioInv(ReceivePayload(radio, FALSE), configured, faults = 0, sound)
    BY <1>1, <2>2, ReceiveKeeps
  <2> QED BY <2>1, <2>3, PollingKeeps
<1>3. ASSUME NEW how \in Outcomes, RxResponds(how) PROVE StepKeeps
  <2>1. Polls /\ Commanded(Respond(radio, how)) /\ UNCHANGED loop
    BY <1>3 DEF RxResponds
  <2>2. radio.state = "RxListening"
    BY <2>1 DEF Polls
  <2>3. RadioInv(Respond(radio, how), configured, faults = 0, sound)
    BY <1>1, <2>2, RespondKeeps
  <2> QED BY <2>1, <2>3, PollingKeeps
<1> QED BY <1>2, <1>3

\* The chip loses its registers, or the bus fails or heals: the manager does not
\* notice, and the chip is sound no more.
LEMMA HardwareKeeps ==
    ASSUME ControlInv,
           ChipResets \/ BusHeals \/ \E how \in {"low", "high"} : BusFails(how)
    PROVE  StepKeeps
<1>1. /\ \/ radio' = [radio EXCEPT !.regs = PowerOn, !.reuse = FALSE] /\ sound' = FALSE
         \/ radio' = [radio EXCEPT !.bus = "ok"] /\ ~ Answers(radio) /\ sound' = sound
         \/ \E how \in {"low", "high"} : radio' = [radio EXCEPT !.bus = how] /\ sound' = FALSE
      /\ UNCHANGED <<loop, worker, test, configured>>
  BY DEF ChipResets, BusHeals, BusFails
<1>2. faults' \in 0..MaxFaults
  BY ControlAssumption DEF ChipResets, BusHeals, BusFails, ControlInv, RestOK
<1>3. sound' = FALSE
  BY <1>1 DEF ControlInv, RestOK, RadioInv
<1>4. (faults = 0)' = FALSE
  BY ControlAssumption DEF ChipResets, BusHeals, BusFails, ControlInv, RestOK, RadioInv
<1>5. radio \in Radios /\ PowerOn \in Registers
  BY DEF ControlInv, RadioInv, PowerOn, Registers
<1> DEFINE Stays(r) ==
       /\ r \in Radios /\ r.state = radio.state /\ r.channel = radio.channel
       /\ r.before = radio.before /\ r.restorable = radio.restorable
       /\ r.carrier = radio.carrier /\ r.saved = radio.saved
<1>6. Stays(radio')
  <2>1. Stays([radio EXCEPT !.regs = PowerOn, !.reuse = FALSE])
    BY <1>5 DEF Radios
  <2>2. ASSUME NEW how \in {"ok", "low", "high"} PROVE Stays([radio EXCEPT !.bus = how])
    BY <1>5 DEF Radios
  <2> HIDE DEF Stays
  <2> QED BY <1>1, <2>1, <2>2
<1>7. RadioInv(radio', configured, FALSE, FALSE)
  BY <1>6 DEF ControlInv, RadioInv, Kept, Paired
<1>8. RadioKept
  BY <1>1, <1>3, <1>7, <1>4 DEF RadioKept
<1>9. RestOK' /\ Quiet' /\ Cycle' /\ NoCarrierLeft
  BY <1>1, <1>2, <1>3, <1>6 DEF ControlInv, RestOK, Quiet, Cycle, NoCarrierLeft
<1> QED BY <1>8, <1>9 DEF StepKeeps

-----------------------------------------------------------------------------
(* The theorems.                                                           *)

LEMMA InitHolds ==
    ASSUME Init PROVE ControlInv
<1>1. PICK genuine \in BOOLEAN, bus \in {"ok", "low", "high"} :
         /\ radio = Boot(Cold(genuine, bus), 76)
         /\ sound = (bus = "ok")
         /\ faults = IF bus = "ok" THEN 0 ELSE 1
         /\ faults <= MaxFaults
  BY DEF Init
<1> DEFINE r == Cold(genuine, bus)
<1>2. /\ loop = Idle /\ worker = "idle" /\ test = FALSE /\ configured = 76
  BY DEF Init
<1>3. r \in Radios /\ Paired(r) /\ r.carrier = "None" /\ (Answers(r) <=> bus = "ok")
  BY DEF Cold, Radios, Saves, Registers, PowerOn, Zeros, States, Paired, Answers
<1> HIDE DEF r
<1>4. RadioInv(radio, configured, faults = 0, sound)
  <2>1. PICK clean \in BOOLEAN : clean = (faults = 0)
    OBVIOUS
  <2>2. 76 \in 0..125 /\ (clean => Answers(r) /\ PlainSaved(r))
    <3>1. faults = 0 => Answers(r)
      BY <1>1, <1>3
    <3>2. clean => Answers(r)
      BY <2>1, <3>1, Zenon
    <3> QED BY <1>3, <3>2 DEF PlainSaved
  <2>3. RadioInv(Boot(r, 76), 76, clean, Answers(r))
    BY <1>3, <2>2, BootKeeps, ZenonT(40)
  <2>4. sound = Answers(r) /\ radio = Boot(r, 76)
    BY <1>1 DEF Answers, Cold, r
  <2> QED BY <1>2, <2>1, <2>3, <2>4
<1>5. sound \in BOOLEAN
  BY <1>1
<1>6. RestOK
  <2>1. faults \in 0..MaxFaults
    <3>1. faults \in {0, 1} /\ faults <= MaxFaults /\ MaxFaults \in Nat
      BY <1>1, ControlAssumption
    <3> QED BY <3>1
  <2>2. Idle \in Loops
    BY DEF Idle, Loops
  <2>3. loop \in Loops /\ worker = "idle" /\ test \in BOOLEAN
    BY <1>2, <2>2
  <2>4. configured \in 0..125 /\ sound \in BOOLEAN
    BY <1>2, <1>5
  <2> QED BY <2>1, <2>3, <2>4 DEF RestOK
<1>7. Quiet /\ Cycle
  BY <1>2 DEF Quiet, Cycle
<1> QED BY <1>4, <1>6, <1>7 DEF ControlInv

LEMMA CommandsKeep ==
    ASSUME ControlInv,
           \/ CommandStop \/ CommandStandby \/ CommandWake \/ CommandSleep \/ CommandPowerDown
           \/ CommandRx
           \/ \E l \in Levels : CommandPower(l)
           \/ \E c \in Channels : CommandChannel(c)
           \/ \E c \in Channels, l \in Levels, sent \in BOOLEAN : CommandCwStart(c, l, sent)
           \/ \E o \in Outcomes : CommandText(o)
           \/ \E o \in Outcomes, resume \in BOOLEAN : CommandRemote(o, resume)
    PROVE  StepKeeps
<1>1. CASE CommandStop \/ CommandStandby \/ CommandWake
  BY <1>1, ToStandbyKeeps DEF CommandStop, CommandStandby, CommandWake
<1>2. CASE CommandSleep
  <2> DEFINE s == EnsureStandby(radio)
  <2>1. LoopStopped /\ Commanded(IF s.ok THEN Enters(PowerDown(s), "Sleep") ELSE s)
    BY <1>2 DEF CommandSleep, Then, Sleep
  <2>2. "Sleep" \in {"Sleep", "PowerDown"}
    OBVIOUS
  <2> QED BY <2>1, <2>2, PoweringOffKeeps
<1>3. CASE CommandPowerDown
  <2> DEFINE s == EnsureStandby(radio)
  <2>1. LoopStopped /\ Commanded(IF s.ok THEN Enters(PowerDown(s), "PowerDown") ELSE s)
    BY <1>3 DEF CommandPowerDown, Then, DeepSleep
  <2>2. "PowerDown" \in {"Sleep", "PowerDown"}
    OBVIOUS
  <2> QED BY <2>1, <2>2, PoweringOffKeeps
<1>4. CASE CommandRx
  BY <1>4, RxCommandKeeps
<1>5. CASE \E l \in Levels : CommandPower(l)
  BY <1>5, PowerCommandKeeps
<1>6. CASE \E c \in Channels : CommandChannel(c)
  BY <1>6, ChannelKeeps
<1>7. CASE \E c \in Channels, l \in Levels, sent \in BOOLEAN : CommandCwStart(c, l, sent)
  BY <1>7, CarrierCommandKeeps
<1>8. ASSUME NEW o \in Outcomes, CommandText(o) PROVE StepKeeps
  <2> DEFINE t == SendLocked(radio, o)
             u == IF t.ok THEN EnterRx(t) ELSE t
  <2>1. Commanded(u) /\ UNCHANGED loop
    BY <1>8 DEF CommandText
  <2>2. u \in {t, EnterRx(t)}
    OBVIOUS
  <2> QED BY <2>1, <2>2, SendingKeeps
<1>9. ASSUME NEW o \in Outcomes, NEW resume \in BOOLEAN, CommandRemote(o, resume)
      PROVE  StepKeeps
  <2> DEFINE t == SendLocked(radio, o)
             u == IF t.ok /\ resume THEN EnterRx(t) ELSE t
  <2>1. Commanded(u) /\ UNCHANGED loop
    BY <1>9 DEF CommandRemote
  <2>2. u \in {t, EnterRx(t)}
    OBVIOUS
  <2> QED BY <2>1, <2>2, SendingKeeps
<1> QED BY <1>1, <1>2, <1>3, <1>4, <1>5, <1>6, <1>7, <1>8, <1>9

LEMMA NextKeeps ==
    ASSUME ControlInv, Next PROVE StepKeeps
<1>1. CASE \/ CommandStop \/ CommandStandby \/ CommandWake \/ CommandSleep
           \/ CommandPowerDown \/ CommandRx
           \/ \E l \in Levels : CommandPower(l)
           \/ \E c \in Channels : CommandChannel(c)
           \/ \E c \in Channels, l \in Levels, sent \in BOOLEAN : CommandCwStart(c, l, sent)
           \/ \E o \in Outcomes : CommandText(o)
           \/ \E o \in Outcomes, resume \in BOOLEAN : CommandRemote(o, resume)
  BY <1>1, CommandsKeep
<1>2. CASE AskStop
  BY <1>2, AskStopKeeps
<1>3. CASE \E c \in Channels, l \in Levels : StartLoop("cw", c, l)
  <2>1. PICK c \in Channels, l \in Levels : StartLoop("cw", c, l)
    BY <1>3
  <2>2. c \in 0..125 /\ l \in 0..3 /\ "cw" \in {"cw", "tx", "morse"}
    BY ControlAssumption
  <2> QED BY <2>1, <2>2, StartLoopKeeps
<1>4. CASE StartLoop("tx", 76, 3)
  <2>1. 76 \in 0..125 /\ 3 \in 0..3 /\ "tx" \in {"cw", "tx", "morse"}
    OBVIOUS
  <2> QED BY <1>4, <2>1, StartLoopKeeps
<1>5. CASE StartLoop("morse", radio.channel, 3)
  <2>1. radio.channel \in 0..125 /\ 3 \in 0..3 /\ "morse" \in {"cw", "tx", "morse"}
    BY DEF ControlInv, RadioInv, Radios
  <2> QED BY <1>5, <2>1, StartLoopKeeps
<1>6. CASE CommandStoredTx
  BY <1>6, StoredTxKeeps
<1>7. CASE TestModeOn \/ TestModeOff
  BY <1>7, TestModeOnKeeps, TestModeOffKeeps
<1>8. CASE (\E sent \in BOOLEAN : CwOn(sent)) \/ CwOff
  BY <1>8, CwOnKeeps, CwOffKeeps
<1>9. CASE CwStopTimesOut \/ CwReport \/ CwRest \/ TxEnd \/ ResumeChecks
  BY <1>9, WaitingKeeps
<1>10. CASE TxBegin \/ MorseBegin
  BY <1>10, BeginKeeps
<1>11. CASE \E o \in Outcomes, read \in BOOLEAN : TxTurn(o, read)
  BY <1>11, TxTurnKeeps
<1>12. CASE \E sent \in BOOLEAN : KeyDown(sent)
  BY <1>12, KeyDownKeeps
<1>13. CASE KeyUp \/ MorseEnd
  BY <1>13, KeyUpKeeps
<1>14. CASE Resume
  BY <1>14, ResumeKeeps
<1>15. CASE RxFails \/ \E o \in Outcomes : RxResponds(o)
  BY <1>15, RxWorkerKeeps
<1>16. CASE ChipResets \/ BusHeals \/ \E how \in {"low", "high"} : BusFails(how)
  BY <1>16, HardwareKeeps
<1> QED
  BY <1>1, <1>2, <1>3, <1>4, <1>5, <1>6, <1>7, <1>8, <1>9, <1>10, <1>11, <1>12, <1>13,
     <1>14, <1>15, <1>16 DEF Next

\* The invariant, of every behaviour.
LEMMA ControlInvHolds == Spec => []ControlInv
<1>1. Init => ControlInv
  BY InitHolds
<1>2. ControlInv /\ [Next]_vars => ControlInv'
  <2>1. ASSUME ControlInv, Next PROVE ControlInv'
    BY <2>1, NextKeeps DEF StepKeeps, RadioKept, ControlInv
  <2>2. ASSUME ControlInv, UNCHANGED vars PROVE ControlInv'
    BY <2>2 DEF vars, ControlInv, RestOK, Quiet, Cycle
  <2> QED BY <2>1, <2>2
<1> QED BY <1>1, <1>2, PTL DEF Spec

\* What the manager keeps of the radio is true, whatever the order of commands,
\* loops, frames, faults and resets: while the chip answers and keeps its registers,
\* a carrier is on the air exactly in CwTest and on its channel, CE is that of the
\* state, and, unless the driver has put back registers that it saved before the
\* last boot, so are CONFIG and the packet set-up, channel and power level included.
\* If it has, CONFIG and the framing are right as long as nothing has failed, and
\* nothing is said of the channel and the level.  The configured channel is never
\* lost (radio_manager.cpp:14-248 with nrf24.cpp:131-598).
THEOREM ManagerTellsTheTruth == Spec => []StateAgrees
<1>1. ASSUME ControlInv PROVE StateAgrees
  <2>1. TypeOK
    BY <1>1 DEF ControlInv, RestOK, Loops, RadioInv, Radios, Saves, TypeOK
  <2>2. ASSUME sound
        PROVE  /\ Radiates(radio) <=> radio.state = "CwTest"
               /\ radio.state = "CwTest" => radio.regs.channel = radio.channel
               /\ radio.state \in {"Standby", "RxListening", "Sleep", "PowerDown"} =>
                      /\ radio.ce <=> radio.state = "RxListening"
                      /\ ~ radio.stale => Tuned(radio)
                      /\ faults = 0 \/ ~ radio.stale => Framed(radio) /\ ConfigFits(radio)
    <3>1. Steady(radio, faults = 0)
      BY <1>1, <2>2 DEF ControlInv, RadioInv
    <3>2. CASE radio.state = "CwTest"
      BY <3>1, <3>2 DEF Steady
    <3>3. CASE radio.state # "CwTest"
      <4>1. Packet(radio, faults = 0)
            /\ (radio.state # "Fault" => Good(radio, radio.state, faults = 0))
        BY <3>1, <3>3 DEF Steady
      <4>2. ~ Radiates(radio)
        BY <4>1 DEF Packet, Radiates
      <4>3. radio.state # "Fault" =>
                /\ radio.ce <=> radio.state = "RxListening"
                /\ ~ radio.stale => Tuned(radio)
                /\ faults = 0 \/ ~ radio.stale => Framed(radio) /\ ConfigFits(radio)
        BY <4>1 DEF Good, Packet, Fits, Known, ConfigFits
      <4> QED BY <3>3, <4>2, <4>3
    <3> QED BY <3>2, <3>3
  <2>3. ConfiguredChannelKept
    BY <1>1 DEF ControlInv, RadioInv, Kept, ConfiguredChannelKept
  <2> QED BY <2>1, <2>2, <2>3 DEF StateAgrees, Agrees
<1> QED BY <1>1, ControlInvHolds, PTL

\* A loop that ends leaves no carrier on the air, though the worker waits without
\* the radio mutex (main.cpp:2566, 4659).
THEOREM LoopsLeaveNoCarrier == Spec => LoopLeavesNoCarrier
<1>1. ASSUME ControlInv, [Next]_vars
      PROVE  [loop.kind # "none" /\ loop'.kind = "none" => radio'.state # "CwTest"]_vars
  BY <1>1, NextKeeps DEF StepKeeps, NoCarrierLeft
<1> QED BY <1>1, ControlInvHolds, PTL DEF Spec, LoopLeavesNoCarrier

\* From a fault, one STOP on a bus that answers brings the chip back to packet mode
\* in standby (main.cpp:2580-2613 with radio_manager.cpp:14-51).
THEOREM FaultsHeal == Spec => FaultHeals
<1>1. ASSUME ControlInv, radio.state = "Fault", Answers(radio), CommandStop
      PROVE  /\ PacketMode(radio') /\ radio'.regs.power /\ ~ radio'.regs.prx /\ ~ radio'.ce
             /\ radio'.state = "Standby"
  <2> DEFINE b == Boot(radio, radio.channel)
  <2>1. radio' = b
    BY <1>1 DEF CommandStop, Commanded, Leaves, EnsureStandby
  <2>2. /\ radio \in Radios /\ radio.channel \in 0..125 /\ Paired(radio)
        /\ FALSE \in BOOLEAN /\ (FALSE => Answers(radio) /\ PlainSaved(radio))
    BY <1>1 DEF ControlInv, RestOK, RadioInv, Radios
  <2>3. /\ b.state = IF b.ok THEN "Standby" ELSE "Fault"
        /\ b.ok /\ PacketMode(b) /\ b.regs.power /\ ~ b.regs.prx /\ ~ b.ce
    BY <1>1, <2>2, BootKeeps
  <2> HIDE DEF b
  <2> QED BY <2>1, <2>3
<1>2. ASSUME ControlInv, [Next]_vars
      PROVE  [radio.state = "Fault" /\ Answers(radio) /\ CommandStop =>
                /\ PacketMode(radio') /\ radio'.regs.power /\ ~ radio'.regs.prx /\ ~ radio'.ce
                /\ radio'.state = "Standby"]_vars
  BY <1>1, <1>2
<1> QED BY <1>2, ControlInvHolds, PTL DEF Spec, FaultHeals
=============================================================================
