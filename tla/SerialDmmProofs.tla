--------------------------- MODULE SerialDmmProofs ---------------------------
(***************************************************************************)
(* Theorems about SerialDmm, for all meters and sizes of packets and buffers *)
(* and whatever the line does: the buffers are never overrun, a read always   *)
(* has room, packets are handled in their order and none is overlooked, and a *)
(* meter that answers in time has one request to answer at a time.           *)
(***************************************************************************)
EXTENDS SerialDmm, SequenceTheorems, FiniteSetTheorems, TLAPS

Bytes == [id : Nat, pos : Nat, size : Nat]
First(b) == b.pos = 1 /\ b.id # 0

\* A byte sequence of packets sent so far, in which the first bytes of packets are in
\* the order of the packets.
UpTo(s, n) == s \in Seq(Bytes) /\ \A k \in 1 .. Len(s) : s[k].id <= n
Ord(s) == \A k, l \in 1 .. Len(s) : k < l /\ First(s[k]) /\ First(s[l]) => s[k].id < s[l].id

\* The packets of s come before those of t; those of s behind position p come after
\* packet n.
Asc(s, t) == \A k \in 1 .. Len(s), l \in 1 .. Len(t) : First(s[k]) /\ First(t[l]) => s[k].id < t[l].id
Past(s, p, n) == \A k \in p + 1 .. Len(s) : First(s[k]) => s[k].id > n

\* Where the driver is, and what that says about the buffer.
Places ==
  /\ pc = "check" => port = "open" /\ acquiring
  /\ acquiring => port = "open"
  /\ port \in {"none", "leaked"} => buf = <<>>
  /\ port = "scan" => Len(buf) < ScanSize
  /\ port # "scan" /\ pc = "idle" => Len(buf) < BufSize /\ check_pos = 0

Carried == UpTo(buf, ids) /\ UpTo(rx, ids) /\ UpTo(tx, ids) /\ pending \in Seq(Nat)

DmmInv == TypeOK /\ Places /\ Carried

Ordered ==
  /\ Ord(buf) /\ Ord(rx) /\ Ord(tx) /\ Asc(buf, rx) /\ Asc(buf, tx) /\ Asc(rx, tx)
  /\ Past(buf, check_pos, handled) /\ Past(rx, 0, handled) /\ Past(tx, 0, handled)

-----------------------------------------------------------------------------
(* Packets.                                                                *)

LEMMA MeterFacts ==
  ASSUME dmm \in Meters
  PROVE  dmm.variable \in BOOLEAN /\ dmm.request \in BOOLEAN /\ dmm.timeout \in Nat /\ dmm.delay \in Nat
BY SerialDmmAssumption

LEMMA SizeFacts ==
  ASSUME dmm \in Meters, NEW id \in Nat
  PROVE  Size(id) \in Nat \ {0} /\ (~dmm.variable => Size(id) = PacketSize)
<1>1. PacketSize \in Nat \ {0}
  BY SerialDmmAssumption
<1>2. id % 2 \in Nat
  OBVIOUS
<1> QED BY <1>1, <1>2 DEF Size

LEMMA PacketFacts ==
  ASSUME dmm \in Meters, NEW id \in Nat
  PROVE  /\ Packet(id) \in Seq(Bytes) /\ Len(Packet(id)) = Size(id)
         /\ \A k \in 1 .. Size(id) : /\ Packet(id)[k].id = id /\ Packet(id)[k].pos = k
                                     /\ Packet(id)[k].size = Size(id)
<1> DEFINE n == Size(id)
           rec(k) == [id |-> id, pos |-> k, size |-> n]
<1>1. n \in Nat \ {0}
  BY SizeFacts
<1>2. Packet(id) = [k \in 1 .. n |-> rec(k)]
  BY DEF Packet
<1>3. \A k \in 1 .. n : rec(k) \in Bytes /\ rec(k).id = id /\ rec(k).pos = k /\ rec(k).size = n
  BY <1>1 DEF Bytes
<1> HIDE DEF n, rec
<1>4. Packet(id) \in Seq(Bytes) /\ Len(Packet(id)) = n
  BY <1>1, <1>2, <1>3
<1> QED BY <1>2, <1>3, <1>4 DEF n

\* A packet that is accepted begins with its first byte and lies in the bytes at hand.
LEMMA ValidFacts ==
  ASSUME dmm \in Meters, NEW s \in Seq(Bytes), Verdict(s) = "valid"
  PROVE  /\ Len(s) >= 1 /\ First(s[1]) /\ s[1].size \in 1 .. Len(s)
         /\ SubSeq(s, 1, s[1].size) = Packet(s[1].id)
<1> DEFINE size == IF dmm.variable THEN s[1].size ELSE PacketSize
<1>0. PacketSize \in Nat \ {0} /\ Len(s) \in Nat /\ ~(Len(s) < PacketSize)
  BY SerialDmmAssumption DEF Verdict
<1>2. Len(s) >= 1 /\ s[1] \in Bytes /\ PacketSize \in Nat \ {0}
  BY <1>0
<1>a. size \in Nat
  BY <1>2 DEF Bytes
<1>b. ~(Len(s) < PacketSize) /\ ~(s[1].pos # 1) /\ ~(Len(s) < size) /\ size > 0
      /\ IsPacket(SubSeq(s, 1, size))
  BY Zenon DEF Verdict
<1>1. /\ Len(s) >= PacketSize /\ s[1].pos = 1 /\ Len(s) >= size /\ size > 0
      /\ IsPacket(SubSeq(s, 1, size))
  BY <1>0, <1>a, <1>b
<1>3. size \in Nat /\ size <= Len(s)
  BY <1>1, <1>2 DEF Bytes
<1>4. SubSeq(s, 1, size)[1] = s[1] /\ Len(SubSeq(s, 1, size)) = size
  BY <1>1, <1>2, <1>3
<1>5. s[1].id # 0 /\ SubSeq(s, 1, size) = Packet(s[1].id)
  BY <1>1, <1>4 DEF IsPacket
<1>6. s[1].id \in Nat
  BY <1>2 DEF Bytes
<1>7. s[1].size = Size(s[1].id) /\ size = Size(s[1].id)
  <2> HIDE DEF size
  <2>1. Len(Packet(s[1].id)) = Size(s[1].id) /\ Size(s[1].id) \in Nat \ {0}
    BY <1>6, PacketFacts, SizeFacts
  <2>a. \A k \in 1 .. Size(s[1].id) : Packet(s[1].id)[k].size = Size(s[1].id)
    BY <1>6, PacketFacts
  <2>b. 1 \in 1 .. Size(s[1].id)
    BY <2>1
  <2>2. Packet(s[1].id)[1].size = Size(s[1].id)
    BY <2>a, <2>b
  <2> QED BY <1>4, <1>5, <2>1, <2>2
<1>8. SubSeq(s, 1, s[1].size) = Packet(s[1].id)
  BY <1>5, <1>7
<1>9. Len(s) >= 1 /\ First(s[1]) /\ s[1].size \in 1 .. Len(s)
  BY <1>1, <1>2, <1>3, <1>5, <1>7, SizeFacts, SMTT(30) DEF First
<1> QED BY <1>8, <1>9

LEMMA VerdictLong ==
  ASSUME NEW s \in Seq(Bytes), Verdict(s) # "short" PROVE Len(s) >= 1
BY SerialDmmAssumption DEF Verdict

LEMMA RestFacts ==
  ASSUME buf \in Seq(Bytes), check_pos \in 0 .. Len(buf)
  PROVE  /\ Rest \in Seq(Bytes) /\ Len(Rest) = Len(buf) - check_pos
         /\ \A k \in 1 .. Len(Rest) : Rest[k] = buf[check_pos + k]
BY DEF Rest

-----------------------------------------------------------------------------
(* Sequences.                                                              *)

LEMMA SuffixFacts ==
  ASSUME NEW s \in Seq(Bytes), NEW m \in 0 .. Len(s)
  PROVE  /\ SubSeq(s, m + 1, Len(s)) \in Seq(Bytes) /\ Len(SubSeq(s, m + 1, Len(s))) = Len(s) - m
         /\ \A k \in 1 .. Len(s) - m : SubSeq(s, m + 1, Len(s))[k] = s[m + k]
OBVIOUS

LEMMA SubFacts ==
  ASSUME NEW s \in Seq(Bytes), NEW m \in Nat \ {0}, NEW n \in Nat, n <= Len(s), m <= n + 1
  PROVE  /\ SubSeq(s, m, n) \in Seq(Bytes) /\ Len(SubSeq(s, m, n)) = n - m + 1
         /\ \A k \in 1 .. n - m + 1 : SubSeq(s, m, n)[k] = s[m + k - 1]
OBVIOUS

LEMMA CatFacts ==
  ASSUME NEW s \in Seq(Bytes), NEW t \in Seq(Bytes)
  PROVE  /\ s \o t \in Seq(Bytes) /\ Len(s \o t) = Len(s) + Len(t)
         /\ \A k \in 1 .. Len(s) + Len(t) : (s \o t)[k] = IF k <= Len(s) THEN s[k] ELSE t[k - Len(s)]
OBVIOUS

LEMMA UpToMore ==
  ASSUME NEW m \in Nat, NEW n \in Nat, m <= n, NEW s, UpTo(s, m) PROVE UpTo(s, n)
<1>1. s \in Seq(Bytes)
  BY DEF UpTo
<1>2. ASSUME NEW k \in 1 .. Len(s) PROVE s[k].id <= n
  <2>1. s[k] \in Bytes /\ s[k].id <= m
    BY <1>1 DEF UpTo
  <2>2. s[k].id \in Nat
    BY <2>1 DEF Bytes
  <2> QED BY <2>1, <2>2
<1> QED BY <1>1, <1>2 DEF UpTo

LEMMA UpToTail ==
  ASSUME NEW n, NEW s, UpTo(s, n), s # <<>>
  PROVE  UpTo(Tail(s), n) /\ Head(s) \in Bytes /\ Head(s).id <= n
BY DEF UpTo

LEMMA UpToAppend ==
  ASSUME NEW n, NEW s, UpTo(s, n), NEW b \in Bytes, b.id <= n PROVE UpTo(Append(s, b), n)
BY DEF UpTo

LEMMA UpToSub ==
  ASSUME NEW s, NEW x, UpTo(s, x), NEW m \in Nat \ {0}, NEW n \in Nat, n <= Len(s), m <= n + 1
  PROVE  UpTo(SubSeq(s, m, n), x)
<1>1. s \in Seq(Bytes)
  BY DEF UpTo
<1>2. ASSUME NEW k \in 1 .. n - m + 1 PROVE m + k - 1 \in 1 .. Len(s)
  BY <1>1
<1> QED BY <1>1, <1>2, SubFacts DEF UpTo

LEMMA UpToCat == ASSUME NEW n, NEW s, NEW t, UpTo(s, n), UpTo(t, n) PROVE UpTo(s \o t, n)
<1>1. s \in Seq(Bytes) /\ t \in Seq(Bytes)
  BY DEF UpTo
<1>2. ASSUME NEW k \in 1 .. Len(s) + Len(t) PROVE (s \o t)[k].id <= n
  <2>1. CASE k <= Len(s)
    BY <1>1, <2>1, CatFacts DEF UpTo
  <2>2. CASE ~(k <= Len(s))
    <3>1. k - Len(s) \in 1 .. Len(t)
      BY <1>1, <2>2
    <3> QED BY <1>1, <2>2, <3>1, CatFacts DEF UpTo
  <2> QED BY <2>1, <2>2
<1> QED BY <1>1, <1>2, CatFacts DEF UpTo

LEMMA UpToPacket ==
  ASSUME dmm \in Meters, NEW id \in Nat PROVE UpTo(Packet(id), id)
<1>1. Packet(id) \in Seq(Bytes) /\ \A k \in 1 .. Len(Packet(id)) : Packet(id)[k].id = id
  BY PacketFacts, SizeFacts
<1> QED BY <1>1 DEF UpTo

-----------------------------------------------------------------------------
(* The meter and the line keep the types.                                   *)

\* The state of the driver, which the line leaves alone.
driver == <<dmm, port, buf, check_pos, pc, acquiring, samples_read, runs, handled>>

\* It is enough to look at what is under way.
LEMMA LineKeeps ==
  ASSUME DmmInv, UNCHANGED driver, wait' \in Nat, ids' \in 0 .. MaxPackets, ids' >= ids,
         coming' \subseteq 1 .. ids', pending' \in Seq(0 .. Latency), faults' \in 0 .. MaxFaults,
         UpTo(rx', ids'), UpTo(tx', ids')
  PROVE  DmmInv'
<1>1. ids \in Nat /\ ids' \in Nat /\ MaxPackets \in Nat /\ Latency \in Nat
  BY SerialDmmAssumption DEF DmmInv, TypeOK
<1>2. pending' \in Seq(Nat) /\ \A k \in 1 .. Len(pending') : pending'[k] \in 0 .. Latency
  BY <1>1
<1>3. TypeOK'
  BY <1>1, <1>2 DEF DmmInv, TypeOK, driver
<1>4. Places'
  BY DEF DmmInv, Places, driver
<1>5. UpTo(buf', ids')
  BY <1>1, UpToMore DEF DmmInv, Carried, driver
<1> QED BY <1>2, <1>3, <1>4, <1>5 DEF DmmInv, Carried

LEMMA EmitFacts ==
  ASSUME DmmInv, Emit
  PROVE  /\ ids' \in 0 .. MaxPackets /\ ids' >= ids /\ ids' \in Nat /\ ids \in Nat
         /\ coming' \subseteq 1 .. ids' /\ UpTo(tx', ids') /\ UpTo(rx, ids')
<1>1. ids \in 0 .. MaxPackets /\ MaxPackets \in Nat /\ dmm \in Meters /\ coming \subseteq 1 .. ids
  BY SerialDmmAssumption DEF DmmInv, TypeOK
<1>2. ids' = ids + 1 /\ ids' \in 0 .. MaxPackets /\ coming' \subseteq 1 .. ids' /\ ids + 1 \in Nat
  BY <1>1 DEF Emit
<1>3. UpTo(tx, ids + 1) /\ UpTo(rx, ids + 1)
  BY <1>1, <1>2, UpToMore DEF DmmInv, Carried
<1>4. UpTo(Packet(ids + 1), ids + 1)
  BY <1>1, <1>2, UpToPacket
<1>5. UpTo(tx', ids')
  BY <1>2, <1>3, <1>4, UpToCat DEF Emit
<1> QED BY <1>1, <1>2, <1>3, <1>5

LEMMA LineStep ==
  ASSUME DmmInv, \/ Reply \/ Stream \/ Transmit \/ LoseByte \/ LoseRequest \/ Tick
                 \/ \E b \in NoiseBytes : Noise(b)
  PROVE  DmmInv'
<1>1. /\ ids \in 0 .. MaxPackets /\ MaxPackets \in Nat /\ Latency \in Nat /\ wait \in Nat
      /\ MaxFaults \in Nat /\ faults \in 0 .. MaxFaults /\ coming \subseteq 1 .. ids /\ dmm \in Meters
      /\ pending \in Seq(Nat) /\ \A k \in 1 .. Len(pending) : pending[k] \in 0 .. Latency
  BY SerialDmmAssumption DEF DmmInv, TypeOK, Carried
<1>2. pending \in Seq(0 .. Latency)
  BY <1>1
<1>3. UpTo(rx, ids) /\ UpTo(tx, ids)
  BY DEF DmmInv, Carried
<1>4. pending # <<>> => Tail(pending) \in Seq(0 .. Latency)
  BY <1>2
<1>5. Fault => faults' \in 0 .. MaxFaults
  BY <1>1 DEF Fault
<1>7. CASE Reply
  BY <1>1, <1>4, <1>7, EmitFacts, LineKeeps DEF Reply, driver
<1>8. CASE Stream
  BY <1>1, <1>2, <1>8, EmitFacts, LineKeeps DEF Stream, driver
<1>9. CASE Transmit \/ LoseByte
  <2>1. UpTo(Tail(tx), ids) /\ Head(tx) \in Bytes /\ Head(tx).id <= ids /\ tx' = Tail(tx)
    BY <1>3, <1>9, UpToTail DEF Transmit, LoseByte
  <2>2. UpTo(Append(rx, Head(tx)), ids)
    BY <1>3, <2>1, UpToAppend
  <2>3. rx' \in {rx, Append(rx, Head(tx))} /\ coming' \subseteq coming
    BY <1>9 DEF Transmit, LoseByte
  <2>4. faults' \in 0 .. MaxFaults
    BY <1>1, <1>5, <1>9 DEF Transmit, LoseByte
  <2>5. UNCHANGED <<driver, wait, pending, ids>>
    BY <1>9 DEF Transmit, LoseByte, driver
  <2>6. UpTo(rx', ids) /\ UpTo(tx', ids)
    BY <1>3, <2>1, <2>2, <2>3, Zenon
  <2>7. coming' \subseteq 1 .. ids /\ ids' = ids /\ ids >= ids
    BY <1>1, <2>3, <2>5
  <2> QED BY <1>1, <1>2, <2>4, <2>5, <2>6, <2>7, LineKeeps
<1>10. CASE LoseRequest
  BY <1>1, <1>3, <1>4, <1>5, <1>10, LineKeeps DEF LoseRequest, driver
<1>11. CASE Tick
  <2>1. pending' \in Seq(0 .. Latency)
    BY <1>1, <1>11 DEF Tick
  <2>2. wait' \in Nat
    BY <1>1, <1>11 DEF Tick
  <2> QED BY <1>1, <1>3, <1>11, <2>1, <2>2, LineKeeps DEF Tick, driver
<1>12. ASSUME NEW b \in NoiseBytes, Noise(b) PROVE DmmInv'
  <2>1. b \in Bytes /\ b.id = 0
    BY SerialDmmAssumption DEF NoiseBytes, Bytes
  <2>2. UpTo(Append(rx, b), ids)
    BY <1>1, <1>3, <2>1, UpToAppend
  <2>3. coming' \subseteq coming /\ faults' \in 0 .. MaxFaults /\ rx' = Append(rx, b)
    BY <1>5, <1>12 DEF Noise
  <2>4. UNCHANGED <<driver, wait, pending, ids, tx>>
    BY <1>12 DEF Noise, driver
  <2> QED BY <1>1, <1>2, <1>3, <2>2, <2>3, <2>4, LineKeeps
<1> QED BY <1>7, <1>8, <1>9, <1>10, <1>11, <1>12

-----------------------------------------------------------------------------
(* The driver keeps the types.                                              *)

\* The types of what most steps of the driver leave alone or change in a simple way.
Plainly ==
  /\ dmm \in Meters /\ wait \in Nat /\ samples_read \in Nat /\ runs \in 0 .. MaxRuns
  /\ ids \in 0 .. MaxPackets /\ coming \subseteq 1 .. ids /\ handled \in 0 .. ids
  /\ pending \in Seq(0 .. Latency) /\ faults \in 0 .. MaxFaults
  /\ UpTo(rx, ids) /\ UpTo(tx, ids)

LEMMA Simple == DmmInv => Plainly
<1> SUFFICES ASSUME DmmInv PROVE Plainly
  OBVIOUS
<1>1. pending \in Seq(Nat) /\ \A k \in 1 .. Len(pending) : pending[k] \in 0 .. Latency
  BY DEF DmmInv, TypeOK, Carried
<1>2. pending \in Seq(0 .. Latency)
  BY <1>1, SerialDmmAssumption
<1> QED BY <1>2 DEF DmmInv, TypeOK, Carried, Plainly

\* What there is to show about the port and the buffer.
Buffered ==
  /\ port \in {"none", "scan", "closed", "open", "leaked"} /\ pc \in {"idle", "check"}
  /\ acquiring \in BOOLEAN /\ UpTo(buf, ids)
  /\ Len(buf) <= (IF port = "scan" THEN ScanSize ELSE BufSize) /\ check_pos \in 0 .. Len(buf)
  /\ Places

LEMMA Together == DmmInv <=> Plainly /\ Buffered
<1>1. DmmInv => Buffered
  BY DEF DmmInv, TypeOK, Carried, Buffered
<1>2. ASSUME Plainly PROVE pending \in Seq(Nat) /\ \A k \in 1 .. Len(pending) : pending[k] \in 0 .. Latency
  BY <1>2, SerialDmmAssumption DEF Plainly
<1>3. Plainly /\ Buffered => DmmInv
  BY <1>2 DEF DmmInv, TypeOK, Carried, Plainly, Buffered
<1> QED BY <1>1, <1>3, Simple

LEMMA TogetherNext == Plainly' /\ Buffered' => DmmInv'
BY Together, PTL

LEMMA Clear == UpTo(<<>>, 0) /\ \A n : UpTo(<<>>, n)
BY DEF UpTo

\* A request keeps the types.
LEMMA RequestTypes ==
  ASSUME Plainly, NEW w \in Nat, Request(w)
  PROVE  wait' \in Nat /\ pending' \in Seq(0 .. Latency) /\ faults' \in 0 .. MaxFaults
<1>1. dmm.timeout \in Nat /\ Latency \in Nat /\ MaxFaults \in Nat
  BY MeterFacts, SerialDmmAssumption DEF Plainly
<1>2. Append(pending, 0) \in Seq(0 .. Latency)
  BY <1>1 DEF Plainly
<1>3. wait' \in {w, dmm.timeout}
  BY DEF Request, WaitAfterRequest
<1>4. pending' \in {pending, Append(pending, 0)}
  BY DEF Request
<1>5. faults' = faults \/ Fault
  BY DEF Request
<1>6. faults' \in 0 .. MaxFaults
  BY <1>1, <1>5 DEF Fault, Plainly
<1>7. pending' \in Seq(0 .. Latency)
  BY <1>2, <1>4 DEF Plainly
<1> QED BY <1>1, <1>3, <1>6, <1>7

LEMMA ScanSteps == DmmInv /\ (Scan \/ DetectTimeout \/ DevOpen \/ DevClose) => DmmInv'
<1> SUFFICES ASSUME DmmInv, Scan \/ DetectTimeout \/ DevOpen \/ DevClose PROVE DmmInv'
  OBVIOUS
<1>0. Plainly /\ Buffered
  BY Together
<1>1. Latency \in Nat /\ BufSize \in Nat \ {0} /\ ScanSize \in Nat \ {0} /\ MaxFaults \in Nat
  BY SerialDmmAssumption
<1>2. CASE Scan
  <2>1. pending' \in Seq(0 .. Latency) /\ faults' \in 0 .. MaxFaults
    <3>1. Append(pending, 0) \in Seq(0 .. Latency)
      BY <1>0, <1>1 DEF Plainly
    <3>2. pending' \in {pending, Append(pending, 0)} /\ (faults' = faults \/ Fault)
      BY <1>2 DEF Scan
    <3>3. faults' \in 0 .. MaxFaults
      BY <1>0, <1>1, <3>2 DEF Fault, Plainly
    <3> QED BY <1>0, <3>1, <3>2, <3>3 DEF Plainly
  <2>2. Plainly'
    BY <1>0, <1>2, <2>1 DEF Scan, Plainly
  <2>3. port = "none" /\ buf = <<>> /\ Len(buf) = 0 /\ check_pos = 0
    BY <1>0, <1>2 DEF Scan, Buffered, Places
  <2>4. UNCHANGED <<buf, check_pos, pc, acquiring, ids>> /\ port' \in {"scan", "leaked"}
    BY <1>2 DEF Scan
  <2>5. Buffered'
    BY <1>0, <1>1, <2>3, <2>4 DEF Buffered, Places
  <2> QED BY <2>2, <2>5, TogetherNext
<1>3. CASE DetectTimeout
  <2>1. coming' \subseteq coming /\ rx' = <<>> /\ buf' = <<>> /\ check_pos' = 0 /\ port' = "none"
    BY <1>3 DEF DetectTimeout, ScanEnds
  <2>2. Plainly'
    BY <1>0, <1>3, <2>1, Clear DEF DetectTimeout, Plainly
  <2>3. Buffered'
    BY <1>0, <1>1, <1>3, <2>1, Clear DEF DetectTimeout, Buffered, Places
  <2> QED BY <2>2, <2>3, TogetherNext
<1>4. CASE DevOpen \/ DevClose
  <2>1. /\ coming' \subseteq coming /\ rx' = <<>> /\ UNCHANGED <<buf, check_pos, pc, acquiring>>
        /\ port \in {"open", "closed"} /\ port' \in {"open", "closed"}
        /\ port' = "open" \/ ~acquiring
    BY <1>4 DEF DevOpen, DevClose
  <2>2. UNCHANGED <<dmm, wait, samples_read, runs, handled, tx, pending, ids, faults>>
    BY <1>4 DEF DevOpen, DevClose
  <2>3. Plainly'
    BY <1>0, <2>1, <2>2, Clear DEF Plainly
  <2>4. Buffered'
    BY <1>0, <2>1, <2>2 DEF Buffered, Places
  <2> QED BY <2>3, <2>4, TogetherNext
<1> QED BY <1>2, <1>3, <1>4

LEMMA DetectStep == DmmInv /\ DetectByte => DmmInv'
<1> SUFFICES ASSUME DmmInv, DetectByte PROVE DmmInv'
  OBVIOUS
<1> DEFINE b == IF rx # <<>> THEN Append(buf, Head(rx)) ELSE buf
           s == SubSeq(b, check_pos + 1, Len(b))
<1>0. Plainly /\ Buffered
  BY Together
<1>1. BufSize \in Nat \ {0} /\ ScanSize \in Nat \ {0}
  BY SerialDmmAssumption
<1>2. port = "scan" /\ UNCHANGED <<dmm, pc, wait, acquiring, samples_read, runs, handled, tx, pending, ids, faults>>
  BY DEF DetectByte
<1>3. rx # <<>> => UpTo(Tail(rx), ids) /\ UpTo(Append(buf, Head(rx)), ids)
  BY <1>0, UpToTail, UpToAppend DEF Plainly, Buffered
<1>4. UpTo(b, ids) /\ b \in Seq(Bytes) /\ Len(buf) <= Len(b) /\ Len(b) <= Len(buf) + 1
  BY <1>0, <1>3 DEF Buffered, UpTo
<1>5. CASE \E to \in {"closed", "none"} : \E found : ScanEnds(to, found)
  <2>1. /\ coming' \subseteq coming /\ rx' = <<>> /\ buf' = <<>> /\ check_pos' = 0
        /\ port' \in {"closed", "none"}
    BY <1>5 DEF ScanEnds
  <2>2. Plainly'
    BY <1>0, <1>2, <2>1, Clear DEF Plainly
  <2>3. Buffered'
    BY <1>0, <1>1, <1>2, <2>1, Clear DEF Buffered, Places
  <2> QED BY <2>2, <2>3, TogetherNext
<1>6. CASE /\ buf' = b /\ Len(b) # ScanSize
           /\ check_pos' = IF Verdict(s) = "invalid" THEN check_pos + 1 ELSE check_pos
           /\ rx' = IF rx # <<>> THEN Tail(rx) ELSE rx
           /\ UNCHANGED <<port, coming>>
  <2>1. Plainly'
    BY <1>0, <1>2, <1>3, <1>6 DEF Plainly
  <2>2. check_pos \in Nat /\ check_pos <= Len(b) /\ Len(b) \in Nat
    BY <1>0, <1>4 DEF Buffered, UpTo
  <2>3. s \in Seq(Bytes) /\ Len(s) = Len(b) - check_pos
    BY <1>4, <2>2, SubFacts
  <2>4. Verdict(s) = "invalid" => Len(s) >= 1
    BY <2>3, VerdictLong
  <2>5. check_pos' \in 0 .. Len(b)
    BY <1>6, <2>2, <2>3, <2>4
  <2>6. Len(b) < ScanSize
    BY <1>0, <1>1, <1>2, <1>4, <1>6, <2>2 DEF Buffered, Places, UpTo
  <2> HIDE DEF b, s
  <2>7. Buffered'
    BY <1>0, <1>1, <1>2, <1>4, <1>6, <2>2, <2>5, <2>6 DEF Buffered, Places
  <2> QED BY <2>1, <2>7, TogetherNext
<1> QED BY <1>5, <1>6 DEF DetectByte

LEMMA RunSteps == DmmInv /\ (AcquisitionStart \/ AcquisitionStop \/ Poll) => DmmInv'
<1> SUFFICES ASSUME DmmInv, AcquisitionStart \/ AcquisitionStop \/ Poll PROVE DmmInv'
  OBVIOUS
<1>0. Plainly /\ Buffered
  BY Together
<1>1. MaxRuns \in Nat /\ BufSize \in Nat
  BY SerialDmmAssumption
<1>2. CASE AcquisitionStart
  <2>1. Plainly'
    BY <1>0, <1>1, <1>2 DEF AcquisitionStart, line, Plainly
  <2>2. Buffered'
    BY <1>0, <1>2 DEF AcquisitionStart, line, Buffered, Places
  <2> QED BY <2>1, <2>2, TogetherNext
<1>3. CASE AcquisitionStop
  <2>1. Plainly'
    BY <1>0, <1>3 DEF AcquisitionStop, line, Plainly
  <2>2. Buffered'
    BY <1>0, <1>3 DEF AcquisitionStop, line, Buffered, Places
  <2> QED BY <2>1, <2>2, TogetherNext
<1>4. CASE Poll
  <2>1. wait' \in Nat /\ pending' \in Seq(0 .. Latency) /\ faults' \in 0 .. MaxFaults
    BY <1>0, <1>4, RequestTypes DEF Poll
  <2>2. UNCHANGED <<dmm, port, buf, check_pos, pc, samples_read, runs, handled, rx, tx, ids, coming>>
    BY <1>4 DEF Poll
  <2>3. acquiring' \in BOOLEAN /\ acquiring /\ pc = "idle"
    BY <1>4 DEF Poll
  <2>4. Plainly'
    BY <1>0, <2>1, <2>2 DEF Plainly
  <2>5. Buffered'
    BY <1>0, <2>2, <2>3 DEF Buffered, Places
  <2> QED BY <2>4, <2>5, TogetherNext
<1> QED BY <1>2, <1>3, <1>4

LEMMA ReceiveStep == DmmInv /\ Receive => DmmInv'
<1> SUFFICES ASSUME DmmInv, Receive PROVE DmmInv'
  OBVIOUS
<1>0. Plainly /\ Buffered
  BY Together
<1> DEFINE n == Lesser(Len(rx), ReadLen)
<1>1. BufSize \in Nat /\ UpTo(rx, ids) /\ UpTo(buf, ids) /\ rx \in Seq(Bytes) /\ buf \in Seq(Bytes)
  BY <1>0, SerialDmmAssumption DEF Plainly, Buffered, UpTo
<1>2. /\ acquiring /\ port = "open" /\ pc = "idle" /\ n > 0 /\ pc' = "check" /\ check_pos' = 0
      /\ buf' = buf \o SubSeq(rx, 1, n) /\ rx' = SubSeq(rx, n + 1, Len(rx))
      /\ UNCHANGED <<dmm, port, wait, acquiring, samples_read, runs, handled, tx, pending, ids, coming, faults>>
  BY <1>0 DEF Receive, Buffered, Places
<1>3. n \in Nat \ {0} /\ n <= Len(rx) /\ n <= BufSize - Len(buf) /\ Len(rx) \in Nat /\ Len(buf) \in Nat
  BY <1>1, <1>2 DEF Lesser, ReadLen
<1> HIDE DEF n
<1>4. UpTo(SubSeq(rx, 1, n), ids) /\ UpTo(rx', ids) /\ Len(SubSeq(rx, 1, n)) = n
  BY <1>1, <1>2, <1>3, UpToSub, SubFacts
<1>5. UpTo(buf', ids) /\ Len(buf') = Len(buf) + n
  BY <1>1, <1>2, <1>4, UpToCat, CatFacts DEF UpTo
<1>6. Plainly'
  BY <1>0, <1>2, <1>4 DEF Plainly
<1>7. Buffered'
  BY <1>0, <1>1, <1>2, <1>3, <1>5 DEF Buffered, Places
<1> QED BY <1>6, <1>7, TogetherNext

LEMMA LoopSteps == DmmInv /\ (Search \/ Process \/ LoopEnds) => DmmInv'
<1> SUFFICES ASSUME DmmInv, Search \/ Process \/ LoopEnds PROVE DmmInv'
  OBVIOUS
<1>0. Plainly /\ Buffered
  BY Together
<1>1. /\ BufSize \in Nat \ {0} /\ buf \in Seq(Bytes) /\ check_pos \in 0 .. Len(buf) /\ dmm \in Meters
      /\ ids \in Nat /\ UpTo(buf, ids) /\ Len(buf) \in Nat
  BY <1>0, SerialDmmAssumption DEF Plainly, Buffered, UpTo
<1>2. pc = "check" /\ port = "open" /\ acquiring /\ Len(buf) <= BufSize
  BY <1>0 DEF Search, Process, LoopEnds, Buffered, Places
<1>3. /\ Rest \in Seq(Bytes) /\ Len(Rest) = Len(buf) - check_pos
      /\ \A k \in 1 .. Len(Rest) : Rest[k] = buf[check_pos + k]
  BY <1>1, RestFacts
<1>4. UpTo(Rest, ids)
  BY <1>1, UpToSub DEF Rest
<1>5. CASE Search
  <2>1. Len(Rest) >= 1
    BY <1>3, <1>5, VerdictLong DEF Search
  <2>2. check_pos' \in 0 .. Len(buf)
    BY <1>1, <1>3, <1>5, <2>1 DEF Search, NextPos
  <2>3. Plainly'
    BY <1>0, <1>5 DEF Search, line, Plainly
  <2>4. Buffered'
    BY <1>0, <1>2, <1>5, <2>2 DEF Search, line, Buffered, Places
  <2> QED BY <2>3, <2>4, TogetherNext
<1>6. CASE Process
  <2>1. Len(Rest) >= 1 /\ First(Rest[1]) /\ Rest[1].size \in 1 .. Len(Rest)
    BY <1>1, <1>3, <1>6, ValidFacts DEF Process
  <2>2. check_pos' \in 0 .. Len(buf)
    BY <1>1, <1>3, <1>6, <2>1 DEF Process
  <2>3. Rest[1] \in Bytes /\ Rest[1].id <= ids
    BY <1>3, <1>4, <2>1 DEF UpTo
  <2>4. handled' \in 0 .. ids
    BY <1>1, <1>6, <2>3 DEF Process, Bytes
  <2>5. wait' \in Nat /\ pending' \in Seq(0 .. Latency) /\ faults' \in 0 .. MaxFaults
    <3>1. WaitAfterPacket \in Nat
      BY <1>0, MeterFacts DEF WaitAfterPacket, Plainly
    <3>2. CASE dmm.request
      BY <1>0, <1>6, <3>1, <3>2, RequestTypes DEF Process
    <3>3. CASE ~dmm.request
      BY <1>0, <1>6, <3>3 DEF Process, Plainly
    <3> QED BY <3>2, <3>3
  <2>6. /\ coming' \subseteq coming /\ samples_read' = samples_read + 1
        /\ UNCHANGED <<dmm, port, buf, pc, acquiring, runs, rx, tx, ids>>
    BY <1>6 DEF Process
  <2>7. Plainly'
    BY <1>0, <2>4, <2>5, <2>6 DEF Plainly
  <2>8. Buffered'
    BY <1>0, <1>2, <2>2, <2>6 DEF Buffered, Places
  <2> QED BY <2>7, <2>8, TogetherNext
<1>7. CASE LoopEnds
  <2>1. /\ buf' \in {<<>>, Rest} /\ (Len(Rest) = BufSize => buf' = <<>>) /\ check_pos' = 0 /\ pc' = "idle"
        /\ coming' \subseteq coming /\ acquiring' \in BOOLEAN
        /\ UNCHANGED <<dmm, port, wait, samples_read, runs, handled, rx, tx, pending, ids, faults>>
    BY <1>7 DEF LoopEnds, DropFull, MovedToFront
  <2>2. UpTo(buf', ids) /\ Len(buf') \in Nat /\ Len(buf') < BufSize
    BY <1>1, <1>2, <1>3, <1>4, <2>1, Clear
  <2>3. Plainly'
    BY <1>0, <2>1 DEF Plainly
  <2>4. Buffered'
    BY <1>0, <1>1, <1>2, <2>1, <2>2 DEF Buffered, Places
  <2> QED BY <2>3, <2>4, TogetherNext
<1> QED BY <1>5, <1>6, <1>7

-----------------------------------------------------------------------------
(* The inductive invariant.                                                 *)

LEMMA DmmInit == Init => DmmInv
<1> SUFFICES ASSUME Init PROVE DmmInv
  OBVIOUS
<1>1. BufSize \in Nat \ {0} /\ MaxRuns \in Nat /\ MaxPackets \in Nat /\ MaxFaults \in Nat
  BY SerialDmmAssumption
<1>2. Plainly
  BY <1>1, Clear DEF Init, Plainly
<1>3. Len(buf) = 0 /\ buf = <<>> /\ UpTo(buf, ids)
  BY Clear DEF Init
<1>a. port = "none" /\ pc = "idle" /\ acquiring = FALSE /\ check_pos = 0
  BY DEF Init
<1>b. Places
  BY <1>1, <1>3, <1>a DEF Places
<1>c. /\ port \in {"none", "scan", "closed", "open", "leaked"} /\ pc \in {"idle", "check"}
      /\ acquiring \in BOOLEAN
  BY <1>a
<1>d. Len(buf) <= (IF port = "scan" THEN ScanSize ELSE BufSize) /\ check_pos \in 0 .. Len(buf)
  BY <1>1, <1>3, <1>a
<1>4. Buffered
  BY <1>3, <1>b, <1>c, <1>d, Zenon DEF Buffered
<1> QED BY <1>2, <1>4, Together

LEMMA DmmStep == DmmInv /\ [Next]_vars => DmmInv'
<1> SUFFICES ASSUME DmmInv, [Next]_vars PROVE DmmInv'
  OBVIOUS
<1>1. CASE UNCHANGED vars
  BY <1>1 DEF vars, line, DmmInv, TypeOK, Places, Carried
<1>2. CASE Next
  BY <1>2, LineStep, ScanSteps, DetectStep, RunSteps, ReceiveStep, LoopSteps DEF Next, Host
<1> QED BY <1>1, <1>2

\* The state of the driver keeps its types; in particular neither the buffer of the
\* scan nor that of the acquisition is written past its end, and the search never
\* leaves the bytes received.
THEOREM DmmTypes == Spec => []TypeOK
<1>1. DmmInv => TypeOK
  BY DEF DmmInv
<1> QED BY <1>1, DmmInit, DmmStep, PTL DEF Spec

\* Whatever arrives, receive_data() finds room in the buffer: handle_new_data() never
\* leaves it full.
THEOREM RoomKept == Spec => []RoomToRead
<1>1. DmmInv => RoomToRead
  BY DEF DmmInv, Places, RoomToRead
<1> QED BY <1>1, DmmInit, DmmStep, PTL DEF Spec

-----------------------------------------------------------------------------
(* The order of the packets.                                                *)

LEMMA SubOrder ==
  ASSUME NEW s \in Seq(Bytes), NEW m \in Nat \ {0}, NEW n \in Nat, n <= Len(s), m <= n + 1
  PROVE  /\ Ord(s) => Ord(SubSeq(s, m, n))
         /\ \A u \in Seq(Bytes) : Asc(s, u) => Asc(SubSeq(s, m, n), u)
         /\ \A u \in Seq(Bytes) : Asc(u, s) => Asc(u, SubSeq(s, m, n))
         /\ \A h \in Nat : Past(s, m - 1, h) => Past(SubSeq(s, m, n), 0, h)
<1> DEFINE t == SubSeq(s, m, n)
<1>1. Len(t) = n - m + 1 /\ \A k \in 1 .. n - m + 1 : t[k] = s[m + k - 1]
  BY SubFacts
<1>2. Len(s) \in Nat
  OBVIOUS
<1> HIDE DEF t
<1>i. ASSUME NEW k \in 1 .. Len(t)
      PROVE  k \in Int /\ m + k - 1 \in 1 .. Len(s) /\ m + k - 1 \in m - 1 + 1 .. Len(s) /\ t[k] = s[m + k - 1]
  BY <1>1, <1>2
<1>j. ASSUME NEW k \in Int, NEW l \in Int, k < l PROVE m + k - 1 < m + l - 1
  BY <1>j
<1>3. Ord(s) => Ord(t)
  BY <1>i, <1>j DEF Ord
<1>4. ASSUME NEW u \in Seq(Bytes) PROVE (Asc(s, u) => Asc(t, u)) /\ (Asc(u, s) => Asc(u, t))
  BY <1>i DEF Asc
<1>5. ASSUME NEW h \in Nat PROVE Past(s, m - 1, h) => Past(t, 0, h)
  <2>1. ASSUME NEW k \in 0 + 1 .. Len(t) PROVE k \in 1 .. Len(t)
    BY <1>1
  <2> QED BY <1>i, <2>1 DEF Past
<1> QED BY <1>3, <1>4, <1>5 DEF t

LEMMA CatOrder ==
  ASSUME NEW s \in Seq(Bytes), NEW t \in Seq(Bytes)
  PROVE  /\ Ord(s) /\ Ord(t) /\ Asc(s, t) => Ord(s \o t)
         /\ \A u \in Seq(Bytes) : Asc(s, u) /\ Asc(t, u) => Asc(s \o t, u)
         /\ \A u \in Seq(Bytes) : Asc(u, s) /\ Asc(u, t) => Asc(u, s \o t)
         /\ \A p, h \in Nat : Past(s, p, h) /\ Past(t, 0, h) => Past(s \o t, p, h)
<1> DEFINE c == s \o t
<1>1. /\ Len(c) = Len(s) + Len(t) /\ Len(s) \in Nat /\ Len(t) \in Nat
      /\ \A k \in 1 .. Len(s) + Len(t) : c[k] = IF k <= Len(s) THEN s[k] ELSE t[k - Len(s)]
  BY CatFacts
<1> HIDE DEF c
<1>2. ASSUME NEW k \in 1 .. Len(c)
      PROVE  \/ k \in 1 .. Len(s) /\ c[k] = s[k]
             \/ k - Len(s) \in 1 .. Len(t) /\ c[k] = t[k - Len(s)] /\ k > Len(s)
  BY <1>1
<1>3. ASSUME Ord(s), Ord(t), Asc(s, t), NEW k \in 1 .. Len(c), NEW l \in 1 .. Len(c), k < l,
             First(c[k]), First(c[l])
      PROVE  c[k].id < c[l].id
  <2>1. CASE l \in 1 .. Len(s) /\ c[l] = s[l]
    BY <1>1, <1>2, <1>3, <2>1 DEF Ord
  <2>2. CASE l - Len(s) \in 1 .. Len(t) /\ c[l] = t[l - Len(s)] /\ k \in 1 .. Len(s) /\ c[k] = s[k]
    BY <1>3, <2>2 DEF Asc
  <2>3. CASE /\ l - Len(s) \in 1 .. Len(t) /\ c[l] = t[l - Len(s)]
             /\ k - Len(s) \in 1 .. Len(t) /\ c[k] = t[k - Len(s)]
    <3>1. k - Len(s) < l - Len(s)
      BY <1>1, <1>3
    <3> QED BY <1>3, <2>3, <3>1 DEF Ord
  <2> QED BY <1>2, <2>1, <2>2, <2>3
<1>4. ASSUME NEW u \in Seq(Bytes)
      PROVE  (Asc(s, u) /\ Asc(t, u) => Asc(c, u)) /\ (Asc(u, s) /\ Asc(u, t) => Asc(u, c))
  BY <1>2 DEF Asc
<1>5. ASSUME NEW p \in Nat, NEW h \in Nat, Past(s, p, h), Past(t, 0, h), NEW k \in p + 1 .. Len(c), First(c[k])
      PROVE  c[k].id > h
  <2>1. k \in 1 .. Len(c)
    BY <1>1
  <2>2. CASE k \in 1 .. Len(s) /\ c[k] = s[k]
    BY <1>1, <1>5, <2>2 DEF Past
  <2>3. CASE k - Len(s) \in 1 .. Len(t) /\ c[k] = t[k - Len(s)]
    BY <1>1, <1>5, <2>3 DEF Past
  <2> QED BY <1>2, <2>1, <2>2, <2>3
<1>6. Ord(s) /\ Ord(t) /\ Asc(s, t) => Ord(c)
  BY <1>3 DEF Ord
<1>7. ASSUME NEW p \in Nat, NEW h \in Nat PROVE Past(s, p, h) /\ Past(t, 0, h) => Past(c, p, h)
  BY <1>5 DEF Past
<1> QED BY <1>4, <1>6, <1>7 DEF c

LEMMA SplitOrder ==
  ASSUME NEW s \in Seq(Bytes), NEW n \in 0 .. Len(s), Ord(s)
  PROVE  Asc(SubSeq(s, 1, n), SubSeq(s, n + 1, Len(s)))
<1>1. Len(s) \in Nat /\ n \in Nat /\ n <= Len(s)
  OBVIOUS
<1>2. Len(SubSeq(s, 1, n)) = n /\ \A k \in 1 .. n : SubSeq(s, 1, n)[k] = s[k]
  BY <1>1, SubFacts
<1>3. /\ Len(SubSeq(s, n + 1, Len(s))) = Len(s) - n
      /\ \A k \in 1 .. Len(s) - n : SubSeq(s, n + 1, Len(s))[k] = s[n + k]
  BY <1>1, SubFacts
<1>4. ASSUME NEW k \in 1 .. n, NEW l \in 1 .. Len(s) - n
      PROVE  k \in 1 .. Len(s) /\ n + l \in 1 .. Len(s) /\ k < n + l
  BY <1>1
<1> QED BY <1>2, <1>3, <1>4 DEF Asc, Ord

\* n bytes move from the front of t to the end of s.
Moved(s, t, a, b) ==
  /\ a \in Seq(Bytes) /\ b \in Seq(Bytes) /\ Ord(a) /\ Ord(b) /\ Asc(a, b)
  /\ \A u \in Seq(Bytes) : Asc(s, u) /\ Asc(t, u) => Asc(a, u) /\ Asc(b, u)
  /\ \A u \in Seq(Bytes) : Asc(u, s) /\ Asc(u, t) => Asc(u, a) /\ Asc(u, b)
  /\ \A p, h \in Nat : Past(s, p, h) /\ Past(t, 0, h) => Past(a, p, h) /\ Past(b, 0, h)

LEMMA MoveOrder ==
  ASSUME NEW s \in Seq(Bytes), NEW t \in Seq(Bytes), NEW n \in 0 .. Len(t),
         Ord(s), Ord(t), Asc(s, t), NEW a, NEW b,
         a = s \o SubSeq(t, 1, n), b = SubSeq(t, n + 1, Len(t))
  PROVE  Moved(s, t, a, b)
<1> DEFINE x == SubSeq(t, 1, n)
<1>1. n \in Nat /\ Len(t) \in Nat /\ n <= Len(t)
  OBVIOUS
<1>2. x \in Seq(Bytes) /\ b \in Seq(Bytes) /\ a = s \o x
  BY <1>1, SubFacts
<1>3. Ord(x) /\ Ord(b) /\ Asc(x, b) /\ Asc(s, x) /\ Asc(s, b)
  BY <1>1, SubOrder, SplitOrder
<1>4. ASSUME NEW u \in Seq(Bytes)
      PROVE  (Asc(t, u) => Asc(x, u) /\ Asc(b, u)) /\ (Asc(u, t) => Asc(u, x) /\ Asc(u, b))
  BY <1>1, SubOrder
<1>5. ASSUME NEW h \in Nat PROVE Past(t, 0, h) => Past(x, 0, h) /\ Past(b, 0, h)
  <2>1. Past(t, 0, h) => Past(t, n, h)
    BY <1>1 DEF Past
  <2>2. Past(t, 0, h) => Past(x, 0, h)
    BY <1>1, SubOrder
  <2>3. n + 1 - 1 = n /\ n + 1 \in Nat \ {0} /\ Len(t) <= Len(t) /\ n + 1 <= Len(t) + 1
    BY <1>1
  <2>4. Past(t, n, h) => Past(b, 0, h)
    BY <1>1, <2>3, SubOrder
  <2> QED BY <2>1, <2>2, <2>4
<1> HIDE DEF x
<1>a. a \in Seq(Bytes)
  BY <1>2, CatFacts
<1>b. Ord(s \o x) /\ Asc(s \o x, b)
  BY <1>2, <1>3, CatOrder
<1>6. a \in Seq(Bytes) /\ Ord(a) /\ Asc(a, b)
  BY <1>2, <1>a, <1>b
<1>7. ASSUME NEW u \in Seq(Bytes)
      PROVE  /\ Asc(s, u) /\ Asc(t, u) => Asc(a, u) /\ Asc(b, u)
             /\ Asc(u, s) /\ Asc(u, t) => Asc(u, a) /\ Asc(u, b)
  BY <1>2, <1>4, CatOrder
<1>8. ASSUME NEW q \in Nat, NEW h \in Nat, Past(s, q, h), Past(t, 0, h)
      PROVE  Past(a, q, h) /\ Past(b, 0, h)
  BY <1>2, <1>5, <1>8, CatOrder
<1> QED BY <1>2, <1>3, <1>6, <1>7, <1>8 DEF Moved

LEMMA TailIsSub ==
  ASSUME NEW s \in Seq(Bytes), s # <<>>
  PROVE  /\ 1 \in 0 .. Len(s) /\ Tail(s) = SubSeq(s, 2, Len(s))
         /\ \A t \in Seq(Bytes) : Append(t, Head(s)) = t \o SubSeq(s, 1, 1)
<1>1. Len(s) \in Nat /\ Len(s) >= 1 /\ Head(s) \in Bytes /\ Head(s) = s[1]
  OBVIOUS
<1> DEFINE x == SubSeq(s, 1, 1)
<1>2. x \in Seq(Bytes) /\ Len(x) = 1 /\ x[1] = s[1]
  BY <1>1, SubFacts
<1> HIDE DEF x
<1>4. ASSUME NEW t \in Seq(Bytes) PROVE Append(t, Head(s)) = t \o x
  <2> DEFINE h == Head(s)
             y == Append(t, h)
  <2>1. h \in Bytes /\ h = x[1]
    BY <1>1, <1>2
  <2> HIDE DEF h
  <2>2. /\ y \in Seq(Bytes) /\ Len(y) = Len(t) + 1 /\ Len(t) \in Nat
        /\ \A k \in 1 .. Len(t) : y[k] = t[k]
        /\ y[Len(t) + 1] = h
    BY <2>1
  <2>3. /\ t \o x \in Seq(Bytes) /\ Len(t \o x) = Len(t) + 1
        /\ \A k \in 1 .. Len(t) + 1 : (t \o x)[k] = IF k <= Len(t) THEN t[k] ELSE x[k - Len(t)]
    <3>1. /\ t \o x \in Seq(Bytes) /\ Len(t \o x) = Len(t) + Len(x)
          /\ \A k \in 1 .. Len(t) + Len(x) : (t \o x)[k] = IF k <= Len(t) THEN t[k] ELSE x[k - Len(t)]
      BY <1>2, CatFacts
    <3>2. Len(t) + Len(x) = Len(t) + 1
      BY <1>2
    <3> QED BY <3>1, <3>2, Zenon
  <2> HIDE DEF y
  <2>4. ASSUME NEW k \in 1 .. Len(y) PROVE y[k] = (t \o x)[k]
    <3>1. CASE k <= Len(t)
      BY <2>2, <2>3, <3>1
    <3>2. CASE ~(k <= Len(t))
      <4>1. k = Len(t) + 1 /\ k - Len(t) = 1
        BY <2>2, <3>2
      <4> QED BY <2>1, <2>2, <2>3, <3>2, <4>1
    <3> QED BY <3>1, <3>2
  <2> QED BY <2>2, <2>3, <2>4, SeqEqual DEF y, h
<1>3. Tail(s) = SubSeq(s, 2, Len(s))
  BY <1>1
<1> QED BY <1>1, <1>3, <1>4 DEF x

\* The next packet of the meter comes after all others.
LEMMA NewPacket ==
  ASSUME dmm \in Meters, NEW n \in Nat
  PROVE  /\ Packet(n + 1) \in Seq(Bytes) /\ Ord(Packet(n + 1))
         /\ \A s : UpTo(s, n) => Asc(s, Packet(n + 1))
         /\ \A h \in 0 .. n : Past(Packet(n + 1), 0, h)
<1> DEFINE p == Packet(n + 1)
<1>0. n + 1 \in Nat
  OBVIOUS
<1>1. /\ p \in Seq(Bytes) /\ Len(p) \in Nat
      /\ \A k \in 1 .. Len(p) : p[k].id = n + 1 /\ p[k].pos = k
  <2> DEFINE i == n + 1
  <2>1. i \in Nat
    BY <1>0
  <2> HIDE DEF i
  <2>2. /\ Packet(i) \in Seq(Bytes) /\ Len(Packet(i)) = Size(i) /\ Size(i) \in Nat
        /\ \A k \in 1 .. Size(i) : Packet(i)[k].id = i /\ Packet(i)[k].pos = k
    BY <2>1, PacketFacts, SizeFacts
  <2> QED BY <2>2 DEF i
<1> HIDE DEF p
<1>2. Ord(p)
  BY <1>1 DEF Ord, First
<1>3. ASSUME NEW s, UpTo(s, n) PROVE Asc(s, p)
  <2>1. ASSUME NEW k \in 1 .. Len(s) PROVE s[k].id \in Nat /\ s[k].id <= n
    <3>1. s \in Seq(Bytes) /\ s[k].id <= n
      BY <1>3 DEF UpTo
    <3>2. s[k] \in Bytes
      BY <3>1
    <3> QED BY <3>1, <3>2 DEF Bytes
  <2> QED BY <1>1, <2>1 DEF Asc
<1>4. ASSUME NEW h \in 0 .. n PROVE Past(p, 0, h)
  BY <1>1 DEF Past
<1> QED BY <1>1, <1>2, <1>3, <1>4 DEF p

LEMMA ByteAt ==
  ASSUME NEW s \in Seq(Bytes), NEW k \in 1 .. Len(s) PROVE s[k] \in Bytes /\ s[k].id \in Nat
<1>1. s[k] \in Bytes
  OBVIOUS
<1> QED BY <1>1 DEF Bytes

LEMMA PastMore ==
  ASSUME NEW s \in Seq(Bytes), NEW m \in Nat, NEW n \in Nat, m <= n, NEW h, Past(s, m, h) PROVE Past(s, n, h)
<1>1. ASSUME NEW k \in n + 1 .. Len(s) PROVE k \in m + 1 .. Len(s)
  OBVIOUS
<1> QED BY <1>1 DEF Past

LEMMA Sorts ==
  ASSUME DmmInv
  PROVE  /\ buf \in Seq(Bytes) /\ rx \in Seq(Bytes) /\ tx \in Seq(Bytes) /\ ids \in Nat
         /\ check_pos \in 0 .. Len(buf) /\ handled \in 0 .. ids /\ handled \in Nat /\ dmm \in Meters
         /\ UpTo(buf, ids) /\ UpTo(rx, ids) /\ UpTo(tx, ids)
BY SerialDmmAssumption DEF DmmInv, TypeOK, Carried, UpTo

LEMMA NoBytes ==
  /\ Ord(<<>>) /\ \A s : Asc(<<>>, s) /\ Asc(s, <<>>)
  /\ \A p, h \in Nat : Past(<<>>, p, h)
<1>1. Ord(<<>>) /\ \A s : Asc(<<>>, s) /\ Asc(s, <<>>)
  BY DEF Ord, Asc
<1>2. ASSUME NEW p \in Nat, NEW h \in Nat PROVE Past(<<>>, p, h)
  BY DEF Past
<1> QED BY <1>1, <1>2

LEMMA LineOrder ==
  ASSUME DmmInv, Ordered, \/ Reply \/ Stream \/ Transmit \/ LoseByte \/ LoseRequest \/ Tick
                          \/ \E b \in NoiseBytes : Noise(b)
  PROVE  Ordered'
<1>0. /\ buf \in Seq(Bytes) /\ rx \in Seq(Bytes) /\ tx \in Seq(Bytes) /\ ids \in Nat
      /\ check_pos \in Nat /\ handled \in 0 .. ids /\ handled \in Nat /\ dmm \in Meters
      /\ UpTo(buf, ids) /\ UpTo(rx, ids) /\ UpTo(tx, ids)
  BY Sorts
<1>1. UNCHANGED <<buf, check_pos, handled>>
  BY DEF Reply, Stream, Transmit, LoseByte, LoseRequest, Tick, Noise
<1>2. CASE UNCHANGED <<rx, tx>>
  BY <1>1, <1>2 DEF Ordered
<1>3. CASE Emit /\ UNCHANGED rx
  <2>1. tx' = tx \o Packet(ids + 1)
    BY <1>3 DEF Emit
  <2>2. /\ Packet(ids + 1) \in Seq(Bytes) /\ Ord(Packet(ids + 1)) /\ Past(Packet(ids + 1), 0, handled)
        /\ Asc(buf, Packet(ids + 1)) /\ Asc(rx, Packet(ids + 1)) /\ Asc(tx, Packet(ids + 1))
    BY <1>0, NewPacket
  <2>3. Ord(tx') /\ Asc(buf, tx') /\ Asc(rx, tx')
    BY <1>0, <2>1, <2>2, CatOrder DEF Ordered
  <2>4. Past(tx', 0, handled)
    BY <1>0, <2>1, <2>2, CatOrder DEF Ordered
  <2> QED BY <1>1, <1>3, <2>3, <2>4 DEF Ordered
<1>4. CASE tx # <<>> /\ tx' = Tail(tx) /\ rx' \in {rx, Append(rx, Head(tx))}
  <2>1. 1 \in 0 .. Len(tx) /\ tx' = SubSeq(tx, 1 + 1, Len(tx)) /\ Append(rx, Head(tx)) = rx \o SubSeq(tx, 1, 1)
    BY <1>0, <1>4, TailIsSub
  <2>2. CASE rx' = rx
    <3>1. 2 \in Nat \ {0} /\ Len(tx) \in Nat /\ Len(tx) <= Len(tx) /\ 2 <= Len(tx) + 1 /\ tx' = SubSeq(tx, 2, Len(tx))
      BY <1>0, <2>1
    <3>2. Ord(tx') /\ Asc(buf, tx') /\ Asc(rx, tx')
      BY <1>0, <3>1, SubOrder DEF Ordered
    <3>3. Past(tx, 1, handled)
      BY <1>0 DEF Ordered, Past
    <3>4. Past(tx', 0, handled)
      BY <1>0, <3>1, <3>3, SubOrder
    <3> QED BY <1>1, <2>2, <3>2, <3>4 DEF Ordered
  <2>3. CASE rx' = rx \o SubSeq(tx, 1, 1)
    <3>1. /\ Ord(rx') /\ Ord(tx') /\ Asc(rx', tx')
          /\ Asc(buf, rx) /\ Asc(buf, tx) => Asc(buf, rx') /\ Asc(buf, tx')
          /\ \A p, h \in Nat : Past(rx, p, h) /\ Past(tx, 0, h) => Past(rx', p, h) /\ Past(tx', 0, h)
      <4>1. Ord(rx) /\ Ord(tx) /\ Asc(rx, tx)
        BY DEF Ordered
      <4>2. Moved(rx, tx, rx', tx')
        BY <1>0, <2>1, <2>3, <4>1, MoveOrder
      <4> QED BY <1>0, <4>2 DEF Moved
    <3> QED BY <1>0, <1>1, <3>1 DEF Ordered
  <2> QED BY <1>4, <2>1, <2>2, <2>3
<1>5. ASSUME NEW b \in NoiseBytes, rx' = Append(rx, b), tx' = tx PROVE Ordered'
  <2>1. b \in Bytes /\ ~First(b)
    BY SerialDmmAssumption DEF NoiseBytes, Bytes, First
  <2>2. /\ Len(rx') = Len(rx) + 1 /\ Len(rx) \in Nat /\ \A k \in 1 .. Len(rx) : rx'[k] = rx[k]
        /\ rx'[Len(rx) + 1] = b
    BY <1>0, <1>5, <2>1
  <2>3. ASSUME NEW k \in 1 .. Len(rx'), First(rx'[k]) PROVE k \in 1 .. Len(rx) /\ rx'[k] = rx[k]
    BY <2>1, <2>2, <2>3
  <2>4. Ord(rx') /\ Asc(buf, rx') /\ Asc(rx', tx)
    BY <2>3 DEF Ordered, Ord, Asc
  <2>5. Past(rx', 0, handled)
    <3>1. ASSUME NEW k \in 0 + 1 .. Len(rx') PROVE k \in 1 .. Len(rx')
      BY <2>2
    <3>2. ASSUME NEW k \in 1 .. Len(rx) PROVE k \in 0 + 1 .. Len(rx)
      BY <2>2
    <3> QED BY <2>3, <3>1, <3>2 DEF Ordered, Past
  <2> QED BY <1>1, <1>5, <2>4, <2>5 DEF Ordered
<1>6. \/ UNCHANGED <<rx, tx>>
      \/ Emit /\ UNCHANGED rx
      \/ tx # <<>> /\ tx' = Tail(tx) /\ rx' \in {rx, Append(rx, Head(tx))}
      \/ \E b \in NoiseBytes : rx' = Append(rx, b) /\ tx' = tx
  BY DEF Reply, Stream, Transmit, LoseByte, LoseRequest, Tick, Noise
<1> QED BY <1>2, <1>3, <1>4, <1>5, <1>6

\* The driver drops bytes, moves them on, or leaves them alone.
LEMMA DriverOrder ==
  ASSUME DmmInv, Ordered,
         \/ Scan \/ DetectTimeout \/ DevOpen \/ DevClose \/ AcquisitionStart \/ AcquisitionStop
         \/ DetectByte \/ Receive \/ Poll
  PROVE  Ordered'
<1>0. /\ buf \in Seq(Bytes) /\ rx \in Seq(Bytes) /\ tx \in Seq(Bytes)
      /\ check_pos \in 0 .. Len(buf) /\ check_pos \in Nat /\ handled \in Nat
  BY Sorts
<1>1. tx' = tx /\ handled' = handled
  BY DEF Scan, DetectTimeout, DevOpen, DevClose, AcquisitionStart, AcquisitionStop, DetectByte,
         Receive, Poll, line
<1>2. CASE UNCHANGED <<buf, rx, check_pos>>
  BY <1>1, <1>2 DEF Ordered
<1>3. CASE rx' = <<>> /\ UNCHANGED <<buf, check_pos>>
  BY <1>0, <1>1, <1>3, NoBytes DEF Ordered
<1>4. CASE buf' = <<>> /\ rx' = <<>> /\ check_pos' = 0
  BY <1>0, <1>1, <1>4, NoBytes DEF Ordered
<1>5. ASSUME NEW n \in 0 .. Len(rx), buf' = buf \o SubSeq(rx, 1, n), rx' = SubSeq(rx, n + 1, Len(rx)),
             check_pos' \in Nat, check_pos' >= check_pos
      PROVE  Ordered'
  <2>1. /\ Ord(buf') /\ Ord(rx') /\ Asc(buf', rx')
        /\ Asc(buf, tx) /\ Asc(rx, tx) => Asc(buf', tx) /\ Asc(rx', tx)
        /\ \A p, h \in Nat : Past(buf, p, h) /\ Past(rx, 0, h) => Past(buf', p, h) /\ Past(rx', 0, h)
        /\ buf' \in Seq(Bytes)
    <3>1. Ord(buf) /\ Ord(rx) /\ Asc(buf, rx)
      BY DEF Ordered
    <3>2. Moved(buf, rx, buf', rx')
      BY <1>0, <1>5, <3>1, MoveOrder
    <3> QED BY <1>0, <3>2 DEF Moved
  <2>2. Past(buf', check_pos, handled) /\ Past(rx', 0, handled)
    BY <1>0, <2>1 DEF Ordered
  <2>3. Past(buf', check_pos', handled)
    BY <1>0, <1>5, <2>1, <2>2, PastMore
  <2> QED BY <1>1, <2>1, <2>2, <2>3 DEF Ordered
<1>6. CASE Receive
  <2> DEFINE n == Lesser(Len(rx), ReadLen)
  <2>1. n > 0 /\ buf' = buf \o SubSeq(rx, 1, n) /\ rx' = SubSeq(rx, n + 1, Len(rx)) /\ check_pos' = 0
    BY <1>6 DEF Receive
  <2>2. check_pos = 0
    BY <1>6 DEF Receive, DmmInv, Places
  <2>3. n \in 0 .. Len(rx)
    BY <1>0, <2>1, SerialDmmAssumption DEF Lesser, ReadLen
  <2> HIDE DEF n
  <2> QED BY <1>5, <2>1, <2>2, <2>3, SMTT(30)
<1>7. CASE DetectByte
  <2> DEFINE b == IF rx # <<>> THEN Append(buf, Head(rx)) ELSE buf
  <2>1. \/ buf' = <<>> /\ rx' = <<>> /\ check_pos' = 0
        \/ buf' = b /\ check_pos' \in {check_pos, check_pos + 1} /\ rx' = IF rx # <<>> THEN Tail(rx) ELSE rx
    <3> DEFINE s == SubSeq(b, check_pos + 1, Len(b))
    <3>1. \/ ScanEnds("closed", {s[1].id}) \/ ScanEnds("none", {})
          \/ /\ buf' = b /\ rx' = IF rx # <<>> THEN Tail(rx) ELSE rx
             /\ check_pos' = IF Verdict(s) = "invalid" THEN check_pos + 1 ELSE check_pos
      BY <1>7 DEF DetectByte
    <3> QED BY <3>1 DEF ScanEnds
  <2>2. CASE buf' = b /\ check_pos' \in {check_pos, check_pos + 1} /\ rx' = IF rx # <<>> THEN Tail(rx) ELSE rx
    <3>1. check_pos' \in Nat /\ check_pos' >= check_pos
      BY <1>0, <2>2
    <3>2. CASE rx # <<>>
      <4>1. 1 \in 0 .. Len(rx) /\ rx' = SubSeq(rx, 1 + 1, Len(rx)) /\ buf' = buf \o SubSeq(rx, 1, 1)
        BY <1>0, <2>2, <3>2, TailIsSub
      <4> QED BY <1>5, <3>1, <4>1
    <3>3. CASE rx = <<>>
      <4>1. buf' = buf /\ rx' = rx
        BY <2>2, <3>3
      <4>2. Past(buf, check_pos', handled)
        BY <1>0, <3>1 DEF Ordered, Past
      <4> QED BY <1>1, <4>1, <4>2 DEF Ordered
    <3> QED BY <3>2, <3>3
  <2> QED BY <1>4, <2>1, <2>2
<1>8. CASE Scan \/ AcquisitionStart \/ AcquisitionStop \/ Poll
  BY <1>2, <1>8 DEF Scan, AcquisitionStart, AcquisitionStop, Poll, line
<1>9. CASE DevOpen \/ DevClose
  BY <1>3, <1>9 DEF DevOpen, DevClose
<1>10. CASE DetectTimeout
  BY <1>4, <1>10 DEF DetectTimeout, ScanEnds
<1> QED BY <1>6, <1>7, <1>8, <1>9, <1>10

\* A packet that is handled comes after the last one, and before what is still there.
LEMMA LoopOrder ==
  ASSUME DmmInv, Ordered, Search \/ Process \/ LoopEnds
  PROVE  Ordered' /\ (Process => handled' > handled)
<1>0. /\ buf \in Seq(Bytes) /\ rx \in Seq(Bytes) /\ tx \in Seq(Bytes)
      /\ check_pos \in 0 .. Len(buf) /\ check_pos \in Nat /\ handled \in Nat /\ dmm \in Meters /\ Len(buf) \in Nat
  BY Sorts
<1>1. /\ Rest \in Seq(Bytes) /\ Len(Rest) = Len(buf) - check_pos
      /\ \A k \in 1 .. Len(Rest) : Rest[k] = buf[check_pos + k]
  BY <1>0, RestFacts
<1>2. tx' = tx /\ rx' = rx
  BY DEF Search, Process, LoopEnds, line
<1>3. ASSUME Search PROVE Ordered'
  <2>1. check_pos' = check_pos + 1 /\ UNCHANGED <<buf, handled>>
    BY <1>3 DEF Search, NextPos
  <2>2. Past(buf, check_pos + 1, handled)
    BY <1>0 DEF Ordered, Past
  <2> QED BY <1>2, <2>1, <2>2 DEF Ordered
<1>4. ASSUME LoopEnds PROVE Ordered'
  <2>1. buf' \in {<<>>, Rest} /\ check_pos' = 0 /\ UNCHANGED handled
    BY <1>4 DEF LoopEnds, DropFull, MovedToFront
  <2>2. CASE buf' = <<>>
    BY <1>0, <1>2, <2>1, <2>2, NoBytes DEF Ordered
  <2>3. CASE buf' = Rest
    <3>1. check_pos + 1 \in Nat \ {0} /\ Len(buf) <= Len(buf) /\ check_pos + 1 <= Len(buf) + 1
          /\ check_pos + 1 - 1 = check_pos
      BY <1>0
    <3>2. /\ Ord(buf) => Ord(Rest)
          /\ \A u \in Seq(Bytes) : Asc(buf, u) => Asc(Rest, u)
          /\ \A h \in Nat : Past(buf, check_pos, h) => Past(Rest, 0, h)
      BY <1>0, <3>1, SubOrder DEF Rest
    <3> QED BY <1>0, <1>2, <2>1, <2>3, <3>2 DEF Ordered
  <2> QED BY <2>1, <2>2, <2>3
<1>5. ASSUME Process PROVE Ordered' /\ handled' > handled
  <2> DEFINE i == check_pos + 1
  <2>1. Len(Rest) >= 1 /\ First(Rest[1]) /\ Rest[1].size \in 1 .. Len(Rest)
    BY <1>0, <1>1, <1>5, ValidFacts DEF Process
  <2>2. i \in 1 .. Len(buf) /\ i \in check_pos + 1 .. Len(buf) /\ Rest[1] = buf[i] /\ First(buf[i])
    BY <1>0, <1>1, <2>1
  <2>3. /\ handled' = buf[i].id /\ UNCHANGED buf
        /\ check_pos' = check_pos + Rest[1].size
    BY <1>5, <2>2 DEF Process
  <2>4. handled' > handled
    BY <2>2, <2>3 DEF Ordered, Past
  <2>5. buf[i] \in Bytes /\ buf[i].id \in Nat
    BY <1>0, <2>2, ByteAt
  <2>6. check_pos' \in Nat /\ check_pos' >= i
    BY <1>0, <2>1, <2>3
  <2> HIDE DEF i
  <2>7. ASSUME NEW k \in 1 .. Len(buf), k > i, First(buf[k]) PROVE buf[k].id > buf[i].id
    <3>1. buf[k] \in Bytes /\ buf[k].id \in Nat /\ i < k
      BY <1>0, <2>2, <2>7, ByteAt
    <3> QED BY <2>2, <2>5, <2>7, <3>1 DEF Ordered, Ord
  <2>8. Past(buf, check_pos', buf[i].id)
    <3>0. i \in Nat /\ i <= check_pos' /\ Len(buf) \in Nat
      BY <1>0, <2>2, <2>6
    <3>1. Past(buf, i, buf[i].id)
      <4>1. ASSUME NEW k \in i + 1 .. Len(buf) PROVE k \in 1 .. Len(buf) /\ k > i
        BY <3>0
      <4> QED BY <2>7, <4>1 DEF Past
    <3> QED BY <1>0, <2>6, <3>0, <3>1, PastMore
  <2>9. ASSUME NEW s \in Seq(Bytes), Asc(buf, s) PROVE Past(s, 0, buf[i].id)
    <3>1. ASSUME NEW k \in 0 + 1 .. Len(s), First(s[k]) PROVE s[k].id > buf[i].id
      <4>1. k \in 1 .. Len(s)
        BY <2>9
      <4>2. s[k] \in Bytes /\ s[k].id \in Nat
        BY <4>1, ByteAt
      <4>3. buf[i].id < s[k].id
        BY <2>2, <2>9, <3>1, <4>1 DEF Asc
      <4> QED BY <2>5, <4>2, <4>3
    <3> QED BY <3>1 DEF Past
  <2> QED BY <1>0, <1>2, <2>3, <2>4, <2>8, <2>9 DEF Ordered
<1> QED BY <1>3, <1>4, <1>5

LEMMA OrderedInit == Init => Ordered
BY NoBytes DEF Init, Ordered

LEMMA OrderedStep == DmmInv /\ Ordered /\ [Next]_vars => Ordered'
<1> SUFFICES ASSUME DmmInv, Ordered, [Next]_vars PROVE Ordered'
  OBVIOUS
<1>1. CASE UNCHANGED vars
  BY <1>1 DEF vars, line, Ordered
<1>2. CASE Next
  BY <1>2, LineOrder, DriverOrder, LoopOrder DEF Next, Host
<1> QED BY <1>1, <1>2

\* Packets are handled in the order in which the meter sent them and none twice, even
\* if bytes are lost, noise comes in between or an answer comes after the request was
\* repeated.
THEOREM PacketsInOrder == Spec => InOrder
<1>1. DmmInv /\ Ordered /\ [Next]_vars => [samples_read' > samples_read => handled' > handled]_vars
  <2> SUFFICES ASSUME DmmInv, Ordered, Next, samples_read' > samples_read PROVE handled' > handled
    OBVIOUS
  <2>1. samples_read \in Nat
    BY DEF DmmInv, TypeOK
  <2>2. samples_read' = samples_read \/ samples_read' = 0 \/ Process
    BY DEF Next, Host, Reply, Stream, Transmit, LoseByte, LoseRequest, Tick, Noise, Scan, DetectTimeout,
           DevOpen, DevClose, AcquisitionStart, AcquisitionStop, DetectByte, Receive, Search, LoopEnds,
           Poll
  <2> QED BY <2>1, <2>2, LoopOrder
<1> QED BY <1>1, DmmInit, DmmStep, OrderedInit, OrderedStep, PTL DEF Spec, InOrder

-----------------------------------------------------------------------------
(* No packet is overlooked.  Every packet that has been sent in full and not  *)
(* handled, lost or damaged lies in one piece in the bytes under way: those   *)
(* that the search has not passed, those that the port holds and those that   *)
(* the meter is sending.                                                     *)

UnderWay == Rest \o (rx \o tx)

Whole(s, id) ==
  \E p \in Nat : p + Size(id) <= Len(s) /\ \A k \in 1 .. Size(id) : s[p + k] = Packet(id)[k]

AllWhole == \A id \in coming : Whole(UnderWay, id)

\* A port that is closed holds no bytes, and the loops end when there is no packet at
\* the place of the search, or not yet.
Settled ==
  /\ ~Listening => rx = <<>>
  /\ pc = "idle" /\ port # "scan" => Verdict(buf) \in {"short", "need_rx"}
  /\ port = "scan" /\ ~dmm.variable => Len(Rest) < PacketSize

\* Packets start with a first byte, and all their bytes carry their number.
LEMMA WholeBytes ==
  ASSUME dmm \in Meters, NEW id \in Nat
  PROVE  /\ Size(id) \in Nat /\ Size(id) >= 1 /\ Size(id) >= PacketSize
         /\ \A k \in 1 .. Size(id) : Packet(id)[k].id = id /\ Packet(id)[k].pos = k
                                     /\ Packet(id)[k].size = Size(id)
<1>1. id % 2 \in Nat /\ PacketSize \in Nat
  BY SerialDmmAssumption
<1>2. Size(id) >= PacketSize
  BY <1>1 DEF Size
<1> QED BY <1>2, PacketFacts, SizeFacts, SMTT(30)

\* Concatenation, byte by byte.
LEMMA CatBytes ==
  ASSUME NEW s \in Seq(Bytes), NEW t \in Seq(Bytes)
  PROVE  /\ s \o t \in Seq(Bytes) /\ Len(s \o t) = Len(s) + Len(t)
         /\ Len(s) \in Nat /\ Len(t) \in Nat
         /\ \A k \in 1 .. Len(s) : (s \o t)[k] = s[k]
         /\ \A k \in 1 .. Len(t) : (s \o t)[Len(s) + k] = t[k]
<1> DEFINE v == s \o t
<1>1. /\ Len(v) = Len(s) + Len(t) /\ v \in Seq(Bytes)
      /\ \A k \in 1 .. Len(s) + Len(t) : v[k] = IF k <= Len(s) THEN s[k] ELSE t[k - Len(s)]
  BY CatFacts
<1>2. Len(s) \in Nat /\ Len(t) \in Nat
  OBVIOUS
<1> HIDE DEF v
<1>3. \A k \in 1 .. Len(s) : v[k] = s[k]
  BY <1>1, <1>2
<1>4. ASSUME NEW k \in 1 .. Len(t) PROVE v[Len(s) + k] = t[k]
  <2>1. /\ Len(s) + k \in 1 .. Len(s) + Len(t) /\ ~(Len(s) + k <= Len(s))
        /\ Len(s) + k - Len(s) = k
    BY <1>2
  <2> QED BY <1>1, <2>1
<1> QED BY <1>1, <1>2, <1>3, <1>4 DEF v

\* Bytes of other packets are cut out.
LEMMA Cut ==
  ASSUME dmm \in Meters, NEW s \in Seq(Bytes), NEW x \in Seq(Bytes), NEW t \in Seq(Bytes),
         NEW id \in Nat, id \notin IdsIn(x), Whole(s \o (x \o t), id)
  PROVE  Whole(s \o t, id)
<1> DEFINE n == Size(id)
           w == s \o (x \o t)
           v == s \o t
<1>1. /\ Len(w) = Len(s) + (Len(x) + Len(t))
      /\ \A k \in 1 .. Len(s) : w[k] = s[k]
      /\ \A k \in 1 .. Len(x) : w[Len(s) + k] = x[k]
      /\ \A k \in 1 .. Len(t) : w[Len(s) + Len(x) + k] = t[k]
  <2> DEFINE y == x \o t
  <2>1. /\ y \in Seq(Bytes) /\ Len(y) = Len(x) + Len(t) /\ Len(x) \in Nat /\ Len(t) \in Nat
        /\ \A k \in 1 .. Len(x) : y[k] = x[k]
        /\ \A k \in 1 .. Len(t) : y[Len(x) + k] = t[k]
    BY CatBytes
  <2> HIDE DEF y
  <2>2. /\ Len(s \o y) = Len(s) + Len(y) /\ Len(s) \in Nat
        /\ \A k \in 1 .. Len(s) : (s \o y)[k] = s[k]
        /\ \A k \in 1 .. Len(y) : (s \o y)[Len(s) + k] = y[k]
    BY <2>1, CatBytes
  <2>3. w = s \o y
    BY DEF y
  <2> HIDE DEF w
  <2>4. ASSUME NEW k \in 1 .. Len(x) PROVE w[Len(s) + k] = x[k]
    BY <2>1, <2>2, <2>3
  <2>5. ASSUME NEW k \in 1 .. Len(t) PROVE w[Len(s) + Len(x) + k] = t[k]
    <3>1. Len(x) + k \in 1 .. Len(y) /\ Len(s) + (Len(x) + k) = Len(s) + Len(x) + k
      BY <2>1, <2>2
    <3> QED BY <2>1, <2>2, <2>3, <3>1
  <2> QED BY <2>1, <2>2, <2>3, <2>4, <2>5
<1>2. /\ Len(v) = Len(s) + Len(t)
      /\ \A k \in 1 .. Len(s) : v[k] = s[k]
      /\ \A k \in 1 .. Len(t) : v[Len(s) + k] = t[k]
  BY CatBytes
<1>a. n \in Nat /\ n >= 1
  BY WholeBytes
<1>b. Len(s) \in Nat /\ Len(x) \in Nat /\ Len(t) \in Nat
  OBVIOUS
<1>3. Len(s) \in Nat /\ Len(x) \in Nat /\ Len(t) \in Nat /\ n \in Nat /\ n >= 1
  BY <1>a, <1>b
<1>c. CASE x = <<>>
  BY <1>c, ConcatEmptySeq
<1>4. PICK p \in Nat : p + n <= Len(w) /\ \A k \in 1 .. n : w[p + k] = Packet(id)[k]
  BY DEF Whole
<1>5. \A k \in 1 .. n : Packet(id)[k].id = id
  BY WholeBytes
<1> HIDE DEF w, v, n
<1>6. CASE x # <<>> /\ ~(p + n <= Len(s)) /\ ~(p >= Len(s) + Len(x))
  <2>0. Len(x) >= 1
    BY <1>6, EmptySeq
  <2> SUFFICES ASSUME p + n > Len(s), p < Len(s) + Len(x) PROVE FALSE
    BY <1>3, <1>6
  <2>1. PICK j \in 1 .. Len(x) : Len(s) + j - p \in 1 .. n
    <3>1. CASE p >= Len(s)
      <4>1. p - Len(s) + 1 \in 1 .. Len(x) /\ Len(s) + (p - Len(s) + 1) - p \in 1 .. n
        BY <1>3, <3>1
      <4> QED BY <4>1
    <3>2. CASE p < Len(s)
      <4>1. 1 \in 1 .. Len(x) /\ Len(s) + 1 - p \in 1 .. n
        BY <1>3, <2>0, <3>2
      <4> QED BY <4>1
    <3> QED BY <1>3, <3>1, <3>2
  <2>2. p + (Len(s) + j - p) = Len(s) + j
    BY <1>3
  <2>3. w[Len(s) + j] = x[j]
    BY <1>1
  <2>4. w[p + (Len(s) + j - p)] = Packet(id)[Len(s) + j - p]
    BY <1>4, <2>1
  <2>5. Packet(id)[Len(s) + j - p].id = id
    BY <1>5, <2>1
  <2>6. x[j].id = id
    BY <2>2, <2>3, <2>4, <2>5, Zenon
  <2> QED BY <2>1, <2>6 DEF IdsIn
<1>7. CASE p + n <= Len(s)
  <2>1. \A k \in 1 .. n : p + k \in 1 .. Len(s)
    BY <1>3, <1>7
  <2>2. p + n <= Len(v)
    BY <1>2, <1>3, <1>7
  <2> QED BY <1>1, <1>2, <1>4, <2>1, <2>2 DEF Whole, n, v
<1>8. CASE p >= Len(s) + Len(x)
  <2> DEFINE q == p - Len(x)
  <2>1. q \in Nat /\ q + n <= Len(v)
    BY <1>1, <1>2, <1>3, <1>4, <1>8
  <2>2. ASSUME NEW k \in 1 .. n PROVE v[q + k] = Packet(id)[k]
    <3> DEFINE j == p + k - Len(s) - Len(x)
    <3>1. j \in 1 .. Len(t) /\ Len(s) + Len(x) + j = p + k /\ Len(s) + j = q + k
      BY <1>1, <1>3, <1>4, <1>8
    <3> HIDE DEF j, q
    <3>2. v[q + k] = t[j] /\ w[p + k] = t[j]
      BY <1>1, <1>2, <3>1
    <3> QED BY <1>4, <3>2
  <2> HIDE DEF q
  <2> QED BY <2>1, <2>2 DEF Whole, n, v
<1> QED BY <1>6, <1>7, <1>8, <1>c

\* More bytes at the end.
LEMMA Extend ==
  ASSUME NEW s \in Seq(Bytes), NEW t \in Seq(Bytes), NEW id \in Nat, dmm \in Meters
  PROVE  /\ Whole(s, id) => Whole(s \o t, id)
         /\ t = Packet(id) => Whole(s \o t, id)
<1> DEFINE n == Size(id)
           v == s \o t
<1>1. /\ Len(v) = Len(s) + Len(t) /\ Len(s) \in Nat /\ Len(t) \in Nat
      /\ \A k \in 1 .. Len(s) : v[k] = s[k]
      /\ \A k \in 1 .. Len(t) : v[Len(s) + k] = t[k]
  BY CatBytes
<1>2. n \in Nat /\ n >= 1
  BY WholeBytes
<1>3. Len(Packet(id)) = n
  BY PacketFacts
<1> HIDE DEF v, n
<1>4. ASSUME Whole(s, id) PROVE Whole(v, id)
  <2>1. PICK p \in Nat : p + n <= Len(s) /\ \A k \in 1 .. n : s[p + k] = Packet(id)[k]
    BY <1>4 DEF Whole, n
  <2>2. \A k \in 1 .. n : p + k \in 1 .. Len(s)
    BY <1>1, <1>2, <2>1
  <2>3. p + n <= Len(v)
    BY <1>1, <1>2, <2>1
  <2> QED BY <1>1, <2>1, <2>2, <2>3 DEF Whole, n
<1>5. ASSUME t = Packet(id) PROVE Whole(v, id)
  <2>1. Len(s) + n <= Len(v) /\ \A k \in 1 .. n : v[Len(s) + k] = Packet(id)[k]
    BY <1>1, <1>2, <1>3, <1>5
  <2> QED BY <1>1, <2>1 DEF Whole, n
<1> QED BY <1>4, <1>5 DEF v

\* A byte that comes in between two packets, or in another one.
LEMMA Insert ==
  ASSUME dmm \in Meters, NEW s \in Seq(Bytes), NEW t \in Seq(Bytes), NEW x \in Seq(Bytes),
         NEW id \in Nat, Whole(s \o t, id),
         t # <<>> /\ t[1].pos > 1 => t[1].id # id
  PROVE  Whole(s \o (x \o t), id)
<1> DEFINE n == Size(id)
           v == s \o t
           y == x \o t
           w == s \o y
<1>1. /\ Len(v) = Len(s) + Len(t) /\ Len(s) \in Nat /\ Len(t) \in Nat
      /\ \A k \in 1 .. Len(s) : v[k] = s[k]
      /\ \A k \in 1 .. Len(t) : v[Len(s) + k] = t[k]
  BY CatBytes
<1>2. /\ y \in Seq(Bytes) /\ Len(y) = Len(x) + Len(t) /\ Len(x) \in Nat
      /\ \A k \in 1 .. Len(t) : y[Len(x) + k] = t[k]
  BY CatBytes
<1>3. /\ Len(w) = Len(s) + Len(y) /\ Len(y) \in Nat
      /\ \A k \in 1 .. Len(s) : w[k] = s[k]
      /\ \A k \in 1 .. Len(y) : w[Len(s) + k] = y[k]
  <2> HIDE DEF y
  <2> QED BY <1>2, CatBytes
<1>4. n \in Nat /\ n >= 1 /\ \A k \in 1 .. n : Packet(id)[k].id = id /\ Packet(id)[k].pos = k
  BY WholeBytes
<1>5. PICK p \in Nat : p + n <= Len(v) /\ \A k \in 1 .. n : v[p + k] = Packet(id)[k]
  BY DEF Whole
<1> HIDE DEF v, y, w, n
<1>6. CASE p + n <= Len(s)
  <2>1. \A k \in 1 .. n : p + k \in 1 .. Len(s)
    BY <1>1, <1>4, <1>6
  <2>2. p + n <= Len(w)
    BY <1>1, <1>3, <1>4, <1>6
  <2> QED BY <1>1, <1>3, <1>5, <2>1, <2>2 DEF Whole, n, w, y
<1>7. CASE p >= Len(s)
  <2> DEFINE q == p + Len(x)
  <2>1. q \in Nat /\ q + n <= Len(w)
    BY <1>1, <1>2, <1>3, <1>4, <1>5
  <2>2. ASSUME NEW k \in 1 .. n PROVE w[q + k] = Packet(id)[k]
    <3> DEFINE j == p + k - Len(s)
    <3>1. j \in 1 .. Len(t) /\ Len(s) + j = p + k /\ Len(x) + j \in 1 .. Len(y)
          /\ Len(s) + (Len(x) + j) = q + k
      BY <1>1, <1>2, <1>4, <1>5, <1>7
    <3> HIDE DEF j, q
    <3>2. w[q + k] = y[Len(x) + j] /\ y[Len(x) + j] = t[j] /\ v[p + k] = t[j]
      BY <1>1, <1>2, <1>3, <3>1
    <3> QED BY <1>5, <3>2
  <2> HIDE DEF q
  <2> QED BY <2>1, <2>2 DEF Whole, n, w, y
<1>8. CASE p < Len(s) /\ p + n > Len(s)
  <2> DEFINE j == Len(s) + 1 - p
  <2>1. j \in 1 .. n /\ j > 1 /\ p + j = Len(s) + 1 /\ 1 \in 1 .. Len(t)
    BY <1>1, <1>4, <1>5, <1>8
  <2> HIDE DEF j
  <2>2. t[1] = Packet(id)[j]
    BY <1>1, <1>5, <2>1
  <2>3. t[1].pos > 1 /\ t[1].id = id /\ t # <<>>
    BY <1>4, <2>1, <2>2
  <2> QED BY <2>3
<1> QED BY <1>1, <1>4, <1>6, <1>7, <1>8

\* The search passes a byte at which no packet begins.
LEMMA Passed ==
  ASSUME dmm \in Meters, NEW s \in Seq(Bytes), NEW t \in Seq(Bytes), NEW id \in Nat \ {0},
         Whole(s \o t, id), Verdict(s) = "invalid"
  PROVE  s # <<>> /\ Whole(Tail(s) \o t, id)
<1> DEFINE n == Size(id)
           v == s \o t
           size == IF dmm.variable THEN s[1].size ELSE PacketSize
<1>0. PacketSize \in Nat /\ PacketSize >= 1
  BY SerialDmmAssumption
<1>1. Len(s) >= 1 /\ s # <<>> /\ Len(s) \in Nat
  BY VerdictLong
<1>2. /\ Len(v) = Len(s) + Len(t) /\ Len(s) \in Nat /\ Len(t) \in Nat
      /\ \A k \in 1 .. Len(s) : v[k] = s[k]
      /\ \A k \in 1 .. Len(t) : v[Len(s) + k] = t[k]
  BY CatBytes
<1>3. PICK p \in Nat : p + n <= Len(v) /\ \A k \in 1 .. n : v[p + k] = Packet(id)[k]
  BY DEF Whole
<1>4. n \in Nat /\ n >= 1 /\ \A k \in 1 .. n : Packet(id)[k].id = id /\ Packet(id)[k].pos = k
                                                /\ Packet(id)[k].size = n
  BY WholeBytes
<1>5. p # 0
  <2> SUFFICES ASSUME p = 0 PROVE FALSE
    OBVIOUS
  <2>1. ASSUME NEW k \in 1 .. n PROVE v[k] = Packet(id)[k]
    <3>1. 0 + k = k
      BY <1>4
    <3> QED BY <1>3, <3>1
  <2>2. s[1] = Packet(id)[1]
    <3>1. 1 \in 1 .. Len(s) /\ 1 \in 1 .. n
      BY <1>1, <1>4
    <3> HIDE DEF v, n
    <3> QED BY <1>2, <2>1, <3>1
  <2>3. s[1].id = id /\ s[1].pos = 1 /\ s[1].size = n
    BY <1>4, <2>2
  <2>4. size = n
    BY <2>3, SizeFacts
  <2>5. ~(Len(s) < size) /\ ~(size > 0 /\ IsPacket(SubSeq(s, 1, size)))
    BY <2>3, Zenon DEF Verdict
  <2>6. n <= Len(s) /\ n > 0
    BY <1>1, <1>4, <2>4, <2>5
  <2> DEFINE u == SubSeq(s, 1, n)
  <2>7. u \in Seq(Bytes) /\ Len(u) = n /\ \A k \in 1 .. n : u[k] = s[k]
    <3>1. n - 1 + 1 = n /\ \A k \in 1 .. n : 1 + k - 1 = k
      BY <1>4
    <3>2. 1 <= n + 1 /\ 1 \in Nat \ {0}
      BY <1>4
    <3> HIDE DEF n
    <3> QED BY <1>4, <2>6, <3>1, <3>2, SubFacts
  <2>8. Packet(id) \in Seq(Bytes) /\ Len(Packet(id)) = n
    BY PacketFacts
  <2>9. ASSUME NEW k \in 1 .. n PROVE u[k] = Packet(id)[k]
    <3>1. k \in 1 .. Len(s)
      BY <1>1, <1>4, <2>6
    <3> HIDE DEF v, n, u
    <3> QED BY <1>2, <2>1, <2>7, <3>1
  <2> HIDE DEF u, n
  <2>10. u = Packet(id)
    BY <2>7, <2>8, <2>9, SeqEqual
  <2>11. u[1] = s[1] /\ Len(u) > 0
    BY <1>4, <2>6, <2>7
  <2>12. IsPacket(u)
    BY <2>3, <2>10, <2>11 DEF IsPacket
  <2>13. SubSeq(s, 1, size) = u
    BY <2>4 DEF u
  <2> QED BY <2>4, <2>5, <2>6, <2>12, <2>13
<1>6. Tail(s) \in Seq(Bytes) /\ Len(Tail(s)) = Len(s) - 1 /\ \A k \in 1 .. Len(Tail(s)) : Tail(s)[k] = s[k + 1]
  BY <1>1, HeadTailProperties
<1> DEFINE w == Tail(s) \o t
<1>7. /\ Len(w) = Len(Tail(s)) + Len(t)
      /\ \A k \in 1 .. Len(Tail(s)) : w[k] = Tail(s)[k]
      /\ \A k \in 1 .. Len(t) : w[Len(Tail(s)) + k] = t[k]
  BY <1>6, CatBytes
<1> HIDE DEF v, w, n
<1>8. ASSUME NEW k \in 1 .. Len(w) PROVE w[k] = v[k + 1]
  <2>1. CASE k <= Len(Tail(s))
    <3>1. k \in 1 .. Len(Tail(s)) /\ k + 1 \in 1 .. Len(s)
      BY <1>2, <1>6, <2>1
    <3> QED BY <1>2, <1>6, <1>7, <3>1
  <2>2. CASE k > Len(Tail(s))
    <3> DEFINE j == k - Len(Tail(s))
    <3>1. j \in 1 .. Len(t) /\ k = Len(Tail(s)) + j /\ k + 1 = Len(s) + j
      BY <1>2, <1>6, <1>7, <2>2
    <3> HIDE DEF j
    <3> QED BY <1>2, <1>7, <3>1
  <2> QED BY <1>2, <1>6, <2>1, <2>2
<1> DEFINE q == p - 1
<1>9. q \in Nat /\ q + n <= Len(w) /\ \A k \in 1 .. n : q + k \in 1 .. Len(w) /\ q + k + 1 = p + k
  BY <1>2, <1>3, <1>4, <1>5, <1>6, <1>7
<1> HIDE DEF q
<1>10. \A k \in 1 .. n : w[q + k] = Packet(id)[k]
  BY <1>3, <1>8, <1>9
<1> QED BY <1>1, <1>9, <1>10 DEF Whole, w, n

LEMMA Assoc ==
  ASSUME NEW s \in Seq(Bytes), NEW t \in Seq(Bytes), NEW u \in Seq(Bytes)
  PROVE  (s \o t) \o u = s \o (t \o u)
BY ConcatAssociative

\* The first byte of t moves to the end of s.
LEMMA Shift ==
  ASSUME NEW s \in Seq(Bytes), NEW t \in Seq(Bytes), t # <<>>
  PROVE  /\ Append(s, Head(t)) \o Tail(t) = s \o t
         /\ Append(s, Head(t)) \in Seq(Bytes) /\ Tail(t) \in Seq(Bytes)
         /\ SubSeq(t, 1, 1) \in Seq(Bytes) /\ SubSeq(t, 1, 1) \o Tail(t) = t
         /\ IdsIn(SubSeq(t, 1, 1)) = {Head(t).id}
<1> DEFINE x == SubSeq(t, 1, 1)
<1>1. Len(t) \in Nat /\ Len(t) >= 1 /\ Head(t) \in Bytes /\ Head(t) = t[1]
  OBVIOUS
<1>2. x \in Seq(Bytes) /\ Len(x) = 1 /\ x[1] = t[1]
  BY <1>1, SubFacts
<1>3. Tail(t) = SubSeq(t, 2, Len(t)) /\ Tail(t) \in Seq(Bytes) /\ Append(s, Head(t)) = s \o x
  BY TailIsSub, HeadTailProperties
<1>4. x \o Tail(t) = t
  <2>1. 1 \in 1 .. Len(t) + 1 /\ 1 \in 1 - 1 .. Len(t) /\ Len(t) \in 1 .. Len(t)
    BY <1>1
  <2>2. SubSeq(t, 1, 1) \o SubSeq(t, 1 + 1, Len(t)) = SubSeq(t, 1, Len(t))
    BY <2>1, ConcatAdjacentSubSeq
  <2> QED BY <1>3, <2>2, SubSeqFull
<1>5. IdsIn(x) = {Head(t).id}
  BY <1>1, <1>2 DEF IdsIn
<1> HIDE DEF x
<1>6. (s \o x) \o Tail(t) = s \o (x \o Tail(t))
  BY <1>2, <1>3, ConcatAssociative
<1>7. Append(s, Head(t)) \in Seq(Bytes)
  BY <1>1
<1> QED BY <1>2, <1>3, <1>4, <1>5, <1>6, <1>7 DEF x

\* What the packets under way are made of.
LEMMA Ways ==
  ASSUME DmmInv
  PROVE  /\ Rest \in Seq(Bytes) /\ rx \in Seq(Bytes) /\ tx \in Seq(Bytes) /\ buf \in Seq(Bytes)
         /\ rx \o tx \in Seq(Bytes) /\ Rest \o rx \in Seq(Bytes) /\ UnderWay \in Seq(Bytes)
         /\ UnderWay = (Rest \o rx) \o tx
         /\ dmm \in Meters /\ coming \subseteq Nat \ {0} /\ ids \in Nat
         /\ check_pos \in 0 .. Len(buf) /\ Len(buf) \in Nat /\ Len(Rest) = Len(buf) - check_pos
         /\ (check_pos = 0 => Rest = buf)
<1>1. buf \in Seq(Bytes) /\ rx \in Seq(Bytes) /\ tx \in Seq(Bytes) /\ check_pos \in 0 .. Len(buf)
      /\ dmm \in Meters /\ ids \in Nat
  BY Sorts
<1>2. Rest \in Seq(Bytes) /\ Len(Rest) = Len(buf) - check_pos
  BY <1>1, RestFacts
<1>3. coming \subseteq Nat \ {0}
  BY <1>1 DEF DmmInv, TypeOK
<1>4. check_pos = 0 => Rest = buf
  BY <1>1, SubSeqFull DEF Rest
<1>5. rx \o tx \in Seq(Bytes) /\ Rest \o rx \in Seq(Bytes)
  BY <1>1, <1>2, CatBytes
<1>6. Rest \o (rx \o tx) \in Seq(Bytes)
  BY <1>2, <1>5, CatBytes
<1>7. (Rest \o rx) \o tx = Rest \o (rx \o tx)
  BY <1>1, <1>2, Assoc
<1> QED BY <1>1, <1>2, <1>3, <1>4, <1>5, <1>6, <1>7 DEF UnderWay

\* What is whole stays so for the same meter.
LEMMA WholeNext ==
  ASSUME dmm' = dmm, \A id \in coming' : Whole(UnderWay', id) PROVE AllWhole'
BY DEF AllWhole, Whole, Size, Packet

\* The line leaves the driver alone.
LEMMA SettledSame ==
  ASSUME Settled, UNCHANGED <<dmm, port, pc, buf, check_pos>>, Listening \/ rx' = rx
  PROVE  Settled' /\ Rest' = Rest
BY DEF Settled, Listening, Verdict, IsPacket, Packet, Size, Rest

LEMMA EmitWhole ==
  ASSUME DmmInv, AllWhole, Emit, UNCHANGED <<dmm, rx>>, Rest' = Rest
  PROVE  AllWhole'
<1> DEFINE r == Rest
           i == ids + 1
           x == Packet(i)
<1>1. /\ r \in Seq(Bytes) /\ rx \in Seq(Bytes) /\ tx \in Seq(Bytes) /\ rx \o tx \in Seq(Bytes)
      /\ dmm \in Meters /\ coming \subseteq Nat \ {0} /\ ids \in Nat /\ UnderWay \in Seq(Bytes)
  BY Ways
<1>2. i \in Nat
  BY <1>1
<1>3. tx' = tx \o x /\ coming' = coming \cup {i}
  BY DEF Emit
<1> HIDE DEF i
<1>4. x \in Seq(Bytes)
  BY <1>1, <1>2, PacketFacts
<1>5. UnderWay' = r \o (rx \o (tx \o x))
  BY <1>3 DEF UnderWay
<1> HIDE DEF r, x
<1>6. rx \o (tx \o x) = (rx \o tx) \o x
  BY <1>1, <1>4, Assoc, SMTT(30)
<1>7. r \o ((rx \o tx) \o x) = (r \o (rx \o tx)) \o x
  <2> DEFINE y == rx \o tx
  <2>1. r \in Seq(Bytes) /\ y \in Seq(Bytes) /\ x \in Seq(Bytes)
    BY <1>1, <1>4
  <2> HIDE DEF y
  <2>2. (r \o y) \o x = r \o (y \o x)
    BY <2>1, Assoc
  <2> QED BY <2>2 DEF y
<1>8. UnderWay' = UnderWay \o x
  BY <1>5, <1>6, <1>7 DEF UnderWay, r
<1>9. \A id \in coming' : Whole(UnderWay \o x, id)
  BY <1>1, <1>2, <1>3, <1>4, Extend DEF AllWhole, x
<1> QED BY <1>8, <1>9, WholeNext

\* A byte reaches the port.
LEMMA ShiftWhole ==
  ASSUME DmmInv, AllWhole, UNCHANGED <<dmm, coming>>, Rest' = Rest,
         tx # <<>>, tx' = Tail(tx), rx' = Append(rx, Head(tx))
  PROVE  AllWhole'
<1>1. Append(rx, Head(tx)) \o Tail(tx) = rx \o tx
  BY Ways, Shift
<1>2. UnderWay' = UnderWay
  BY <1>1 DEF UnderWay
<1> QED BY <1>2, WholeNext DEF AllWhole

\* A byte on the line is lost.
LEMMA LossWhole ==
  ASSUME DmmInv, AllWhole, UNCHANGED <<dmm, rx>>, Rest' = Rest,
         tx # <<>>, tx' = Tail(tx), coming' = coming \ {Head(tx).id}
  PROVE  AllWhole'
<1> DEFINE r == Rest
           x == SubSeq(tx, 1, 1)
           y == Tail(tx)
<1>1. /\ r \in Seq(Bytes) /\ rx \in Seq(Bytes) /\ tx \in Seq(Bytes) /\ r \o rx \in Seq(Bytes)
      /\ dmm \in Meters /\ coming \subseteq Nat \ {0} /\ UnderWay = (r \o rx) \o tx
  BY Ways
<1>2. x \in Seq(Bytes) /\ y \in Seq(Bytes) /\ x \o y = tx /\ IdsIn(x) = {Head(tx).id}
  BY <1>1, Shift
<1>3. UnderWay' = r \o (rx \o y)
  BY DEF UnderWay
<1> HIDE DEF r, x, y
<1>4. r \o (rx \o y) = (r \o rx) \o y
  <2>1. r \in Seq(Bytes) /\ rx \in Seq(Bytes) /\ y \in Seq(Bytes)
    BY <1>1, <1>2
  <2> QED BY <2>1, Assoc
<1>5. UnderWay = (r \o rx) \o (x \o y)
  BY <1>1, <1>2
<1>6. ASSUME NEW id \in coming' PROVE Whole((r \o rx) \o y, id)
  <2> DEFINE z == r \o rx
  <2>1. z \in Seq(Bytes) /\ id \in Nat /\ id \notin IdsIn(x) /\ Whole(z \o (x \o y), id)
    BY <1>1, <1>2, <1>5 DEF AllWhole
  <2> HIDE DEF z
  <2>2. Whole(z \o y, id)
    BY <1>1, <1>2, <2>1, Cut
  <2> QED BY <2>2 DEF z
<1> QED BY <1>3, <1>4, <1>6, WholeNext

\* A byte of noise comes in.
LEMMA NoiseWhole ==
  ASSUME DmmInv, AllWhole, NEW b \in Bytes, UNCHANGED <<dmm, tx>>, Rest' = Rest, rx' = Append(rx, b),
         coming' = IF tx # <<>> /\ Head(tx).pos > 1 THEN coming \ {Head(tx).id} ELSE coming
  PROVE  AllWhole'
<1> DEFINE r == Rest
           x == <<b>>
<1>1. /\ r \in Seq(Bytes) /\ rx \in Seq(Bytes) /\ tx \in Seq(Bytes) /\ r \o rx \in Seq(Bytes)
      /\ dmm \in Meters /\ coming \subseteq Nat \ {0} /\ UnderWay = (r \o rx) \o tx
  BY Ways
<1>2. x \in Seq(Bytes) /\ Append(rx, b) = rx \o x
  BY <1>1, AppendIsConcat
<1>3. UnderWay' = r \o ((rx \o x) \o tx)
  BY <1>2 DEF UnderWay
<1> HIDE DEF r, x
<1>4. x \o tx \in Seq(Bytes)
  BY <1>1, <1>2, CatBytes
<1>a. (rx \o x) \o tx = rx \o (x \o tx)
  BY <1>1, <1>2, Assoc, SMTT(30)
<1>b. (r \o rx) \o (x \o tx) = r \o (rx \o (x \o tx))
  BY <1>1, <1>4, Assoc, SMTT(30)
<1>5. (rx \o x) \o tx = rx \o (x \o tx) /\ r \o (rx \o (x \o tx)) = (r \o rx) \o (x \o tx)
  BY <1>a, <1>b, Zenon
<1>6. tx # <<>> => Head(tx) = tx[1]
  BY <1>1
<1>7. ASSUME NEW id \in coming' PROVE Whole((r \o rx) \o (x \o tx), id)
  <2>1. id \in coming /\ id \in Nat /\ (tx # <<>> /\ tx[1].pos > 1 => tx[1].id # id)
    BY <1>1, <1>6
  <2> QED BY <1>1, <1>2, <2>1, Insert DEF AllWhole
<1> QED BY <1>3, <1>5, <1>7, WholeNext

LEMMA LineWhole ==
  ASSUME DmmInv, AllWhole, Settled,
         \/ Reply \/ Stream \/ Transmit \/ LoseByte \/ LoseRequest \/ Tick
         \/ \E b \in NoiseBytes : Noise(b)
  PROVE  AllWhole' /\ Settled'
<1>1. UNCHANGED <<dmm, port, pc, buf, check_pos>> /\ (Listening \/ rx' = rx)
  BY DEF Reply, Stream, Transmit, LoseByte, LoseRequest, Tick, Noise
<1>2. Settled' /\ Rest' = Rest /\ dmm' = dmm
  BY <1>1, SettledSame
<1>3. CASE Reply \/ Stream
  BY <1>2, <1>3, EmitWhole DEF Reply, Stream
<1>4. CASE Transmit
  BY <1>2, <1>4, ShiftWhole, LossWhole DEF Transmit
<1>5. CASE LoseByte
  BY <1>2, <1>5, LossWhole DEF LoseByte
<1>6. CASE LoseRequest \/ Tick
  <2>1. UNCHANGED <<rx, tx, coming>>
    BY <1>6 DEF LoseRequest, Tick
  <2> QED BY <1>2, <2>1, WholeNext DEF UnderWay, AllWhole
<1>7. ASSUME NEW b \in NoiseBytes, Noise(b) PROVE AllWhole'
  <2>1. b \in Bytes
    BY SerialDmmAssumption DEF NoiseBytes, Bytes
  <2> QED BY <1>2, <1>7, <2>1, NoiseWhole DEF Noise
<1> QED BY <1>2, <1>3, <1>4, <1>5, <1>6, <1>7

\* The first bytes of all are gone.
LEMMA PrefixCut ==
  ASSUME DmmInv, AllWhole, NEW x \in Seq(Bytes), NEW y \in Seq(Bytes), UnderWay = x \o y,
         UnderWay' = y, dmm' = dmm, coming' \subseteq coming, \A id \in coming' : id \notin IdsIn(x)
  PROVE  AllWhole'
<1>1. dmm \in Meters /\ coming \subseteq Nat \ {0} /\ <<>> \in Seq(Bytes)
  BY Ways
<1>2. x \o y \in Seq(Bytes)
  BY CatBytes
<1>3. <<>> \o (x \o y) = x \o y /\ <<>> \o y = y
  BY <1>2, ConcatEmptySeq
<1>4. ASSUME NEW id \in coming' PROVE Whole(y, id)
  <2>1. id \in Nat /\ id \notin IdsIn(x) /\ Whole(<<>> \o (x \o y), id)
    BY <1>1, <1>3 DEF AllWhole
  <2>2. Whole(<<>> \o y, id)
    BY <1>1, <2>1, Cut
  <2> QED BY <1>3, <2>2
<1> QED BY <1>4, WholeNext

LEMMA Nothing ==
  /\ SubSeq(<<>>, 1, 0) = <<>> /\ Verdict(<<>>) = "short"
  /\ \A t \in Seq(Bytes) : <<>> \o t = t
<1>1. Len(<<>>) = 0 /\ PacketSize \in Nat /\ PacketSize > 0
  BY SerialDmmAssumption
<1>2. Verdict(<<>>) = "short"
  BY <1>1 DEF Verdict
<1>3. \A t \in Seq(Bytes) : <<>> \o t = t
  BY ConcatEmptySeq
<1> QED BY <1>2, <1>3

\* A scan ends with the bytes at hand.
LEMMA ScanEndsWhole ==
  ASSUME DmmInv, AllWhole, Settled, port = "scan", NEW to \in {"none", "closed"}, NEW found,
         ScanEnds(to, found), UNCHANGED <<dmm, pc, tx>>
  PROVE  AllWhole' /\ Settled'
<1>1. /\ Rest \in Seq(Bytes) /\ rx \in Seq(Bytes) /\ tx \in Seq(Bytes) /\ Rest \o rx \in Seq(Bytes)
      /\ UnderWay = (Rest \o rx) \o tx
      /\ buf \in Seq(Bytes) /\ check_pos \in 0 .. Len(buf)
  BY Ways
<1>2. /\ port' = to /\ buf' = <<>> /\ check_pos' = 0 /\ rx' = <<>>
      /\ coming' = coming \ (IdsIn(rx) \cup IdsIn(buf) \cup found)
  BY DEF ScanEnds
<1>3. Rest' = <<>>
  <2>1. Rest' = SubSeq(<<>>, 0 + 1, Len(<<>>))
    BY <1>2 DEF Rest
  <2> QED BY <2>1, Nothing
<1>4. UnderWay' = tx
  BY <1>1, <1>2, <1>3, Nothing DEF UnderWay
<1>5. ASSUME NEW id \in IdsIn(Rest \o rx) PROVE id \in IdsIn(rx) \cup IdsIn(buf)
  <2>1. PICK k \in 1 .. Len(Rest \o rx) : (Rest \o rx)[k].id = id
    BY <1>5 DEF IdsIn
  <2>2. /\ Len(Rest \o rx) = Len(Rest) + Len(rx)
        /\ \A j \in 1 .. Len(Rest) + Len(rx) :
             (Rest \o rx)[j] = IF j <= Len(Rest) THEN Rest[j] ELSE rx[j - Len(Rest)]
    BY <1>1, CatFacts
  <2>3. Len(Rest) = Len(buf) - check_pos /\ \A j \in 1 .. Len(Rest) : Rest[j] = buf[check_pos + j]
    BY <1>1, RestFacts
  <2>4. Len(rx) \in Nat /\ Len(buf) \in Nat
    BY <1>1
  <2>5. CASE k <= Len(Rest)
    <3>1. check_pos + k \in 1 .. Len(buf) /\ buf[check_pos + k].id = id
      BY <1>1, <2>1, <2>2, <2>3, <2>4, <2>5
    <3> QED BY <3>1 DEF IdsIn
  <2>6. CASE ~(k <= Len(Rest))
    <3>1. k - Len(Rest) \in 1 .. Len(rx) /\ rx[k - Len(Rest)].id = id
      BY <1>1, <2>1, <2>2, <2>3, <2>4, <2>6, SMTT(30)
    <3> QED BY <3>1 DEF IdsIn
  <2> QED BY <2>5, <2>6
<1>6. AllWhole'
  BY <1>1, <1>2, <1>4, <1>5, PrefixCut
<1>7. Verdict(buf') = "short"
  BY <1>2, Nothing
<1>8. Verdict(buf)' = Verdict(buf')
  BY DEF Verdict, IsPacket, Packet, Size
<1>9. Settled'
  BY <1>2, <1>7, <1>8 DEF Settled
<1> QED BY <1>6, <1>9

\* The verdict is the same for the same meter.
LEMMA VerdictNext == ASSUME dmm' = dmm PROVE Verdict(buf)' = Verdict(buf')
BY DEF Verdict, IsPacket, Packet, Size

LEMMA PortWhole ==
  ASSUME DmmInv, AllWhole, Settled,
         Scan \/ DetectTimeout \/ DevOpen \/ DevClose \/ AcquisitionStart \/ AcquisitionStop \/ Poll
  PROVE  AllWhole' /\ Settled'
<1>1. /\ Rest \in Seq(Bytes) /\ rx \in Seq(Bytes) /\ tx \in Seq(Bytes)
      /\ dmm \in Meters /\ coming \subseteq Nat \ {0}
  BY Ways
<1>2. CASE Scan
  <2>1. UNCHANGED <<dmm, buf, check_pos, pc, rx, tx, coming>> /\ port = "none" /\ port' \in {"scan", "leaked"}
    BY <1>2 DEF Scan
  <2>2. Rest' = Rest /\ UnderWay' = UnderWay
    BY <2>1 DEF Rest, UnderWay
  <2>3. Len(Rest) < PacketSize
    <3>1. buf = <<>> /\ Len(buf) = 0 /\ check_pos \in 0 .. Len(buf) /\ Len(Rest) = Len(buf) - check_pos
      BY <2>1, Ways DEF DmmInv, Places
    <3> QED BY <3>1, SerialDmmAssumption
  <2>4. rx = <<>> /\ (pc = "idle" => Verdict(buf) \in {"short", "need_rx"})
    BY <2>1 DEF Settled, Listening
  <2>5. Settled'
    BY <2>1, <2>2, <2>3, <2>4, VerdictNext DEF Settled
  <2> QED BY <2>1, <2>2, <2>5, WholeNext DEF AllWhole
<1>3. CASE DetectTimeout
  BY <1>3, ScanEndsWhole DEF DetectTimeout
<1>4. CASE DevOpen
  <2>1. UNCHANGED <<dmm, buf, check_pos, pc, tx, coming>> /\ port = "closed" /\ port' = "open" /\ rx' = <<>>
    BY <1>4 DEF DevOpen
  <2>2. rx' = rx /\ (pc = "idle" => Verdict(buf) \in {"short", "need_rx"})
    BY <2>1 DEF Settled, Listening
  <2>3. UnderWay' = UnderWay
    BY <2>1, <2>2 DEF Rest, UnderWay
  <2>4. Settled'
    BY <2>1, <2>2, VerdictNext DEF Settled, Listening
  <2> QED BY <2>1, <2>3, <2>4, WholeNext DEF AllWhole
<1>5. CASE DevClose
  <2>1. /\ UNCHANGED <<dmm, buf, check_pos, pc, tx>> /\ port = "open" /\ port' = "closed" /\ rx' = <<>>
        /\ coming' = coming \ IdsIn(rx)
    BY <1>5 DEF DevClose
  <2>2. (pc = "idle" => Verdict(buf) \in {"short", "need_rx"})
    BY <2>1 DEF Settled
  <2>3. Rest' = Rest
    BY <2>1 DEF Rest
  <2>4. UnderWay' = Rest \o tx
    BY <1>1, <2>1, <2>3, Nothing DEF UnderWay
  <2>5. Settled'
    BY <2>1, <2>2, VerdictNext DEF Settled
  <2>6. ASSUME NEW id \in coming' PROVE Whole(Rest \o tx, id)
    BY <1>1, <2>1, Cut DEF AllWhole, UnderWay
  <2> QED BY <2>1, <2>4, <2>5, <2>6, WholeNext
<1>6. CASE AcquisitionStart \/ AcquisitionStop \/ Poll
  <2>1. UNCHANGED <<dmm, port, buf, check_pos, pc, rx, tx, coming>>
    BY <1>6 DEF AcquisitionStart, AcquisitionStop, Poll, line
  <2>2. Settled' /\ Rest' = Rest
    BY <2>1, SettledSame
  <2>3. UnderWay' = UnderWay
    BY <2>1, <2>2 DEF UnderWay
  <2> QED BY <2>1, <2>2, <2>3, WholeNext DEF AllWhole
<1> QED BY <1>2, <1>3, <1>4, <1>5, <1>6

\* A read moves bytes from the port to the buffer.
LEMMA ReceiveWhole ==
  ASSUME DmmInv, AllWhole, Settled, Receive PROVE AllWhole' /\ Settled'
<1> DEFINE n == Lesser(Len(rx), ReadLen)
           a == SubSeq(rx, 1, n)
           c == SubSeq(rx, n + 1, Len(rx))
<1>1. /\ buf \in Seq(Bytes) /\ rx \in Seq(Bytes) /\ tx \in Seq(Bytes) /\ Len(buf) \in Nat
      /\ (check_pos = 0 => Rest = buf)
  BY Ways
<1>2. /\ buf' = buf \o a /\ rx' = c /\ check_pos' = 0 /\ pc' = "check" /\ n > 0 /\ port = "open"
      /\ UNCHANGED <<dmm, port, tx, coming>> /\ check_pos = 0
  BY DEF Receive, DmmInv, Places
<1>3. n \in Nat /\ n >= 1 /\ n <= Len(rx) /\ Len(rx) \in Nat
  BY <1>1, <1>2, SerialDmmAssumption DEF Lesser, ReadLen
<1> HIDE DEF n
<1>4. a \in Seq(Bytes) /\ c \in Seq(Bytes)
  BY <1>1, <1>3, SubFacts
<1>5. a \o c = rx
  <2>1. 1 \in 1 .. Len(rx) + 1 /\ n \in 1 - 1 .. Len(rx) /\ Len(rx) \in n .. Len(rx)
    BY <1>3
  <2>2. SubSeq(rx, 1, n) \o SubSeq(rx, n + 1, Len(rx)) = SubSeq(rx, 1, Len(rx))
    BY <1>1, <2>1, ConcatAdjacentSubSeq
  <2> QED BY <1>1, <2>2, SubSeqFull
<1> HIDE DEF a, c
<1>6. Rest' = buf \o a
  <2>1. buf \o a \in Seq(Bytes)
    BY <1>1, <1>4, CatBytes
  <2>2. Rest' = SubSeq(buf', 0 + 1, Len(buf'))
    BY <1>2 DEF Rest
  <2>3. SubSeq(buf \o a, 1, Len(buf \o a)) = buf \o a
    BY <2>1, SubSeqFull
  <2> QED BY <1>2, <2>2, <2>3
<1>7. UnderWay' = (buf \o a) \o (c \o tx)
  BY <1>2, <1>6 DEF UnderWay
<1>8. c \o tx \in Seq(Bytes)
  BY <1>1, <1>4, CatBytes
<1>9. (buf \o a) \o (c \o tx) = buf \o (a \o (c \o tx))
  <2> DEFINE y == c \o tx
  <2>1. y \in Seq(Bytes)
    BY <1>8
  <2> HIDE DEF y
  <2>2. (buf \o a) \o y = buf \o (a \o y)
    BY <1>1, <1>4, <2>1, Assoc, SMTT(30)
  <2> QED BY <2>2 DEF y
<1>10. a \o (c \o tx) = rx \o tx
  <2>1. (a \o c) \o tx = a \o (c \o tx)
    BY <1>1, <1>4, Assoc, SMTT(30)
  <2> QED BY <1>5, <2>1
<1>11. UnderWay' = UnderWay
  BY <1>1, <1>2, <1>7, <1>9, <1>10 DEF UnderWay
<1>12. Settled'
  BY <1>2 DEF Settled, Listening
<1> QED BY <1>2, <1>11, <1>12, WholeNext DEF AllWhole

LEMMA Verdicts ==
  ASSUME NEW s \in Seq(Bytes), dmm \in Meters
  PROVE  /\ Verdict(s) \in {"short", "invalid", "need_rx", "valid"}
         /\ Verdict(s) = "short" <=> Len(s) < PacketSize
         /\ Verdict(s) = "need_rx" => dmm.variable
<1>1. Verdict(s) \in {"short", "invalid", "need_rx", "valid"} /\ (Verdict(s) = "short" <=> Len(s) < PacketSize)
  BY DEF Verdict
<1>2. ASSUME Verdict(s) = "need_rx", ~dmm.variable PROVE FALSE
  BY <1>2 DEF Verdict
<1> QED BY <1>1, <1>2

\* A turn of the loop of the scan: the buffer with the next byte, what the search looks
\* at, and what is left at the port.
Fed == IF rx # <<>> THEN Append(buf, Head(rx)) ELSE buf
Seen == SubSeq(Fed, check_pos + 1, Len(Fed))
Unread == IF rx # <<>> THEN Tail(rx) ELSE rx

LEMMA FedFacts ==
  ASSUME DmmInv
  PROVE  /\ Fed \in Seq(Bytes) /\ Len(Fed) \in Len(buf) .. Len(buf) + 1
         /\ Len(Fed) + Len(Unread) = Len(buf) + Len(rx)
         /\ Seen \in Seq(Bytes) /\ Len(Seen) = Len(Fed) - check_pos
         /\ Seen = IF rx # <<>> THEN Append(Rest, Head(rx)) ELSE Rest
         /\ Unread \in Seq(Bytes) /\ Seen \o Unread = Rest \o rx
<1>0. /\ Rest \in Seq(Bytes) /\ buf \in Seq(Bytes) /\ rx \in Seq(Bytes)
      /\ Len(buf) \in Nat /\ check_pos \in 0 .. Len(buf) /\ Len(Rest) = Len(buf) - check_pos
  BY Ways
<1>1. Fed \in Seq(Bytes) /\ Len(Fed) \in Len(buf) .. Len(buf) + 1
  <2>1. CASE rx # <<>>
    <3>1. Head(rx) \in Bytes
      BY <1>0, <2>1
    <3>2. Append(buf, Head(rx)) \in Seq(Bytes) /\ Len(Append(buf, Head(rx))) = Len(buf) + 1
      BY <1>0, <3>1, AppendProperties
    <3> QED BY <1>0, <2>1, <3>2 DEF Fed
  <2>2. CASE rx = <<>>
    BY <1>0, <2>2 DEF Fed
  <2> QED BY <2>1, <2>2
<1>2. Seen \in Seq(Bytes) /\ Len(Seen) = Len(Fed) - check_pos
      /\ \A k \in 1 .. Len(Seen) : Seen[k] = Fed[check_pos + k]
  <2>1. check_pos \in 0 .. Len(Fed)
    BY <1>0, <1>1
  <2> QED BY <1>1, <2>1, SuffixFacts DEF Seen
<1>3. Seen = IF rx # <<>> THEN Append(Rest, Head(rx)) ELSE Rest
  <2>1. CASE rx = <<>>
    BY <2>1 DEF Rest, Seen, Fed
  <2>2. CASE rx # <<>>
    <3> DEFINE h == Head(rx)
               z == Append(Rest, h)
    <3>1. h \in Bytes /\ Fed = Append(buf, h)
      BY <1>0, <2>2 DEF Fed
    <3> HIDE DEF h
    <3>2. /\ z \in Seq(Bytes) /\ Len(z) = Len(Rest) + 1
          /\ \A k \in 1 .. Len(Rest) : z[k] = Rest[k]
          /\ z[Len(Rest) + 1] = h
      BY <1>0, <3>1, AppendProperties
    <3>3. /\ Len(Fed) = Len(buf) + 1 /\ \A k \in 1 .. Len(buf) : Fed[k] = buf[k]
          /\ Fed[Len(buf) + 1] = h
      <4> QED BY <1>0, <3>1, AppendProperties
    <3>4. \A k \in 1 .. Len(Rest) : Rest[k] = buf[check_pos + k]
      BY <1>0, RestFacts
    <3> HIDE DEF z
    <3>5. Len(Seen) = Len(z)
      BY <1>0, <1>2, <3>2, <3>3
    <3>6. ASSUME NEW k \in 1 .. Len(Seen) PROVE Seen[k] = z[k]
      <4>1. CASE k \in 1 .. Len(Rest)
        <5>1. check_pos + k \in 1 .. Len(buf)
          BY <1>0, <4>1
        <5> QED BY <1>2, <3>2, <3>3, <3>4, <4>1, <5>1
      <4>2. CASE k = Len(Rest) + 1
        <5>1. check_pos + k = Len(buf) + 1
          BY <1>0, <4>2
        <5> QED BY <1>2, <3>2, <3>3, <4>2, <5>1
      <4> QED BY <1>0, <3>2, <3>5, <4>1, <4>2
    <3>7. Seen = z
      BY <1>2, <3>2, <3>5, <3>6, SeqEqual
    <3> QED BY <2>2, <3>7 DEF z, h
  <2> QED BY <2>1, <2>2
<1>4. Unread \in Seq(Bytes) /\ Seen \o Unread = Rest \o rx
  <2>1. CASE rx # <<>>
    <3>1. Seen = Append(Rest, Head(rx)) /\ Unread = Tail(rx)
      BY <1>3, <2>1 DEF Unread
    <3> QED BY <1>0, <2>1, <3>1, Shift
  <2>2. CASE rx = <<>>
    <3>1. Seen = Rest /\ Unread = rx
      BY <1>3, <2>2 DEF Unread
    <3> QED BY <1>0, <3>1
  <2> QED BY <2>1, <2>2
<1>5. Len(Fed) + Len(Unread) = Len(buf) + Len(rx)
  <2>1. CASE rx # <<>>
    <3>1. Head(rx) \in Bytes /\ Len(Tail(rx)) = Len(rx) - 1 /\ Len(rx) \in Nat
      BY <1>0, <2>1, HeadTailProperties
    <3>2. Len(Append(buf, Head(rx))) = Len(buf) + 1
      BY <1>0, <3>1, AppendProperties
    <3>3. Fed = Append(buf, Head(rx)) /\ Unread = Tail(rx)
      BY <2>1 DEF Fed, Unread
    <3>4. Len(Fed) = Len(buf) + 1 /\ Len(Unread) = Len(rx) - 1 /\ Len(buf) \in Nat /\ Len(rx) \in Nat
      BY <1>0, <3>1, <3>2, <3>3
    <3> QED BY <3>4
  <2>2. CASE rx = <<>>
    BY <2>2 DEF Fed, Unread
  <2> QED BY <2>1, <2>2
<1> QED BY <1>1, <1>2, <1>3, <1>4, <1>5

LEMMA DetectWhole ==
  ASSUME DmmInv, AllWhole, Settled, DetectByte PROVE AllWhole' /\ Settled'
<1>1. /\ Rest \in Seq(Bytes) /\ buf \in Seq(Bytes) /\ rx \in Seq(Bytes) /\ tx \in Seq(Bytes)
      /\ Len(buf) \in Nat /\ check_pos \in 0 .. Len(buf) /\ dmm \in Meters /\ coming \subseteq Nat \ {0}
      /\ Len(Rest) = Len(buf) - check_pos /\ UnderWay = (Rest \o rx) \o tx
  BY Ways
<1>2. port = "scan" /\ UNCHANGED <<dmm, pc, tx>>
  BY DEF DetectByte
<1>3. CASE \E to \in {"none", "closed"} : \E found : ScanEnds(to, found)
  BY <1>2, <1>3, ScanEndsWhole
<1>4. CASE /\ Verdict(Seen) # "valid" /\ buf' = Fed /\ rx' = Unread
           /\ check_pos' = IF Verdict(Seen) = "invalid" THEN check_pos + 1 ELSE check_pos
           /\ UNCHANGED <<port, coming>>
  <2>1. Fed \in Seq(Bytes) /\ Len(Fed) \in Len(buf) .. Len(buf) + 1
    BY FedFacts
  <2>2. Seen \in Seq(Bytes) /\ Len(Seen) = Len(Fed) - check_pos
    BY FedFacts
  <2>4. Unread \in Seq(Bytes) /\ Seen \o Unread = Rest \o rx
    BY FedFacts
  <2>5. Rest' = IF Verdict(Seen) = "invalid" THEN Tail(Seen) ELSE Seen
    <3>1. CASE Verdict(Seen) # "invalid"
      BY <1>4, <3>1 DEF Rest, Seen
    <3>2. CASE Verdict(Seen) = "invalid"
      <4>1. Len(Seen) >= 1
        BY <2>2, <3>2, VerdictLong
      <4>2. check_pos + 1 \in 1 .. Len(Fed) /\ Len(Fed) \in check_pos + 1 .. Len(Fed)
        BY <1>1, <2>1, <2>2, <4>1
      <4>3. Rest' = SubSeq(Fed, check_pos + 1 + 1, Len(Fed))
        BY <1>4, <3>2 DEF Rest
      <4>4. Tail(SubSeq(Fed, check_pos + 1, Len(Fed))) = SubSeq(Fed, check_pos + 1 + 1, Len(Fed))
        BY <2>1, <4>2, HeadTailOfSubSeq
      <4> QED BY <3>2, <4>3, <4>4 DEF Seen
    <3> QED BY <3>1, <3>2
  <2>6. Unread \o tx \in Seq(Bytes) /\ Seen \o (Unread \o tx) = UnderWay
    <3>1. Unread \o tx \in Seq(Bytes)
      BY <1>1, <2>4, CatBytes
    <3>2. (Seen \o Unread) \o tx = Seen \o (Unread \o tx)
      BY <1>1, <2>2, <2>4, Assoc
    <3> QED BY <1>1, <2>4, <3>1, <3>2
  <2>7. UnderWay' = Rest' \o (Unread \o tx)
    BY <1>2, <1>4 DEF UnderWay
  <2>8. \A id \in coming' : Whole(UnderWay', id)
    <3>1. CASE Verdict(Seen) # "invalid"
      BY <1>4, <2>5, <2>6, <2>7, <3>1 DEF AllWhole
    <3>2. CASE Verdict(Seen) = "invalid"
      <4> DEFINE t == Unread \o tx
      <4>1. t \in Seq(Bytes) /\ Seen \o t = UnderWay /\ UnderWay' = Tail(Seen) \o t
        BY <2>5, <2>6, <2>7, <3>2
      <4> HIDE DEF t
      <4>2. ASSUME NEW id \in coming' PROVE Whole(Tail(Seen) \o t, id)
        <5>1. id \in Nat \ {0} /\ Whole(Seen \o t, id)
          BY <1>1, <1>4, <4>1 DEF AllWhole
        <5> QED BY <1>1, <2>2, <3>2, <4>1, <5>1, Passed
      <4> QED BY <4>1, <4>2
    <3> QED BY <3>1, <3>2
  <2>9. ~dmm.variable => Len(Rest') < PacketSize
    <3> SUFFICES ASSUME ~dmm.variable PROVE Len(Rest') < PacketSize
      OBVIOUS
    <3>0. PacketSize \in Nat /\ Len(Rest) < PacketSize
      BY <1>2, SerialDmmAssumption DEF Settled
    <3>1. Len(Seen) <= PacketSize /\ Len(Seen) \in Nat
      BY <1>1, <2>1, <2>2, <3>0
    <3>2. Verdict(Seen) \in {"short", "invalid"}
      BY <1>1, <1>4, <2>2, Verdicts
    <3>3. CASE Verdict(Seen) = "short"
      BY <1>1, <2>2, <2>5, <3>3, Verdicts
    <3>4. CASE Verdict(Seen) = "invalid"
      <4>1. Seen # <<>> /\ Len(Tail(Seen)) = Len(Seen) - 1
        BY <2>2, <3>4, VerdictLong, HeadTailProperties
      <4> QED BY <2>5, <3>0, <3>1, <3>4, <4>1
    <3> QED BY <3>2, <3>3, <3>4
  <2>10. Settled'
    BY <1>2, <1>4, <2>9 DEF Settled, Listening
  <2> QED BY <1>2, <2>8, <2>10, WholeNext
<1> QED BY <1>3, <1>4 DEF DetectByte, Fed, Seen, Unread

\* The turns of the loop of handle_new_data(), and its end.
LEMMA LoopWhole ==
  ASSUME DmmInv, AllWhole, Settled, Search \/ Process \/ LoopEnds PROVE AllWhole' /\ Settled'
<1> DEFINE t == rx \o tx
<1>1. /\ Rest \in Seq(Bytes) /\ buf \in Seq(Bytes) /\ t \in Seq(Bytes) /\ UnderWay = Rest \o t
      /\ Len(buf) \in Nat /\ check_pos \in 0 .. Len(buf) /\ dmm \in Meters /\ coming \subseteq Nat \ {0}
      /\ Len(Rest) = Len(buf) - check_pos
  BY Ways DEF UnderWay
<1>2. /\ port = "open" /\ pc = "check" /\ t' = t /\ UNCHANGED <<dmm, port, rx>> /\ coming' \subseteq coming
      /\ UnderWay' = Rest' \o t'
  BY DEF Search, Process, LoopEnds, line, DmmInv, Places, UnderWay
<1> HIDE DEF t
<1>3. CASE Search
  <2>1. Verdict(Rest) = "invalid" /\ check_pos' = check_pos + 1 /\ UNCHANGED <<buf, coming, pc>>
    BY <1>3 DEF Search, NextPos, line
  <2>2. Len(Rest) >= 1
    BY <1>1, <2>1, VerdictLong
  <2>3. check_pos + 1 \in 1 .. Len(buf) /\ Len(buf) \in check_pos + 1 .. Len(buf)
    BY <1>1, <2>2
  <2>4. Tail(SubSeq(buf, check_pos + 1, Len(buf))) = SubSeq(buf, check_pos + 1 + 1, Len(buf))
    BY <1>1, <2>3, HeadTailOfSubSeq
  <2>5. UnderWay' = Tail(Rest) \o t
    BY <1>2, <2>1, <2>4 DEF Rest
  <2>6. ASSUME NEW id \in coming' PROVE Whole(Tail(Rest) \o t, id)
    <3>1. id \in Nat \ {0} /\ Whole(Rest \o t, id)
      BY <1>1, <2>1 DEF AllWhole
    <3> QED BY <1>1, <2>1, <3>1, Passed
  <2>7. Settled'
    BY <1>2, <2>1 DEF Settled, Listening
  <2> QED BY <1>2, <2>5, <2>6, <2>7, WholeNext
<1>4. CASE Process
  <2> DEFINE n == Rest[1].size
             x == SubSeq(Rest, 1, n)
             y == SubSeq(Rest, n + 1, Len(Rest))
  <2>1. /\ Verdict(Rest) = "valid" /\ check_pos' = check_pos + n /\ coming' = coming \ {Rest[1].id}
        /\ UNCHANGED <<buf, pc>>
    BY <1>4 DEF Process
  <2>2. Len(Rest) >= 1 /\ n \in 1 .. Len(Rest) /\ x = Packet(Rest[1].id)
    BY <1>1, <2>1, ValidFacts
  <2>3. Rest[1].id \in Nat
    <3>1. 1 \in 1 .. Len(Rest)
      BY <1>1, <2>2
    <3> QED BY <1>1, <3>1, ByteAt
  <2>4. \A id \in coming' : id \notin IdsIn(x)
    <3>1. \A k \in 1 .. Len(x) : x[k].id = Rest[1].id
      <4> DEFINE i == Rest[1].id
      <4>1. i \in Nat /\ x = Packet(i)
        BY <2>2, <2>3
      <4> HIDE DEF i, x
      <4>2. Len(Packet(i)) = Size(i) /\ \A k \in 1 .. Size(i) : Packet(i)[k].id = i
        BY <1>1, <4>1, PacketFacts
      <4> QED BY <4>1, <4>2 DEF i
    <3> HIDE DEF x
    <3> QED BY <2>1, <3>1 DEF IdsIn
  <2>5. n \in Nat /\ n >= 1 /\ n <= Len(Rest) /\ Len(Rest) \in Nat
    BY <1>1, <2>2
  <2>6. Rest' = y
    <3>1. check_pos + n \in 0 .. Len(buf)
      BY <1>1, <2>5
    <3>2. Rest' = SubSeq(buf, check_pos + n + 1, Len(buf))
      BY <2>1 DEF Rest
    <3> HIDE DEF n
    <3> DEFINE z == SubSeq(buf, check_pos + n + 1, Len(buf))
    <3>3. /\ z \in Seq(Bytes) /\ Len(z) = Len(buf) - (check_pos + n)
          /\ \A k \in 1 .. Len(z) : z[k] = buf[check_pos + n + k]
      <4> DEFINE m == check_pos + n
      <4>1. m \in 0 .. Len(buf)
        BY <3>1
      <4> HIDE DEF m
      <4>2. /\ SubSeq(buf, m + 1, Len(buf)) \in Seq(Bytes) /\ Len(SubSeq(buf, m + 1, Len(buf))) = Len(buf) - m
            /\ \A k \in 1 .. Len(buf) - m : SubSeq(buf, m + 1, Len(buf))[k] = buf[m + k]
        BY <1>1, <4>1, SuffixFacts
      <4> QED BY <4>2 DEF m
    <3>4. /\ y \in Seq(Bytes) /\ Len(y) = Len(Rest) - n
          /\ \A k \in 1 .. Len(y) : y[k] = Rest[n + k]
      <4>1. n \in 0 .. Len(Rest)
        BY <2>5
      <4> QED BY <1>1, <4>1, SuffixFacts
    <3>5. \A k \in 1 .. Len(Rest) : Rest[k] = buf[check_pos + k]
      BY <1>1, RestFacts
    <3> HIDE DEF y, z
    <3>6. Len(y) = Len(z)
      BY <1>1, <2>5, <3>3, <3>4
    <3>7. ASSUME NEW k \in 1 .. Len(y) PROVE y[k] = z[k]
      <4>1. n + k \in 1 .. Len(Rest) /\ check_pos + (n + k) = check_pos + n + k
        BY <1>1, <2>5, <3>4
      <4> QED BY <3>3, <3>4, <3>5, <3>6, <4>1
    <3>8. y = z
      BY <3>3, <3>4, <3>6, <3>7, SeqEqual
    <3> QED BY <3>2, <3>8 DEF z
  <2>7. x \in Seq(Bytes) /\ y \in Seq(Bytes) /\ x \o y = Rest
    <3> HIDE DEF n
    <3>1. 1 \in 1 .. Len(Rest) + 1 /\ n \in 1 - 1 .. Len(Rest) /\ Len(Rest) \in n .. Len(Rest)
      BY <2>5
    <3>2. SubSeq(Rest, 1, n) \o SubSeq(Rest, n + 1, Len(Rest)) = SubSeq(Rest, 1, Len(Rest))
      BY <1>1, <3>1, ConcatAdjacentSubSeq
    <3>3. x \in Seq(Bytes) /\ y \in Seq(Bytes)
      BY <1>1, <2>5, SubFacts
    <3> QED BY <1>1, <3>2, <3>3, SubSeqFull
  <2> HIDE DEF x, y
  <2>8. UnderWay = x \o (y \o t) /\ y \o t \in Seq(Bytes) /\ UnderWay' = y \o t
    <3>0. x \in Seq(Bytes) /\ y \in Seq(Bytes) /\ t \in Seq(Bytes)
      BY <1>1, <2>7
    <3>1. (x \o y) \o t = x \o (y \o t)
      BY <3>0, Assoc
    <3>2. y \o t \in Seq(Bytes)
      BY <1>1, <2>7, CatBytes
    <3> QED BY <1>1, <1>2, <2>6, <2>7, <3>1, <3>2
  <2>9. AllWhole'
    BY <1>2, <2>4, <2>7, <2>8, PrefixCut
  <2>10. Settled'
    BY <1>2, <2>1 DEF Settled, Listening
  <2> QED BY <2>9, <2>10
<1>5. CASE LoopEnds
  <2>1. /\ Verdict(Rest) \in {"short", "need_rx"} /\ buf' = DropFull(Rest) /\ check_pos' = 0
        /\ coming' = IF DropFull(Rest) = Rest THEN coming ELSE coming \ IdsIn(Rest)
    BY <1>5 DEF LoopEnds, MovedToFront
  <2>2. DropFull(Rest) \in {Rest, <<>>}
    BY DEF DropFull
  <2>3. buf' \in Seq(Bytes)
    <3>1. <<>> \in Seq(Bytes)
      OBVIOUS
    <3>2. buf' = Rest \/ buf' = <<>>
      BY <2>1, <2>2
    <3> QED BY <1>1, <3>1, <3>2
  <2>4. Rest' = buf'
    <3>1. Rest' = SubSeq(buf', 0 + 1, Len(buf'))
      BY <2>1 DEF Rest
    <3> QED BY <2>3, <3>1, SubSeqFull
  <2>5. Verdict(buf)' \in {"short", "need_rx"}
    BY <1>2, <2>1, <2>2, Nothing, VerdictNext
  <2>6. Settled'
    BY <1>2, <2>5 DEF Settled, Listening
  <2>7. AllWhole'
    <3>1. CASE DropFull(Rest) = Rest
      BY <1>1, <1>2, <2>1, <2>4, <3>1, WholeNext DEF AllWhole
    <3>2. CASE DropFull(Rest) # Rest
      <4>1. UnderWay' = t
        BY <1>1, <1>2, <2>1, <2>2, <2>4, <3>2, Nothing
      <4>2. \A id \in coming' : id \notin IdsIn(Rest)
        BY <2>1, <3>2
      <4> QED BY <1>1, <1>2, <4>1, <4>2, PrefixCut
    <3> QED BY <3>1, <3>2
  <2> QED BY <2>6, <2>7
<1> QED BY <1>3, <1>4, <1>5

LEMMA WholeInit == Init => AllWhole /\ Settled
<1> SUFFICES ASSUME Init PROVE Settled
  BY DEF Init, AllWhole
<1>1. buf = <<>> /\ rx = <<>> /\ port = "none"
  BY DEF Init
<1> QED BY <1>1, Nothing DEF Settled

LEMMA WholeStep == DmmInv /\ AllWhole /\ Settled /\ [Next]_vars => AllWhole' /\ Settled'
<1> SUFFICES ASSUME DmmInv, AllWhole, Settled, [Next]_vars PROVE AllWhole' /\ Settled'
  OBVIOUS
<1>1. CASE UNCHANGED vars
  <2>1. UNCHANGED <<dmm, port, buf, check_pos, pc, rx, tx, coming>>
    BY <1>1 DEF vars, line
  <2>2. Settled' /\ Rest' = Rest
    BY <2>1, SettledSame
  <2> QED BY <2>1, <2>2, WholeNext DEF UnderWay, AllWhole
<1>2. CASE Next
  BY <1>2, LineWhole, PortWhole, DetectWhole, ReceiveWhole, LoopWhole DEF Next, Host
<1> QED BY <1>1, <1>2

\* At the end of a loop, a packet that is whole and not all in the buffer is still to
\* be read; one that is, is longer than what the search has accepted as too short.
LEMMA WholeIsSeen == DmmInv /\ AllWhole /\ Settled => NothingMissed
<1> SUFFICES ASSUME DmmInv, AllWhole, Settled, pc = "idle", ~(port = "scan" /\ dmm.variable),
                    NEW id \in coming
             PROVE  \/ LastIn(rx \o tx, id)
                    \/ dmm.variable /\ Verdict(buf) = "need_rx" /\ LastIn(buf, id)
  BY DEF NothingMissed
<1> DEFINE t == rx \o tx
           n == Size(id)
<1>1. /\ Rest \in Seq(Bytes) /\ buf \in Seq(Bytes) /\ t \in Seq(Bytes) /\ UnderWay = Rest \o t
      /\ dmm \in Meters /\ id \in Nat /\ (check_pos = 0 => Rest = buf)
  BY Ways DEF UnderWay
<1>2. n \in Nat /\ n >= 1 /\ n >= PacketSize /\ PacketSize \in Nat
  BY <1>1, WholeBytes, SerialDmmAssumption
<1>3. PICK p \in Nat : p + n <= Len(Rest \o t) /\ \A k \in 1 .. n : (Rest \o t)[p + k] = Packet(id)[k]
  BY <1>1 DEF AllWhole, Whole
<1> HIDE DEF t, n
<1>4. /\ Len(Rest \o t) = Len(Rest) + Len(t) /\ Len(Rest) \in Nat /\ Len(t) \in Nat
      /\ \A k \in 1 .. Len(Rest) : (Rest \o t)[k] = Rest[k]
      /\ \A k \in 1 .. Len(t) : (Rest \o t)[Len(Rest) + k] = t[k]
  BY <1>1, CatBytes
<1>5. (Rest \o t)[p + n] = Packet(id)[n]
  BY <1>2, <1>3
<1>6. CASE p + n > Len(Rest)
  <2> DEFINE j == p + n - Len(Rest)
  <2>1. j \in 1 .. Len(t) /\ Len(Rest) + j = p + n
    BY <1>2, <1>3, <1>4, <1>6
  <2> HIDE DEF j
  <2>2. t[j] = Packet(id)[n]
    BY <1>4, <1>5, <2>1
  <2> QED BY <2>1, <2>2 DEF LastIn, t, n
<1>7. CASE p + n <= Len(Rest)
  <2>1. Len(Rest) >= PacketSize /\ ~(Len(Rest) < PacketSize)
    BY <1>2, <1>4, <1>7
  <2>2. port # "scan"
    BY <2>1 DEF Settled
  <2>3. check_pos = 0 /\ Rest = buf
    BY <1>1, <2>2 DEF DmmInv, Places
  <2>4. Verdict(buf) = "need_rx" /\ dmm.variable
    BY <1>1, <2>1, <2>2, <2>3, Verdicts DEF Settled
  <2>5. p + n \in 1 .. Len(buf) /\ buf[p + n] = Packet(id)[n]
    BY <1>2, <1>4, <1>5, <1>7, <2>3
  <2> QED BY <2>4, <2>5 DEF LastIn, n
<1> QED BY <1>2, <1>4, <1>6, <1>7

\* For all meters and sizes, wherever reads, losses and noise cut the stream of bytes:
\* a packet that reaches the port undamaged is handled, or still to be read to its end
\* or held up by what looks like a longer one, when handle_new_data() returns.
THEOREM NoPacketMissed == Spec => []NothingMissed
BY DmmInit, DmmStep, WholeInit, WholeStep, WholeIsSeen, PTL DEF Spec

-----------------------------------------------------------------------------
(* One request at a time.  A packet is alive while all its bytes are under    *)
(* way, in whatever order and whatever lies between them: damage can only     *)
(* end that, while a packet that was damaged by noise may be whole again when *)
(* the noise is dropped.  At most one packet is alive, none while a request   *)
(* is open, and time stands still until the packet has been read.            *)

On(s) == {s[k] : k \in 1 .. Len(s)}
Held == On(Rest) \cup On(rx) \cup On(tx)
Alive(id) == \A k \in 1 .. Size(id) : Packet(id)[k] \in Held
None == \A i \in Nat \ {0} : ~Alive(i)

Alone ==
  /\ \A i, j \in Nat \ {0} : Alive(i) /\ Alive(j) => i = j
  /\ Len(pending) <= 1 /\ (Len(pending) = 1 => None)

\* A scan begins with an idle line; what arrives is one answer, and noise.
Budget ==
  /\ port = "none" => buf = <<>> /\ rx = <<>> /\ tx = <<>> /\ Len(pending) = 0
  /\ port = "scan" =>
       Len(buf) + Len(rx) + Len(tx) + (IF Len(pending) = 0 THEN 0 ELSE PacketSize) <= faults + PacketSize

\* The meter answers before the request is repeated.
InUse == port \in {"open", "closed"}
Timing ==
  /\ InUse => \A k \in 1 .. Len(pending) : wait + pending[k] > Latency
  /\ InUse /\ tx # <<>> /\ ~None => wait > 0

\* A loop that has reached the limit finds no other packet.
Counts ==
  /\ samples_read <= Limit /\ (acquiring /\ pc = "idle" => samples_read < Limit)
  /\ pc = "check" /\ samples_read = Limit =>
       \A i \in Nat \ {0} : \E k \in 1 .. Size(i) : Packet(i)[k] \notin On(Rest)

OneInv == Patient => Alone /\ Budget /\ Timing /\ Counts

DmmFacts == DmmInv /\ Ordered /\ AllWhole /\ Settled

\* The buffer of a scan holds an answer and all the noise there may be.
Quiet == MaxFaults + PacketSize < ScanSize

LEMMA PatientFacts ==
  ASSUME DmmInv, Patient
  PROVE  /\ dmm \in Meters /\ dmm.request /\ ~dmm.variable /\ dmm.timeout \in Nat /\ Latency \in Nat
         /\ dmm.timeout > Latency /\ dmm.timeout # 0 /\ PacketSize \in Nat /\ PacketSize >= 1
         /\ \A i \in Nat : Size(i) = PacketSize
<1>1. dmm \in Meters
  BY DEF DmmInv, TypeOK
<1> QED BY <1>1, MeterFacts, SizeFacts, SerialDmmAssumption DEF Patient

\* What is no longer held does not come alive.
LEMMA FewerAlive ==
  ASSUME dmm' = dmm, dmm \in Meters, NEW x, Held' \subseteq Held \cup x,
         NEW i \in Nat \ {0}, \A b \in x : b.id # i, Alive(i)'
  PROVE  Alive(i)
<1>1. Size(i)' = Size(i) /\ Packet(i)' = Packet(i)
  BY DEF Size, Packet
<1>2. \A k \in 1 .. Size(i) : Packet(i)[k] \in Held'
  BY <1>1 DEF Alive
<1>3. \A k \in 1 .. Size(i) : Packet(i)[k].id = i
  BY WholeBytes
<1> QED BY <1>2, <1>3 DEF Alive

\* A packet without its first byte is not alive.
LEMMA NotAlive ==
  ASSUME dmm \in Meters, NEW i \in Nat \ {0}, Alive(i)
  PROVE  \E b \in Held : First(b) /\ b.id = i
<1>1. Size(i) \in Nat /\ Size(i) >= 1 /\ \A k \in 1 .. Size(i) : Packet(i)[k].id = i /\ Packet(i)[k].pos = k
  BY WholeBytes
<1>2. 1 \in 1 .. Size(i)
  BY <1>1
<1>3. Packet(i)[1] \in Held /\ Packet(i)[1].id = i /\ Packet(i)[1].pos = 1
  BY <1>1, <1>2 DEF Alive
<1> QED BY <1>3 DEF First

\* A packet does not fit into fewer bytes.
LEMMA TooFew ==
  ASSUME dmm \in Meters, NEW i \in Nat, NEW s \in Seq(Bytes), Len(s) < Size(i)
  PROVE  \E k \in 1 .. Size(i) : Packet(i)[k] \notin On(s)
<1> SUFFICES ASSUME \A k \in 1 .. Size(i) : Packet(i)[k] \in On(s) PROVE FALSE
  OBVIOUS
<1> DEFINE n == Size(i)
           f == [k \in 1 .. n |-> CHOOSE j \in 1 .. Len(s) : s[j] = Packet(i)[k]]
<1>1. n \in Nat /\ n >= 1 /\ \A k \in 1 .. n : Packet(i)[k].pos = k
  BY WholeBytes
<1>2. Len(s) \in Nat
  OBVIOUS
<1>3. \A k \in 1 .. n : \E j \in 1 .. Len(s) : s[j] = Packet(i)[k]
  BY DEF On
<1>4. \A k \in 1 .. n : f[k] \in 1 .. Len(s) /\ s[f[k]] = Packet(i)[k]
  BY <1>3
<1>5. f \in [1 .. n -> 1 .. Len(s)]
  BY <1>4
<1> HIDE DEF f, n
<1>6. IsFiniteSet(1 .. n) /\ Cardinality(1 .. n) = n /\ IsFiniteSet(1 .. Len(s)) /\ Cardinality(1 .. Len(s)) = Len(s)
  <2>1. ASSUME NEW m \in Nat PROVE IsFiniteSet(1 .. m) /\ Cardinality(1 .. m) = m
    <3>1. IsFiniteSet(1 .. m) /\ Cardinality(1 .. m) = IF 1 > m THEN 0 ELSE m - 1 + 1
      BY FS_Interval
    <3> QED BY <3>1
  <2> QED BY <1>1, <1>2, <2>1
<1>7. PICK x, y \in 1 .. n : x # y /\ f[x] = f[y]
  <2>1. Cardinality(1 .. Len(s)) < Cardinality(1 .. n)
    BY <1>6 DEF n
  <2> QED BY <1>5, <1>6, <2>1, FS_PigeonHole
<1>8. Packet(i)[x] = Packet(i)[y]
  BY <1>4, <1>7
<1> QED BY <1>1, <1>7, <1>8

\* Bytes of parts.
LEMMA OnFacts ==
  ASSUME NEW s \in Seq(Bytes)
  PROVE  /\ s # <<>> => On(Tail(s)) \subseteq On(s) /\ Head(s) \in On(s)
         /\ \A b \in Bytes : On(Append(s, b)) = On(s) \cup {b}
         /\ \A t \in Seq(Bytes) : On(s \o t) = On(s) \cup On(t)
         /\ On(<<>>) = {}
<1>1. ASSUME s # <<>> PROVE On(Tail(s)) \subseteq On(s) /\ Head(s) \in On(s)
  <2>1. /\ Len(Tail(s)) = Len(s) - 1 /\ Len(s) \in Nat /\ \A k \in 1 .. Len(Tail(s)) : Tail(s)[k] = s[k + 1]
        /\ Len(s) >= 1 /\ Head(s) = s[1]
    BY <1>1, HeadTailProperties
  <2>2. \A k \in 1 .. Len(Tail(s)) : k + 1 \in 1 .. Len(s)
    BY <2>1
  <2> QED BY <2>1, <2>2 DEF On
<1>2. ASSUME NEW b \in Bytes PROVE On(Append(s, b)) = On(s) \cup {b}
  <2> DEFINE a == Append(s, b)
  <2>1. /\ Len(a) = Len(s) + 1 /\ Len(s) \in Nat
        /\ \A k \in 1 .. Len(s) : a[k] = s[k]
        /\ a[Len(s) + 1] = b
    BY AppendProperties
  <2> HIDE DEF a
  <2>2. 1 .. Len(a) = (1 .. Len(s)) \cup {Len(s) + 1}
    BY <2>1
  <2>3. On(a) = On(s) \cup {b}
    BY <2>1, <2>2 DEF On
  <2> QED BY <2>3 DEF a
<1>3. ASSUME NEW t \in Seq(Bytes) PROVE On(s \o t) = On(s) \cup On(t)
  <2> DEFINE v == s \o t
  <2>1. /\ Len(v) = Len(s) + Len(t) /\ Len(s) \in Nat /\ Len(t) \in Nat
        /\ \A k \in 1 .. Len(s) : v[k] = s[k]
        /\ \A k \in 1 .. Len(t) : v[Len(s) + k] = t[k]
    BY CatBytes
  <2> HIDE DEF v
  <2>2. On(s) \subseteq On(v)
    <3>1. \A k \in 1 .. Len(s) : k \in 1 .. Len(v)
      BY <2>1
    <3> QED BY <2>1, <3>1 DEF On
  <2>3. On(t) \subseteq On(v)
    <3>1. \A k \in 1 .. Len(t) : Len(s) + k \in 1 .. Len(v)
      BY <2>1
    <3> QED BY <2>1, <3>1 DEF On
  <2>4. ASSUME NEW k \in 1 .. Len(v) PROVE v[k] \in On(s) \cup On(t)
    <3>1. CASE k <= Len(s)
      <4>1. k \in 1 .. Len(s)
        BY <2>1, <3>1
      <4> QED BY <2>1, <4>1 DEF On
    <3>2. CASE k > Len(s)
      <4>1. k - Len(s) \in 1 .. Len(t) /\ Len(s) + (k - Len(s)) = k
        BY <2>1, <3>2
      <4>2. v[k] = t[k - Len(s)]
        BY <2>1, <4>1
      <4> QED BY <4>1, <4>2 DEF On
    <3> QED BY <2>1, <3>1, <3>2
  <2>5. On(v) \subseteq On(s) \cup On(t)
    BY <2>4 DEF On
  <2> QED BY <2>2, <2>3, <2>5 DEF v
<1>4. On(<<>>) = {}
  BY DEF On
<1> QED BY <1>1, <1>2, <1>3, <1>4

\* A request stays open or none is left, and only noise is new.
LEMMA Quieter ==
  ASSUME DmmInv, dmm' = dmm, Alone, Timing, \A b \in Held' : b \in Held \/ b.id = 0,
         pending' = pending \/ Len(pending') = 0
  PROVE  /\ Alone' /\ (None => None')
         /\ (InUse' => InUse) /\ wait' = wait /\ (tx' # <<>> => tx # <<>>) => Timing'
<1>1. ASSUME NEW i \in Nat \ {0}, Alive(i)' PROVE Alive(i)
  <2> DEFINE x == {b \in Held' : b.id = 0}
  <2>1. Held' \subseteq Held \cup x /\ \A b \in x : b.id # i
    OBVIOUS
  <2>2. dmm \in Meters
    BY Ways
  <2> HIDE DEF x
  <2> QED BY <1>1, <2>1, <2>2, FewerAlive
<1>2. None => None'
  BY <1>1 DEF None
<1>3. Alone'
  BY <1>1, <1>2 DEF Alone
<1>4. ASSUME InUse' => InUse, wait' = wait, tx' # <<>> => tx # <<>> PROVE Timing'
  <2>1. InUse' => \A k \in 1 .. Len(pending') : wait' + pending'[k] > Latency
    BY <1>4 DEF Timing
  <2>2. InUse' /\ tx' # <<>> /\ ~None' => wait' > 0
    BY <1>2, <1>4 DEF Timing
  <2> QED BY <2>1, <2>2 DEF Timing
<1> QED BY <1>2, <1>3, <1>4

\* The number of open requests.
LEMMA Open ==
  ASSUME DmmInv
  PROVE  /\ pending \in Seq(Nat) /\ Len(pending) \in Nat /\ (Len(pending) = 0 <=> pending = <<>>)
         /\ \A k \in 1 .. Len(pending) : pending[k] \in 0 .. Latency
         /\ wait \in Nat /\ Latency \in Nat /\ faults \in Nat /\ ids \in Nat
         /\ Len(buf) \in Nat /\ Len(rx) \in Nat /\ Len(tx) \in Nat
         /\ samples_read \in Nat /\ Limit \in Nat \ {0}
<1>1. pending \in Seq(Nat) /\ \A k \in 1 .. Len(pending) : pending[k] \in 0 .. Latency
  BY DEF DmmInv, TypeOK, Carried
<1>2. Len(pending) \in Nat /\ (Len(pending) = 0 <=> pending = <<>>)
  BY <1>1, EmptySeq
<1>3. wait \in Nat /\ Latency \in Nat /\ faults \in Nat /\ ids \in Nat /\ samples_read \in Nat /\ Limit \in Nat \ {0}
  BY SerialDmmAssumption DEF DmmInv, TypeOK
<1>4. buf \in Seq(Bytes) /\ rx \in Seq(Bytes) /\ tx \in Seq(Bytes)
  BY Ways
<1> QED BY <1>1, <1>2, <1>3, <1>4

LEMMA CountsSame ==
  ASSUME Counts, UNCHANGED <<dmm, buf, check_pos, pc, acquiring, samples_read>> PROVE Counts'
<1>1. Rest' = Rest
  BY DEF Rest
<1> QED BY <1>1 DEF Counts, On, Size, Packet

LEMMA ReplyOne ==
  ASSUME DmmInv, Patient, Alone, Budget, Timing, Counts, Reply PROVE (Alone /\ Budget /\ Timing /\ Counts)'
<1>1. /\ pending # <<>> /\ pending' = Tail(pending) /\ ids' = ids + 1 /\ tx' = tx \o Packet(ids + 1)
      /\ UNCHANGED <<dmm, port, buf, check_pos, pc, wait, acquiring, samples_read, rx, faults>>
  BY DEF Reply, Emit
<1>2. Len(pending) = 1 /\ None
  <2>1. Len(pending) # 0 /\ Len(pending) \in Nat /\ Len(pending) <= 1
    BY <1>1, Open DEF Alone
  <2>2. \A n \in Nat : n # 0 /\ n <= 1 => n = 1
    OBVIOUS
  <2>3. Len(pending) = 1
    BY <2>1, <2>2, Zenon
  <2> QED BY <2>3 DEF Alone
<1>3. Len(pending') = 0
  BY <1>1, <1>2, Open, HeadTailProperties
<1>4. ids + 1 \in Nat /\ dmm \in Meters
  BY Open, Ways
<1>5. Packet(ids + 1) \in Seq(Bytes) /\ Len(Packet(ids + 1)) = PacketSize
      /\ \A k \in 1 .. Len(Packet(ids + 1)) : Packet(ids + 1)[k].id = ids + 1
  BY <1>4, PacketFacts, PatientFacts
<1> DEFINE x == On(Packet(ids + 1))
<1>6. Held' \subseteq Held \cup x /\ \A b \in x : b.id = ids + 1
  <2>1. tx \in Seq(Bytes)
    BY Ways
  <2>2. On(tx') = On(tx) \cup x
    BY <1>1, <1>5, <2>1, OnFacts
  <2>3. Rest' = Rest
    BY <1>1 DEF Rest
  <2>4. On(Rest)' = On(Rest) /\ On(rx)' = On(rx) /\ On(tx)' = On(tx')
    BY <1>1, <2>3 DEF On
  <2>5. \A b \in x : b.id = ids + 1
    BY <1>5 DEF On
  <2> QED BY <2>2, <2>4, <2>5 DEF Held
<1> HIDE DEF x
<1>7. ASSUME NEW i \in Nat \ {0}, Alive(i)' PROVE i = ids + 1
  <2> SUFFICES ASSUME i # ids + 1 PROVE FALSE
    OBVIOUS
  <2>1. \A b \in x : b.id # i
    BY <1>6
  <2>2. Alive(i)
    BY <1>1, <1>4, <1>6, <1>7, <2>1, FewerAlive
  <2> QED BY <1>2, <2>2 DEF None
<1>8. Alone'
  BY <1>3, <1>7 DEF Alone
<1>9. Budget'
  <2>1. Len(tx') = Len(tx) + PacketSize /\ PacketSize \in Nat
    BY <1>1, <1>5, CatBytes, Ways, PatientFacts
  <2>2. port # "none"
    BY <1>2 DEF Budget
  <2> QED BY <1>1, <1>2, <1>3, <2>1, <2>2, Open, SMTT(30) DEF Budget
<1>10. Timing'
  <2>1. InUse => wait > 0
    <3>1. 1 \in 1 .. Len(pending)
      BY <1>2
    <3> QED BY <3>1, Open DEF Timing
  <2> QED BY <1>1, <1>3, <2>1 DEF Timing, InUse
<1> QED BY <1>1, <1>8, <1>9, <1>10, CountsSame

LEMMA TickOne ==
  ASSUME DmmInv, Patient, Alone, Budget, Timing, Counts, Tick PROVE (Alone /\ Budget /\ Timing /\ Counts)'
<1>1. /\ tx = <<>> /\ pending' = [k \in 1 .. Len(pending) |-> pending[k] + 1]
      /\ wait' = (IF wait > 0 THEN wait - 1 ELSE 0)
      /\ UNCHANGED <<dmm, port, buf, check_pos, pc, acquiring, samples_read, rx, tx, faults>>
  BY DEF Tick
<1>2. Len(pending') = Len(pending) /\ \A k \in 1 .. Len(pending) : pending'[k] = pending[k] + 1
  BY <1>1, Open
<1>3. Held' = Held
  BY <1>1 DEF Held, Rest, On
<1>4. ASSUME NEW i \in Nat \ {0} PROVE Alive(i)' <=> Alive(i)
  BY <1>1, <1>3 DEF Alive, Size, Packet
<1>5. Alone'
  BY <1>2, <1>4 DEF Alone, None
<1>6. Budget'
  BY <1>1, <1>2 DEF Budget
<1>7. Timing'
  <2>1. ASSUME InUse, NEW k \in 1 .. Len(pending) PROVE wait' + pending'[k] > Latency
    <3>1. wait + pending[k] > Latency /\ pending[k] \in 0 .. Latency /\ wait \in Nat /\ Latency \in Nat
      BY <2>1, Open DEF Timing
    <3>2. pending'[k] = pending[k] + 1
      BY <1>2
    <3> QED BY <1>1, <3>1, <3>2
  <2> QED BY <1>1, <1>2, <2>1 DEF Timing, InUse
<1> QED BY <1>1, <1>5, <1>6, <1>7, CountsSame

LEMMA LineOne ==
  ASSUME DmmInv, Patient, Alone, Budget, Timing, Counts,
         \/ Reply \/ Stream \/ Transmit \/ LoseByte \/ LoseRequest \/ Tick
         \/ \E b \in NoiseBytes : Noise(b)
  PROVE  (Alone /\ Budget /\ Timing /\ Counts)'
<1>1. CASE Stream
  BY <1>1 DEF Stream, Patient
<1>2. CASE Transmit \/ LoseByte \/ LoseRequest \/ \E b \in NoiseBytes : Noise(b)
  <2>0. rx \in Seq(Bytes) /\ tx \in Seq(Bytes)
    BY Ways
  <2>1. UNCHANGED <<dmm, port, buf, check_pos, pc, wait, acquiring, samples_read>>
    BY <1>2 DEF Transmit, LoseByte, LoseRequest, Noise
  <2>2. Counts' /\ Rest' = Rest
    BY <2>1, CountsSame DEF Rest
  <2>3. On(Rest)' = On(Rest) /\ On(rx)' = On(rx') /\ On(tx)' = On(tx')
    BY <2>2 DEF On
  <2>4. tx' # <<>> => tx # <<>>
    BY <1>2 DEF Transmit, LoseByte, LoseRequest, Noise
  <2>5. pending' = pending \/ (pending # <<>> /\ Len(pending') = 0)
    <3>1. ASSUME LoseRequest PROVE pending # <<>> /\ Len(pending') = 0
      <4>1. pending # <<>> /\ pending' = Tail(pending) /\ Len(pending) <= 1
        BY <3>1 DEF LoseRequest, Alone
      <4>2. Len(Tail(pending)) = Len(pending) - 1 /\ Len(Tail(pending)) \in Nat
        BY <4>1, Open, HeadTailProperties
      <4> QED BY <4>1, <4>2, Open
    <3> QED BY <1>2, <3>1 DEF Transmit, LoseByte, Noise
  <2>6. \A b \in Held' : b \in Held \/ b.id = 0
    <3>1. CASE Transmit \/ LoseByte
      <4>1. /\ tx # <<>> /\ tx' = Tail(tx)
            /\ rx' \in {rx, Append(rx, Head(tx))}
        BY <3>1 DEF Transmit, LoseByte
      <4>2. On(tx') \subseteq On(tx) /\ Head(tx) \in On(tx) /\ Head(tx) \in Bytes
        BY <2>0, <4>1, OnFacts, HeadTailProperties
      <4>3. On(rx') \subseteq On(rx) \cup {Head(tx)}
        <5>1. On(Append(rx, Head(tx))) = On(rx) \cup {Head(tx)}
          BY <2>0, <4>2, OnFacts
        <5>2. CASE rx' = rx
          BY <5>2
        <5>3. CASE rx' = Append(rx, Head(tx))
          BY <5>1, <5>3
        <5> QED BY <4>1, <5>2, <5>3
      <4> QED BY <2>3, <4>2, <4>3 DEF Held
    <3>2. CASE LoseRequest
      <4>1. rx' = rx /\ tx' = tx
        BY <3>2 DEF LoseRequest
      <4> QED BY <2>3, <4>1 DEF Held
    <3>3. ASSUME NEW b \in NoiseBytes, Noise(b) PROVE \A a \in Held' : a \in Held \/ a.id = 0
      <4>1. b \in Bytes /\ b.id = 0
        BY SerialDmmAssumption DEF NoiseBytes, Bytes
      <4>2. On(rx') = On(rx) \cup {b} /\ tx' = tx
        BY <2>0, <3>3, <4>1, OnFacts DEF Noise
      <4> QED BY <2>3, <4>1, <4>2 DEF Held
    <3> QED BY <1>2, <3>1, <3>2, <3>3
  <2>7. Alone' /\ Timing'
    BY <2>1, <2>4, <2>5, <2>6, Quieter DEF InUse
  <2>8. Budget'
    <3>0. PacketSize \in Nat
      BY PatientFacts
    <3>1. CASE Transmit
      <4>1. /\ tx # <<>> /\ tx' = Tail(tx) /\ pending' = pending /\ faults' = faults
            /\ (port = "scan" => rx' = Append(rx, Head(tx)))
        BY <3>1 DEF Transmit, Listening
      <4>2. Len(tx') = Len(tx) - 1 /\ Head(tx) \in Bytes
        BY <2>0, <4>1, HeadTailProperties
      <4>3. port = "scan" => Len(rx') = Len(rx) + 1
        BY <2>0, <4>1, <4>2, AppendProperties
      <4> QED BY <2>1, <3>0, <4>1, <4>2, <4>3, Open, SMTT(30) DEF Budget
    <3>2. CASE LoseByte
      <4>1. /\ tx # <<>> /\ tx' = Tail(tx) /\ pending' = pending /\ faults' = faults + 1 /\ rx' = rx
        BY <3>2 DEF LoseByte, Fault
      <4>2. Len(tx') = Len(tx) - 1
        BY <2>0, <4>1, HeadTailProperties
      <4> QED BY <2>1, <3>0, <4>1, <4>2, Open, SMTT(30) DEF Budget
    <3>3. CASE LoseRequest
      <4>1. rx' = rx /\ tx' = tx /\ faults' = faults + 1 /\ pending # <<>> /\ Len(pending') \in {0, Len(pending)}
        BY <2>5, <3>3 DEF LoseRequest, Fault
      <4> QED BY <2>1, <3>0, <4>1, Open, SMTT(30) DEF Budget
    <3>4. ASSUME NEW b \in NoiseBytes, Noise(b) PROVE Budget'
      <4>1. b \in Bytes
        BY SerialDmmAssumption DEF NoiseBytes, Bytes
      <4>2. tx' = tx /\ pending' = pending /\ faults' = faults + 1 /\ rx' = Append(rx, b) /\ port # "none"
        BY <3>4 DEF Noise, Fault, Listening
      <4>3. Len(rx') = Len(rx) + 1
        BY <2>0, <4>1, <4>2, AppendProperties
      <4> QED BY <2>1, <3>0, <4>2, <4>3, Open, SMTT(30) DEF Budget
    <3> QED BY <1>2, <3>1, <3>2, <3>3, <3>4
  <2> QED BY <2>2, <2>7, <2>8
<1> QED BY <1>1, <1>2, ReplyOne, TickOne

LEMMA CountsIdle ==
  ASSUME Counts, pc' = "idle", acquiring' => acquiring /\ pc = "idle", samples_read' = samples_read PROVE Counts'
BY DEF Counts

\* With no request open and no packet under way, a request is the only one.
LEMMA RequestOne ==
  ASSUME DmmInv, Patient, dmm' = dmm, Len(pending) = 0, NEW w \in Nat, Request(w), None'
  PROVE  Alone' /\ Timing'
<1>1. dmm.timeout \in Nat /\ dmm.timeout > Latency /\ dmm.timeout # 0 /\ Latency \in Nat
  BY PatientFacts
<1>2. CASE pending' = pending
  BY <1>2 DEF Alone, Timing, None
<1>3. CASE pending' = Append(pending, 0) /\ wait' = WaitAfterRequest(w)
  <2>1. Len(pending') = 1 /\ pending'[1] = 0
    <3>1. pending \in Seq(Nat) /\ 0 \in Nat
      BY Open
    <3>2. Len(Append(pending, 0)) = Len(pending) + 1 /\ Append(pending, 0)[Len(pending) + 1] = 0
      BY <3>1, AppendProperties
    <3> QED BY <1>3, <3>2
  <2>2. wait' = dmm.timeout
    BY <1>1, <1>3 DEF WaitAfterRequest
  <2>3. \A k \in 1 .. Len(pending') : wait' + pending'[k] > Latency
    BY <1>1, <2>1, <2>2
  <2>4. Timing'
    BY <2>3 DEF Timing
  <2>5. Alone'
    BY <2>1 DEF Alone, None
  <2> QED BY <2>4, <2>5
<1> QED BY <1>2, <1>3 DEF Request

\* Later suffixes hold fewer bytes.
LEMMA SuffixOn ==
  ASSUME NEW s \in Seq(Bytes), NEW m \in 0 .. Len(s), NEW n \in 0 .. Len(s), m <= n
  PROVE  On(SubSeq(s, n + 1, Len(s))) \subseteq On(SubSeq(s, m + 1, Len(s)))
<1> DEFINE x == SubSeq(s, m + 1, Len(s))
           y == SubSeq(s, n + 1, Len(s))
<1>0. Len(s) \in Nat
  OBVIOUS
<1>1. Len(x) = Len(s) - m /\ \A k \in 1 .. Len(s) - m : x[k] = s[m + k]
  BY SuffixFacts
<1>2. Len(y) = Len(s) - n /\ \A k \in 1 .. Len(s) - n : y[k] = s[n + k]
  BY SuffixFacts
<1> HIDE DEF x, y
<1>3. ASSUME NEW k \in 1 .. Len(y) PROVE y[k] \in On(x)
  <2>1. n - m + k \in 1 .. Len(x) /\ m + (n - m + k) = n + k
    BY <1>0, <1>1, <1>2
  <2>2. y[k] = x[n - m + k]
    BY <1>0, <1>1, <1>2, <2>1
  <2> QED BY <2>1, <2>2 DEF On
<1>4. On(y) \subseteq On(x)
  BY <1>3 DEF On
<1> QED BY <1>4 DEF x, y

\* The search has passed bytes of the buffer.
LEMMA RestOn ==
  ASSUME DmmInv PROVE On(Rest) \subseteq On(buf)
<1>1. buf \in Seq(Bytes) /\ check_pos \in 0 .. Len(buf) /\ Len(buf) \in Nat /\ 0 \in 0 .. Len(buf) /\ 0 <= check_pos
  BY Ways
<1>2. On(SubSeq(buf, check_pos + 1, Len(buf))) \subseteq On(SubSeq(buf, 0 + 1, Len(buf)))
  BY <1>1, SuffixOn
<1>3. SubSeq(buf, 0 + 1, Len(buf)) = buf
  BY <1>1, SubSeqFull
<1> QED BY <1>2, <1>3 DEF Rest

\* A packet that is accepted is the only one.
LEMMA Handed ==
  ASSUME DmmInv, Alone, NEW s \in Seq(Bytes), On(s) \subseteq Held, Verdict(s) = "valid"
  PROVE  /\ s[1].id \in Nat \ {0} /\ First(s[1]) /\ s[1] \in On(s) /\ Len(pending) = 0
         /\ \A k \in 1 .. Size(s[1].id) : Packet(s[1].id)[k] \in On(s)
         /\ \A i \in Nat \ {0} : Alive(i) => i = s[1].id
<1> DEFINE i == s[1].id
           n == s[1].size
<1>0. dmm \in Meters /\ Len(s) \in Nat
  BY Ways
<1>1. Len(s) >= 1 /\ First(s[1]) /\ n \in 1 .. Len(s) /\ SubSeq(s, 1, n) = Packet(i)
  BY <1>0, ValidFacts
<1>2. i \in Nat \ {0} /\ s[1] \in On(s)
  <2>1. 1 \in 1 .. Len(s)
    BY <1>0, <1>1
  <2> QED BY <1>1, <2>1, ByteAt DEF First, On
<1>3. \A k \in 1 .. Size(i) : Packet(i)[k] \in On(s)
  <2>1. Len(Packet(i)) = Size(i)
    BY <1>0, <1>2, PacketFacts
  <2> HIDE DEF n, i
  <2>2. n \in Nat /\ n <= Len(s) /\ 1 <= n + 1 /\ n - 1 + 1 = n
    BY <1>0, <1>1
  <2>3. Len(SubSeq(s, 1, n)) = n /\ \A k \in 1 .. n : SubSeq(s, 1, n)[k] = s[k]
    BY <2>2, SubFacts
  <2>4. \A k \in 1 .. n : k \in 1 .. Len(s)
    BY <1>0, <2>2
  <2> QED BY <1>1, <2>1, <2>3, <2>4 DEF On
<1> HIDE DEF i
<1>4. Alive(i)
  BY <1>3 DEF Alive
<1>5. Len(pending) = 0
  <2>1. Len(pending) # 1
    BY <1>2, <1>4 DEF Alone, None
  <2>2. Len(pending) \in Nat /\ Len(pending) <= 1
    BY Open DEF Alone
  <2>3. \A m \in Nat : m # 1 /\ m <= 1 => m = 0
    OBVIOUS
  <2> QED BY <2>1, <2>2, <2>3, Zenon
<1>6. \A j \in Nat \ {0} : Alive(j) => j = i
  BY <1>2, <1>4 DEF Alone
<1> QED BY <1>1, <1>2, <1>3, <1>5, <1>6 DEF i

\* The only packet has lost its first byte.
LEMMA Gone ==
  ASSUME DmmInv, dmm' = dmm, Held' \subseteq Held, NEW j \in Nat \ {0},
         \A i \in Nat \ {0} : Alive(i) => i = j, \A b \in Held' : First(b) => b.id # j
  PROVE  None'
<1> SUFFICES ASSUME NEW i \in Nat \ {0}, Alive(i)' PROVE FALSE
  BY DEF None
<1>0. dmm \in Meters
  BY Ways
<1>1. Alive(i)
  <2> DEFINE x == {}
  <2>1. Held' \subseteq Held \cup x /\ \A b \in x : b.id # i
    OBVIOUS
  <2> HIDE DEF x
  <2> QED BY <1>0, <2>1, FewerAlive
<1>2. i = j
  BY <1>1
<1>3. Size(i)' = Size(i) /\ Packet(i)' = Packet(i)
  BY DEF Size, Packet
<1>4. Size(i) \in Nat /\ Size(i) >= 1 /\ \A k \in 1 .. Size(i) : Packet(i)[k].id = i /\ Packet(i)[k].pos = k
  BY <1>0, WholeBytes
<1>5. 1 \in 1 .. Size(i)
  BY <1>4
<1>6. Packet(i)[1] \in Held' /\ Packet(i)[1].id = i /\ Packet(i)[1].pos = 1
  BY <1>3, <1>4, <1>5 DEF Alive
<1> QED BY <1>2, <1>6 DEF First

\* When the request is due again, it has been answered and the answer read.
LEMMA IdleNone ==
  ASSUME DmmInv, Settled, Patient, Timing, acquiring, pc = "idle", rx = <<>>, wait = 0
  PROVE  None /\ Len(pending) = 0
<1>1. port = "open" /\ InUse /\ check_pos = 0
  BY DEF DmmInv, Places, InUse
<1>2. Len(pending) = 0
  <2>1. \A k \in 1 .. Len(pending) : FALSE
    BY <1>1, Open DEF Timing
  <2>2. Len(pending) \in Nat
    BY Open
  <2> QED BY <2>1, <2>2
<1>3. CASE tx = <<>>
  <2>1. dmm \in Meters /\ buf \in Seq(Bytes) /\ Rest = buf /\ On(rx) = {} /\ On(tx) = {}
    BY <1>1, <1>3, Ways, OnFacts
  <2>2. Verdict(buf) \in {"short", "need_rx"} /\ ~dmm.variable
    BY <1>1, PatientFacts DEF Settled
  <2>3. Len(buf) < PacketSize
    BY <2>1, <2>2, Verdicts
  <2>4. ASSUME NEW i \in Nat \ {0} PROVE ~Alive(i)
    <3>1. Len(buf) < Size(i)
      BY <2>3, PatientFacts
    <3>2. \E k \in 1 .. Size(i) : Packet(i)[k] \notin On(buf)
      BY <2>1, <3>1, TooFew
    <3> QED BY <2>1, <3>2 DEF Alive, Held
  <2> QED BY <1>2, <2>4 DEF None
<1>4. CASE tx # <<>>
  BY <1>1, <1>2, <1>4 DEF Timing
<1> QED BY <1>3, <1>4

LEMMA SameHeld ==
  ASSUME UNCHANGED <<dmm, buf, check_pos, rx, tx>> PROVE Held' = Held /\ (None => None')
<1>1. Held' = Held
  BY DEF Held, Rest, On
<1>2. ASSUME NEW i \in Nat \ {0} PROVE Alive(i)' <=> Alive(i)
  BY <1>1 DEF Alive, Size, Packet
<1> QED BY <1>1, <1>2 DEF None

LEMMA ScanOne ==
  ASSUME DmmInv, Patient, Alone, Budget, Timing, Counts, Scan PROVE (Alone /\ Budget /\ Timing /\ Counts)'
<1>1. /\ port = "none" /\ port' \in {"scan", "leaked"} /\ faults' \in {faults, faults + 1}
      /\ pending' \in {pending, Append(pending, 0)} /\ (port' = "scan" => faults' = faults)
      /\ UNCHANGED <<dmm, buf, check_pos, pc, acquiring, samples_read, rx, tx>>
  BY DEF Scan, Fault
<1>2. buf = <<>> /\ rx = <<>> /\ tx = <<>> /\ Len(pending) = 0
  BY <1>1 DEF Budget
<1>3. Len(pending') \in {0, 1}
  <2>1. pending \in Seq(Nat) /\ 0 \in Nat
    BY Open
  <2>2. Len(Append(pending, 0)) = Len(pending) + 1
    BY <2>1, AppendProperties
  <2> QED BY <1>1, <1>2, <2>2
<1>4. None'
  <2>1. Held = {}
    <3>1. On(buf) = {} /\ On(rx) = {} /\ On(tx) = {}
      BY <1>2 DEF On
    <3> QED BY <3>1, RestOn DEF Held
  <2>2. None
    BY <2>1, Ways, NotAlive DEF None
  <2> QED BY <1>1, <2>2, SameHeld
<1>5. Alone'
  <2>1. \A n \in {0, 1} : n <= 1
    OBVIOUS
  <2>2. Len(pending') <= 1
    BY <1>3, <2>1, Zenon
  <2> QED BY <1>4, <2>2, Zenon DEF Alone, None
<1>6. Budget'
  <2>1. Len(buf') = 0 /\ Len(rx') = 0 /\ Len(tx') = 0 /\ faults \in Nat /\ PacketSize \in Nat
    BY <1>1, <1>2, Open, PatientFacts
  <2>2. port' = "scan" => Len(buf') + Len(rx') + Len(tx') + (IF Len(pending') = 0 THEN 0 ELSE PacketSize) <= faults' + PacketSize
    BY <1>1, <2>1
  <2> QED BY <1>1, <2>2 DEF Budget
<1>7. Timing'
  BY <1>1 DEF Timing, InUse
<1> QED BY <1>1, <1>5, <1>6, <1>7, CountsSame

LEMMA PortOne ==
  ASSUME DmmInv, Settled, Patient, Alone, Budget, Timing, Counts,
         Scan \/ DetectTimeout \/ DevOpen \/ DevClose \/ AcquisitionStart \/ AcquisitionStop \/ Poll
  PROVE  (Alone /\ Budget /\ Timing /\ Counts)'
<1>0. Rest \in Seq(Bytes) /\ rx \in Seq(Bytes) /\ tx \in Seq(Bytes) /\ (pc = "check" => port = "open" /\ acquiring)
      /\ (acquiring => port = "open") /\ pc \in {"idle", "check"}
  BY Ways DEF DmmInv, Places, TypeOK
<1>1. CASE DetectTimeout
  <2>1. /\ port = "scan" /\ port' = "none" /\ buf' = <<>> /\ check_pos' = 0 /\ rx' = <<>> /\ pending = <<>> /\ tx = <<>>
        /\ UNCHANGED <<dmm, pc, wait, acquiring, samples_read, tx, pending, faults>>
    BY <1>1 DEF DetectTimeout, ScanEnds, Patient
  <2>2. Rest' = <<>>
    <3>1. Rest' = SubSeq(<<>>, 0 + 1, Len(<<>>))
      BY <2>1 DEF Rest
    <3> QED BY <3>1, Nothing
  <2>3. Held' = {}
    BY <2>1, <2>2 DEF Held, On
  <2>4. Alone' /\ Timing'
    BY <2>1, <2>3, Quieter DEF InUse
  <2>5. Budget'
    BY <2>1, Open DEF Budget
  <2> QED BY <1>0, <2>1, <2>4, <2>5, CountsIdle
<1>2. CASE DevOpen \/ DevClose
  <2>1. /\ port \in {"open", "closed"} /\ port' \in {"open", "closed"} /\ rx' = <<>>
        /\ UNCHANGED <<dmm, buf, check_pos, pc, wait, acquiring, samples_read, tx, pending, faults>>
    BY <1>2 DEF DevOpen, DevClose
  <2>2. Held' \subseteq Held
    <3>1. On(Rest)' = On(Rest) /\ On(rx)' = {} /\ On(tx)' = On(tx)
      BY <2>1 DEF On, Rest
    <3> QED BY <3>1 DEF Held
  <2>3. Alone' /\ Timing'
    BY <2>1, <2>2, Quieter DEF InUse
  <2>4. Budget'
    BY <2>1 DEF Budget
  <2> QED BY <2>1, <2>3, <2>4, CountsSame
<1>3. CASE AcquisitionStart \/ AcquisitionStop
  <2>1. /\ port = "open" /\ pc = "idle"
        /\ UNCHANGED <<dmm, port, buf, check_pos, pc, wait, rx, tx, pending, faults>>
    BY <1>0, <1>3 DEF AcquisitionStart, AcquisitionStop, line
  <2>2. Held' = Held
    BY <2>1, SameHeld
  <2>3. Alone' /\ Timing'
    BY <2>1, <2>2, Quieter DEF InUse
  <2>4. Budget'
    BY <2>1 DEF Budget
  <2>5. Counts'
    <3>1. CASE AcquisitionStart
      <4>1. samples_read' = 0 /\ Limit \in Nat /\ Limit > 0
        BY <3>1, SerialDmmAssumption DEF AcquisitionStart
      <4> QED BY <2>1, <4>1 DEF Counts
    <3>2. CASE AcquisitionStop
      BY <2>1, <3>2, CountsIdle DEF AcquisitionStop
    <3> QED BY <1>3, <3>1, <3>2
  <2> QED BY <2>3, <2>4, <2>5
<1>4. CASE Poll
  <2>1. /\ acquiring /\ pc = "idle" /\ port = "open" /\ rx = <<>> /\ wait = 0 /\ Request(0)
        /\ UNCHANGED <<dmm, port, buf, check_pos, pc, samples_read, rx, tx>>
    BY <1>0, <1>4 DEF Poll, Due
  <2>2. None /\ Len(pending) = 0
    BY <2>1, IdleNone
  <2>3. None'
    BY <2>1, <2>2, SameHeld
  <2>4. Alone' /\ Timing'
    BY <2>1, <2>2, <2>3, RequestOne
  <2>5. Budget'
    BY <2>1 DEF Budget
  <2> QED BY <2>1, <2>4, <2>5, CountsIdle
<1> QED BY <1>1, <1>2, <1>3, <1>4, ScanOne

LEMMA DetectOne ==
  ASSUME DmmFacts, Patient, Alone, Budget, Timing, Counts, DetectByte, Quiet
  PROVE  (Alone /\ Budget /\ Timing /\ Counts)'
<1>0. DmmInv /\ Ordered
  BY DEF DmmFacts
<1>1. /\ port = "scan" /\ pc = "idle" /\ ~acquiring
      /\ UNCHANGED <<dmm, pc, wait, acquiring, samples_read, tx, pending, faults>>
  BY <1>0 DEF DetectByte, DmmInv, Places, TypeOK
<1>2. Counts'
  BY <1>1, CountsIdle
<1>3. /\ Rest \in Seq(Bytes) /\ buf \in Seq(Bytes) /\ rx \in Seq(Bytes) /\ tx \in Seq(Bytes)
      /\ check_pos \in 0 .. Len(buf) /\ Len(buf) \in Nat
  BY <1>0, Ways
<1>4. /\ Fed \in Seq(Bytes) /\ Len(Fed) \in Len(buf) .. Len(buf) + 1 /\ Len(Fed) + Len(Unread) = Len(buf) + Len(rx)
      /\ Seen \in Seq(Bytes) /\ Len(Seen) = Len(Fed) - check_pos
      /\ Unread \in Seq(Bytes) /\ Seen \o Unread = Rest \o rx
  BY <1>0, FedFacts
<1>5. On(Seen) \cup On(Unread) = On(Rest) \cup On(rx)
  <2>1. On(Seen \o Unread) = On(Seen) \cup On(Unread)
    BY <1>4, OnFacts
  <2>2. On(Rest \o rx) = On(Rest) \cup On(rx)
    BY <1>3, OnFacts
  <2> QED BY <1>4, <2>1, <2>2
<1>6. Len(Fed) # ScanSize
  <2>1. Len(buf) + Len(rx) + Len(tx) + (IF Len(pending) = 0 THEN 0 ELSE PacketSize) <= faults + PacketSize
    BY <1>1 DEF Budget
  <2>2. faults \in 0 .. MaxFaults /\ MaxFaults \in Nat /\ PacketSize \in Nat /\ ScanSize \in Nat
    BY <1>0, SerialDmmAssumption DEF DmmInv, TypeOK
  <2>3. Len(Unread) \in Nat /\ Len(Fed) \in Nat
    BY <1>4
  <2>4. Len(buf) + Len(rx) <= faults + PacketSize
    BY <1>0, <2>1, <2>2, Open
  <2> QED BY <1>4, <2>2, <2>3, <2>4 DEF Quiet
<1>7. CASE Verdict(Seen) = "valid" /\ ScanEnds("closed", {Seen[1].id})
  <2>1. port' = "closed" /\ buf' = <<>> /\ check_pos' = 0 /\ rx' = <<>>
    BY <1>7 DEF ScanEnds
  <2>2. Rest' = <<>>
    <3>1. Rest' = SubSeq(<<>>, 0 + 1, Len(<<>>))
      BY <2>1 DEF Rest
    <3> QED BY <3>1, Nothing
  <2>3. Held' = On(tx) /\ Held' \subseteq Held
    BY <1>1, <2>1, <2>2 DEF Held, On
  <2>4. /\ Seen[1].id \in Nat \ {0} /\ First(Seen[1]) /\ Seen[1] \in On(Seen) /\ Len(pending) = 0
        /\ \A i \in Nat \ {0} : Alive(i) => i = Seen[1].id
    <3>1. On(Seen) \subseteq Held
      BY <1>5 DEF Held
    <3> QED BY <1>0, <1>4, <1>7, <3>1, Handed
  <2>5. ASSUME NEW b \in On(tx), First(b) PROVE b.id # Seen[1].id
    <3>1. PICK l \in 1 .. Len(tx) : tx[l] = b
      BY DEF On
    <3>2. Seen[1] \in On(buf) \cup On(rx)
      BY <1>0, <1>5, <2>4, RestOn
    <3>3. b.id \in Nat
      BY <1>3, <3>1, ByteAt
    <3>4. CASE Seen[1] \in On(buf)
      <4>1. PICK k \in 1 .. Len(buf) : buf[k] = Seen[1]
        BY <3>4 DEF On
      <4>2. Seen[1].id < b.id
        BY <1>0, <2>4, <2>5, <3>1, <4>1 DEF Ordered, Asc
      <4> QED BY <2>4, <3>3, <4>2
    <3>5. CASE Seen[1] \in On(rx)
      <4>1. PICK k \in 1 .. Len(rx) : rx[k] = Seen[1]
        BY <3>5 DEF On
      <4>2. Seen[1].id < b.id
        BY <1>0, <2>4, <2>5, <3>1, <4>1 DEF Ordered, Asc
      <4> QED BY <2>4, <3>3, <4>2
    <3> QED BY <3>2, <3>4, <3>5
  <2>6. None'
    BY <1>0, <1>1, <2>3, <2>4, <2>5, Gone
  <2>7. Alone'
    BY <1>1, <2>4, <2>6 DEF Alone, None
  <2>8. Timing'
    BY <1>1, <2>4, <2>6 DEF Timing, None
  <2>9. Budget'
    BY <2>1 DEF Budget
  <2> QED BY <1>2, <2>7, <2>8, <2>9
<1>8. CASE /\ buf' = Fed /\ rx' = Unread /\ UNCHANGED port
           /\ check_pos' = IF Verdict(Seen) = "invalid" THEN check_pos + 1 ELSE check_pos
  <2>1. On(Rest') \subseteq On(Seen)
    <3>1. Verdict(Seen) = "invalid" => Len(Seen) >= 1
      BY <1>4, VerdictLong
    <3>2. check_pos \in 0 .. Len(Fed) /\ check_pos' \in 0 .. Len(Fed) /\ check_pos <= check_pos'
      BY <1>3, <1>4, <1>8, <3>1
    <3> DEFINE n == check_pos'
    <3>3. n \in 0 .. Len(Fed) /\ check_pos <= n
      BY <3>2
    <3> HIDE DEF n
    <3>4. On(SubSeq(Fed, n + 1, Len(Fed))) \subseteq On(SubSeq(Fed, check_pos + 1, Len(Fed)))
      BY <1>4, <3>2, <3>3, SuffixOn
    <3>5. Rest' = SubSeq(Fed, n + 1, Len(Fed))
      BY <1>8 DEF Rest, n
    <3> QED BY <3>4, <3>5 DEF Seen
  <2>2. Held' \subseteq Held
    <3>1. On(Rest)' = On(Rest') /\ On(rx)' = On(Unread) /\ On(tx)' = On(tx)
      BY <1>1, <1>8 DEF On
    <3> QED BY <1>5, <2>1, <3>1 DEF Held
  <2>3. Alone' /\ Timing'
    BY <1>0, <1>1, <1>8, <2>2, Quieter DEF InUse
  <2>4. Budget'
    <3>1. Len(buf') + Len(rx') = Len(buf) + Len(rx)
      BY <1>4, <1>8
    <3>2. Len(buf') + Len(rx') + Len(tx') = Len(buf) + Len(rx) + Len(tx)
      BY <1>1, <3>1
    <3> QED BY <1>1, <1>8, <3>2 DEF Budget
  <2> QED BY <1>2, <2>3, <2>4
<1> QED BY <1>6, <1>7, <1>8 DEF DetectByte, Fed, Seen, Unread

LEMMA ReceiveOne ==
  ASSUME DmmInv, Patient, Alone, Budget, Timing, Counts, Receive PROVE (Alone /\ Budget /\ Timing /\ Counts)'
<1> DEFINE n == Lesser(Len(rx), ReadLen)
           a == SubSeq(rx, 1, n)
           c == SubSeq(rx, n + 1, Len(rx))
<1>1. /\ buf \in Seq(Bytes) /\ rx \in Seq(Bytes) /\ Len(buf) \in Nat /\ (check_pos = 0 => Rest = buf)
  BY Ways
<1>2. /\ buf' = buf \o a /\ rx' = c /\ check_pos' = 0 /\ pc' = "check" /\ n > 0 /\ port = "open"
      /\ UNCHANGED <<dmm, port, wait, acquiring, samples_read, tx, pending, faults>> /\ check_pos = 0
      /\ acquiring /\ pc = "idle"
  BY DEF Receive, DmmInv, Places
<1>3. n \in Nat /\ n >= 1 /\ n <= Len(rx) /\ Len(rx) \in Nat
  BY <1>1, <1>2, SerialDmmAssumption DEF Lesser, ReadLen
<1> HIDE DEF n
<1>4. a \in Seq(Bytes) /\ c \in Seq(Bytes) /\ a \o c = rx
  <2>1. 1 \in 1 .. Len(rx) + 1 /\ n \in 1 - 1 .. Len(rx) /\ Len(rx) \in n .. Len(rx)
    BY <1>3
  <2>2. SubSeq(rx, 1, n) \o SubSeq(rx, n + 1, Len(rx)) = SubSeq(rx, 1, Len(rx))
    BY <1>1, <2>1, ConcatAdjacentSubSeq
  <2>3. a \in Seq(Bytes) /\ c \in Seq(Bytes)
    BY <1>1, <1>3, SubFacts
  <2> QED BY <1>1, <2>2, <2>3, SubSeqFull
<1> HIDE DEF a, c
<1>5. Rest' = buf \o a
  <2>1. buf \o a \in Seq(Bytes)
    BY <1>1, <1>4, CatBytes
  <2>2. Rest' = SubSeq(buf', 0 + 1, Len(buf'))
    BY <1>2 DEF Rest
  <2>3. SubSeq(buf \o a, 1, Len(buf \o a)) = buf \o a
    BY <2>1, SubSeqFull
  <2> QED BY <1>2, <2>2, <2>3
<1>6. Held' \subseteq Held
  <2>1. On(buf \o a) = On(buf) \cup On(a)
    BY <1>1, <1>4, OnFacts
  <2>2. On(rx) = On(a) \cup On(c)
    BY <1>4, OnFacts
  <2>3. On(Rest)' = On(buf \o a) /\ On(rx)' = On(c) /\ On(tx)' = On(tx) /\ Rest = buf
    BY <1>1, <1>2, <1>5 DEF On
  <2> QED BY <2>1, <2>2, <2>3 DEF Held
<1>7. Alone' /\ Timing'
  BY <1>2, <1>6, Quieter DEF InUse
<1>8. Budget'
  BY <1>2 DEF Budget
<1>9. Counts'
  <2>1. samples_read < Limit /\ samples_read \in Nat /\ Limit \in Nat
    BY <1>2, Open DEF Counts
  <2>2. samples_read' <= Limit /\ samples_read' # Limit /\ pc' # "idle"
    BY <1>2, <2>1
  <2> QED BY <2>2 DEF Counts
<1> QED BY <1>7, <1>8, <1>9

LEMMA ProcessOne ==
  ASSUME DmmInv, Patient, Alone, Budget, Timing, Counts, Process, Ordered', DmmInv'
  PROVE  (Alone /\ Budget /\ Timing /\ Counts)'
<1> DEFINE i == Rest[1].id
<1>1. Rest \in Seq(Bytes) /\ buf \in Seq(Bytes) /\ check_pos \in 0 .. Len(buf) /\ Len(buf) \in Nat
      /\ Len(Rest) = Len(buf) - check_pos /\ dmm \in Meters
  BY Ways
<1>2. /\ pc = "check" /\ port = "open" /\ Verdict(Rest) = "valid" /\ handled' = i
      /\ check_pos' = check_pos + Rest[1].size /\ samples_read' = samples_read + 1
      /\ Request(WaitAfterPacket)
      /\ UNCHANGED <<dmm, port, buf, pc, acquiring, rx, tx>>
  BY PatientFacts DEF Process, DmmInv, Places
<1>3. Rest[1].size \in 1 .. Len(Rest)
  BY <1>1, <1>2, ValidFacts
<1>4. On(Rest') \subseteq On(Rest)
  <2> DEFINE n == check_pos + Rest[1].size
  <2>1. n \in 0 .. Len(buf) /\ check_pos <= n
    BY <1>1, <1>3
  <2>2. Rest' = SubSeq(buf, n + 1, Len(buf))
    BY <1>2 DEF Rest
  <2> HIDE DEF n
  <2>3. On(SubSeq(buf, n + 1, Len(buf))) \subseteq On(SubSeq(buf, check_pos + 1, Len(buf)))
    BY <1>1, <2>1, SuffixOn
  <2> QED BY <2>2, <2>3 DEF Rest
<1>5. Held' = On(Rest') \cup On(rx) \cup On(tx) /\ Held' \subseteq Held
  <2>1. On(Rest)' = On(Rest') /\ On(rx)' = On(rx) /\ On(tx)' = On(tx)
    BY <1>2 DEF On
  <2> QED BY <1>4, <2>1 DEF Held
<1>6. /\ i \in Nat \ {0} /\ Len(pending) = 0
      /\ \A k \in 1 .. Size(i) : Packet(i)[k] \in On(Rest)
      /\ \A j \in Nat \ {0} : Alive(j) => j = i
  <2>1. On(Rest) \subseteq Held
    BY DEF Held
  <2> QED BY <1>1, <1>2, <2>1, Handed
<1> HIDE DEF i
<1>7. ASSUME NEW b \in Held', First(b) PROVE b.id # i
  <2>0. Past(buf', check_pos', i) /\ Past(rx, 0, i) /\ Past(tx, 0, i)
    BY <1>2 DEF Ordered
  <2>1. rx \in Seq(Bytes) /\ tx \in Seq(Bytes) /\ buf' = buf
    BY <1>2, Ways
  <2>2. CASE b \in On(Rest')
    <3>1. check_pos' \in Nat /\ check_pos' \in 0 .. Len(buf)
      BY <1>1, <1>2, <1>3
    <3> DEFINE n == check_pos'
    <3>2. Rest' = SubSeq(buf, n + 1, Len(buf))
      BY <1>2 DEF Rest
    <3>3. n \in 0 .. Len(buf)
      BY <3>1
    <3> HIDE DEF n
    <3>4. Len(Rest') = Len(buf) - n /\ \A k \in 1 .. Len(buf) - n : Rest'[k] = buf[n + k]
      BY <1>1, <3>2, <3>3, SuffixFacts
    <3>5. PICK k \in 1 .. Len(Rest') : Rest'[k] = b
      BY <2>2 DEF On
    <3>6. n + k \in n + 1 .. Len(buf) /\ buf[n + k] = b /\ n + k \in 1 .. Len(buf)
      BY <1>1, <3>3, <3>4, <3>5
    <3>7. b.id > i
      BY <1>7, <2>0, <2>1, <3>6 DEF Past, n
    <3>8. b.id \in Nat
      BY <1>1, <3>6, ByteAt
    <3> QED BY <1>6, <3>7, <3>8
  <2>3. CASE b \in On(rx)
    <3>1. PICK k \in 1 .. Len(rx) : rx[k] = b
      BY <2>3 DEF On
    <3>2. k \in 0 + 1 .. Len(rx)
      OBVIOUS
    <3>3. b.id > i
      BY <1>7, <2>0, <3>1, <3>2 DEF Past
    <3>4. b.id \in Nat
      BY <2>1, <3>1, ByteAt
    <3> QED BY <1>6, <3>3, <3>4
  <2>4. CASE b \in On(tx)
    <3>1. PICK k \in 1 .. Len(tx) : tx[k] = b
      BY <2>4 DEF On
    <3>2. k \in 0 + 1 .. Len(tx)
      OBVIOUS
    <3>3. b.id > i
      BY <1>7, <2>0, <3>1, <3>2 DEF Past
    <3>4. b.id \in Nat
      BY <2>1, <3>1, ByteAt
    <3> QED BY <1>6, <3>3, <3>4
  <2> QED BY <1>5, <2>2, <2>3, <2>4
<1>8. None'
  BY <1>2, <1>5, <1>6, <1>7, Gone
<1>9. Alone' /\ Timing'
  <2>1. WaitAfterPacket \in Nat
    BY <1>1, MeterFacts, Open DEF WaitAfterPacket
  <2> QED BY <1>2, <1>6, <1>8, <2>1, RequestOne
<1>10. Budget'
  BY <1>2 DEF Budget
<1>11. Counts'
  <2>1. samples_read # Limit
    BY <1>2, <1>6 DEF Counts
  <2>2. samples_read \in Nat /\ Limit \in Nat /\ samples_read <= Limit
    BY Open DEF Counts
  <2>3. samples_read' <= Limit /\ pc' # "idle"
    BY <1>2, <2>1, <2>2
  <2>4. \A j \in Nat \ {0} : (\E k \in 1 .. Size(j) : Packet(j)[k] \notin On(Rest))'
    BY <1>8 DEF None, Alive, Held
  <2> QED BY <2>3, <2>4 DEF Counts
<1> QED BY <1>9, <1>10, <1>11

LEMMA LoopOne ==
  ASSUME DmmInv, Patient, Alone, Budget, Timing, Counts, Search \/ LoopEnds
  PROVE  (Alone /\ Budget /\ Timing /\ Counts)'
<1>1. Rest \in Seq(Bytes) /\ buf \in Seq(Bytes) /\ check_pos \in 0 .. Len(buf) /\ Len(buf) \in Nat
      /\ Len(Rest) = Len(buf) - check_pos
  BY Ways
<1>2. /\ pc = "check" /\ port = "open"
      /\ UNCHANGED <<dmm, port, wait, samples_read, rx, tx, pending, faults>>
  BY DEF Search, LoopEnds, line, DmmInv, Places
<1>3. On(Rest') \subseteq On(Rest)
  <2>1. CASE Search
    <3>1. Verdict(Rest) = "invalid" /\ check_pos' = check_pos + 1 /\ buf' = buf
      BY <2>1 DEF Search, NextPos
    <3>2. Len(Rest) >= 1
      BY <1>1, <3>1, VerdictLong
    <3> DEFINE n == check_pos + 1
    <3>3. n \in 0 .. Len(buf) /\ check_pos <= n
      BY <1>1, <3>2
    <3>4. Rest' = SubSeq(buf, n + 1, Len(buf))
      BY <3>1 DEF Rest
    <3> HIDE DEF n
    <3>5. On(SubSeq(buf, n + 1, Len(buf))) \subseteq On(SubSeq(buf, check_pos + 1, Len(buf)))
      BY <1>1, <3>3, SuffixOn
    <3> QED BY <3>4, <3>5 DEF Rest
  <2>2. CASE LoopEnds
    <3>1. buf' \in {<<>>, Rest} /\ check_pos' = 0
      BY <2>2 DEF LoopEnds, DropFull, MovedToFront
    <3>2. Rest' = SubSeq(buf', 0 + 1, Len(buf'))
      BY <3>1 DEF Rest
    <3>3. SubSeq(<<>>, 0 + 1, Len(<<>>)) = <<>> /\ SubSeq(Rest, 0 + 1, Len(Rest)) = Rest
      BY <1>1, SubSeqFull, Nothing
    <3>4. Rest' \in {<<>>, Rest}
      BY <3>1, <3>2, <3>3
    <3> QED BY <3>4, OnFacts, <1>1
  <2> QED BY <2>1, <2>2
<1>4. Held' \subseteq Held
  <2>1. On(Rest)' = On(Rest') /\ On(rx)' = On(rx) /\ On(tx)' = On(tx)
    BY <1>2 DEF On
  <2> QED BY <1>3, <2>1 DEF Held
<1>5. Alone' /\ Timing'
  BY <1>2, <1>4, Quieter DEF InUse
<1>6. Budget'
  BY <1>2 DEF Budget
<1>7. Counts'
  <2>1. CASE Search
    <3>1. pc' = "check" /\ dmm' = dmm /\ samples_read' = samples_read
      BY <2>1 DEF Search
    <3>2. \A j : Size(j)' = Size(j) /\ Packet(j)' = Packet(j)
      BY <3>1 DEF Size, Packet
    <3>3. ASSUME samples_read = Limit, NEW j \in Nat \ {0}
          PROVE  (\E k \in 1 .. Size(j) : Packet(j)[k] \notin On(Rest))'
      <4>1. PICK k \in 1 .. Size(j) : Packet(j)[k] \notin On(Rest)
        BY <1>2, <3>3 DEF Counts
      <4>2. Packet(j)'[k] \notin On(Rest)' /\ k \in 1 .. Size(j)'
        BY <1>3, <3>2, <4>1 DEF On
      <4> QED BY <4>2
    <3> QED BY <3>1, <3>3 DEF Counts
  <2>2. CASE LoopEnds
    <3>1. pc' = "idle" /\ acquiring' = (samples_read < Limit) /\ samples_read' = samples_read
      BY <2>2 DEF LoopEnds
    <3> QED BY <3>1 DEF Counts
  <2> QED BY <2>1, <2>2
<1> QED BY <1>5, <1>6, <1>7

LEMMA OneInit == Init => OneInv
<1> SUFFICES ASSUME Init, Patient PROVE Alone /\ Budget /\ Timing /\ Counts
  BY DEF OneInv
<1>1. /\ port = "none" /\ buf = <<>> /\ rx = <<>> /\ tx = <<>> /\ pending = <<>> /\ pc = "idle" /\ ~acquiring
      /\ samples_read = 0 /\ Len(pending) = 0 /\ DmmInv
  BY DmmInit DEF Init
<1>2. None
  <2>1. On(buf) = {} /\ On(rx) = {} /\ On(tx) = {}
    BY <1>1 DEF On
  <2>2. Held = {}
    BY <1>1, <2>1, RestOn DEF Held
  <2> QED BY <1>1, <2>2, Ways, NotAlive DEF None
<1>3. Alone
  BY <1>1, <1>2 DEF Alone, None
<1>4. Counts
  BY <1>1, SerialDmmAssumption DEF Counts
<1> QED BY <1>1, <1>3, <1>4 DEF Budget, Timing, InUse

LEMMA OneStep ==
  ASSUME Quiet
  PROVE  DmmFacts /\ DmmFacts' /\ OneInv /\ [Next]_vars => OneInv'
<1> SUFFICES ASSUME DmmFacts, DmmFacts', OneInv, [Next]_vars, Patient' PROVE (Alone /\ Budget /\ Timing /\ Counts)'
  BY DEF OneInv
<1>1. dmm' = dmm
  BY DEF Next, Host, Reply, Stream, Transmit, LoseByte, LoseRequest, Tick, Noise, Scan, DetectTimeout,
         DevOpen, DevClose, AcquisitionStart, AcquisitionStop, DetectByte, Receive, Search, Process, LoopEnds,
         Poll, vars
<1>2. Patient
  BY <1>1 DEF Patient
<1>3. Alone /\ Budget /\ Timing /\ Counts
  BY <1>2 DEF OneInv
<1>4. DmmInv /\ Settled /\ Ordered' /\ DmmInv'
  BY DEF DmmFacts
<1>5. CASE UNCHANGED vars
  <2>1. UNCHANGED <<dmm, port, buf, check_pos, pc, wait, acquiring, samples_read, rx, tx, pending, faults>>
    BY <1>5 DEF vars, line
  <2>2. Held' = Held
    BY <2>1, SameHeld
  <2>3. Alone' /\ Timing'
    BY <1>3, <1>4, <2>1, <2>2, Quieter DEF InUse
  <2>4. Budget'
    BY <1>3, <2>1 DEF Budget
  <2> QED BY <1>3, <2>1, <2>3, <2>4, CountsSame
<1>6. CASE Next
  BY <1>2, <1>3, <1>4, <1>6, LineOne, PortOne, DetectOne, ReceiveOne, ProcessOne, LoopOne DEF Next, Host
<1> QED BY <1>5, <1>6

\* A packet that comes is alive.
LEMMA OneIsEnough == DmmFacts /\ OneInv => OneRequest
<1> SUFFICES ASSUME DmmFacts, OneInv, Patient PROVE Len(pending) + Cardinality(coming) <= 1 /\ samples_read <= Limit
  BY DEF OneRequest
<1>0. DmmInv /\ AllWhole /\ Alone /\ Counts
  BY DEF DmmFacts, OneInv
<1>1. ASSUME NEW id \in coming PROVE id \in Nat \ {0} /\ Alive(id)
  <2>1. /\ Rest \in Seq(Bytes) /\ rx \in Seq(Bytes) /\ tx \in Seq(Bytes) /\ Rest \o rx \in Seq(Bytes)
        /\ UnderWay = (Rest \o rx) \o tx /\ id \in Nat \ {0}
    BY <1>0, Ways
  <2>2. On(UnderWay) = Held
    <3>1. On(Rest \o rx) = On(Rest) \cup On(rx)
      BY <2>1, OnFacts
    <3>2. On((Rest \o rx) \o tx) = On(Rest \o rx) \cup On(tx)
      BY <2>1, OnFacts
    <3> QED BY <2>1, <3>1, <3>2 DEF Held
  <2>3. PICK p \in Nat : p + Size(id) <= Len(UnderWay) /\ \A k \in 1 .. Size(id) : UnderWay[p + k] = Packet(id)[k]
    BY <1>0 DEF AllWhole, Whole
  <2>4. Size(id) \in Nat /\ Len(UnderWay) \in Nat
    <3>1. UnderWay \in Seq(Bytes) /\ dmm \in Meters
      BY <1>0, Ways
    <3>2. Len(UnderWay) \in Nat
      BY <3>1
    <3> QED BY <2>1, <3>1, <3>2, WholeBytes
  <2>5. \A k \in 1 .. Size(id) : p + k \in 1 .. Len(UnderWay)
    BY <2>3, <2>4
  <2>6. \A k \in 1 .. Size(id) : Packet(id)[k] \in On(UnderWay)
    BY <2>3, <2>5 DEF On
  <2> QED BY <2>1, <2>2, <2>6 DEF Alive
<1>2. CASE coming = {}
  <2>1. Cardinality(coming) = 0 /\ Len(pending) \in Nat /\ Len(pending) <= 1
    BY <1>0, <1>2, FS_EmptySet, Open DEF Alone
  <2> QED BY <1>0, <2>1 DEF Counts
<1>3. CASE coming # {}
  <2>1. PICK id : id \in coming
    BY <1>3
  <2>2. coming = {id}
    BY <1>0, <1>1, <2>1 DEF Alone
  <2>3. Cardinality(coming) = 1
    BY <2>2, FS_Singleton
  <2>4. Len(pending) # 1 /\ Len(pending) \in Nat /\ Len(pending) <= 1
    BY <1>0, <1>1, <2>1, Open DEF Alone, None
  <2>5. Len(pending) = 0
    <3>1. \A m \in Nat : m # 1 /\ m <= 1 => m = 0
      OBVIOUS
    <3> QED BY <2>4, <3>1, Zenon
  <2> QED BY <1>0, <2>3, <2>5 DEF Counts
<1> QED BY <1>2, <1>3

\* A meter that answers in time is not asked again before its answer has been handled
\* or lost, and no sample comes past the limit, for all sizes, limits and latencies, as
\* long as noise cannot fill the buffer of a scan: serial_stream_detect() gives up on a
\* full buffer even if the answer to the request is still to come, and the next scan
\* asks again.
THEOREM OneRequestAtATime ==
  ASSUME Quiet PROVE Spec => []OneRequest
<1>1. Init => DmmFacts
  BY DmmInit, OrderedInit, WholeInit DEF DmmFacts
<1>2. DmmFacts /\ [Next]_vars => DmmFacts'
  BY DmmStep, OrderedStep, WholeStep DEF DmmFacts
<1>3. DmmFacts /\ DmmFacts' /\ OneInv /\ [Next]_vars => OneInv'
  BY OneStep
<1> QED BY <1>1, <1>2, <1>3, OneInit, OneIsEnough, PTL DEF Spec
=============================================================================
