------------------------------ MODULE SerialDmm ------------------------------
(***************************************************************************)
(* A multimeter on a serial line (hardware/serial-dmm, with serial.c and the *)
(* serial callbacks of std.c): the search for a packet during a scan, and an *)
(* acquisition that finds packets in the bytes as they arrive, asks for the  *)
(* next one and asks again when the answer does not come in time.            *)
(*                                                                         *)
(* The meter and the line are the environment: packets are sent byte by byte, *)
(* requests and bytes get lost, noise comes in between, and what arrives     *)
(* while the port is closed is gone.  A byte carries the packet it belongs to, *)
(* its place in it and the packet's size, which the first byte tells a meter *)
(* with packets of variable length; the validity checks of the meters (dmm/) *)
(* are taken to accept the meter's own packets and nothing else.             *)
(*                                                                         *)
(* Time is counted in ticks, and req_next_at is kept as the time until then. *)
(*                                                                         *)
(* A definition named Mut_... is the next definition with a mistake in it;  *)
(* the specification does not use it.                                      *)
(***************************************************************************)
EXTENDS Integers, Sequences, FiniteSets

CONSTANTS
  Meters,       \* struct dmm_info: [request, variable : BOOLEAN, timeout, delay : Nat]
  PacketSize,   \* dmm->packet_size
  BufSize,      \* DMM_BUFSIZE
  ScanSize,     \* size of the buffer of scan()
  Limit,        \* limit of samples
  Latency,      \* ticks within which the meter answers
  MaxPackets, MaxFaults, MaxRuns   \* bounds

ASSUME SerialDmmAssumption ==
  /\ Meters \subseteq [request : BOOLEAN, variable : BOOLEAN, timeout : Nat, delay : Nat]
  /\ PacketSize \in Nat \ {0} /\ BufSize \in Nat /\ ScanSize \in Nat
  /\ PacketSize <= BufSize /\ 2 * PacketSize <= ScanSize
  /\ Limit \in Nat \ {0} /\ Latency \in Nat
  /\ MaxPackets \in Nat /\ MaxFaults \in Nat /\ MaxRuns \in Nat

VARIABLES
  dmm,           \* the meter
  port,          \* "none" before a scan, "scan", "closed", "open", or "leaked"
  buf,           \* devc->buf up to buflen; during the scan, the buffer of scan()
  check_pos,     \* position of the search in buf
  pc,            \* "idle", or "check" in the loop of handle_new_data()
  wait,          \* ticks until req_next_at
  acquiring,     \* the event source is installed
  samples_read,  \* limits.samples_read
  runs,          \* acquisitions so far
  rx,            \* bytes that the port has received
  tx,            \* bytes that the meter is sending
  pending,       \* ages of the requests the meter has not answered
  ids,           \* packets sent by the meter
  coming,        \* packets sent in full and not handled, lost or damaged
  handled,       \* the last packet handled
  faults

line == <<rx, tx, pending, ids, coming, faults>>
vars == <<dmm, port, buf, check_pos, pc, wait, acquiring, samples_read, runs, handled, line>>

Size(id) == IF dmm.variable THEN PacketSize + (id % 2) ELSE PacketSize
Packet(id) == [k \in 1 .. Size(id) |-> [id |-> id, pos |-> k, size |-> Size(id)]]

\* Noise that looks like nothing, and like the start of a packet that never ends.
NoiseBytes == {[id |-> 0, pos |-> 0, size |-> 0], [id |-> 0, pos |-> 1, size |-> BufSize + 1]}
IdsIn(s) == {s[k].id : k \in 1 .. Len(s)}

TypeOK ==
  /\ dmm \in Meters /\ port \in {"none", "scan", "closed", "open", "leaked"}
  /\ pc \in {"idle", "check"} /\ acquiring \in BOOLEAN
  /\ Len(buf) <= (IF port = "scan" THEN ScanSize ELSE BufSize) /\ check_pos \in 0 .. Len(buf)
  /\ wait \in Nat /\ samples_read \in Nat /\ runs \in 0 .. MaxRuns
  /\ ids \in 0 .. MaxPackets /\ coming \subseteq 1 .. ids /\ handled \in 0 .. ids
  /\ \A k \in 1 .. Len(pending) : pending[k] \in 0 .. Latency
  /\ faults \in 0 .. MaxFaults

Init ==
  /\ dmm \in Meters /\ port = "none" /\ buf = <<>> /\ check_pos = 0 /\ pc = "idle"
  /\ wait = 0 /\ acquiring = FALSE /\ samples_read = 0 /\ runs = 0
  /\ rx = <<>> /\ tx = <<>> /\ pending = <<>> /\ ids = 0 /\ coming = {} /\ handled = 0
  /\ faults = 0

Fault == faults < MaxFaults /\ faults' = faults + 1

-----------------------------------------------------------------------------
(* The meter and the line.                                                 *)

Emit ==
  /\ ids < MaxPackets
  /\ ids' = ids + 1 /\ tx' = tx \o Packet(ids + 1) /\ coming' = coming \cup {ids + 1}

Reply ==
  /\ pending # <<>> /\ Emit /\ pending' = Tail(pending)
  /\ UNCHANGED <<dmm, port, buf, check_pos, pc, wait, acquiring, samples_read, runs,
                 handled, rx, faults>>

Stream ==
  /\ ~dmm.request /\ tx = <<>> /\ Emit
  /\ UNCHANGED <<dmm, port, buf, check_pos, pc, wait, acquiring, samples_read, runs,
                 handled, rx, pending, faults>>

\* The next byte reaches the port, if it is open.
Listening == port \in {"scan", "open"}

Transmit ==
  /\ tx # <<>> /\ tx' = Tail(tx)
  /\ IF Listening THEN rx' = Append(rx, Head(tx)) /\ coming' = coming
                  ELSE rx' = rx /\ coming' = coming \ {Head(tx).id}
  /\ UNCHANGED <<dmm, port, buf, check_pos, pc, wait, acquiring, samples_read, runs,
                 handled, pending, ids, faults>>

LoseByte ==
  /\ Fault /\ Listening /\ tx # <<>> /\ tx' = Tail(tx) /\ coming' = coming \ {Head(tx).id}
  /\ UNCHANGED <<dmm, port, buf, check_pos, pc, wait, acquiring, samples_read, runs,
                 handled, rx, pending, ids>>

Noise(b) ==
  /\ Fault /\ Listening /\ rx' = Append(rx, b)
  /\ coming' = IF tx # <<>> /\ Head(tx).pos > 1 THEN coming \ {Head(tx).id} ELSE coming
  /\ UNCHANGED <<dmm, port, buf, check_pos, pc, wait, acquiring, samples_read, runs,
                 handled, tx, pending, ids>>

LoseRequest ==
  /\ Fault /\ pending # <<>> /\ pending' = Tail(pending)
  /\ UNCHANGED <<dmm, port, buf, check_pos, pc, wait, acquiring, samples_read, runs,
                 handled, rx, tx, ids, coming>>

\* The meter answers within Latency, and a packet takes less than a tick.
Tick ==
  /\ tx = <<>> /\ (wait > 0 \/ pending # <<>>)
  /\ \A k \in 1 .. Len(pending) : pending[k] < Latency
  /\ wait' = (IF wait > 0 THEN wait - 1 ELSE 0)
  /\ pending' = [k \in 1 .. Len(pending) |-> pending[k] + 1]
  /\ UNCHANGED <<dmm, port, buf, check_pos, pc, acquiring, samples_read, runs, handled,
                 rx, tx, ids, coming, faults>>

-----------------------------------------------------------------------------
(* Validity: packet_valid() and packet_valid_len().                         *)

IsPacket(s) == Len(s) > 0 /\ s[1].id # 0 /\ s = Packet(s[1].id)
Rest == SubSeq(buf, check_pos + 1, Len(buf))

Verdict(s) ==
  LET size == IF dmm.variable THEN s[1].size ELSE PacketSize
  IN  IF Len(s) < PacketSize THEN "short"
      ELSE IF s[1].pos # 1 THEN "invalid"
      ELSE IF Len(s) < size THEN "need_rx"
      ELSE IF size > 0 /\ IsPacket(SubSeq(s, 1, size)) THEN "valid" ELSE "invalid"

-----------------------------------------------------------------------------
(* scan() and serial_stream_detect().                                       *)

\* The port is opened and a packet requested.  A scan that cannot do so returns with
\* the port open.
Scan ==
  /\ port = "none"
  /\ \/ /\ port' = "scan" /\ faults' = faults
        /\ pending' = IF dmm.request THEN Append(pending, 0) ELSE pending
     \/ dmm.request /\ Fault /\ port' = "leaked" /\ pending' = pending
  /\ UNCHANGED <<dmm, buf, check_pos, pc, wait, acquiring, samples_read, runs, handled,
                 rx, tx, ids, coming>>

\* The scan is over and the port is closed: its bytes are gone.
ScanEnds(to, found) ==
  /\ port' = to /\ buf' = <<>> /\ check_pos' = 0 /\ rx' = <<>>
  /\ coming' = coming \ (IdsIn(rx) \cup IdsIn(buf) \cup found)

\* One turn of the loop, with or without a byte.
DetectByte ==
  /\ port = "scan"
  /\ LET b == IF rx # <<>> THEN Append(buf, Head(rx)) ELSE buf
         s == SubSeq(b, check_pos + 1, Len(b))
         verdict == Verdict(s)
     IN  CASE verdict = "valid" -> ScanEnds("closed", {s[1].id})
           [] verdict # "valid" /\ Len(b) = ScanSize -> ScanEnds("none", {})
           [] OTHER -> /\ buf' = b
                       /\ check_pos' = IF verdict = "invalid" THEN check_pos + 1 ELSE check_pos
                       /\ rx' = IF rx # <<>> THEN Tail(rx) ELSE rx
                       /\ UNCHANGED <<port, coming>>
  /\ UNCHANGED <<dmm, pc, wait, acquiring, samples_read, runs, handled, tx, pending, ids,
                 faults>>

\* After three seconds: an answer would have come by then.
DetectTimeout ==
  /\ port = "scan" /\ rx = <<>> /\ (dmm.request => pending = <<>> /\ tx = <<>>)
  /\ ScanEnds("none", {})
  /\ UNCHANGED <<dmm, pc, wait, acquiring, samples_read, runs, handled, tx, pending, ids,
                 faults>>

-----------------------------------------------------------------------------
(* std_serial_dev_open() and std_serial_dev_close(), dev_acquisition_start() *)
(* and std_serial_dev_acquisition_stop().                                   *)

DevOpen ==
  /\ port = "closed" /\ port' = "open" /\ rx' = <<>>
  /\ UNCHANGED <<dmm, buf, check_pos, pc, wait, acquiring, samples_read, runs, handled,
                 tx, pending, ids, coming, faults>>

DevClose ==
  /\ port = "open" /\ ~acquiring /\ port' = "closed"
  /\ rx' = <<>> /\ coming' = coming \ IdsIn(rx)
  /\ UNCHANGED <<dmm, buf, check_pos, pc, wait, acquiring, samples_read, runs, handled,
                 tx, pending, ids, faults>>

AcquisitionStart ==
  /\ port = "open" /\ ~acquiring /\ runs < MaxRuns
  /\ acquiring' = TRUE /\ samples_read' = 0 /\ runs' = runs + 1
  /\ UNCHANGED <<dmm, port, buf, check_pos, pc, wait, handled, line>>

AcquisitionStop ==
  /\ acquiring /\ pc = "idle" /\ acquiring' = FALSE
  /\ UNCHANGED <<dmm, port, buf, check_pos, pc, wait, samples_read, runs, handled, line>>

-----------------------------------------------------------------------------
(* req_packet(): nothing before req_next_at.                                *)

Mut_NoTimeout(w) == w
WaitAfterRequest(w) == IF dmm.timeout # 0 THEN dmm.timeout ELSE w

\* With w ticks to req_next_at.  A request may fail to be written.
Request(w) ==
  IF w > 0 THEN wait' = w /\ UNCHANGED <<pending, faults>>
  ELSE \/ pending' = Append(pending, 0) /\ wait' = WaitAfterRequest(w) /\ UNCHANGED faults
       \/ Fault /\ wait' = w /\ UNCHANGED pending

-----------------------------------------------------------------------------
(* receive_data() and handle_new_data().                                    *)

Lesser(m, n) == IF m < n THEN m ELSE n

ReadLen == BufSize - Len(buf)

\* Bytes have arrived: as many as there is room for are read.
Receive ==
  /\ acquiring /\ pc = "idle" /\ rx # <<>>
  /\ LET n == Lesser(Len(rx), ReadLen)
     IN  /\ n > 0
         /\ buf' = buf \o SubSeq(rx, 1, n) /\ rx' = SubSeq(rx, n + 1, Len(rx))
  /\ pc' = "check" /\ check_pos' = 0
  /\ UNCHANGED <<dmm, port, wait, acquiring, samples_read, runs, handled, tx, pending, ids,
                 coming, faults>>

Mut_SkipPacket(p) == Lesser(p + PacketSize, Len(buf))
NextPos(p) == p + 1

Search ==
  /\ pc = "check" /\ Verdict(Rest) = "invalid" /\ check_pos' = NextPos(check_pos)
  /\ UNCHANGED <<dmm, port, buf, pc, wait, acquiring, samples_read, runs, handled, line>>

\* handle_packet(), and the next request after the delay.
WaitAfterPacket == IF dmm.timeout # 0 \/ dmm.delay # 0 THEN dmm.delay ELSE wait

Process ==
  /\ pc = "check" /\ Verdict(Rest) = "valid"
  /\ handled' = Rest[1].id /\ coming' = coming \ {Rest[1].id}
  /\ check_pos' = check_pos + Rest[1].size /\ samples_read' = samples_read + 1
  /\ IF dmm.request THEN Request(WaitAfterPacket) ELSE UNCHANGED <<wait, pending, faults>>
  /\ UNCHANGED <<dmm, port, buf, pc, acquiring, runs, rx, tx, ids>>

\* The loop ends, the rest moves to the front, and a full buffer is dropped.
Mut_KeepFull(b) == b
DropFull(b) == IF Len(b) = BufSize THEN <<>> ELSE b

Mut_NotMoved == SubSeq(buf, 1, Len(buf) - check_pos)
MovedToFront == Rest

LoopEnds ==
  /\ pc = "check" /\ Verdict(Rest) \in {"short", "need_rx"}
  /\ buf' = DropFull(MovedToFront) /\ check_pos' = 0 /\ pc' = "idle"
  /\ coming' = IF DropFull(Rest) = Rest THEN coming ELSE coming \ IdsIn(Rest)
  /\ acquiring' = (samples_read < Limit)
  /\ UNCHANGED <<dmm, port, wait, samples_read, runs, handled, rx, tx, pending, ids, faults>>

\* Nothing has arrived for a while.  A request that fails ends the acquisition.
Mut_Due == FALSE
Due == wait = 0

Poll ==
  /\ acquiring /\ pc = "idle" /\ rx = <<>> /\ dmm.request /\ Due
  /\ Request(0)
  /\ acquiring' = (faults' = faults)
  /\ UNCHANGED <<dmm, port, buf, check_pos, pc, samples_read, runs, handled, rx, tx, ids,
                 coming>>

-----------------------------------------------------------------------------
Host == DetectByte \/ Receive \/ Search \/ Process \/ LoopEnds \/ Poll

Next ==
  \/ Scan \/ DetectTimeout \/ DevOpen \/ DevClose \/ AcquisitionStart \/ AcquisitionStop
  \/ Host
  \/ Reply \/ Stream \/ Transmit \/ LoseByte \/ LoseRequest \/ Tick
  \/ \E b \in NoiseBytes : Noise(b)

Spec == Init /\ [][Next]_vars

\* The session's loop dispatches, time passes, and the meter answers or keeps sending.
FairSpec ==
  /\ Spec
  /\ WF_vars(Host) /\ WF_vars(Tick) /\ WF_vars(Reply) /\ WF_vars(Stream) /\ WF_vars(Transmit)

-----------------------------------------------------------------------------
(* Properties.                                                             *)

\* No packet is overlooked, wherever the reads and the noise cut the stream: when
\* handle_new_data() has returned, an intact packet that has not been handled is
\* still to be read to the end, or held up in the buffer by what looks like the
\* start of a longer one.  The same holds in a scan, for packets of fixed size; with
\* the others the search may be behind.
LastIn(s, id) == \E k \in 1 .. Len(s) : s[k] = Packet(id)[Size(id)]
NothingMissed ==
  pc = "idle" /\ ~(port = "scan" /\ dmm.variable) =>
    \A id \in coming :
      \/ LastIn(rx \o tx, id)
      \/ dmm.variable /\ Verdict(buf) = "need_rx" /\ LastIn(buf, id)

\* Packets are handled in their order, and none twice.
InOrder == [][samples_read' > samples_read => handled' > handled]_vars

\* A read always has room: a buffer that is full with nothing recognised would
\* never be read into again.
RoomToRead == port = "open" /\ pc = "idle" => Len(buf) < BufSize

\* A meter that answers in time is never asked again before it has answered, so
\* that its answers do not pile up, and delivers no sample past the limit.
Patient == dmm.request /\ ~dmm.variable /\ dmm.timeout > Latency
OneRequest ==
  Patient => Len(pending) + Cardinality(coming) <= 1 /\ samples_read <= Limit

\* Whatever gets lost, an acquisition with a limit ends: a request that is not
\* answered is repeated.
AcquisitionEnds == acquiring ~> (~acquiring \/ ids = MaxPackets)
=============================================================================
