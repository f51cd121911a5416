---------------------------- MODULE VirtualSession ---------------------------
(***************************************************************************)
(* The driver that replays a session file (session_driver.c): the capture   *)
(* files of an archive, in either of its two formats, go out as packets, one *)
(* read per dispatch of a freewheeling event source.                        *)
(*                                                                         *)
(* An archive maps entries <<base, n>> to their sizes.  In the upstream      *)
(* format the base is "logic" or an analog channel, n the number of a chunk, *)
(* or 0 if the file is not cut into chunks; in the format of PXView the base *)
(* is <<"L", channel>>, <<"A", 0>> or <<"O", c>>, with the place c of a channel *)
(* among the enabled DSO channels, and n a block.                           *)
(* Sizes are bytes of the upstream format and of a channel's bitmap in       *)
(* PXView's, whose analog blocks count as a whole.                           *)
(*                                                                         *)
(* A definition named Mut_... is the next definition with a mistake in it;  *)
(* the specification does not use it.                                      *)
(***************************************************************************)
EXTENDS Integers, Sequences, SequencesExt

CONSTANTS
  Files,       \* session files, as set up by sr_session_load()
  CHUNKSIZE,   \* bytes per read: 4 MiB in the code
  Float,       \* bytes of an analog sample: 4 in the code
  Byte,        \* bits in a byte: 8 in the code
  IoFails,     \* opening and reading entries may fail
  MaxNumber,   \* bound: numbers of chunks and blocks
  MaxRuns,     \* bound: replays
  MaxDso       \* bound: how often DSO data are counted

NULL == <<"none", 0>>

ASSUME VirtualSessionAssumption ==
  /\ {CHUNKSIZE, Float, Byte} \subseteq Nat \ {0} /\ IoFails \in BOOLEAN
  /\ {MaxNumber, MaxRuns, MaxDso} \subseteq Nat
  /\ \A f \in Files :
       /\ DOMAIN f = {"entry", "enabled", "analog", "atype", "unitsize"}
       /\ \A e \in DOMAIN f.entry :
            e[1] # NULL /\ e[2] \in 0 .. MaxNumber /\ f.entry[e] \in Nat
       /\ f.enabled \in Seq(Nat) /\ f.analog \in Nat /\ f.unitsize \in Nat
       /\ f.atype \in {"analog", "dso"}

VARIABLES
  file,                 \* the archive and the device: its channels and unit size
  capturefile, capfile, \* base name, and the entry that is open
  pos,                  \* bytes read of it
  archive,              \* the archive is open
  cur_chunk, cur_analog_channel, finished,
  pxv_format, pxv_phase, pxv_cur_block, pxv_cur_analog_block,
  running,              \* receive_data() is a source of the session
  sent,                 \* logic and analog data sent in this replay
  dso_sent,             \* how often the DSO data were sent in it, up to MaxDso
  cut,                  \* a replay was cut short among its analog channels
  stopped,              \* this replay was stopped
  lossy,                \* the archive or an entry could not be read in this replay, or was ignored
  overrun,              \* a packet was put together outside of a buffer
  runs

reader == <<capturefile, capfile, pos, cur_chunk, cur_analog_channel>>
pxv == <<pxv_phase, pxv_cur_block, pxv_cur_analog_block>>
history == <<dso_sent, cut, stopped, lossy, overrun>>
vars == <<file, reader, archive, finished, pxv_format, pxv, running, sent, history, runs>>

NoEntry == <<NULL, 0>>
Logic == <<"logic", 0>>
AnalogBase(i) == <<"analog", i>>
Has(e) == e \in DOMAIN file.entry
Size(e) == file.entry[e]

\* The base name sr_session_load() has set: none for purely analog files.
FirstCapture(f) == IF f.enabled # <<>> THEN Logic ELSE NULL

Init ==
  /\ file \in Files
  /\ capturefile = FirstCapture(file) /\ capfile = NoEntry /\ pos = 0 /\ archive = FALSE
  /\ cur_chunk = 0 /\ cur_analog_channel = 0 /\ finished = FALSE
  /\ pxv_format = FALSE /\ pxv_phase = 0 /\ pxv_cur_block = 0 /\ pxv_cur_analog_block = 0
  /\ running = FALSE /\ sent = <<>> /\ dso_sent = 0 /\ cut = FALSE /\ overrun = FALSE
  /\ stopped = FALSE /\ lossy = FALSE /\ runs = 0

-----------------------------------------------------------------------------
(* Starting and stopping.                                                  *)

\* Chunks of the first enabled logic channel, of the analog channels, or of the
\* first DSO channel.
DsoEntry(c) == <<<<"O", c>>, 0>>
IsPxv(f) ==
  \/ f.enabled # <<>> /\ <<<<"L", Head(f.enabled)>>, 0>> \in DOMAIN f.entry
  \/ <<<<"A", 0>>, 0>> \in DOMAIN f.entry
  \/ f.atype = "dso" /\ f.analog > 0 /\ DsoEntry(0) \in DOMAIN f.entry

\* The fields dev_acquisition_start() resets before it opens the archive.  The
\* base name is not among them.
Start(ok) ==
  /\ ~running /\ runs < MaxRuns
  /\ cur_analog_channel' = 0 /\ cur_chunk' = 0 /\ finished' = FALSE /\ runs' = runs + 1
  /\ archive' = ok /\ running' = ok
  /\ IF ok
     THEN /\ pxv_format' = IsPxv(file)
          /\ pxv_phase' = 0 /\ pxv_cur_block' = 0 /\ pxv_cur_analog_block' = 0
     ELSE UNCHANGED <<pxv_format, pxv>>
  /\ sent' = <<>> /\ dso_sent' = 0 /\ stopped' = FALSE /\ lossy' = ~ok
  /\ UNCHANGED <<file, capturefile, capfile, pos, cut, overrun>>

\* dev_acquisition_stop()
Stop ==
  /\ running /\ ~finished
  /\ finished' = TRUE /\ stopped' = TRUE
  /\ UNCHANGED <<file, reader, archive, pxv_format, pxv, running, sent, dso_sent, cut, lossy,
                 overrun, runs>>

\* The end of receive_data(), when stream_session_data() has no more data or the
\* replay was stopped: the files are closed, SR_DF_END is sent, the source goes.
CloseCapfile == capfile' = NoEntry /\ pos' = 0

End ==
  /\ finished' = TRUE /\ archive' = FALSE /\ running' = FALSE
  /\ CloseCapfile
  /\ UNCHANGED <<file, pxv_format, sent, dso_sent, stopped, overrun, runs>>

Finish ==
  /\ running /\ finished
  /\ End
  /\ cut' = (cut \/ cur_analog_channel # 0)
  /\ UNCHANGED <<capturefile, cur_chunk, cur_analog_channel, pxv, lossy>>

-----------------------------------------------------------------------------
(* The upstream format: stream_session_data().                             *)

Plain == running /\ ~finished /\ ~pxv_format

\* The entry to open next: the unchunked file or the first chunk at the start of
\* a base name, and the next chunk later on.
AtStart == capturefile # NULL /\ cur_chunk = 0
NextChunk ==
  IF ~AtStart THEN cur_chunk + 1 ELSE IF Has(<<capturefile, 0>>) THEN 0 ELSE 1

Opening == capfile = NoEntry /\ Has(<<capturefile, NextChunk>>)
Current == IF capfile # NoEntry THEN capfile ELSE <<capturefile, NextChunk>>
Chunk == IF capfile # NoEntry THEN cur_chunk ELSE NextChunk

\* A read ends at a boundary of logic samples, whatever is read.
ReadSize(f) ==
  IF f.unitsize # 0 THEN (CHUNKSIZE \div f.unitsize) * f.unitsize ELSE CHUNKSIZE
Got == IF Size(Current) - pos < ReadSize(file) THEN Size(Current) - pos ELSE ReadSize(file)

\* The bytes of a packet: those of the last whole sample of an analog channel are
\* dropped if it is not complete.
Bytes(e, ch, from, n) == [k \in 1 .. n |-> <<ch, e, from + k>>]
Payload ==
  IF cur_analog_channel # 0
  THEN Bytes(Current, cur_analog_channel, pos, (Got \div Float) * Float)
  ELSE Bytes(Current, 0, pos, Got)

Read ==
  /\ Plain /\ (capfile # NoEntry \/ Opening)
  /\ Got > 0 /\ (cur_analog_channel # 0 \/ file.unitsize # 0)
  /\ capfile' = Current /\ cur_chunk' = Chunk /\ pos' = pos + Got
  /\ sent' = sent \o Payload
  /\ UNCHANGED <<file, capturefile, cur_analog_channel, archive, finished, pxv_format, pxv,
                 running, history, runs>>

\* Neither an analog channel nor logic data with a unit size: ignored, and the replay
\* ends.
ReadIgnored ==
  /\ Plain /\ (capfile # NoEntry \/ Opening)
  /\ Got > 0 /\ cur_analog_channel = 0 /\ file.unitsize = 0
  /\ cur_chunk' = Chunk /\ lossy' = TRUE
  /\ End
  /\ UNCHANGED <<capturefile, cur_analog_channel, pxv, cut>>

\* The entry is exhausted, or cannot be read any further.  A file that is cut into
\* chunks goes on; one that is not was all there is.
ReadEnd(failed) ==
  /\ Plain /\ (capfile # NoEntry \/ Opening)
  /\ IF failed THEN IoFails ELSE Got = 0
  /\ cur_chunk' = Chunk
  /\ lossy' = (lossy \/ failed)
  /\ IF Chunk # 0
     THEN CloseCapfile /\ UNCHANGED <<file, archive, finished, pxv_format, running, sent, dso_sent,
                                      cut, stopped, overrun, runs>>
     ELSE End /\ cut' = (cut \/ cur_analog_channel # 0)
  /\ UNCHANGED <<capturefile, cur_analog_channel, pxv>>

\* zip_fopen() fails, or there is no capture file of this name at all.
OpenFails ==
  /\ Plain /\ capfile = NoEntry
  /\ \/ Opening /\ IoFails /\ cur_chunk' = NextChunk /\ lossy' = TRUE
     \/ ~Opening /\ AtStart /\ UNCHANGED <<cur_chunk, lossy>>
  /\ End
  /\ cut' = (cut \/ cur_analog_channel # 0)
  /\ UNCHANGED <<capturefile, cur_analog_channel, pxv>>

\* All chunks of this base name are done: the next analog channel, or the end.
AnalogToCome == cur_analog_channel < file.analog

NextAnalog ==
  /\ Plain /\ capfile = NoEntry /\ ~Opening /\ ~AtStart
  /\ AnalogToCome
  /\ cur_analog_channel' = cur_analog_channel + 1
  /\ capturefile' = AnalogBase(cur_analog_channel + 1) /\ cur_chunk' = 0
  /\ UNCHANGED <<file, capfile, pos, archive, finished, pxv_format, pxv, running, sent,
                 history, runs>>

Mut_LastCapture == capturefile
CaptureAtEnd == FirstCapture(file)

AllChunks ==
  /\ Plain /\ capfile = NoEntry /\ ~Opening /\ ~AtStart
  /\ ~AnalogToCome
  /\ cur_chunk' = cur_chunk + 1 /\ capturefile' = CaptureAtEnd
  /\ End
  /\ UNCHANGED <<cur_analog_channel, pxv, cut, lossy>>

-----------------------------------------------------------------------------
(* The format of PXView: stream_pxv_session_data().                        *)

Pxv == running /\ ~finished /\ pxv_format

Entry(ch) == <<<<"L", ch>>, pxv_cur_block>>
Enabled == ToSet(file.enabled)

LogicLeft ==
  /\ pxv_phase = 0 /\ file.unitsize > 0 /\ file.enabled # <<>>
  /\ Has(Entry(Head(file.enabled)))

\* Bytes of the bitmaps: those of the first channel, or of another one that could
\* be read if the first is empty.
BlockSize(read) ==
  LET first == Size(Entry(Head(file.enabled)))
      filled == {k \in 1 .. Len(file.enabled) :
                   file.enabled[k] \in read /\ Size(Entry(file.enabled[k])) > 0}
  IN  IF first # 0 \/ filled = {} THEN first ELSE Size(Entry(file.enabled[Min(filled)]))

\* Bytes of an interleaved sample, and the one that holds the bit of a channel.
Mut_UnitsRoundedDown(n) == n \div Byte
Units(n) == (n + Byte - 1) \div Byte
UnitOf(ch) == ch \div Byte

Mut_NextFilled(n) == IF n = 0 THEN pxv_cur_block ELSE pxv_cur_block + 1
NextBlock(n) == pxv_cur_block + 1

\* The channels of "opened" can be opened and those of "read" read in full; the bits
\* of the former that are not are arbitrary, those of the others zero.  A bitmap
\* shorter than the block is read past its end, and a channel beyond the last unit
\* of a sample is written past the end of the last one.
InBlock == {c \in Enabled : Has(Entry(c))}

PxvLogic(opened, read) ==
  /\ Pxv /\ LogicLeft
  /\ opened \subseteq InBlock /\ (IoFails \/ read = InBlock)
  /\ LET n == BlockSize(read)
     IN  /\ sent' = IF n = 0 THEN sent ELSE Append(sent, <<"L", pxv_cur_block, n, read>>)
         /\ overrun' = (overrun \/ (n > 0 /\ \E c \in opened :
                                      \/ Size(Entry(c)) < n
                                      \/ UnitOf(c) >= Units(Len(file.enabled))))
         /\ pxv_cur_block' = NextBlock(n)
  /\ lossy' = (lossy \/ read # InBlock)
  /\ UNCHANGED <<file, reader, archive, finished, pxv_format, pxv_phase, pxv_cur_analog_block,
                 running, dso_sent, cut, stopped, runs>>

\* The analog phase begins with block 0.
AnalogBlock == IF pxv_phase = 0 THEN 0 ELSE pxv_cur_analog_block
AnalogEntry == <<<<"A", 0>>, AnalogBlock>>
AnalogLeft == pxv_phase < 2 /\ file.analog > 0 /\ file.atype = "analog" /\ Has(AnalogEntry)

\* A block that is read short is left out.
PxvAnalog(short) ==
  /\ Pxv /\ ~LogicLeft /\ AnalogLeft
  /\ short => IoFails
  /\ pxv_phase' = 1 /\ pxv_cur_analog_block' = AnalogBlock + 1
  /\ sent' = IF short THEN sent ELSE Append(sent, <<"A", AnalogBlock>>)
  /\ lossy' = (lossy \/ short)
  /\ UNCHANGED <<file, reader, archive, finished, pxv_format, pxv_cur_block, running,
                 dso_sent, cut, stopped, overrun, runs>>

\* The DSO data go out with every call: nothing records that they have.  The chunk of
\* the first channel says how many samples there are.
DsoLeft ==
  file.atype = "dso" /\ file.analog > 0 /\ Has(DsoEntry(0)) /\ Size(DsoEntry(0)) > 0

\* The channels of "read" can be opened and read in full, and that many samples are
\* taken from each of their chunks; the samples of the others are zero.
InDso == {c \in 0 .. file.analog - 1 : Has(DsoEntry(c))}

PxvDso(read) ==
  /\ Pxv /\ ~LogicLeft /\ ~AnalogLeft /\ DsoLeft
  /\ IoFails \/ read = InDso
  /\ pxv_phase' = 2
  /\ pxv_cur_analog_block' = AnalogBlock
  /\ dso_sent' = IF dso_sent < MaxDso THEN dso_sent + 1 ELSE dso_sent
  /\ overrun' = (overrun \/ \E c \in read : Size(DsoEntry(c)) < Size(DsoEntry(0)))
  /\ lossy' = (lossy \/ read # InDso)
  /\ UNCHANGED <<file, reader, archive, finished, pxv_format, pxv_cur_block, running, sent,
                 cut, stopped, runs>>

\* No more data, or the next analog block cannot be opened.
PxvEnd ==
  /\ Pxv /\ ~LogicLeft /\ ~DsoLeft
  /\ AnalogLeft => IoFails
  /\ pxv_phase' = 2 /\ pxv_cur_analog_block' = AnalogBlock
  /\ lossy' = (lossy \/ AnalogLeft)
  /\ End
  /\ UNCHANGED <<capturefile, cur_chunk, cur_analog_channel, pxv_cur_block, cut>>

-----------------------------------------------------------------------------
receive_data ==
  \/ Finish
  \/ Read \/ ReadIgnored \/ OpenFails \/ NextAnalog \/ AllChunks
  \/ \E failed \in BOOLEAN : ReadEnd(failed)
  \/ \E opened \in SUBSET Enabled : \E read \in SUBSET opened : PxvLogic(opened, read)
  \/ \E short \in BOOLEAN : PxvAnalog(short)
  \/ \E read \in SUBSET InDso : PxvDso(read)
  \/ PxvEnd

Next ==
  \/ \E ok \in BOOLEAN : Start(ok)
  \/ Stop
  \/ receive_data

Spec == Init /\ [][Next]_vars

\* The session dispatches the source again and again while it is there.
FairSpec == Spec /\ WF_vars(receive_data)

-----------------------------------------------------------------------------
(* Properties.                                                             *)

\* The first k of some sequences, joined, and all of them.
Joined(parts) ==
  LET upto[k \in 0 .. Len(parts)] == IF k = 0 THEN <<>> ELSE upto[k - 1] \o parts[k]
  IN  upto
All(parts) == Joined(parts)[Len(parts)]

\* How many entries a base has in an archive, one after the other from a number on.
Count(f, base, from) ==
  CHOOSE n \in 0 .. MaxNumber + 1 :
    /\ \A m \in from .. from + n - 1 : <<base, m>> \in DOMAIN f.entry
    /\ <<base, from + n>> \notin DOMAIN f.entry

\* What an archive holds, in the order of its channels, chunks and blocks.
Contents(f, e, ch) == Bytes(e, ch, 0, f.entry[e])
Chunks(f, base, ch) == [n \in 1 .. Count(f, base, 1) |-> Contents(f, <<base, n>>, ch)]
Whole(f, base, ch) ==
  IF <<base, 0>> \in DOMAIN f.entry THEN Contents(f, <<base, 0>>, ch)
  ELSE All(Chunks(f, base, ch))
BaseOf(ch) == IF ch = 0 THEN Logic ELSE AnalogBase(ch)
Channels(f) == [i \in 1 .. f.analog + 1 |-> Whole(f, BaseOf(i - 1), i - 1)]

Bitmap(f, b) == <<<<"L", Head(f.enabled)>>, b>>
LogicBlock(f, b) ==
  LET n == f.entry[Bitmap(f, b)]
      channels == {c \in ToSet(f.enabled) : <<<<"L", c>>, b>> \in DOMAIN f.entry}
  IN  IF n = 0 THEN <<>> ELSE << <<"L", b, n, channels>> >>
LogicCount(f) == IF f.enabled = <<>> THEN 0 ELSE Count(f, <<"L", Head(f.enabled)>>, 0)
LogicBlocks(f) == [k \in 1 .. LogicCount(f) |-> LogicBlock(f, k - 1)]
AnalogBlocks(n) == [k \in 1 .. n |-> <<"A", k - 1>>]

Data(f) ==
  IF IsPxv(f) THEN All(LogicBlocks(f)) \o AnalogBlocks(Count(f, <<"A", 0>>, 0))
  ELSE All(Channels(f))

\* Regular session files.  Upstream: the logic data are there if there are logic
\* channels, and cut into chunks if analog data follow; a read holds a logic sample, and
\* whole samples of analog channels.  PXView: gaps between the enabled channels do not
\* reach another byte of the sample, the bitmaps of a block have the same size, and no
\* DSO chunk is shorter than the first channel's; there are logic blocks only with a unit
\* size, and analog blocks only for analog channels.
Multiple(n) == n % Float = 0
RegularUpstream(f) ==
  LET has(base, n) == <<base, n>> \in DOMAIN f.entry
  IN  /\ f.unitsize <= CHUNKSIZE
      /\ f.enabled = <<>> => ~has(Logic, 0) /\ ~has(Logic, 1)
      /\ f.analog > 0 =>
           /\ ~has(Logic, 0) /\ (f.enabled # <<>> => has(Logic, 1))
           /\ Multiple(ReadSize(f))
           /\ \A i \in 1 .. f.analog : \A n \in 0 .. MaxNumber :
                has(AnalogBase(i), n) => Multiple(f.entry[<<AnalogBase(i), n>>])
RegularPxv(f) ==
  /\ \A k \in 1 .. Len(f.enabled) : (f.enabled[k] \div Byte) * Byte < Len(f.enabled)
  /\ \A b \in 0 .. MaxNumber : \A c, d \in ToSet(f.enabled) :
       {<<<<"L", c>>, b>>, <<<<"L", d>>, b>>} \subseteq DOMAIN f.entry
         => f.entry[<<<<"L", c>>, b>>] = f.entry[<<<<"L", d>>, b>>]
  /\ f.enabled # <<>> /\ <<<<"L", Head(f.enabled)>>, 0>> \in DOMAIN f.entry => f.unitsize > 0
  /\ <<<<"A", 0>>, 0>> \in DOMAIN f.entry => f.analog > 0 /\ f.atype = "analog"
  /\ \A c \in 0 .. f.analog - 1 :
       {DsoEntry(0), DsoEntry(c)} \subseteq DOMAIN f.entry
         => f.entry[DsoEntry(c)] >= f.entry[DsoEntry(0)]
Regular(f) == IF IsPxv(f) THEN RegularPxv(f) ELSE RegularUpstream(f)

\* A replay sends the logic and analog data of the archive, in order and none twice,
\* and all of them unless it is stopped or an entry cannot be read or is ignored, also
\* when the device has replayed it before.  (A replay that was cut short among the analog
\* channels spoils the next one, see the README.)
Faithful ==
  ~cut /\ ~lossy =>
    /\ IsPrefix(sent, Data(file))
    /\ runs > 0 /\ ~running /\ ~stopped => sent = Data(file)

\* Packets are put together within their buffers: no bitmap and no DSO chunk is read
\* past its end, and no bit of a sample is put outside of the sample's bytes.
NoOverrun == ~overrun

\* A replay ends by itself, and one of DSO data when it is stopped.
ReplayEnds == (running /\ (stopped \/ ~DsoLeft)) ~> ~running
=============================================================================
