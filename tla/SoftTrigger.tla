----------------------------- MODULE SoftTrigger -----------------------------
(***************************************************************************)
(* The software trigger of src/src/soft-trigger.c.  Samples arrive in       *)
(* buffers, one per call of soft_trigger_logic_check(); a trigger is a      *)
(* sequence of stages, each of which must match on one sample after the     *)
(* other.  The samples before the trigger are kept in a circular buffer.    *)
(*                                                                         *)
(* A buffer is a sequence of bytes, `Unit` of them per sample, and a byte   *)
(* is the set of its bits that are 1.  Channel c is bit c % 8 of byte       *)
(* c \div 8 of a sample.                                                   *)
(*                                                                         *)
(* A definition named Mut_... is the next definition with a mistake in it;  *)
(* the specification does not use it.                                      *)
(***************************************************************************)
EXTENDS Integers, Sequences

CONSTANTS
  Unit,       \* stl->unitsize: bytes per sample
  Pre,        \* pre_trigger_samples
  Triggers,   \* triggers to choose from: sequences of stages
  Enabled,    \* the enabled channels
  Bits,       \* the bits of a byte that the input varies
  MaxBuf,     \* bound: samples in a buffer
  MaxSamples  \* bound: samples in all

Kinds == {"zero", "one", "rising", "falling", "edge"}

\* verify_trigger() has refused triggers without stages and stages without
\* matches.
ASSUME SoftTriggerAssumption ==
  /\ Unit \in Nat \ {0} /\ Pre \in Nat
  /\ Bits \subseteq 0 .. 7
  /\ MaxBuf \in Nat \ {0} /\ MaxSamples \in Nat
  /\ \A t \in Triggers :
       /\ t \in Seq(Seq([channel : 0 .. 8 * Unit - 1, match : Kinds])) /\ t # <<>>
       /\ \A s \in 1 .. Len(t) : t[s] # <<>>

Byte == SUBSET Bits
Size == Unit * Pre               \* stl->pre_trigger_size

VARIABLES
  stages,     \* stl->trigger->stages
  cur_stage,  \* stl->cur_stage, counted from 0
  prev_sample,\* stl->prev_sample
  count,      \* stl->count is positive: some match was evaluated
  ring,       \* stl->pre_trigger_buffer
  head,       \* index of stl->pre_trigger_head in it
  fill,       \* stl->pre_trigger_fill
  buf,        \* the buffer of the current, or the last, call
  i,          \* byte index of the loop
  pc,         \* "idle": no call; "scan": in the loop; "fired": returned an offset
  offset,     \* what the last call returned
  sent,       \* pre-trigger bytes sent to the session
  pre_trigger_samples, \* what the caller is told about them
  past        \* bytes of the earlier buffers

ringVars == <<ring, head, fill>>
vars == <<stages, cur_stage, prev_sample, count, ring, head, fill, buf, i, pc,
          offset, sent, pre_trigger_samples, past>>

TypeOK ==
  /\ stages \in Triggers
  /\ cur_stage \in 0 .. Len(stages) - 1
  /\ prev_sample \in [0 .. Unit - 1 -> Byte]
  /\ count \in BOOLEAN
  /\ ring \in [0 .. Size - 1 -> Byte]
  /\ head \in 0 .. Size /\ fill \in 0 .. Size
  /\ (Size > 0 => head < Size)
  /\ buf \in Seq(Byte) /\ past \in Seq(Byte) /\ sent \in Seq(Byte)
  /\ i \in Nat /\ offset \in Nat \cup {-1} /\ pre_trigger_samples \in Nat
  /\ pc \in {"idle", "scan", "fired"}

Init ==
  /\ stages \in Triggers
  /\ cur_stage = 0 /\ count = FALSE
  /\ prev_sample = [b \in 0 .. Unit - 1 |-> {}]
  /\ ring = [b \in 0 .. Size - 1 |-> {}] /\ head = 0 /\ fill = 0
  /\ buf = <<>> /\ past = <<>> /\ sent = <<>>
  /\ i = 0 /\ pc = "idle" /\ offset = -1 /\ pre_trigger_samples = 0

-----------------------------------------------------------------------------
(* One sample against one stage.                                           *)

Bit(sample, c) == (c % 8) \in sample[c \div 8]

\* The sample at byte i of buf.  Past the end of the buffer the memory holds
\* some byte, `junk`.
SampleAt(n, junk) ==
  [b \in 0 .. Unit - 1 |-> IF n + b < Len(buf) THEN buf[n + b + 1] ELSE junk]

\* first: this is the first match evaluated since the trigger was created.
logic_check_match(sample, m, first) ==
  LET bit == Bit(sample, m.channel)
      prev_bit == Bit(prev_sample, m.channel)
  IN  CASE m.match = "zero"    -> ~bit
        [] m.match = "one"     -> bit
        [] m.match = "rising"  -> ~first /\ ~prev_bit /\ bit
        [] m.match = "falling" -> ~first /\ prev_bit /\ ~bit
        [] m.match = "edge"    -> ~first /\ prev_bit # bit

\* The matches of stage s that are evaluated: those on enabled channels.
Matches(s) == {n \in 1 .. Len(stages[s]) : stages[s][n].channel \in Enabled}

\* Do all of them hold?  They are evaluated in order, and only the very first
\* one finds stl->count at 1.
match_found(sample) ==
  LET ms == Matches(cur_stage + 1)
  IN  \A n \in ms : logic_check_match(sample, stages[cur_stage + 1][n],
                                       ~count /\ \A l \in ms : n <= l)

-----------------------------------------------------------------------------
(* The circular buffer.                                                    *)

Smaller(a, b) == IF a < b THEN a ELSE b
LastOf(s, n) == SubSeq(s, Len(s) - Smaller(n, Len(s)) + 1, Len(s))

\* pre_trigger_append(): the last Size bytes of data go to the head onwards.
FillAfter(data) == Smaller(fill + Smaller(Len(data), Size), Size)
RingAfter(data) ==
  LET new == LastOf(data, Size)
  IN  [b \in 0 .. Size - 1 |->
         LET n == (b - head) % Size IN IF n < Len(new) THEN new[n + 1] ELSE ring[b]]
HeadAfter(data) == IF Size = 0 THEN 0 ELSE (head + Smaller(Len(data), Size)) % Size

pre_trigger_append(data) ==
  /\ ring' = RingAfter(data)
  /\ head' = HeadAfter(data)
  /\ fill' = FillAfter(data)

\* pre_trigger_send(), right after an append: everything from the oldest byte
\* on, which is at the head of a full buffer and at the start of another one.
Mut_SendFromHead(data) == HeadAfter(data)
SendFrom(data) == IF FillAfter(data) < Size THEN 0 ELSE HeadAfter(data)

pre_trigger_send(data) ==
  /\ ring' = RingAfter(data)
  /\ sent' = [n \in 1 .. FillAfter(data) |-> RingAfter(data)[(SendFrom(data) + n - 1) % Size]]
  /\ pre_trigger_samples' = FillAfter(data) \div Unit
  /\ head' = 0 /\ fill' = 0

-----------------------------------------------------------------------------
(* soft_trigger_logic_check().                                             *)

\* The call, with the next data of the stream.
Call(data) ==
  /\ pc = "idle"
  /\ past' = past \o buf
  /\ buf' = data
  /\ i' = 0 /\ offset' = -1 /\ pc' = "scan"
  /\ UNCHANGED <<stages, cur_stage, prev_sample, count, ringVars, sent,
                 pre_trigger_samples>>

NextSample == i + Unit

\* What an iteration does whether or not the stage matches.
Iterate(sample) ==
  /\ pc = "scan" /\ i < Len(buf)
  /\ count' = (count \/ Matches(cur_stage + 1) # {})
  /\ prev_sample' = sample
  /\ UNCHANGED <<stages, buf, past>>

\* Matched, and there is another stage.
Advance(junk) ==
  /\ Iterate(SampleAt(i, junk))
  /\ match_found(SampleAt(i, junk)) /\ cur_stage + 1 < Len(stages)
  /\ cur_stage' = cur_stage + 1
  /\ i' = NextSample
  /\ UNCHANGED <<ringVars, pc, offset, sent, pre_trigger_samples>>

\* Matched on the last stage: send the pre-trigger data, and the trigger.
Fire(junk) ==
  /\ Iterate(SampleAt(i, junk))
  /\ match_found(SampleAt(i, junk)) /\ cur_stage + 1 = Len(stages)
  /\ pre_trigger_send(SubSeq(buf, 1, i))
  /\ offset' = i \div Unit
  /\ pc' = "fired"
  /\ UNCHANGED <<cur_stage, i>>

\* Where the loop goes on after a stage has failed: at the sample after the one
\* that matched the first stage, or at the start of this buffer.
Mut_NoRewind == i + Unit
RestartAt ==
  LET back == i - cur_stage * Unit
  IN  (IF back < -1 THEN -1 ELSE back) + Unit

Mut_StageKept == cur_stage
StageAfterFailure == 0

Fail(junk) ==
  /\ Iterate(SampleAt(i, junk))
  /\ ~match_found(SampleAt(i, junk))
  /\ i' = IF cur_stage > 0 THEN RestartAt ELSE NextSample
  /\ cur_stage' = StageAfterFailure
  /\ UNCHANGED <<ringVars, pc, offset, sent, pre_trigger_samples>>

\* The end of the buffer: not triggered.
Return ==
  /\ pc = "scan" /\ i >= Len(buf)
  /\ pre_trigger_append(buf)
  /\ pc' = "idle"
  /\ UNCHANGED <<stages, cur_stage, prev_sample, count, buf, i, offset, sent,
                 pre_trigger_samples, past>>

Buffers == UNION {[1 .. n * Unit -> Byte] : n \in 1 .. MaxBuf}

Next ==
  \/ \E data \in Buffers : Len(past) + Len(buf) + Len(data) <= MaxSamples * Unit /\ Call(data)
  \/ \E junk \in Byte : Advance(junk) \/ Fire(junk) \/ Fail(junk)
  \/ Return

Spec == Init /\ [][Next]_vars

\* A call of the function runs to its end.
FairSpec ==
  /\ Spec
  /\ WF_vars((\E junk \in Byte : Advance(junk) \/ Fire(junk) \/ Fail(junk)) \/ Return)

-----------------------------------------------------------------------------
(* What a trigger means, without stages to be kept or buffers to be cut.    *)

Stream == past \o buf
Samples == Len(Stream) \div Unit
StreamSample(n) == [b \in 0 .. Unit - 1 |-> Stream[(n - 1) * Unit + b + 1]]

\* Match m holds on the n-th sample of the stream.  An edge needs a sample
\* before it.
Holds(m, n) ==
  LET bit == Bit(StreamSample(n), m.channel)
  IN  CASE m.match = "zero" -> ~bit
        [] m.match = "one"  -> bit
        [] OTHER -> /\ n > 1
                    /\ bit # Bit(StreamSample(n - 1), m.channel)
                    /\ m.match = "rising" => bit
                    /\ m.match = "falling" => ~bit

\* The stages match on consecutive samples, the last of them on the n-th.
TriggersAt(n) ==
  /\ n >= Len(stages)
  /\ \A s \in 1 .. Len(stages) : \A k \in 1 .. Len(stages[s]) :
       stages[s][k].channel \in Enabled => Holds(stages[s][k], n - Len(stages) + s)

FiredAt == Len(past) \div Unit + offset + 1

\* A trigger is reported only where the stages do match.
Sound == pc = "fired" => FiredAt <= Samples /\ TriggersAt(FiredAt)

\* Within a buffer no match is missed, and the first one is reported: the
\* rewinding after a partial match ("trigger on 0001 will fail on seeing 00001")
\* restarts early enough.
FirstInBuffer ==
  pc # "scan" =>
    \A n \in Len(past) \div Unit + Len(stages) .. Samples :
      TriggersAt(n) => pc = "fired" /\ FiredAt <= n

\* The pre-trigger data are the last samples before the trigger, in order, as
\* many as were asked for or as there are, and the caller is told how many.
PreTriggerIsTail ==
  pc = "fired" =>
    /\ sent = LastOf(SubSeq(Stream, 1, Len(past) + offset * Unit), Size)
    /\ pre_trigger_samples * Unit = Len(sent)

\* Every call returns, in spite of the rewinding.
CallReturns == pc = "scan" ~> pc # "scan"
=============================================================================
