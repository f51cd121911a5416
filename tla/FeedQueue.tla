------------------------------ MODULE FeedQueue ------------------------------
(***************************************************************************)
(* The queues in which drivers and input modules collect samples             *)
(* (input/feed_queue.c), on top of the datafeed bus: a full queue is flushed *)
(* with sr_session_send(), and so is one whose meaning is about to change or *)
(* that is followed by a trigger.  A queue keeps the packet it sends, with   *)
(* the encoding of analog values in it, from one packet to the next.         *)
(*                                                                         *)
(* A definition named Mut_... is the next definition with a mistake in it;  *)
(* the specification does not use it.                                      *)
(***************************************************************************)
EXTENDS DataFeed

CONSTANTS
  Alloc,        \* samples a queue holds
  Meanings,     \* quantities an analog channel may measure
  MaxSubmit,    \* bound: samples per call
  MaxSamples    \* bound: samples

ASSUME FeedQueueAssumption ==
  /\ Alloc \in Nat \ {0} /\ MaxSubmit \in Nat \ {0} /\ MaxSamples \in Nat /\ Meanings # {}

VARIABLES
  kind,        \* "logic" or "analog"
  buffer,      \* data_bytes or data_values up to fill_count
  meaning,     \* quantity of the samples in the queue
  encoding,    \* scale of the packet
  scale,       \* scale the driver has set
  op,          \* call in progress
  broken,      \* a call has returned an error
  submitted,   \* samples the driver has submitted
  delivered    \* samples that have reached the callbacks

queue == <<buffer, meaning, encoding, scale, op, broken, submitted, delivered>>
allVars == <<vars, kind, queue>>

OpNames == {"none", "submit", "meaning", "scale", "trigger", "flush"}
NoOp == [name |-> "none", left |-> 0, to |-> 0]
Ready == op = NoOp /\ pc = "idle" /\ ~broken

QueueInit ==
  /\ Init
  /\ kind \in {"logic", "analog"}
  /\ buffer = <<>> /\ meaning \in Meanings /\ encoding = Unity /\ scale = Unity
  /\ op = NoOp /\ broken = FALSE /\ submitted = 0 /\ delivered = 0

-----------------------------------------------------------------------------
(* Calls.                                                                  *)

Call(name, left, to) == op' = [name |-> name, left |-> left, to |-> to]

\* feed_queue_logic_submit_one() and feed_queue_analog_submit_one(), with a count of
\* repetitions, and feed_queue_logic_submit_many().
Submit(n) ==
  /\ Ready /\ submitted + n <= MaxSamples
  /\ Call("submit", n, 0)
  /\ UNCHANGED <<vars, kind, buffer, meaning, encoding, scale, broken, submitted, delivered>>

\* feed_queue_analog_mq_unit(), feed_queue_analog_scale_offset(),
\* feed_queue_logic_send_trigger() and the two ..._flush() flush the queue first.
Flushing(name, to) ==
  /\ Ready
  /\ Call(name, 0, to)
  /\ UNCHANGED <<vars, kind, buffer, meaning, encoding, scale, broken, submitted, delivered>>

\* The packet of the queue, as it was left by the last flush.
Packet == IF kind = "logic" THEN Logic(0, "split") ELSE Analog(encoding)

\* One sample is copied, and a full queue is flushed.
Mut_FullLate(b) == Len(b) > Alloc
Full(b) == Len(b) = Alloc

Copy ==
  /\ op.name = "submit" /\ op.left > 0 /\ pc = "idle"
  /\ submitted' = submitted + 1
  /\ buffer' = Append(buffer, [id |-> submitted', meaning |-> meaning])
  /\ op' = [op EXCEPT !.left = @ - 1]
  /\ IF Full(buffer') THEN Send(Packet) ELSE UNCHANGED vars
  /\ UNCHANGED <<kind, meaning, encoding, scale, broken, delivered>>

Mut_NoFlush == {"flush"}
FlushFirst == {"meaning", "scale", "trigger", "flush"}

Flush ==
  /\ op.name \in FlushFirst /\ op.left = 0 /\ pc = "idle" /\ buffer # <<>>
  /\ Send(Packet)
  /\ UNCHANGED <<kind, queue>>

\* What the call does when the queue is empty.
Return ==
  /\ op # NoOp /\ pc = "idle"
  /\ \/ op.name = "submit" /\ op.left = 0
     \/ op.name \notin {"submit", "trigger"} /\ (buffer = <<>> \/ op.name \notin FlushFirst)
  /\ op' = NoOp
  /\ meaning' = IF op.name = "meaning" THEN op.to ELSE meaning
  /\ encoding' = IF op.name = "scale" THEN op.to ELSE encoding
  /\ scale' = IF op.name = "scale" THEN op.to ELSE scale
  /\ UNCHANGED <<vars, kind, buffer, broken, submitted, delivered>>

\* std_session_send_df_trigger()
SendTrigger ==
  /\ op.name = "trigger" /\ op.left = 0 /\ pc = "idle"
  /\ (buffer = <<>> \/ op.name \notin FlushFirst)
  /\ Send(Other)
  /\ op' = [op EXCEPT !.left = 1]
  /\ UNCHANGED <<kind, buffer, meaning, encoding, scale, broken, submitted, delivered>>

\* sr_session_send() returns: the transforms have worked on the packet itself.
FillAfterSend == <<>>

QueuePacket == op # NoOp /\ ~(op.name = "trigger" /\ op.left = 1)
Left == IF kind = "analog" /\ QueuePacket THEN packet.scale ELSE encoding

Sent ==
  /\ SendDone
  /\ IF QueuePacket
     THEN buffer' = FillAfterSend /\ delivered' = delivered + Len(buffer) /\ op' = op
     ELSE op' = NoOp /\ UNCHANGED <<buffer, delivered>>
  /\ encoding' = Left
  /\ UNCHANGED <<kind, meaning, scale, broken, submitted>>

\* A transform refuses the packet: the call returns the error with the queue as it
\* is.  The caller, like an input module, gives up.
Refused ==
  /\ pc = "transform" /\ next <= Len(transforms) /\ Refuses(transforms[next], packet)
  /\ Transform
  /\ op' = NoOp /\ broken' = QueuePacket /\ encoding' = Left
  /\ UNCHANGED <<kind, buffer, meaning, scale, submitted, delivered>>

-----------------------------------------------------------------------------
QueueCalls ==
  \/ \E n \in 1 .. MaxSubmit : Submit(n)
  \/ Flushing("flush", 0)
  \/ kind = "logic" /\ Flushing("trigger", 0)
  \/ kind = "analog" /\ \E m \in Meanings : Flushing("meaning", m)
  \/ kind = "analog" /\ \E f \in Factors : Flushing("scale", f)

\* The steps of DataFeed that leave the queue alone.  A driver also sends packets of
\* its own between two calls.
Bus ==
  /\ \/ Ready /\ Driver
     \/ /\ op = NoOp /\ pc = "idle"
        /\ \/ \E mod \in {"nop", "invert", "scale"} :
                \E f \in (IF mod = "scale" THEN Factors ELSE {Unity}) : TransformNew(mod, f)
           \/ CallbackAdd \/ CallbackRemoveAll
     \/ pc = "callback" /\ CallbackAdd
     \/ Transform /\ pc' # "idle"
     \/ TransformsDone \/ Callback
  /\ UNCHANGED <<kind, queue>>

QueueNext ==
  \/ QueueCalls \/ Copy \/ Flush \/ Return \/ SendTrigger \/ Sent \/ Refused
  \/ Bus

QueueSpec == QueueInit /\ [][QueueNext]_allVars

-----------------------------------------------------------------------------
(* Properties.                                                             *)

QueueTypeOK ==
  /\ TypeOK
  /\ kind \in {"logic", "analog"} /\ meaning \in Meanings /\ broken \in BOOLEAN
  /\ buffer \in Seq([id : Nat, meaning : Meanings])
  /\ submitted \in 0 .. MaxSamples /\ delivered \in Nat
  /\ encoding \in Scales /\ scale \in Scales
  /\ op \in [name : OpNames, left : Nat, to : {op.to}]
  /\ op.name = "meaning" => op.to \in Meanings
  /\ op.name = "scale" => op.to \in Factors

\* Samples reach the callbacks in the order of their submission and once, and a
\* queue never holds more than it has room for.
InOrder ==
  /\ Len(buffer) <= Alloc
  /\ delivered + Len(buffer) = submitted
  /\ \A k \in 1 .. Len(buffer) : buffer[k].id = delivered + k

\* A packet is sent with the quantity that was set when its samples were submitted.
MeaningKept ==
  pc = "callback" /\ QueuePacket => \A k \in 1 .. Len(buffer) : buffer[k].meaning = meaning

\* A trigger is sent after all samples that were submitted before it.
TriggerInPlace == pc # "idle" /\ op.name = "trigger" /\ ~QueuePacket => delivered = submitted

\* "Scale analog values by a specified factor": the callbacks get the values with
\* the scale the driver has set and, on top of it, what the transforms do, once.
ScaledOnce ==
  pc = "callback" /\ kind = "analog" /\ QueuePacket /\ Computable(transforms, Analog(scale)) =>
    packet = Image(Analog(scale), Effect(transforms, Analog(scale))[Len(transforms)])
=============================================================================
