--------------------------- MODULE FeedQueueProofs ---------------------------
(***************************************************************************)
(* Proofs about FeedQueue and the bus below it.  Samples keep their order and *)
(* their quantity because a queue that is full is on its way to the callbacks *)
(* or broken, and because the quantity changes on an empty queue only.        *)
(* Callbacks stay in step because those before the place of the walk are one  *)
(* packet ahead of those behind it.                                          *)
(***************************************************************************)
EXTENDS FeedQueue, NaturalsInduction, WellFoundedInduction, TLAPS

QueueTypes ==
  /\ op \in [name : OpNames, left : Nat, to : Meanings \cup Factors \cup {0}]
  /\ pc \in {"idle", "transform", "callback"} /\ broken \in BOOLEAN
  /\ buffer \in Seq([id : Nat, meaning : Meanings]) /\ meaning \in Meanings
  /\ submitted \in Nat /\ delivered \in Nat
  /\ op.name = "meaning" => op.to \in Meanings

\* A queue has room for a sample unless it is being sent or a call has failed.
Room ==
  /\ pc = "idle" /\ ~broken => Len(buffer) < Alloc
  /\ pc # "idle" /\ ~QueuePacket => Len(buffer) < Alloc
  /\ broken => pc = "idle" /\ op = NoOp

\* A trigger that is being sent left an empty queue behind.
TriggerAfter == op.name = "trigger" /\ op.left # 0 => buffer = <<>>

\* All samples of the queue have its quantity.
OneMeaning == \A k \in 1 .. Len(buffer) : buffer[k].meaning = meaning

QueueInv == QueueTypes /\ InOrder /\ Room /\ TriggerAfter /\ OneMeaning

-----------------------------------------------------------------------------
\* A queue begins empty.
LEMMA QueueInitial == QueueInit => QueueInv
<1> SUFFICES ASSUME QueueInit PROVE QueueInv
  OBVIOUS
<1>1. QueueTypes
  <2>1. op \in [name : OpNames, left : Nat, to : Meanings \cup Factors \cup {0}]
    BY DEF QueueInit, NoOp, OpNames
  <2>2. buffer \in Seq([id : Nat, meaning : Meanings])
    BY DEF QueueInit
  <2> QED
    BY <2>1, <2>2 DEF QueueInit, Init, QueueTypes, NoOp
<1>2. InOrder /\ OneMeaning /\ TriggerAfter
  BY FeedQueueAssumption DEF QueueInit, InOrder, OneMeaning, TriggerAfter
<1>3. Room
  BY FeedQueueAssumption DEF QueueInit, Init, Room
<1> QED
  BY <1>1, <1>2, <1>3 DEF QueueInv

\* The beginning of a call leaves the queue alone.
LEMMA CallStep ==
  ASSUME QueueInv, NEW name \in OpNames, NEW left \in Nat,
         NEW to \in Meanings \cup Factors \cup {0}, Ready, Call(name, left, to),
         name # "none", name = "trigger" => left = 0,
         name = "meaning" => to \in Meanings,
         UNCHANGED <<pc, buffer, meaning, broken, submitted, delivered>>
  PROVE  QueueInv'
<1>1. QueueTypes'
  BY DEF QueueInv, QueueTypes, Call
<1>2. InOrder' /\ OneMeaning'
  BY DEF QueueInv, InOrder, OneMeaning
<1>3. Room' /\ TriggerAfter'
  BY DEF QueueInv, Room, TriggerAfter, Ready, Call
<1> QED
  BY <1>1, <1>2, <1>3 DEF QueueInv

\* A sample is appended; when that fills the queue, it is sent.
LEMMA CopyStep == QueueInv /\ Copy => QueueInv'
<1> SUFFICES ASSUME QueueInv, Copy PROVE QueueInv'
  OBVIOUS
<1> DEFINE x == [id |-> submitted + 1, meaning |-> meaning]
<1>1. /\ buffer' = Append(buffer, x) /\ submitted' = submitted + 1
      /\ meaning' = meaning /\ delivered' = delivered /\ broken' = broken
      /\ op' = [op EXCEPT !.left = @ - 1] /\ op.name = "submit" /\ op.left > 0 /\ pc = "idle"
  BY DEF Copy
<1>2. x \in [id : Nat, meaning : Meanings]
  BY DEF QueueInv, QueueTypes
<1>3. buffer' \in Seq([id : Nat, meaning : Meanings]) /\ Len(buffer') = Len(buffer) + 1
  BY <1>1, <1>2 DEF QueueInv, QueueTypes
<1>4. pc' \in {"idle", "transform"} /\ (pc' = "idle" => ~Full(buffer'))
  BY <1>1 DEF Copy, Send, vars
<1>5. ~broken
  BY <1>1 DEF QueueInv, Room, NoOp
<1>6. Len(buffer) < Alloc
  BY <1>1, <1>5 DEF QueueInv, Room
<1>7. QueueTypes'
  <2>1. op.left - 1 \in Nat
    BY <1>1 DEF QueueInv, QueueTypes
  <2>2. op' \in [name : OpNames, left : Nat, to : Meanings \cup Factors \cup {0}]
    BY <1>1, <2>1 DEF QueueInv, QueueTypes
  <2>3. op'.name # "meaning"
    BY <1>1 DEF QueueInv, QueueTypes
  <2> QED
    BY <1>1, <1>3, <1>4, <2>2, <2>3 DEF QueueInv, QueueTypes
<1>8. InOrder'
  <2>1. Len(buffer') <= Alloc
    BY <1>3, <1>6, FeedQueueAssumption DEF QueueInv, QueueTypes
  <2>2. \A k \in 1 .. Len(buffer') : buffer'[k].id = delivered' + k
    <3> SUFFICES ASSUME NEW k \in 1 .. Len(buffer') PROVE buffer'[k].id = delivered' + k
      OBVIOUS
    <3>1. CASE k \in 1 .. Len(buffer)
      BY <1>1, <1>2, <1>3, <3>1 DEF QueueInv, QueueTypes, InOrder
    <3>2. CASE k = Len(buffer) + 1
      BY <1>1, <1>2, <1>3, <3>2 DEF QueueInv, QueueTypes, InOrder
    <3> QED
      BY <1>3, <3>1, <3>2 DEF QueueInv, QueueTypes
  <2> QED
    BY <1>1, <1>3, <2>1, <2>2 DEF QueueInv, QueueTypes, InOrder
<1>9. OneMeaning'
  BY <1>1, <1>2, <1>3 DEF QueueInv, QueueTypes, OneMeaning
<1>10. op'.name = "submit" /\ op' # NoOp
  BY <1>1 DEF QueueInv, QueueTypes, NoOp
<1>11. Room'
  <2>1. pc' = "idle" => Len(buffer') < Alloc
    BY <1>3, <1>4, <1>6, FeedQueueAssumption DEF Full, QueueInv, QueueTypes
  <2>2. QueuePacket'
    BY <1>10 DEF QueuePacket
  <2> QED
    BY <1>1, <1>5, <2>1, <2>2 DEF Room
<1>12. TriggerAfter'
  BY <1>10 DEF TriggerAfter
<1> QED
  BY <1>7, <1>8, <1>9, <1>11, <1>12 DEF QueueInv

\* A step that leaves the queue alone and does not end a transfer keeps the
\* invariant, if a packet that is not the queue's starts with room in the queue.
LEMMA BusStep ==
  ASSUME QueueInv, UNCHANGED <<op, buffer, meaning, broken, submitted, delivered>>,
         pc' \in {"idle", "transform", "callback"},
         pc' = "idle" => pc = "idle",
         pc = "idle" /\ pc' # "idle" => ~broken
  PROVE  QueueInv'
<1>1. QueueTypes'
  BY DEF QueueInv, QueueTypes
<1>2. InOrder' /\ OneMeaning' /\ TriggerAfter'
  BY DEF QueueInv, InOrder, OneMeaning, TriggerAfter
<1>3. Room'
  BY DEF QueueInv, Room, QueuePacket
<1> QED
  BY <1>1, <1>2, <1>3 DEF QueueInv

\* sr_session_send() returns, with success or the error of a transform.
LEMMA SentStep == QueueInv /\ (Sent \/ Refused) => QueueInv'
<1> SUFFICES ASSUME QueueInv, Sent \/ Refused PROVE QueueInv'
  OBVIOUS
<1>0. pc # "idle" /\ pc' = "idle" /\ ~broken /\ meaning' = meaning /\ submitted' = submitted
  BY DEF QueueInv, Room, Sent, Refused, SendDone, Transform, Done
<1>1. CASE Sent /\ QueuePacket
  <2>1. /\ buffer' = <<>> /\ delivered' = delivered + Len(buffer) /\ op' = op
        /\ broken' = broken
    BY <1>1 DEF Sent, FillAfterSend
  <2>2. QueueTypes'
    BY <1>0, <2>1 DEF QueueInv, QueueTypes
  <2>3. InOrder' /\ OneMeaning' /\ TriggerAfter'
    BY <1>0, <2>1, FeedQueueAssumption
       DEF QueueInv, QueueTypes, InOrder, OneMeaning, TriggerAfter
  <2>4. Room'
    BY <1>0, <2>1, FeedQueueAssumption DEF Room
  <2> QED
    BY <2>2, <2>3, <2>4 DEF QueueInv
<1>2. CASE (Sent /\ ~QueuePacket) \/ Refused
  <2>1. /\ buffer' = buffer /\ delivered' = delivered /\ op' = NoOp
        /\ broken' \in BOOLEAN /\ (~broken' => ~QueuePacket)
    BY <1>0, <1>2 DEF Sent, Refused, QueuePacket, QueueInv, QueueTypes
  <2>2. QueueTypes'
    BY <1>0, <2>1 DEF QueueInv, QueueTypes, NoOp, OpNames
  <2>3. InOrder' /\ OneMeaning' /\ TriggerAfter'
    BY <1>0, <2>1 DEF QueueInv, InOrder, OneMeaning, TriggerAfter, NoOp
  <2>4. Room'
    BY <1>0, <2>1 DEF QueueInv, Room
  <2> QED
    BY <2>2, <2>3, <2>4 DEF QueueInv
<1> QED
  BY <1>1, <1>2

\* A call ends; a new quantity is set on an empty queue.
LEMMA ReturnStep == QueueInv /\ Return => QueueInv'
<1> SUFFICES ASSUME QueueInv, Return PROVE QueueInv'
  OBVIOUS
<1>0. /\ buffer' = buffer /\ delivered' = delivered /\ submitted' = submitted
      /\ op' = NoOp /\ broken' = broken /\ pc' = pc /\ pc = "idle"
  BY DEF Return, vars
<1>1. meaning' \in Meanings /\ (meaning' # meaning => buffer = <<>>)
  BY DEF Return, FlushFirst, QueueInv, QueueTypes
<1>2. QueueTypes'
  BY <1>0, <1>1 DEF QueueInv, QueueTypes, NoOp, OpNames
<1>3. InOrder' /\ TriggerAfter'
  BY <1>0 DEF QueueInv, InOrder, TriggerAfter, NoOp
<1>4. OneMeaning'
  BY <1>0, <1>1 DEF QueueInv, OneMeaning
<1>5. Room'
  BY <1>0 DEF QueueInv, Room
<1> QED
  BY <1>2, <1>3, <1>4, <1>5 DEF QueueInv

\* A trigger is sent on an empty queue.
LEMMA TriggerStep == QueueInv /\ SendTrigger => QueueInv'
<1> SUFFICES ASSUME QueueInv, SendTrigger PROVE QueueInv'
  OBVIOUS
<1>0. /\ buffer' = buffer /\ delivered' = delivered /\ submitted' = submitted
      /\ broken' = broken /\ meaning' = meaning /\ pc' = "transform" /\ pc = "idle"
      /\ op.name = "trigger" /\ op' = [op EXCEPT !.left = 1] /\ buffer = <<>>
  BY DEF SendTrigger, Send, FlushFirst
<1>1. QueueTypes'
  BY <1>0 DEF QueueInv, QueueTypes
<1>2. InOrder' /\ TriggerAfter' /\ OneMeaning'
  BY <1>0 DEF QueueInv, InOrder, TriggerAfter, OneMeaning
<1>3. ~broken
  BY <1>0 DEF QueueInv, Room, NoOp
<1>4. Room'
  BY <1>0, <1>3, FeedQueueAssumption DEF Room
<1> QED
  BY <1>1, <1>2, <1>4 DEF QueueInv

\* Every step of the queue and of the bus keeps the invariant.
LEMMA QueueStep == QueueInv /\ [QueueNext]_allVars => QueueInv'
<1> SUFFICES ASSUME QueueInv, [QueueNext]_allVars PROVE QueueInv'
  OBVIOUS
<1>1. CASE QueueCalls
  <2>1. ASSUME NEW n \in 1 .. MaxSubmit, Submit(n) PROVE QueueInv'
    BY <2>1, CallStep, FeedQueueAssumption DEF Submit, OpNames, vars
  <2>2. ASSUME NEW name \in {"flush", "trigger"}, Flushing(name, 0) PROVE QueueInv'
    BY <2>2, CallStep DEF Flushing, OpNames, vars
  <2>3. ASSUME NEW m \in Meanings, Flushing("meaning", m) PROVE QueueInv'
    BY <2>3, CallStep DEF Flushing, OpNames, vars
  <2>4. ASSUME NEW f \in Factors, Flushing("scale", f) PROVE QueueInv'
    BY <2>4, CallStep DEF Flushing, OpNames, vars
  <2> QED
    BY <1>1, <2>1, <2>2, <2>3, <2>4 DEF QueueCalls
<1>2. CASE Flush
  <2>1. pc = "idle" /\ pc' = "transform" /\ op # NoOp
    <3>1. op.name # "none"
      BY <1>2 DEF Flush, FlushFirst
    <3>2. op # NoOp
      BY <3>1 DEF NoOp
    <3> QED
      BY <1>2, <3>2 DEF Flush, Send
  <2>2. UNCHANGED <<op, buffer, meaning, broken, submitted, delivered>>
    BY <1>2 DEF Flush, queue
  <2>3. ~broken
    BY <2>1 DEF QueueInv, Room
  <2> QED
    BY <2>1, <2>2, <2>3, BusStep
<1>3. CASE Bus
  <2>1. UNCHANGED <<op, buffer, meaning, broken, submitted, delivered>>
    BY <1>3 DEF Bus, queue
  <2>2. pc \in {"idle", "transform", "callback"}
    BY DEF QueueInv, QueueTypes
  <2>3. /\ pc' \in {"idle", "transform", "callback"} /\ (pc' = "idle" => pc = "idle")
        /\ (pc = "idle" /\ pc' # "idle" => ~broken)
    BY <1>3, <2>2
       DEF Bus, Ready, Driver, Send, TransformNew, CallbackAdd, CallbackRemoveAll, Transform,
           Done, TransformsDone, Callback
  <2> QED
    BY <2>1, <2>3, BusStep
<1>4. CASE UNCHANGED allVars
  <2>1. UNCHANGED <<pc, op, buffer, meaning, broken, submitted, delivered>>
    BY <1>4 DEF allVars, vars, queue
  <2>2. pc \in {"idle", "transform", "callback"}
    BY DEF QueueInv, QueueTypes
  <2> QED
    BY <2>1, <2>2, BusStep
<1> QED
  BY <1>1, <1>2, <1>3, <1>4, CopyStep, ReturnStep, TriggerStep, SentStep DEF QueueNext

\* The invariant of the queue is one.
LEMMA QueueCorrect == QueueSpec => []QueueInv
  BY QueueInitial, QueueStep, PTL DEF QueueSpec

\* For queues of every size, feed_queue_..._submit...() and flush neither lose,
\* repeat nor reorder a sample, and never write past the queue.
THEOREM SamplesInOrder == QueueSpec => []InOrder
<1>1. QueueInv => InOrder
  BY DEF QueueInv
<1> QED
  BY <1>1, QueueCorrect, PTL

\* feed_queue_analog_mq_unit() never changes the quantity of samples that were
\* submitted before it.
THEOREM MeaningsKept == QueueSpec => []MeaningKept
<1>1. QueueInv => MeaningKept
  BY DEF QueueInv, OneMeaning, MeaningKept
<1> QED
  BY <1>1, QueueCorrect, PTL

\* feed_queue_logic_send_trigger() sends the trigger behind all samples that were
\* submitted before it.
THEOREM TriggersInPlace == QueueSpec => []TriggerInPlace
<1>1. QueueInv => TriggerInPlace
  <2> SUFFICES ASSUME QueueInv, op.name = "trigger", ~QueuePacket PROVE delivered = submitted
    BY DEF TriggerInPlace
  <2>1. buffer = <<>>
    BY DEF QueueInv, TriggerAfter, QueuePacket, NoOp
  <2> QED
    BY <2>1 DEF QueueInv, QueueTypes, InOrder
<1> QED
  BY <1>1, QueueCorrect, PTL

-----------------------------------------------------------------------------
(* The callbacks of the bus.                                               *)

\* Callback number k is the k-th of the list.  During a hand-over those before
\* "next" have got the packet.
WalkInv ==
  /\ callbacks \in Seq(Ids) /\ Len(callbacks) <= MaxCallbacks
  /\ \A k \in 1 .. Len(callbacks) : callbacks[k] = k
  /\ next \in Nat \ {0} /\ sent \in Nat
  /\ since \in [Ids -> Int] /\ seen \in [Ids -> Nat]
  /\ pc \in {"idle", "transform", "callback"}
  /\ pc = "callback" => next <= Len(callbacks) + 1
  /\ \A k \in 1 .. Len(callbacks) :
       seen[k] = IF pc = "callback" /\ next <= k THEN sent - 1 - since[k] ELSE sent - since[k]

\* A step that leaves the lists and the walk alone.
LEMMA WalkIdle ==
  ASSUME WalkInv, UNCHANGED <<callbacks, since, seen, sent>>, next' \in Nat \ {0},
         pc # "callback", pc' \in {"idle", "transform"}
  PROVE  WalkInv'
  BY DEF WalkInv

\* A callback is added at the end of the list.
LEMMA WalkAdd == WalkInv /\ CallbackAdd => WalkInv'
<1> SUFFICES ASSUME WalkInv, CallbackAdd PROVE WalkInv'
  OBVIOUS
<1> DEFINE c == Len(callbacks) + 1
<1>1. /\ c \in Ids /\ pc # "transform" /\ callbacks' = Append(callbacks, c)
      /\ since' = [since EXCEPT ![c] = IF pc = "callback" THEN sent - 1 ELSE sent]
      /\ seen' = [seen EXCEPT ![c] = 0]
      /\ pc' = pc /\ next' = next /\ sent' = sent
  BY DataFeedAssumption DEF CallbackAdd, Ids, WalkInv
<1>2. /\ callbacks' \in Seq(Ids) /\ Len(callbacks') = c /\ Len(callbacks') <= MaxCallbacks
      /\ \A k \in 1 .. Len(callbacks') : callbacks'[k] = k
  BY <1>1, DataFeedAssumption DEF CallbackAdd, WalkInv
<1>3. since' \in [Ids -> Int] /\ seen' \in [Ids -> Nat]
  BY <1>1 DEF WalkInv
<1>4. ASSUME NEW k \in 1 .. Len(callbacks')
      PROVE  seen'[k] = IF pc' = "callback" /\ next' <= k THEN sent' - 1 - since'[k]
                                                         ELSE sent' - since'[k]
  <2>1. CASE k = c
    BY <1>1, <2>1 DEF WalkInv
  <2>2. CASE k # c
    <3>1. k \in 1 .. Len(callbacks) /\ k \in Ids
      BY <1>2, <1>4, <2>2, DataFeedAssumption DEF WalkInv, Ids
    <3>2. seen'[k] = seen[k] /\ since'[k] = since[k]
      BY <1>1, <2>2, <3>1 DEF WalkInv
    <3> QED
      BY <1>1, <3>1, <3>2 DEF WalkInv
  <2> QED
    BY <2>1, <2>2
<1> QED
  BY <1>1, <1>2, <1>3, <1>4 DEF WalkInv

\* The transforms are done, a callback gets the packet, all have got it.
LEMMA WalkStep == WalkInv /\ (TransformsDone \/ Callback \/ SendDone) => WalkInv'
<1> SUFFICES ASSUME WalkInv, TransformsDone \/ Callback \/ SendDone PROVE WalkInv'
  OBVIOUS
<1>1. CASE TransformsDone
  BY <1>1 DEF TransformsDone, WalkInv, lists
<1>2. CASE SendDone
  BY <1>2 DEF SendDone, Done, WalkInv, lists
<1>3. CASE Callback
  <2>0. next \in 1 .. Len(callbacks) /\ callbacks[next] = next
    BY <1>3 DEF Callback, WalkInv
  <2>1. /\ pc = "callback" /\ pc' = pc /\ next' = next + 1 /\ sent' = sent
        /\ callbacks' = callbacks /\ since' = since
        /\ seen' = [seen EXCEPT ![next] = @ + 1] /\ next \in Ids
    <3>1. next \in Ids
      BY <2>0, DataFeedAssumption DEF WalkInv, Ids
    <3> QED
      BY <1>3, <2>0, <3>1 DEF Callback, NextItem, lists
  <2>2. seen' \in [Ids -> Nat] /\ next' <= Len(callbacks') + 1
    BY <2>0, <2>1 DEF WalkInv
  <2>3. ASSUME NEW k \in 1 .. Len(callbacks)
        PROVE  seen'[k] = IF next' <= k THEN sent - 1 - since[k] ELSE sent - since[k]
    <3>1. k \in Ids
      BY DataFeedAssumption DEF WalkInv, Ids
    <3> QED
      BY <2>0, <2>1, <3>1 DEF WalkInv
  <2> QED
    BY <2>0, <2>1, <2>2, <2>3 DEF WalkInv
<1> QED
  BY <1>1, <1>2, <1>3

\* Every step of the bus, and of the queue on it, keeps the callbacks in step.
LEMMA WalkNext == WalkInv /\ [QueueNext]_allVars => WalkInv'
<1> SUFFICES ASSUME WalkInv, [QueueNext]_allVars PROVE WalkInv'
  OBVIOUS
<1>1. ASSUME NEW x, Send(x) PROVE WalkInv'
  <2>1. pc = "idle" /\ pc' = "transform" /\ next' = 1
    BY <1>1 DEF Send
  <2>2. UNCHANGED <<callbacks, since, seen, sent>>
    BY <1>1 DEF Send, lists
  <2> QED
    BY <2>1, <2>2, WalkIdle
<1>2. ASSUME UNCHANGED vars PROVE WalkInv'
  BY <1>2 DEF vars, lists, WalkInv
<1>3. ASSUME Transform PROVE WalkInv'
  <2>1. next' \in Nat \ {0} /\ pc' \in {"idle", "transform"} /\ pc # "callback"
    BY <1>3 DEF Transform, Done, NextItem, WalkInv
  <2> QED
    BY <1>3, <2>1, WalkIdle DEF Transform, lists
<1>4. ASSUME NEW mod, NEW f, TransformNew(mod, f) PROVE WalkInv'
  BY <1>4, WalkIdle DEF TransformNew, WalkInv
<1>5. ASSUME CallbackRemoveAll PROVE WalkInv'
  <2>1. callbacks' = <<>> /\ callbacks' \in Seq(Ids) /\ Len(callbacks') = 0 /\ pc' = "idle"
    BY <1>5 DEF CallbackRemoveAll
  <2> QED
    BY <1>5, <2>1, DataFeedAssumption DEF CallbackRemoveAll, WalkInv
<1>6. CASE Bus
  BY <1>1, <1>3, <1>4, <1>5, <1>6, WalkAdd, WalkStep DEF Bus, Driver
<1>7. CASE QueueCalls
  BY <1>2, <1>7 DEF QueueCalls, Submit, Flushing
<1>8. CASE Copy
  BY <1>1, <1>2, <1>8 DEF Copy
<1>9. CASE Flush \/ SendTrigger
  BY <1>1, <1>9 DEF Flush, SendTrigger
<1>10. CASE Return
  BY <1>2, <1>10 DEF Return
<1>11. CASE Sent
  BY <1>11, WalkStep DEF Sent
<1>12. CASE Refused
  BY <1>3, <1>12 DEF Refused
<1>13. CASE UNCHANGED allVars
  BY <1>2, <1>13 DEF allVars
<1> QED
  BY <1>6, <1>7, <1>8, <1>9, <1>10, <1>11, <1>12, <1>13 DEF QueueNext

\* For every number of callbacks, sr_session_send() hands each packet that passes the
\* transforms to each of them once, those added during the hand-over included.
THEOREM CallbacksAllInStep == QueueSpec => []CallbacksInStep
<1>1. QueueInit => WalkInv
  BY DataFeedAssumption DEF QueueInit, Init, WalkInv
<1>2. WalkInv => CallbacksInStep
  BY DEF WalkInv, CallbacksInStep
<1> QED
  BY <1>1, <1>2, WalkNext, PTL DEF QueueSpec

-----------------------------------------------------------------------------
(* Types, with the width of the integers of a scale.  The encoding of a queue *)
(* is what the transforms have left of it, so that typing it needs the type   *)
(* of the packet on its way, and the bounds need what the call in progress    *)
(* still has to do.                                                         *)

Transforms == [mod : {"nop", "invert", "scale"}, factor : Factors \cup {Unity}]

WellFormed(x) ==
  \/ x \in {NoPacket, Other}
  \/ \E b \in {0, 1}, f \in {"split", "cross"} : x = Logic(b, f)
  \/ \E s \in Scales : x = Analog(s)

BusTypes ==
  /\ transforms \in Seq(Transforms) /\ WellFormed(packet) /\ count \in 0 .. MaxPackets
  /\ since \in [Ids -> Nat] /\ (pc = "callback" => sent >= 1)

CallTypes ==
  /\ kind \in {"logic", "analog"} /\ submitted <= MaxSamples
  /\ encoding \in Scales /\ scale \in Scales
  /\ op.name = "submit" => submitted + op.left <= MaxSamples
  /\ op.name = "scale" => op.to \in Factors

\* The packet on its way is the queue's own, and its kind is that of the queue.
OwnPacket ==
  pc # "idle" /\ QueuePacket /\ kind = "analog" => \E s \in Scales : packet = Analog(s)

FeedInv == BusTypes /\ CallTypes /\ OwnPacket

\* Conversions end in the range of the integer.
LEMMA Conversions ==
  ASSUME NEW x \in Int
  PROVE  Signed(x) \in -Half .. Half - 1 /\ Unsigned(x) \in 0 .. 2 * Half - 1
<1>1. ASSUME NEW y \in Int, NEW m \in Nat \ {0} PROVE y % m \in 0 .. m - 1
  OBVIOUS
<1>2. 2 * Half \in Nat \ {0} /\ Half \in Nat
  BY DataFeedAssumption
<1>3. (x + Half) % (2 * Half) \in 0 .. 2 * Half - 1 /\ x % (2 * Half) \in 0 .. 2 * Half - 1
  BY <1>1, <1>2
<1> QED BY <1>2, <1>3 DEF Signed, Unsigned

\* Unity is a scale, and so is every factor.
LEMMA ScaleFacts == Unity \in Scales /\ Factors \subseteq Scales
BY DataFeedAssumption DEF Unity, Scales

\* The transforms make scales of scales.
LEMMA TransformedScales ==
  ASSUME NEW s \in Scales
  PROVE  /\ \A f \in Scales : Scaled(s, f) \in Scales
         /\ ~(s[2] > Half - 1) => Inverted(s) \in Scales
<1>1. s[1] \in Int /\ s[2] \in Int /\ s[1] \in -Half .. Half - 1 /\ s[2] \in 0 .. 2 * Half - 1 /\ Half \in Nat
  BY DataFeedAssumption DEF Scales
<1>2. ASSUME NEW f \in Scales PROVE Scaled(s, f) \in Scales
  <2>1. f[1] \in Int /\ f[2] \in Int
    BY DataFeedAssumption DEF Scales
  <2>2. s[1] * f[1] \in Int /\ s[2] * f[2] \in Int
    BY <1>1, <2>1
  <2> QED BY <2>2, Conversions DEF Scaled, Scales
<1>3. ASSUME ~(s[2] > Half - 1) PROVE Inverted(s) \in Scales
  <2>1. CASE s[1] < 0
    <3>1. -s[2] \in Int /\ -s[1] \in Int
      BY <1>1
    <3> QED BY <2>1, <3>1, Conversions DEF Inverted, Scales
  <2>2. CASE ~(s[1] < 0)
    <3>1. s[2] \in -Half .. Half - 1 /\ s[1] \in 0 .. 2 * Half - 1
      BY <1>1, <1>3, <2>2
    <3> QED BY <2>2, <3>1 DEF Inverted, Scales
  <2> QED BY <2>1, <2>2
<1> QED BY <1>2, <1>3

\* A transform makes a packet of the same kind of a packet it does not refuse.
LEMMA Received ==
  ASSUME NEW t \in Transforms, NEW x, WellFormed(x), ~Refuses(t, x)
  PROVE  /\ WellFormed(receive(t, x))
         /\ (\E s \in Scales : x = Analog(s)) => \E s \in Scales : receive(t, x) = Analog(s)
<1>1. t.mod \in {"nop", "invert", "scale"} /\ t.factor \in Scales
  BY ScaleFacts DEF Transforms
<1>2. CASE x \in {NoPacket, Other}
  <2>1. x.type \in {"none", "other"}
    BY <1>2 DEF NoPacket, Other
  <2>2. receive(t, x) = x
    BY <2>1 DEF receive
  <2> QED BY <1>2, <2>2 DEF WellFormed
<1>3. ASSUME NEW b \in {0, 1}, NEW f \in {"split", "cross"}, x = Logic(b, f)
      PROVE  WellFormed(receive(t, x)) /\ x.type = "logic"
  <2>1. x.type = "logic" /\ [x EXCEPT !.bit = 1 - @] = Logic(1 - b, f) /\ 1 - b \in {0, 1}
    BY <1>3 DEF Logic
  <2>2. receive(t, x) = x \/ receive(t, x) = Logic(1 - b, f)
    BY <2>1 DEF receive
  <2> QED BY <1>3, <2>1, <2>2 DEF WellFormed
<1>4. ASSUME NEW s \in Scales, x = Analog(s) PROVE \E r \in Scales : receive(t, x) = Analog(r)
  <2>1. x.type = "analog" /\ x.scale = s /\ \A v : [x EXCEPT !.scale = v] = Analog(v)
    BY <1>4 DEF Analog
  <2>2. CASE t.mod = "invert"
    <3>1. Inverted(s) \in Scales
      BY <2>1, <2>2, TransformedScales DEF Refuses
    <3>2. receive(t, x) = Analog(Inverted(s))
      BY <2>1, <2>2 DEF receive
    <3> QED BY <3>1, <3>2
  <2>3. CASE t.mod = "scale"
    <3>1. Scaled(s, t.factor) \in Scales
      BY <1>1, TransformedScales
    <3>2. receive(t, x) = Analog(Scaled(s, t.factor))
      BY <2>1, <2>3 DEF receive
    <3> QED BY <3>1, <3>2
  <2>4. CASE t.mod = "nop"
    BY <1>4, <2>4 DEF receive
  <2> QED BY <1>1, <2>2, <2>3, <2>4
<1>5. WellFormed(receive(t, x))
  BY <1>2, <1>3, <1>4 DEF WellFormed
<1> QED BY <1>4, <1>5

\* What sr_session_send() takes is a packet.
LEMMA SentWellFormed ==
  ASSUME NEW x, Send(x),
         \/ x = Other
         \/ \E b \in {0, 1}, f \in {"split", "cross", "other"} : x = Logic(b, f)
         \/ \E s \in Scales : x = Analog(s)
  PROVE  WellFormed(packet') /\ ((\E s \in Scales : x = Analog(s)) => packet' = x)
<1>1. CASE x = Other
  BY <1>1 DEF Send, Other, WellFormed, Analog
<1>2. ASSUME NEW b \in {0, 1}, NEW f \in {"split", "cross", "other"}, x = Logic(b, f)
      PROVE  WellFormed(packet') /\ x.type = "logic"
  <2>1. x.type = "logic" /\ [x EXCEPT !.format = Format(@)] = Logic(b, Format(f))
        /\ Format(f) \in {"split", "cross"}
    BY <1>2 DEF Logic, Format
  <2> QED BY <2>1 DEF Send, WellFormed
<1>3. ASSUME NEW s \in Scales, x = Analog(s) PROVE WellFormed(packet') /\ packet' = x
  <2>1. x.type = "analog"
    BY <1>3 DEF Analog
  <2> QED BY <1>3, <2>1 DEF Send, WellFormed
<1> QED BY <1>1, <1>2, <1>3

\* The packet of a queue is one.
LEMMA PacketOfQueue ==
  ASSUME CallTypes
  PROVE  /\ kind = "logic" => Packet = Logic(0, "split")
         /\ kind = "analog" => \E s \in Scales : Packet = Analog(s)
BY DEF CallTypes, Packet

\* sr_session_send() takes a packet of the driver or of the queue.
LEMMA BusSend ==
  ASSUME FeedInv, NEW x, Send(x),
         \/ x \in {Other, Packet, Analog(Unity)}
         \/ \E b \in {0, 1}, f \in {"split", "cross", "other"} : x = Logic(b, f)
  PROVE  /\ BusTypes' /\ pc = "idle" /\ pc' = "transform"
         /\ x = Packet /\ kind = "analog" => \E s \in Scales : packet' = Analog(s)
<1>1. \/ x = Other
      \/ \E b \in {0, 1}, f \in {"split", "cross", "other"} : x = Logic(b, f)
      \/ \E s \in Scales : x = Analog(s)
  BY PacketOfQueue, ScaleFacts DEF FeedInv, CallTypes
<1>2. WellFormed(packet') /\ ((\E s \in Scales : x = Analog(s)) => packet' = x)
  BY <1>1, SentWellFormed
<1>3. BusTypes'
  <2>1. count' = count + 1 /\ count < MaxPackets /\ pc' = "transform"
        /\ UNCHANGED <<transforms, since>>
    BY DEF Send, lists
  <2>2. count' \in 0 .. MaxPackets
    BY <2>1, DataFeedAssumption DEF FeedInv, BusTypes
  <2> QED BY <1>2, <2>1, <2>2 DEF FeedInv, BusTypes, WellFormed
<1>4. x = Packet /\ kind = "analog" => \E s \in Scales : packet' = Analog(s)
  BY <1>2, PacketOfQueue DEF FeedInv
<1> QED BY <1>3, <1>4 DEF Send

\* The transforms work on the packet.
LEMMA BusTransform ==
  ASSUME FeedInv, WalkInv, Transform
  PROVE  /\ BusTypes'
         /\ pc' # "idle" /\ (\E s \in Scales : packet = Analog(s))
              => \E s \in Scales : packet' = Analog(s)
<1>1. transforms[next] \in Transforms /\ next \in Nat
  BY DEF Transform, WalkInv, FeedInv, BusTypes
<1>2. CASE Refuses(transforms[next], packet)
  <2>1. packet' = NoPacket /\ pc' = "idle"
    BY <1>2 DEF Transform, Done
  <2>2. WellFormed(packet')
    BY <2>1 DEF WellFormed
  <2>3. UNCHANGED <<transforms, count, since>>
    BY DEF Transform, lists
  <2> QED BY <2>1, <2>2, <2>3 DEF FeedInv, BusTypes, WellFormed
<1>3. CASE ~Refuses(transforms[next], packet)
  <2>1. packet' = receive(transforms[next], packet) /\ pc' = pc
    BY <1>3 DEF Transform
  <2>2. /\ WellFormed(packet')
        /\ (\E s \in Scales : packet = Analog(s)) => \E s \in Scales : packet' = Analog(s)
    BY <1>1, <1>3, <2>1, Received DEF FeedInv, BusTypes
  <2>3. UNCHANGED <<transforms, count, since, sent>>
    BY DEF Transform, lists
  <2> QED BY <2>1, <2>2, <2>3 DEF FeedInv, BusTypes, WellFormed
<1> QED BY <1>2, <1>3

\* The other steps of the bus.
LEMMA BusOther ==
  ASSUME FeedInv, WalkInv, 
         \/ \E mod \in {"nop", "invert", "scale"} :
              \E f \in (IF mod = "scale" THEN Factors ELSE {Unity}) : TransformNew(mod, f)
         \/ CallbackAdd \/ CallbackRemoveAll \/ TransformsDone \/ Callback
  PROVE  BusTypes' /\ packet' = packet /\ (pc' # "idle" => pc # "idle")
<1>1. ASSUME NEW mod \in {"nop", "invert", "scale"},
             NEW f \in (IF mod = "scale" THEN Factors ELSE {Unity}), TransformNew(mod, f)
      PROVE  BusTypes' /\ packet' = packet /\ (pc' # "idle" => pc # "idle")
  <2>1. [mod |-> mod, factor |-> f] \in Transforms
    BY DEF Transforms
  <2>2. transforms' \in Seq(Transforms)
    BY <1>1, <2>1 DEF TransformNew, FeedInv, BusTypes
  <2> QED BY <1>1, <2>2 DEF TransformNew, FeedInv, BusTypes, WellFormed
<1>2. CASE CallbackAdd
  <2>1. Len(callbacks) + 1 \in Ids
    BY <1>2, DataFeedAssumption DEF CallbackAdd, WalkInv, Ids
  <2>2. (IF pc = "callback" THEN sent - 1 ELSE sent) \in Nat
    BY DEF WalkInv, FeedInv, BusTypes
  <2>3. since' \in [Ids -> Nat]
    BY <1>2, <2>1, <2>2 DEF CallbackAdd, FeedInv, BusTypes
  <2> QED BY <1>2, <2>3 DEF CallbackAdd, FeedInv, BusTypes, WellFormed
<1>3. CASE CallbackRemoveAll
  BY <1>3 DEF CallbackRemoveAll, FeedInv, BusTypes, WellFormed
<1>4. CASE TransformsDone
  <2>1. sent' \in Nat \ {0} /\ packet' = packet /\ pc = "transform"
    BY <1>4 DEF TransformsDone, WalkInv
  <2>2. UNCHANGED <<transforms, count, since>>
    BY <1>4 DEF TransformsDone, lists
  <2> QED BY <2>1, <2>2 DEF FeedInv, BusTypes, WellFormed
<1>5. CASE Callback
  BY <1>5 DEF Callback, lists, FeedInv, BusTypes, WellFormed
<1> QED BY <1>1, <1>2, <1>3, <1>4, <1>5

\* What is left of the packet of a queue is a scale.
LEMMA LeftIsScale ==
  ASSUME FeedInv, pc # "idle"
  PROVE  Left \in Scales
<1>1. CASE kind = "analog" /\ QueuePacket
  <2>1. PICK s \in Scales : packet = Analog(s)
    BY <1>1 DEF FeedInv, OwnPacket
  <2>2. packet.scale = s
    BY <2>1 DEF Analog
  <2> QED BY <1>1, <2>2 DEF Left
<1>2. CASE ~(kind = "analog" /\ QueuePacket)
  BY <1>2 DEF Left, FeedInv, CallTypes
<1> QED BY <1>1, <1>2

\* Steps of the bus keep the types of the queue, which they leave alone.
LEMMA FeedBus == FeedInv /\ WalkInv /\ Bus => FeedInv'
<1> SUFFICES ASSUME FeedInv, WalkInv, Bus PROVE FeedInv'
  OBVIOUS
<1>1. UNCHANGED <<kind, encoding, scale, op, submitted>>
  BY DEF Bus, queue
<1>2. CallTypes'
  BY <1>1 DEF FeedInv, CallTypes
<1>3. QueuePacket' = QueuePacket
  BY <1>1 DEF QueuePacket
<1>4. CASE op = NoOp /\ Driver
  <2>1. PICK x : /\ Send(x)
                 /\ \/ x \in {Other, Packet, Analog(Unity)}
                    \/ \E b \in {0, 1}, f \in {"split", "cross", "other"} : x = Logic(b, f)
    BY <1>4 DEF Driver
  <2>2. BusTypes'
    BY <2>1, BusSend
  <2>3. OwnPacket'
    BY <1>3, <1>4 DEF QueuePacket, OwnPacket
  <2> QED BY <1>2, <2>2, <2>3 DEF FeedInv
<1>5. CASE Transform /\ pc' # "idle"
  <2>1. pc = "transform"
    BY <1>5 DEF Transform
  <2> QED BY <1>1, <1>2, <1>3, <1>5, <2>1, BusTransform DEF FeedInv, OwnPacket
<1>6. CASE \/ \E mod \in {"nop", "invert", "scale"} :
               \E f \in (IF mod = "scale" THEN Factors ELSE {Unity}) : TransformNew(mod, f)
           \/ CallbackAdd \/ CallbackRemoveAll \/ TransformsDone \/ Callback
  <2>1. BusTypes' /\ packet' = packet /\ (pc' # "idle" => pc # "idle")
    BY <1>6, BusOther
  <2> QED BY <1>1, <1>2, <1>3, <2>1 DEF FeedInv, OwnPacket
<1> QED BY <1>4, <1>5, <1>6 DEF Bus, Ready

\* A step of the queue that leaves the bus alone.
LEMMA BusAlone == ASSUME FeedInv, UNCHANGED vars PROVE BusTypes'
BY DEF FeedInv, BusTypes, WellFormed, vars, lists

\* Every step of the queue and of the bus keeps the types.
LEMMA FeedNext == QueueInv /\ WalkInv /\ FeedInv /\ [QueueNext]_allVars => FeedInv'
<1> SUFFICES ASSUME QueueInv, WalkInv, FeedInv, [QueueNext]_allVars PROVE FeedInv'
  OBVIOUS
<1>1. CASE QueueCalls
  <2>1. ASSUME NEW name, NEW left, NEW to, Ready, Call(name, left, to), UNCHANGED vars,
               UNCHANGED <<kind, encoding, scale, submitted>>,
               name = "submit" => submitted + left <= MaxSamples,
               name = "scale" => to \in Factors
        PROVE  FeedInv'
    <3>1. CallTypes'
      BY <2>1 DEF Call, FeedInv, CallTypes
    <3>2. OwnPacket'
      BY <2>1 DEF Ready, OwnPacket, vars
    <3> QED BY <2>1, <3>1, <3>2, BusAlone DEF FeedInv
  <2>2. ASSUME NEW n \in 1 .. MaxSubmit, Submit(n) PROVE FeedInv'
    BY <2>1, <2>2 DEF Submit
  <2>3. ASSUME NEW name \in {"flush", "trigger", "meaning"}, NEW to, Flushing(name, to)
        PROVE  FeedInv'
    BY <2>1, <2>3 DEF Flushing
  <2>4. ASSUME NEW f \in Factors, Flushing("scale", f) PROVE FeedInv'
    BY <2>1, <2>4 DEF Flushing
  <2> QED BY <1>1, <2>2, <2>3, <2>4 DEF QueueCalls
<1>2. CASE Copy
  <2>1. /\ UNCHANGED <<kind, encoding, scale>> /\ submitted' = submitted + 1
        /\ op' = [op EXCEPT !.left = @ - 1] /\ op.name = "submit" /\ op.left > 0 /\ pc = "idle"
    BY <1>2 DEF Copy
  <2>2. op'.name = "submit" /\ op'.left = op.left - 1 /\ submitted \in Nat /\ op.left \in Nat
    BY <2>1 DEF QueueInv, QueueTypes
  <2>3. submitted + op.left <= MaxSamples
    BY <2>1 DEF FeedInv, CallTypes
  <2>4. CallTypes'
    BY <2>1, <2>2, <2>3, FeedQueueAssumption DEF FeedInv, CallTypes
  <2>5. BusTypes' /\ OwnPacket'
    <3>1. CASE UNCHANGED vars
      BY <2>1, <3>1, BusAlone DEF OwnPacket, vars
    <3>2. CASE Send(Packet)
      BY <2>1, <3>2, BusSend DEF OwnPacket
    <3> QED BY <1>2, <3>1, <3>2 DEF Copy
  <2> QED BY <2>4, <2>5 DEF FeedInv
<1>3. CASE Flush
  <2>1. Send(Packet) /\ UNCHANGED <<kind, encoding, scale, op, submitted>>
    BY <1>3 DEF Flush, queue
  <2>2. CallTypes'
    BY <2>1 DEF FeedInv, CallTypes
  <2>3. BusTypes' /\ OwnPacket'
    BY <2>1, BusSend DEF OwnPacket
  <2> QED BY <2>2, <2>3 DEF FeedInv
<1>4. CASE Return
  <2>1. /\ UNCHANGED vars /\ UNCHANGED <<kind, submitted>> /\ op' = NoOp
        /\ encoding' = IF op.name = "scale" THEN op.to ELSE encoding
        /\ scale' = IF op.name = "scale" THEN op.to ELSE scale
    BY <1>4 DEF Return
  <2>2. CallTypes'
    BY <2>1, ScaleFacts DEF FeedInv, CallTypes, NoOp
  <2>3. OwnPacket'
    BY <2>1 DEF OwnPacket, QueuePacket
  <2> QED BY <2>1, <2>2, <2>3, BusAlone DEF FeedInv
<1>5. CASE SendTrigger
  <2>1. /\ Send(Other) /\ UNCHANGED <<kind, encoding, scale, submitted>>
        /\ op.name = "trigger" /\ op' = [op EXCEPT !.left = 1]
    BY <1>5 DEF SendTrigger
  <2>2. op'.name = "trigger" /\ op'.left = 1
    BY <2>1 DEF QueueInv, QueueTypes
  <2>3. CallTypes'
    BY <2>1, <2>2 DEF FeedInv, CallTypes
  <2>4. OwnPacket'
    BY <2>2 DEF OwnPacket, QueuePacket
  <2> QED BY <2>1, <2>3, <2>4, BusSend DEF FeedInv
<1>6. CASE Sent \/ Refused
  <2>1. pc # "idle" /\ pc' = "idle" /\ packet' = NoPacket
    BY <1>6 DEF Sent, Refused, SendDone, Transform, Done
  <2>2. UNCHANGED <<kind, scale, submitted, transforms, count, since>> /\ encoding' = Left
        /\ op' \in {op, NoOp}
    BY <1>6 DEF Sent, Refused, SendDone, Transform, lists
  <2>3. CallTypes'
    BY <2>1, <2>2, LeftIsScale DEF FeedInv, CallTypes, NoOp
  <2>4. OwnPacket'
    BY <2>1 DEF OwnPacket
  <2>5. BusTypes'
    BY <2>1, <2>2 DEF FeedInv, BusTypes, WellFormed
  <2> QED BY <2>3, <2>4, <2>5 DEF FeedInv
<1>7. CASE UNCHANGED allVars
  <2>1. UNCHANGED vars /\ UNCHANGED <<kind, encoding, scale, op, submitted>>
    BY <1>7 DEF allVars, queue
  <2>2. UNCHANGED <<pc, packet>>
    BY <2>1 DEF vars
  <2>3. CallTypes' /\ OwnPacket'
    BY <2>1, <2>2 DEF FeedInv, CallTypes, OwnPacket, QueuePacket
  <2> QED BY <2>1, <2>3, BusAlone DEF FeedInv
<1> QED
  BY <1>1, <1>2, <1>3, <1>4, <1>5, <1>6, <1>7, FeedBus DEF QueueNext

\* The bus begins idle.
LEMMA FeedInitial == QueueInit => QueueInv /\ WalkInv /\ FeedInv
<1> SUFFICES ASSUME QueueInit PROVE WalkInv /\ FeedInv
  BY QueueInitial
<1>1. WalkInv
  BY DataFeedAssumption DEF QueueInit, Init, WalkInv
<1>2. BusTypes
  <2>1. transforms \in Seq(Transforms)
    BY DEF QueueInit, Init
  <2> QED
    BY <2>1, DataFeedAssumption DEF QueueInit, Init, BusTypes, WellFormed
<1>3. CallTypes
  BY ScaleFacts, FeedQueueAssumption DEF QueueInit, CallTypes, NoOp
<1>4. OwnPacket
  BY DEF QueueInit, Init, OwnPacket
<1> QED
  BY <1>1, <1>2, <1>3, <1>4 DEF FeedInv

\* For every width of the integers and every bound, the packet on its way is one, the
\* scale that the transforms leave in a queue is a fraction of an int64 and an uint64
\* again, a queue collects samples of known quantities, and a callback that is added
\* during the hand-over of a packet is credited with that packet.
THEOREM QueueTypesOK == QueueSpec => []QueueTypeOK
<1>1. QueueInv /\ WalkInv /\ FeedInv => QueueTypeOK
  <2> SUFFICES ASSUME QueueInv, WalkInv, FeedInv PROVE QueueTypeOK
    OBVIOUS
  <2>1. IsPacket(packet)
    BY DEF FeedInv, BusTypes, WellFormed, IsPacket, Analog
  <2>2. TypeOK
    BY <2>1 DEF TypeOK, WalkInv, FeedInv, BusTypes, Transforms
  <2>3. submitted \in 0 .. MaxSamples
    BY FeedQueueAssumption DEF QueueInv, QueueTypes, FeedInv, CallTypes
  <2>4. op \in [name : OpNames, left : Nat, to : {op.to}]
    BY DEF QueueInv, QueueTypes
  <2> QED BY <2>2, <2>3, <2>4 DEF QueueTypeOK, QueueInv, QueueTypes, FeedInv, CallTypes
<1> QED
  BY <1>1, FeedInitial, QueueStep, WalkNext, FeedNext, PTL DEF QueueSpec

-----------------------------------------------------------------------------
(* What the transforms make of a packet.  The invariant compares the packet, in  *)
(* integers of limited width, with an effect computed in integers without bounds. *)

\* Induction over a set of numbers.
LEMMA SetInduction ==
  ASSUME NEW S, 0 \in S, \A n \in Nat : n \in S => n + 1 \in S
  PROVE  Nat \subseteq S
<1> SUFFICES ASSUME Nat \ S # {} PROVE FALSE
  OBVIOUS
<1>1. PICK m \in Nat \ S : \A y \in Nat \ S : ~(<<y, m>> \in OpToRel(<, Nat))
  <2> DEFINE R == OpToRel(<, Nat)
  <2>1. IsWellFoundedOn(R, Nat)
    BY NatLessThanWellFounded
  <2> HIDE DEF R
  <2>2. \E x \in Nat \ S : \A y \in Nat \ S : ~(<<y, x>> \in R)
    BY <2>1, WFMin
  <2> QED
    BY <2>2 DEF R
<1>2. \A y \in Nat \ S : ~(y < m)
  BY <1>1 DEF OpToRel
<1>3. m # 0 /\ m - 1 \in Nat
  OBVIOUS
<1>4. m - 1 \in S
  BY <1>2, <1>3
<1> QED
  BY <1>3, <1>4

\* The recursion of Effect has a solution, for lists of every length.
LEMMA EffectDef ==
  ASSUME NEW ts, Len(ts) \in Nat, NEW x
  PROVE  /\ Effect(ts, x)[0] = Nothing(x)
         /\ \A k \in 1 .. Len(ts) : Effect(ts, x)[k] = Then(ts[k], Effect(ts, x)[k - 1])
<1> DEFINE Eq(g, n) == g = [k \in 0 .. n |-> IF k = 0 THEN Nothing(x) ELSE Then(ts[k], g[k - 1])]
           S == {n \in Nat : \E g : Eq(g, n)}
<1>1. 0 \in S
  <2>1. Eq([k \in 0 .. 0 |-> Nothing(x)], 0)
    OBVIOUS
  <2> QED
    BY <2>1
<1>2. ASSUME NEW n \in Nat, n \in S PROVE n + 1 \in S
  <2>1. PICK g : Eq(g, n)
    BY <1>2
  <2> DEFINE h == [k \in 0 .. n + 1 |-> IF k <= n THEN g[k] ELSE Then(ts[n + 1], g[n])]
  <2>2. ASSUME NEW k \in 0 .. n + 1
        PROVE  h[k] = IF k = 0 THEN Nothing(x) ELSE Then(ts[k], h[k - 1])
    <3>1. CASE k = 0
      BY <2>1, <3>1
    <3>2. CASE k # 0 /\ k <= n
      BY <2>1, <3>2
    <3>3. CASE k = n + 1
      BY <3>3
    <3> QED
      BY <3>1, <3>2, <3>3
  <2>3. Eq(h, n + 1)
    BY <2>2
  <2>4. \E g2 : Eq(g2, n + 1)
    <3> HIDE DEF h, Eq
    <3> QED BY <2>3
  <2> HIDE DEF Eq
  <2> QED
    BY <2>4
<1>3. Len(ts) \in S
  <2> HIDE DEF S
  <2> QED BY <1>1, <1>2, SetInduction
<1>4. PICK g : Eq(g, Len(ts))
  BY <1>3
<1>5. Eq(Effect(ts, x), Len(ts))
  BY <1>4 DEF Effect
<1> QED
  BY <1>5

Effects == [flips : Nat, num : Int, den : Int]

\* What a sender hands to sr_session_send().
Given(x) ==
  \/ x = Other
  \/ \E b \in {0, 1}, f \in {"split", "cross", "other"} : x = Logic(b, f)
  \/ \E s \in Scales : x = Analog(s)

\* An effect followed by a transform is one.
LEMMA ThenEffect ==
  ASSUME NEW t \in Transforms, NEW e \in Effects
  PROVE  Then(t, e) \in Effects
<1>1. t.factor[1] \in Int /\ t.factor[2] \in Int
  BY ScaleFacts, DataFeedAssumption DEF Transforms, Scales
<1>2. e.num * t.factor[1] \in Int /\ e.den * t.factor[2] \in Int
  BY <1>1 DEF Effects
<1> QED
  BY <1>2 DEF Effects, Then

\* Values in the range of their integer survive the conversion.
LEMMA Converted ==
  /\ \A n \in -Half .. Half - 1 : Signed(n) = n
  /\ \A n \in 0 .. 2 * Half - 1 : Unsigned(n) = n
<1>1. ASSUME NEW m \in Nat \ {0}, NEW y \in 0 .. m - 1 PROVE y % m = y
  OBVIOUS
<1>2. 2 * Half \in Nat \ {0} /\ Half \in Nat
  BY DataFeedAssumption
<1>3. ASSUME NEW n \in -Half .. Half - 1 PROVE Signed(n) = n
  <2>1. n + Half \in 0 .. 2 * Half - 1
    BY <1>2
  <2>2. (n + Half) % (2 * Half) = n + Half
    BY <1>1, <1>2, <2>1
  <2> QED BY <1>2, <2>2 DEF Signed
<1> QED
  BY <1>1, <1>2, <1>3 DEF Unsigned

\* invert.c computes the reciprocal, whatever the signs, if it does not refuse.
LEMMA InvertedExactly ==
  ASSUME NEW e \in Effects, e.num # 0, e.den # 0, Fraction(e) \in Scales,
         ~(Fraction(e)[2] > Half - 1)
  PROVE  Inverted(Fraction(e)) = Fraction([flips |-> e.flips + 1, num |-> e.den, den |-> e.num])
<1> DEFINE n == e.num
           d == e.den
<1>1. n \in Int /\ d \in Int /\ Half \in Nat
  BY DataFeedAssumption DEF Effects
<1>2. Fraction([flips |-> e.flips + 1, num |-> d, den |-> n]) = IF n < 0 THEN <<-d, -n>> ELSE <<d, n>>
  BY DEF Fraction
<1>3. CASE d < 0
  <2>1. Fraction(e) = <<-n, -d>>
    BY <1>3 DEF Fraction
  <2>2. -n \in -Half .. Half - 1 /\ -d \in 0 .. 2 * Half - 1 /\ -d <= Half - 1
    BY <1>1, <2>1 DEF Scales
  <2>3. -(-d) = d /\ -(-n) = n /\ d \in -Half .. Half - 1
    BY <1>1, <1>3, <2>2
  <2>4. n > 0 => n \in 0 .. 2 * Half - 1
    BY <1>1, <2>2, DataFeedAssumption
  <2>5. CASE n > 0
    <3>1. Inverted(<<-n, -d>>) = <<Signed(-(-d)), Unsigned(-(-n))>>
      BY <1>1, <2>5 DEF Inverted
    <3> QED BY <1>1, <1>2, <2>1, <2>3, <2>4, <2>5, <3>1, Converted
  <2>6. CASE n < 0
    BY <1>1, <1>2, <2>1, <2>6 DEF Inverted
  <2> QED BY <1>1, <2>5, <2>6
<1>4. CASE ~(d < 0)
  <2>1. Fraction(e) = <<n, d>>
    BY <1>4 DEF Fraction
  <2>2. n \in -Half .. Half - 1 /\ d \in 0 .. 2 * Half - 1 /\ d <= Half - 1
    BY <1>1, <2>1 DEF Scales
  <2>3. CASE n < 0
    <3>1. -d \in -Half .. Half - 1 /\ -n \in 0 .. 2 * Half - 1
      BY <1>1, <2>2, <2>3, DataFeedAssumption
    <3>2. Inverted(<<n, d>>) = <<Signed(-d), Unsigned(-n)>>
      BY <2>3 DEF Inverted
    <3> QED BY <1>2, <2>1, <2>3, <3>1, <3>2, Converted
  <2>4. CASE ~(n < 0)
    BY <1>2, <2>1, <2>4 DEF Inverted
  <2> QED BY <2>3, <2>4
<1> QED BY <1>3, <1>4

\* scale.c computes the product, whatever the signs, unless it overflows.
LEMMA ScaledExactly ==
  ASSUME NEW e \in Effects, NEW f \in Scales, NEW r \in Effects,
         r.num = e.num * f[1], r.den = e.den * f[2],
         e.den # 0, r.den # 0, Fraction(r) \in Scales
  PROVE  Scaled(Fraction(e), f) = Fraction(r)
<1>1. /\ e.num \in Int /\ e.den \in Int /\ r.num \in Int /\ r.den \in Int
      /\ f[1] \in Int /\ f[2] \in Nat /\ Half \in Nat
  BY DataFeedAssumption DEF Effects, Scales
<1>3. ASSUME NEW a \in Int, NEW b \in Int PROVE (-a) * b = -(a * b)
  OBVIOUS
<1>4. Fraction(r)[1] \in -Half .. Half - 1 /\ Fraction(r)[2] \in 0 .. 2 * Half - 1
  BY DEF Scales
<1>5. CASE e.den < 0
  <2>1. r.den < 0
    <3>1. ASSUME NEW a \in Nat, NEW b \in Nat PROVE a * b \in Nat
      OBVIOUS
    <3>2. (-e.den) * f[2] \in Nat /\ (-e.den) * f[2] = -r.den
      BY <1>1, <1>3, <1>5, <3>1
    <3> QED BY <1>1, <3>2
  <2>2. Fraction(e) = <<-e.num, -e.den>> /\ Fraction(r) = <<-r.num, -r.den>>
    BY <1>5, <2>1 DEF Fraction
  <2>3. (-e.num) * f[1] = -r.num /\ (-e.den) * f[2] = -r.den
    BY <1>1, <1>3
  <2>4. Scaled(<<-e.num, -e.den>>, f) = <<Signed(-r.num), Unsigned(-r.den)>>
    BY <2>3 DEF Scaled
  <2> QED BY <1>4, <2>2, <2>4, Converted
<1>6. CASE ~(e.den < 0)
  <2>1. ~(r.den < 0)
    <3>1. ASSUME NEW a \in Nat, NEW b \in Nat PROVE a * b \in Nat
      OBVIOUS
    <3> QED BY <1>1, <1>6, <3>1
  <2>2. Fraction(e) = <<e.num, e.den>> /\ Fraction(r) = <<r.num, r.den>>
    BY <1>6, <2>1 DEF Fraction
  <2>3. Scaled(<<e.num, e.den>>, f) = <<Signed(r.num), Unsigned(r.den)>>
    BY DEF Scaled
  <2> QED BY <1>4, <2>2, <2>3, Converted
<1> QED BY <1>5, <1>6

\* A receive method does to a packet what its transform does to the values.
LEMMA ReceivedExactly ==
  ASSUME NEW t \in Transforms, NEW x, Given(x), NEW e \in Effects,
         WellFormed(Image(x, e)), ~Refuses(t, Image(x, e)),
         x.type = "analog" =>
           /\ e.num # 0 /\ e.den # 0 /\ Then(t, e).num # 0 /\ Then(t, e).den # 0
           /\ t.mod = "scale" => Fraction(Then(t, e)) \in Scales
  PROVE  receive(t, Image(x, e)) = Image(x, Then(t, e))
<1>0. t.mod \in {"nop", "invert", "scale"} /\ t.factor \in Scales /\ Then(t, e) \in Effects
  BY ScaleFacts, ThenEffect DEF Transforms
<1>1. CASE x = Other
  BY <1>1 DEF Other, Image, receive
<1>2. ASSUME NEW b \in {0, 1}, NEW f \in {"split", "cross", "other"}, x = Logic(b, f)
      PROVE  receive(t, Image(x, e)) = Image(x, Then(t, e))
  <2> DEFINE g == IF f = "cross" THEN "cross" ELSE "split"
  <2>1. \A r : Image(x, r) = Logic((b + r.flips) % 2, g)
    BY <1>2 DEF Image, Logic
  <2>2. (b + (e.flips + 1)) % 2 = 1 - ((b + e.flips) % 2)
    <3>1. ASSUME NEW m \in Nat PROVE (m + 1) % 2 = 1 - (m % 2)
      OBVIOUS
    <3>2. b + e.flips \in Nat /\ b + (e.flips + 1) = (b + e.flips) + 1
      BY DEF Effects
    <3> QED BY <3>1, <3>2
  <2>3. \A c : Logic(c, g).type = "logic" /\ [Logic(c, g) EXCEPT !.bit = 1 - @] = Logic(1 - c, g)
    BY DEF Logic
  <2>4. CASE t.mod = "invert"
    <3>1. Then(t, e).flips = e.flips + 1
      BY <2>4 DEF Then
    <3>2. receive(t, Image(x, e)) = Logic(1 - ((b + e.flips) % 2), g)
      BY <2>1, <2>3, <2>4 DEF receive
    <3> QED BY <2>1, <2>2, <3>1, <3>2
  <2>5. CASE t.mod # "invert"
    <3>1. Then(t, e).flips = e.flips
      BY <2>5 DEF Then
    <3>2. receive(t, Image(x, e)) = Image(x, e)
      BY <2>1, <2>3, <2>5 DEF receive
    <3> QED BY <2>1, <3>1, <3>2
  <2> QED BY <2>4, <2>5
<1>3. ASSUME NEW s \in Scales, x = Analog(s)
      PROVE  receive(t, Image(x, e)) = Image(x, Then(t, e))
  <2>1. x.type = "analog" /\ \A r : Image(x, r) = Analog(Fraction(r))
    BY <1>3 DEF Image, Analog
  <2>2. \A v : /\ Analog(v).type = "analog" /\ Analog(v).scale = v
               /\ \A w : [Analog(v) EXCEPT !.scale = w] = Analog(w)
    BY DEF Analog
  <2>3. Fraction(e) \in Scales
    <3>1. Image(x, e).type = "analog" /\ Image(x, e).scale = Fraction(e)
      BY <2>1, <2>2
    <3>2. \A b, f : Logic(b, f).type = "logic"
      BY DEF Logic
    <3>3. PICK r \in Scales : Image(x, e) = Analog(r)
      BY <3>1, <3>2 DEF WellFormed, NoPacket, Other
    <3> QED BY <2>2, <3>1, <3>3
  <2>4. CASE t.mod = "invert"
    <3>1. ~(Fraction(e)[2] > Half - 1)
      BY <2>1, <2>2, <2>4 DEF Refuses
    <3>2. receive(t, Image(x, e)) = Analog(Inverted(Fraction(e)))
      BY <2>1, <2>2, <2>4 DEF receive
    <3>3. Then(t, e) = [flips |-> e.flips + 1, num |-> e.den, den |-> e.num]
      BY <2>4 DEF Then
    <3> QED BY <2>1, <2>3, <3>1, <3>2, <3>3, InvertedExactly
  <2>5. CASE t.mod = "scale"
    <3>1. receive(t, Image(x, e)) = Analog(Scaled(Fraction(e), t.factor))
      BY <2>1, <2>2, <2>5 DEF receive
    <3>2. Then(t, e).num = e.num * t.factor[1] /\ Then(t, e).den = e.den * t.factor[2]
      BY <2>5 DEF Then
    <3>3. Scaled(Fraction(e), t.factor) = Fraction(Then(t, e))
      BY <1>0, <2>1, <2>5, <3>2, ScaledExactly
    <3> QED BY <2>1, <3>1, <3>3
  <2>6. CASE t.mod = "nop"
    BY <2>1, <2>2, <2>6 DEF receive, Then
  <2> QED BY <1>0, <2>4, <2>5, <2>6
<1> QED BY <1>1, <1>2, <1>3 DEF Given

\* The first k transforms have done to the packet what they should.
Agrees(k) ==
  /\ Effect(transforms, handed)[k] \in Effects
  /\ Computable(transforms, handed) => packet = Image(handed, Effect(transforms, handed)[k])

PassInv ==
  /\ pc # "idle" => Given(handed)
  /\ pc = "transform" => next <= Len(transforms) + 1 /\ Agrees(next - 1)
  /\ pc = "callback" => Agrees(Len(transforms))

\* What is handed over is itself, with nothing done to it.
LEMMA AgreesAtFirst ==
  ASSUME FeedInv, NEW x, Given(x), Send(x)
  PROVE  PassInv'
<1>0. Len(transforms) \in Nat
  BY DEF FeedInv, BusTypes
<1>1. /\ pc' = "transform" /\ next' = 1 /\ transforms' = transforms /\ handed' = x
      /\ packet' = IF x.type = "logic" THEN [x EXCEPT !.format = Format(@)] ELSE x
  BY DEF Send, lists
<1>2. Effect(transforms, x)[0] = Nothing(x)
  BY <1>0, EffectDef
<1>3. CASE x = Other
  <2>1. Nothing(x) \in Effects /\ Image(x, Nothing(x)) = x /\ packet' = x
    BY <1>1, <1>3 DEF Other, Nothing, Effects, Unity, Image
  <2> QED BY <1>0, <1>1, <1>2, <2>1 DEF PassInv, Agrees
<1>4. ASSUME NEW b \in {0, 1}, NEW f \in {"split", "cross", "other"}, x = Logic(b, f)
      PROVE  PassInv'
  <2>1. x.type = "logic" /\ x.bit = b /\ x.format = f /\ packet' = Logic(b, Format(f))
    BY <1>1, <1>4 DEF Logic
  <2>2. Nothing(x) \in Effects /\ Nothing(x).flips = 0
    BY <2>1 DEF Nothing, Effects, Unity
  <2>3. Image(x, Nothing(x)) = Logic(b, Format(f))
    <3>1. (b + 0) % 2 = b
      OBVIOUS
    <3> QED BY <2>1, <2>2, <3>1 DEF Image, Format
  <2> QED BY <1>0, <1>1, <1>2, <2>1, <2>2, <2>3 DEF PassInv, Agrees
<1>5. ASSUME NEW s \in Scales, x = Analog(s) PROVE PassInv'
  <2>1. x.type = "analog" /\ x.scale = s /\ packet' = x
    BY <1>1, <1>5 DEF Analog
  <2>2. s = <<s[1], s[2]>> /\ s[1] \in Int /\ s[2] \in Nat
    BY DataFeedAssumption DEF Scales
  <2>3. Nothing(x) \in Effects /\ Fraction(Nothing(x)) = s
    BY <2>1, <2>2 DEF Nothing, Effects, Fraction
  <2>4. Image(x, Nothing(x)) = x
    BY <1>5, <2>1, <2>3 DEF Image
  <2> QED BY <1>0, <1>1, <1>2, <2>1, <2>3, <2>4 DEF PassInv, Agrees
<1> QED BY <1>3, <1>4, <1>5 DEF Given

\* The next transform does what it should.
LEMMA AgreesNext ==
  ASSUME WalkInv, FeedInv, PassInv, Transform
  PROVE  PassInv'
<1>1. CASE Refuses(transforms[next], packet)
  BY <1>1 DEF Transform, Done, PassInv
<1>2. CASE ~Refuses(transforms[next], packet)
  <2> DEFINE t == transforms[next]
             e == Effect(transforms, handed)[next - 1]
  <2>0. /\ Len(transforms) \in Nat /\ next \in 1 .. Len(transforms) /\ t \in Transforms
        /\ pc = "transform"
    BY DEF Transform, WalkInv, FeedInv, BusTypes
  <2>1. /\ packet' = receive(t, packet) /\ next' = next + 1 /\ next' - 1 = next
        /\ pc' = pc /\ handed' = handed /\ transforms' = transforms
    BY <1>2, <2>0 DEF Transform, NextItem, lists
  <2>2. Given(handed) /\ e \in Effects
    BY <2>0 DEF PassInv, Agrees
  <2>3. Effect(transforms, handed)[next] = Then(t, e)
    BY <2>0, EffectDef
  <2>4. Then(t, e) \in Effects
    BY <2>0, <2>2, ThenEffect
  <2>5. ASSUME Computable(transforms, handed) PROVE packet' = Image(handed, Then(t, e))
    <3>1. packet = Image(handed, e) /\ WellFormed(packet)
      BY <2>0, <2>5 DEF PassInv, Agrees, FeedInv, BusTypes
    <3>2. handed.type = "analog" =>
            /\ e.num # 0 /\ e.den # 0 /\ Then(t, e).num # 0 /\ Then(t, e).den # 0
            /\ t.mod = "scale" => Fraction(Then(t, e)) \in Scales
      <4>1. next \in 0 .. Len(transforms) /\ next - 1 \in 0 .. Len(transforms) /\ next > 0
        BY <2>0
      <4> QED BY <2>3, <2>5, <4>1 DEF Computable
    <3> HIDE DEF t, e
    <3> QED BY <1>2, <2>0, <2>1, <2>2, <3>1, <3>2, ReceivedExactly DEF t
  <2> QED BY <2>0, <2>1, <2>2, <2>3, <2>4, <2>5 DEF PassInv, Agrees
<1> QED BY <1>1, <1>2

\* Every step of the bus, and of the queue on it, keeps that.
LEMMA PassNext == WalkInv /\ FeedInv /\ PassInv /\ [QueueNext]_allVars => PassInv'
<1> SUFFICES ASSUME WalkInv, FeedInv, PassInv, [QueueNext]_allVars PROVE PassInv'
  OBVIOUS
<1>0. Len(transforms) \in Nat /\ next \in Nat \ {0}
  BY DEF FeedInv, BusTypes, WalkInv
<1>1. Given(Other) /\ Given(Packet) /\ Given(Analog(Unity))
      /\ \A b \in {0, 1}, f \in {"split", "cross", "other"} : Given(Logic(b, f))
  <2>1. Given(Packet)
    BY PacketOfQueue DEF Given, FeedInv, CallTypes
  <2> QED BY <2>1, ScaleFacts DEF Given
<1>2. ASSUME NEW x, Given(x), Send(x) PROVE PassInv'
  BY <1>2, AgreesAtFirst
<1>3. ASSUME TransformsDone PROVE PassInv'
  <2>1. /\ pc = "transform" /\ next - 1 = Len(transforms) /\ pc' = "callback"
        /\ packet' = packet /\ handed' = handed /\ transforms' = transforms
    BY <1>0, <1>3 DEF TransformsDone, PassInv, lists
  <2> QED BY <2>1 DEF PassInv, Agrees
<1>4. ASSUME UNCHANGED <<pc, packet, handed, transforms>>, pc # "transform" PROVE PassInv'
  BY <1>4 DEF PassInv, Agrees
<1>5. ASSUME pc' = "idle" PROVE PassInv'
  BY <1>5 DEF PassInv
<1>6. ASSUME UNCHANGED vars PROVE PassInv'
  BY <1>6 DEF vars, lists, PassInv, Agrees
<1>7. CASE Bus
  <2>1. ASSUME Driver PROVE PassInv'
    BY <1>1, <1>2, <2>1 DEF Driver
  <2>2. ASSUME NEW mod, NEW f, TransformNew(mod, f) PROVE PassInv'
    BY <1>5, <2>2 DEF TransformNew
  <2>3. ASSUME CallbackAdd \/ CallbackRemoveAll \/ Callback PROVE PassInv'
    BY <1>4, <2>3 DEF CallbackAdd, CallbackRemoveAll, Callback, lists
  <2> QED BY <1>3, <1>7, <2>1, <2>2, <2>3, AgreesNext DEF Bus
<1>8. CASE QueueCalls \/ Return
  BY <1>6, <1>8 DEF QueueCalls, Submit, Flushing, Return
<1>9. CASE Copy
  BY <1>1, <1>2, <1>6, <1>9 DEF Copy
<1>10. CASE Flush \/ SendTrigger
  BY <1>1, <1>2, <1>10 DEF Flush, SendTrigger
<1>11. CASE Sent \/ Refused
  BY <1>5, <1>11, AgreesNext DEF Sent, Refused, SendDone, Done
<1>12. CASE UNCHANGED allVars
  BY <1>6, <1>12 DEF allVars
<1> QED
  BY <1>7, <1>8, <1>9, <1>10, <1>11, <1>12 DEF QueueNext

\* For integers of every width and lists of transforms of every length, the
\* receive methods, one after the other and each once, make of the packet that is
\* handed to sr_session_send() what the transforms mean: unless a product overflows,
\* the callbacks get the exact fraction, with reciprocals of negative scales right and
\* those that are no fraction of the integers refused.
THEOREM SendsTransform == QueueSpec => []SendTransforms
<1>1. QueueInit => PassInv
  BY DEF QueueInit, Init, PassInv
<1>2. PassInv => SendTransforms
  BY DEF PassInv, Agrees, SendTransforms
<1> QED
  BY <1>1, <1>2, FeedInitial, QueueStep, WalkNext, FeedNext, PassNext, PTL DEF QueueSpec
=============================================================================
