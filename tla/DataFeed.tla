------------------------------- MODULE DataFeed ------------------------------
(***************************************************************************)
(* The datafeed bus of a session: sr_session_send() passes a driver's packet *)
(* through the session's transforms, in place, and hands the result to all   *)
(* datafeed callbacks (session.c, transform/*.c).  Packets are reduced to    *)
(* one logic sample, its format, and the scale of analog values.  Integers   *)
(* keep their width: p is signed and q unsigned, with Half = 2^63 in the code. *)
(*                                                                         *)
(* A definition named Mut_... is the next definition with a mistake in it;  *)
(* the specification does not use it.                                      *)
(***************************************************************************)
EXTENDS Integers, Sequences

CONSTANTS
  Half,           \* half the range of an integer
  Factors,        \* factors <<p, q>> an application may ask for
  MaxTransforms, MaxCallbacks, MaxPackets   \* bounds

\* Scales are fractions of a signed and an unsigned integer.
Scales == (-Half .. Half - 1) \X (0 .. 2 * Half - 1)

ASSUME DataFeedAssumption ==
  /\ Half \in Nat \ {0, 1} /\ Factors \subseteq Scales
  /\ {MaxTransforms, MaxCallbacks, MaxPackets} \subseteq Nat

Signed(x) == ((x + Half) % (2 * Half)) - Half
Unsigned(x) == x % (2 * Half)

VARIABLES
  transforms,   \* session->transforms: [mod, factor]
  callbacks,    \* session->datafeed_callbacks
  pc,           \* sr_session_send(): "idle", "transform" or "callback"
  packet,       \* the packet on its way
  next,         \* index into the list that is walked
  handed,       \* the packet as sr_session_send() was given it
  sent,         \* packets that have reached the callbacks
  since, seen,  \* per callback: packets before it was added, and packets it got
  count         \* packets sent by the driver

lists == <<transforms, callbacks, since>>
vars == <<lists, pc, packet, next, handed, sent, seen, count>>

Unity == <<1, 1>>
Ids == 1 .. MaxCallbacks
NoPacket == [type |-> "none"]
Logic(b, f) == [type |-> "logic", bit |-> b, format |-> f]
Analog(s) == [type |-> "analog", scale |-> s]
Other == [type |-> "other"]

IsPacket(x) ==
  \/ x \in {NoPacket, Other}
  \/ \E b \in {0, 1}, f \in {"split", "cross"} : x = Logic(b, f)
  \/ x.type = "analog" /\ x.scale \in Scales

TypeOK ==
  /\ transforms \in Seq([mod : {"nop", "invert", "scale"},
                         factor : Factors \cup {Unity}])
  /\ callbacks \in Seq(Ids)
  /\ pc \in {"idle", "transform", "callback"} /\ next \in Nat
  /\ IsPacket(packet)
  /\ sent \in Nat
  /\ since \in [Ids -> Nat] /\ seen \in [Ids -> Nat] /\ count \in 0 .. MaxPackets

Init ==
  /\ transforms = <<>> /\ callbacks = <<>> /\ pc = "idle" /\ packet = NoPacket
  /\ next = 1 /\ handed = NoPacket /\ sent = 0
  /\ since = [c \in Ids |-> 0] /\ seen = [c \in Ids |-> 0] /\ count = 0

-----------------------------------------------------------------------------
(* The transform modules.                                                  *)

\* The "receive" methods.  invert refuses a denominator that is no int64.
Refuses(t, x) == t.mod = "invert" /\ x.type = "analog" /\ x.scale[2] > Half - 1

Mut_Reciprocal(s) == <<Signed(s[2]), Unsigned(s[1])>>
Inverted(s) == IF s[1] < 0 THEN <<Signed(-s[2]), Unsigned(-s[1])>> ELSE <<s[2], s[1]>>

Scaled(s, f) == <<Signed(s[1] * f[1]), Unsigned(s[2] * f[2])>>

receive(t, x) ==
  IF t.mod = "invert" /\ x.type = "logic" THEN [x EXCEPT !.bit = 1 - @]
  ELSE IF t.mod = "invert" /\ x.type = "analog" THEN [x EXCEPT !.scale = Inverted(@)]
  ELSE IF t.mod = "scale" /\ x.type = "analog" THEN [x EXCEPT !.scale = Scaled(@, t.factor)]
  ELSE x

\* sr_transform_new(): the transform is appended to the list of the session.
TransformNew(mod, f) ==
  /\ pc = "idle" /\ Len(transforms) < MaxTransforms
  /\ transforms' = Append(transforms, [mod |-> mod, factor |-> f])
  /\ UNCHANGED <<callbacks, since, pc, packet, next, handed, sent, seen, count>>

-----------------------------------------------------------------------------
(* The callbacks.                                                          *)

\* sr_session_datafeed_callback_add(), between packets or in a callback: then the
\* new callback gets the packet that is being handed over, too.
CallbackAdd ==
  /\ pc # "transform" /\ Len(callbacks) < MaxCallbacks
  /\ LET c == Len(callbacks) + 1
     IN  /\ callbacks' = Append(callbacks, c)
         /\ since' = [since EXCEPT ![c] = IF pc = "callback" THEN sent - 1 ELSE sent]
         /\ seen' = [seen EXCEPT ![c] = 0]
  /\ UNCHANGED <<transforms, pc, packet, next, handed, sent, count>>

\* sr_session_datafeed_callback_remove_all(), between packets.
CallbackRemoveAll ==
  /\ pc = "idle" /\ callbacks # <<>>
  /\ callbacks' = <<>>
  /\ UNCHANGED <<transforms, since, pc, packet, next, handed, sent, seen, count>>

-----------------------------------------------------------------------------
(* sr_session_send().                                                      *)

\* A format other than LA_CROSS_DATA becomes LA_SPLIT_DATA.
Format(f) == IF f = "cross" THEN "cross" ELSE "split"

\* The packet x of a driver.
Send(x) ==
  /\ pc = "idle" /\ count < MaxPackets
  /\ count' = count + 1
  /\ packet' = IF x.type = "logic" THEN [x EXCEPT !.format = Format(@)] ELSE x
  /\ handed' = x
  /\ pc' = "transform" /\ next' = 1
  /\ UNCHANGED <<lists, sent, seen>>

\* l = l->next, in either list.
Mut_SkipItem == next + 2
NextItem == next + 1

Done == pc' = "idle" /\ packet' = NoPacket /\ handed' = NoPacket /\ next' = 1

\* The next transform changes the packet in place.
Transform ==
  /\ pc = "transform" /\ next <= Len(transforms)
  /\ LET t == transforms[next]
     IN  IF Refuses(t, packet)
         THEN Done
         ELSE /\ packet' = receive(t, packet) /\ next' = NextItem
              /\ UNCHANGED <<pc, handed>>
  /\ UNCHANGED <<lists, sent, seen, count>>

TransformsDone ==
  /\ pc = "transform" /\ next > Len(transforms)
  /\ pc' = "callback" /\ next' = 1 /\ sent' = sent + 1
  /\ UNCHANGED <<lists, packet, handed, seen, count>>

\* The next callback gets it.
Callback ==
  /\ pc = "callback" /\ next <= Len(callbacks)
  /\ seen' = [seen EXCEPT ![callbacks[next]] = @ + 1]
  /\ next' = NextItem
  /\ UNCHANGED <<lists, pc, packet, handed, sent, count>>

SendDone ==
  /\ pc = "callback" /\ next > Len(callbacks)
  /\ Done
  /\ UNCHANGED <<lists, sent, seen, count>>

\* A driver that does not set the format of a logic packet leaves any value in
\* it, LA_CROSS_DATA included.
Driver ==
  \/ \E b \in {0, 1}, f \in {"split", "cross", "other"} : Send(Logic(b, f))
  \/ Send(Analog(Unity))
  \/ Send(Other)

Next ==
  \/ \E mod \in {"nop", "invert", "scale"} :
       \E f \in (IF mod = "scale" THEN Factors ELSE {Unity}) : TransformNew(mod, f)
  \/ CallbackAdd \/ CallbackRemoveAll
  \/ Driver
  \/ Transform \/ TransformsDone \/ Callback \/ SendDone

Spec == Init /\ [][Next]_vars

-----------------------------------------------------------------------------
(* Properties.                                                             *)

\* What a transform does to values, in integers without bounds: how often logic is
\* inverted, and the factor num / den of analog values.
Then(t, e) ==
  IF t.mod = "invert" THEN [flips |-> e.flips + 1, num |-> e.den, den |-> e.num]
  ELSE IF t.mod = "scale"
  THEN [flips |-> e.flips, num |-> e.num * t.factor[1], den |-> e.den * t.factor[2]]
  ELSE e

Nothing(x) ==
  LET s == IF x.type = "analog" THEN x.scale ELSE Unity
  IN  [flips |-> 0, num |-> s[1], den |-> s[2]]

\* What the first k transforms of ts do to the values of a packet x.
Effect(ts, x) ==
  LET after[k \in 0 .. Len(ts)] == IF k = 0 THEN Nothing(x) ELSE Then(ts[k], after[k - 1])
  IN  after

\* num / den with the sign in the numerator.
Fraction(e) == IF e.den < 0 THEN <<-e.num, -e.den>> ELSE <<e.num, e.den>>

Image(x, e) ==
  IF x.type = "logic"
  THEN Logic((x.bit + e.flips) % 2, IF x.format = "cross" THEN "cross" ELSE "split")
  ELSE IF x.type = "analog" THEN Analog(Fraction(e)) ELSE x

\* No product of the scale transforms overflows, and nothing is divided by zero.
Computable(ts, x) ==
  x.type = "analog" =>
    \A k \in 0 .. Len(ts) :
      LET e == Effect(ts, x)[k]
      IN  /\ e.num # 0 /\ e.den # 0
          /\ k > 0 /\ ts[k].mod = "scale" => Fraction(e) \in Scales

\* The callbacks get the values of the packet that was handed to sr_session_send(),
\* inverted and scaled exactly as the list of transforms says, or, where the
\* reciprocal is no fraction of the two integers, they get nothing.  A sender that
\* hands over its struct again hands over what the transforms have made of it.
SendTransforms ==
  pc = "callback" /\ Computable(transforms, handed) =>
    packet = Image(handed, Effect(transforms, handed)[Len(transforms)])

\* Every callback gets every packet that passes the transforms, once, from the
\* packet during or before which it was added.
CallbacksInStep ==
  pc = "idle" =>
    \A k \in 1 .. Len(callbacks) : seen[callbacks[k]] = sent - since[callbacks[k]]
=============================================================================
