---------------------------- MODULE HotplugProofs ----------------------------
(***************************************************************************)
(* The listener of Hotplug is safe as long as no session handles events of  *)
(* the same libusb context: for any number of devices, callbacks and events *)
(* nothing freed is used, closing leaves nothing behind, and the last       *)
(* report about a device is right once everything has been handed over.     *)
(***************************************************************************)
EXTENDS Hotplug, TLAPS

-----------------------------------------------------------------------------
(* The inductive invariant.                                                *)

T == thread["hotplug"]

\* Where the application's thread is determines the state and the registration.
Phases ==
  /\ app = "register" => hotplug_state = "null" /\ ctx = "live"
  /\ app \in {"deregister", "join", "free"} => hotplug_state = "set" /\ ctx = "live"
  /\ app = "clear" => hotplug_state = "dangling" /\ ctx = "live"
  /\ app = "exit" => hotplug_state = "null" /\ ctx = "live"
  /\ app = "idle" => hotplug_state # "dangling" /\ (registered <=> hotplug_state = "set")
  /\ registered => app \in {"idle", "register", "deregister"}
  /\ app = "deregister" => registered
  /\ ctx = "freed" => hotplug_state = "null"

\* The thread lives only between ListenDone and Join, and no other one is in the
\* callback; an event is held exactly while the thread hands it over.
Threads ==
  /\ thread["session"] = "none"
  /\ T # "none" => hotplug_state = "set" /\ app \in {"idle", "deregister", "join"}
  /\ event # <<>> <=> T \in {"check", "call", "user"}

\* e says of device d what is the case if the devices P are present.
Right(e, d, P) == (e = "arrived") <=> (d \in P)
\* There is an event about device d in q.
Pending(d, q) == \E k \in 1 .. Len(q) : q[k].dev = d

\* The last event of each device in libusb's queue is right, or else the event
\* that is handed over, or else what the application was told.
QueueRight ==
  \A k \in 1 .. Len(queue) :
    (\A j \in k + 1 .. Len(queue) : queue[j].dev # queue[k].dev)
      => Right(queue[k].ev, queue[k].dev, present)

EventRight ==
  event # <<>> /\ ~Pending(event[1].dev, queue)
    => Right(event[1].ev, event[1].dev, present)

Handed == T = "user" => told[event[1].dev] = Translated(event[1].ev)

ToldRight ==
  registered /\ hotplug_state = "set" =>
    \A d \in Devs :
      ~Pending(d, queue) /\ (event # <<>> => event[1].dev # d)
        => told[d] # (IF d \in present THEN "detach" ELSE "attach")

Views == QueueRight /\ EventRight /\ Handed /\ ToldRight

IInv == TypeOK /\ NoBadAccess /\ Phases /\ Threads /\ Views

-----------------------------------------------------------------------------
(* Types.                                                                  *)

\* The register of a thread holds no event or one (sr_hotplug_libusb_cb() hands
\* over one at a time).
LEMMA OneEvent ==
  ASSUME NEW S, NEW x \in S
  PROVE  <<x>> \in Seq(S) /\ Len(<<x>>) = 1 /\ <<x>>[1] = x /\ <<x>> # <<>>
OBVIOUS

\* The empty register.
LEMMA NoEvent ==
  ASSUME NEW S
  PROVE  <<>> \in Seq(S) /\ Len(<<>>) = 0
OBVIOUS

\* Every step of the listener, its threads and libusb keeps the types.
LEMMA TypeKept == TypeOK /\ [Next]_vars => TypeOK'
<1> SUFFICES ASSUME TypeOK, [Next]_vars PROVE TypeOK'
  OBVIOUS
<1> USE HotplugAssumption
<1>1. CASE \E cb \in Cbs : Listen(cb)
  BY <1>1 DEF TypeOK, Pumps, usb, life, apps, Listen
<1>2. CASE \E exit \in BOOLEAN : Close(exit)
  BY <1>2 DEF TypeOK, Pumps, usb, life, apps, Close, Stopped
<1>3. CASE Exit
  BY <1>3 DEF TypeOK, Pumps, usb, life, apps, Exit
<1>4. CASE RegisterFails
  BY <1>4 DEF TypeOK, Pumps, usb, life, apps, RegisterFails
<1>5. CASE Register
  BY <1>5 DEF TypeOK, Pumps, usb, life, apps, Register
<1>6. CASE ListenDone
  BY <1>6 DEF TypeOK, Pumps, usb, life, apps, ListenDone
<1>7. CASE Deregister
  BY <1>7 DEF TypeOK, Pumps, usb, life, apps, Deregister
<1>8. CASE Join
  BY <1>8 DEF TypeOK, Pumps, usb, life, apps, Join, Joined
<1>9. CASE Free
  BY <1>9 DEF TypeOK, Pumps, usb, life, apps, Free
<1>10. CASE Clear
  BY <1>10 DEF TypeOK, Pumps, usb, life, apps, Clear
<1>11. CASE Loop
  BY <1>11 DEF TypeOK, Pumps, usb, life, apps, Loop, Unset
<1>12. CASE TimeOut
  BY <1>12 DEF TypeOK, Pumps, usb, life, apps, TimeOut
<1>13. CASE \E p \in Pumps : Take(p)
  <2> PICK p \in Pumps : Take(p)
    BY <1>13
  <2>1. Head(queue) \in Events /\ Tail(queue) \in Seq(Events)
    BY DEF TypeOK, Take
  <2>2. event' \in Seq(Events) /\ Len(event') <= 1
    <3>1. CASE registered
      <4>1. event' = <<Head(queue)>>
        BY <3>1 DEF Take
      <4>2. Len(<<Head(queue)>>) <= 1
        BY <2>1, OneEvent
      <4> QED
        BY <2>1, <4>1, <4>2, OneEvent
    <3>2. CASE ~registered
      BY <3>2 DEF TypeOK, Take
    <3> QED
      BY <3>1, <3>2
  <2>3. thread' \in [Pumps -> {"none", "loop", "events", "check", "call", "user"}]
    BY DEF TypeOK, Take
  <2> QED
    BY <2>1, <2>2, <2>3 DEF TypeOK, Take, life, apps
<1>14. CASE \E p \in Pumps : Check(p)
  <2> PICK p \in Pumps : Check(p)
    BY <1>14
  <2>1. event' \in Seq(Events) /\ Len(event') <= 1
    <3>1. CASE hotplug_state = "null"
      <4>1. event' = <<>>
        BY <3>1 DEF Check
      <4>2. Len(<<>>) <= 1
        BY NoEvent
      <4> QED
        BY <4>1, <4>2, NoEvent
    <3>2. CASE hotplug_state # "null"
      BY <3>2 DEF TypeOK, Check
    <3> QED
      BY <3>1, <3>2
  <2>2. thread' \in [Pumps -> {"none", "loop", "events", "check", "call", "user"}]
    BY DEF TypeOK, Check, Back
  <2>3. bad' \in BOOLEAN
    BY DEF TypeOK, Check
  <2> QED
    BY <2>1, <2>2, <2>3 DEF TypeOK, Check, usb, life, apps
<1>15. CASE \E p \in Pumps : Call(p)
  <2> PICK p \in Pumps : Call(p)
    BY <1>15
  <2>1. told' \in [Devs -> {"none", "attach", "detach"}]
    BY DEF TypeOK, Call, Translated
  <2>2. thread' \in [Pumps -> {"none", "loop", "events", "check", "call", "user"}]
    BY DEF TypeOK, Call
  <2>3. bad' \in BOOLEAN
    BY DEF TypeOK, Call
  <2> QED
    BY <2>1, <2>2, <2>3 DEF TypeOK, Call, usb, life, apps
<1>16. CASE \E p \in Pumps : Return(p)
  BY <1>16 DEF TypeOK, Pumps, usb, life, apps, Return, Back
<1>17. CASE \E d \in Devs : Plug(d)
  BY <1>17 DEF TypeOK, Pumps, usb, life, apps, Plug, Events
<1>18. CASE UNCHANGED vars
  BY <1>18 DEF TypeOK, vars
<1> QED
  BY <1>1, <1>2, <1>3, <1>4, <1>5, <1>6, <1>7, <1>8, <1>9, <1>10, <1>11,
     <1>12, <1>13, <1>14, <1>15, <1>16, <1>17, <1>18
  DEF Next, Application, Finishing, Handover

-----------------------------------------------------------------------------
(* Control: no use of freed state.                                         *)

Control == NoBadAccess /\ Phases /\ Threads

\* The thread uses the state only between ListenDone and Join, and the state is
\* freed only after Join.
LEMMA ControlKept ==
  ASSUME ~SessionPump, TypeOK, Control, [Next]_vars PROVE Control'
<1> USE HotplugAssumption DEF Control, NoBadAccess, Phases, Threads, T, TypeOK, Pumps
<1>1. CASE \E cb \in Cbs : Listen(cb)
  BY <1>1 DEF usb, life, apps, Listen
<1>2. CASE \E exit \in BOOLEAN : Close(exit)
  BY <1>2 DEF usb, life, apps, Close, Stopped
<1>3. CASE Exit
  BY <1>3 DEF usb, life, apps, Exit
<1>4. CASE RegisterFails
  BY <1>4 DEF usb, life, apps, RegisterFails
<1>5. CASE Register
  BY <1>5 DEF usb, life, apps, Register
<1>6. CASE ListenDone
  BY <1>6 DEF usb, life, apps, ListenDone
<1>7. CASE Deregister
  BY <1>7 DEF usb, life, apps, Deregister
<1>8. CASE Join
  BY <1>8 DEF usb, life, apps, Join, Joined
<1>9. CASE Free
  BY <1>9 DEF usb, life, apps, Free
<1>10. CASE Clear
  BY <1>10 DEF usb, life, apps, Clear
<1>11. CASE Loop
  BY <1>11 DEF usb, life, apps, Loop, Unset
<1>12. CASE TimeOut
  BY <1>12 DEF usb, life, apps, TimeOut
<1>13. CASE \E p \in Pumps : Take(p)
  <2> PICK p \in Pumps : Take(p)
    BY <1>13
  <2>1. <<Head(queue)>> # <<>>
    OBVIOUS
  <2>2. p = "hotplug"
    BY DEF Take
  <2> HIDE DEF TypeOK
  <2>3. "hotplug" \in DOMAIN thread /\ "session" \in DOMAIN thread
    BY DEF TypeOK
  <2>4. CASE registered
    BY <2>1, <2>2, <2>3, <2>4 DEF Take, life, apps
  <2>5. CASE ~registered
    BY <2>2, <2>5 DEF Take, life, apps
  <2> QED
    BY <2>4, <2>5
<1>14. CASE \E p \in Pumps : Check(p)
  BY <1>14 DEF usb, life, apps, Check, Back
<1>15. CASE \E p \in Pumps : Call(p)
  BY <1>15 DEF usb, life, apps, Call, Unset
<1>16. CASE \E p \in Pumps : Return(p)
  BY <1>16 DEF usb, life, apps, Return, Back
<1>17. CASE \E d \in Devs : Plug(d)
  BY <1>17 DEF usb, life, apps, Plug
<1>18. CASE UNCHANGED vars
  BY <1>18 DEF vars
<1> QED
  BY <1>1, <1>2, <1>3, <1>4, <1>5, <1>6, <1>7, <1>8, <1>9, <1>10, <1>11,
     <1>12, <1>13, <1>14, <1>15, <1>16, <1>17, <1>18
  DEF Next, Application, Finishing, Handover

-----------------------------------------------------------------------------
(* Views: what the application was told.                                   *)

\* Steps that leave libusb's queue and the events alone leave the views alone, if
\* they do not begin a listening period.
LEMMA SameViews ==
  ASSUME Views, UNCHANGED <<present, queue, event, told>>,
         T' = "user" => T = "user",
         registered' /\ hotplug_state' = "set" => registered /\ hotplug_state = "set"
  PROVE  Views'
BY DEF Views, QueueRight, EventRight, Handed, ToldRight, Right, Pending

\* libusb hands over the first event of its queue, or drops it.
LEMMA TakeViews ==
  ASSUME TypeOK, Control, Views, Take("hotplug") PROVE Views'
<1>1. /\ queue \in Seq(Events) /\ queue # <<>> /\ queue' = Tail(queue)
      /\ event = <<>> /\ UNCHANGED <<present, told, registered, hotplug_state>>
  BY DEF TypeOK, Take, life
<1>2. /\ Len(queue) \in Nat \ {0} /\ Len(queue') = Len(queue) - 1
      /\ \A k \in 1 .. Len(queue') : queue'[k] = queue[k + 1]
      /\ Head(queue) = queue[1]
  BY <1>1
<1>3. QueueRight'
  <2> SUFFICES ASSUME NEW k \in 1 .. Len(queue'),
                      \A j \in k + 1 .. Len(queue') : queue'[j].dev # queue'[k].dev
               PROVE  Right(queue'[k].ev, queue'[k].dev, present')
    BY DEF QueueRight
  <2>1. \A j \in k + 2 .. Len(queue) : queue[j].dev # queue[k + 1].dev
    <3> SUFFICES ASSUME NEW j \in k + 2 .. Len(queue) PROVE queue[j].dev # queue[k + 1].dev
      OBVIOUS
    <3>1. j - 1 \in k + 1 .. Len(queue') /\ j - 1 \in 1 .. Len(queue')
      BY <1>2
    <3>2. queue'[j - 1] = queue[j] /\ queue'[k] = queue[k + 1]
      BY <1>2, <3>1
    <3> QED
      BY <3>1, <3>2
  <2>2. Right(queue[k + 1].ev, queue[k + 1].dev, present)
    BY <1>2, <2>1 DEF Views, QueueRight
  <2> QED
    BY <1>1, <1>2, <2>2 DEF Right
<1>4. CASE registered
  <2>1. event' # <<>> /\ event'[1] = queue[1]
    <3>1. event' = <<queue[1]>>
      BY <1>2, <1>4 DEF Take
    <3> QED
      BY <3>1, OneEvent
  <2>2. T' = "check"
    BY <1>4 DEF Take, T, TypeOK, Pumps
  <2>3. EventRight'
    <3> SUFFICES ASSUME ~Pending(queue[1].dev, queue')
                 PROVE  Right(queue[1].ev, queue[1].dev, present')
      BY <2>1 DEF EventRight
    <3>1. \A j \in 2 .. Len(queue) : queue[j].dev # queue[1].dev
      <4> SUFFICES ASSUME NEW j \in 2 .. Len(queue) PROVE queue[j].dev # queue[1].dev
        OBVIOUS
      <4>1. j - 1 \in 1 .. Len(queue') /\ queue'[j - 1] = queue[j]
        BY <1>2
      <4> QED
        BY <4>1 DEF Pending
    <3> QED
      BY <1>1, <1>2, <3>1 DEF Views, QueueRight, Right
  <2>4. ToldRight'
    <3> SUFFICES ASSUME registered, hotplug_state = "set", NEW d \in Devs,
                        ~Pending(d, queue'), queue[1].dev # d
                 PROVE  told[d] # (IF d \in present THEN "detach" ELSE "attach")
      BY <1>1, <2>1 DEF ToldRight
    <3>1. ~Pending(d, queue)
      <4> SUFFICES ASSUME NEW k \in 1 .. Len(queue), queue[k].dev = d PROVE FALSE
        BY DEF Pending
      <4>1. k - 1 \in 1 .. Len(queue') /\ queue'[k - 1] = queue[k]
        BY <1>2
      <4> QED
        BY <4>1 DEF Pending
    <3> QED
      BY <1>1, <3>1 DEF Views, ToldRight
  <2> QED
    BY <1>3, <2>2, <2>3, <2>4 DEF Views, Handed
<1>5. CASE ~registered
  BY <1>1, <1>3, <1>5 DEF Take, Views, EventRight, ToldRight, Handed, T
<1> QED
  BY <1>4, <1>5

\* The application is told what the event says.
LEMMA CallViews ==
  ASSUME TypeOK, Control, Views, Call("hotplug") PROVE Views'
<1>1. /\ UNCHANGED <<present, queue, event, registered, hotplug_state>>
      /\ T = "call" /\ event # <<>> /\ event \in Seq(Events) /\ told' =
          [told EXCEPT ![event[1].dev] = Translated(event[1].ev)]
  BY DEF Call, usb, life, Control, Threads, T, TypeOK
<1>2. event[1].dev \in Devs
  <2>1. event[1] \in Events
    BY <1>1
  <2> QED
    BY <2>1 DEF Events
<1>3. Handed'
  BY <1>1, <1>2 DEF Handed, TypeOK, Translated
<1>4. ToldRight'
  BY <1>1, <1>2 DEF Views, ToldRight, Pending, TypeOK
<1> QED
  BY <1>1, <1>3, <1>4 DEF Views, QueueRight, EventRight, Right, Pending

\* Its callback returns: what it was told takes the place of the event.
LEMMA ReturnViews ==
  ASSUME TypeOK, Control, Views, Return("hotplug") PROVE Views'
<1>1. /\ UNCHANGED <<present, queue, told, registered, hotplug_state>>
      /\ T = "user" /\ event # <<>> /\ event \in Seq(Events) /\ event' = <<>>
      /\ T' = "loop"
  BY DEF Return, Back, usb, life, Control, Threads, T, TypeOK, Pumps
<1>2. event[1] \in Events
  BY <1>1
<1>3. ToldRight'
  <2> SUFFICES ASSUME registered, hotplug_state = "set", NEW d \in Devs, ~Pending(d, queue)
               PROVE  told[d] # (IF d \in present THEN "detach" ELSE "attach")
    BY <1>1 DEF ToldRight, Pending
  <2>1. CASE event[1].dev = d
    <3>1. Right(event[1].ev, d, present) /\ told[d] = Translated(event[1].ev)
      BY <1>1, <2>1 DEF Views, EventRight, Handed
    <3> QED
      BY <1>2, <3>1 DEF Right, Translated, Events
  <2>2. CASE event[1].dev # d
    BY <2>2 DEF Views, ToldRight
  <2> QED
    BY <2>1, <2>2
<1> QED
  BY <1>1, <1>3 DEF Views, QueueRight, EventRight, Handed, Right, Pending

\* A device comes or goes: an event about it is the last in the queue.
LEMMA PlugViews ==
  ASSUME TypeOK, Control, Views, NEW d \in Devs, Plug(d) PROVE Views'
<1> DEFINE e == [ev |-> IF d \in present THEN "left" ELSE "arrived", dev |-> d]
<1>1. /\ queue' = Append(queue, e) /\ queue \in Seq(Events)
      /\ UNCHANGED <<event, told, thread, registered, hotplug_state>>
  BY DEF Plug, life, TypeOK
<1>2. \A x : x # d => (x \in present' <=> x \in present)
  BY DEF Plug
<1>3. /\ Len(queue) \in Nat /\ Len(queue') = Len(queue) + 1
      /\ \A k \in 1 .. Len(queue) : queue'[k] = queue[k]
      /\ queue'[Len(queue) + 1] = e
  <2>1. e \in Events
    BY DEF Events
  <2> HIDE DEF e
  <2> QED
    BY <1>1, <2>1
<1>4. Right(e.ev, d, present')
  BY DEF Right, Plug
<1>5. Pending(d, queue') /\ \A x : Pending(x, queue) => Pending(x, queue')
  BY <1>3 DEF Pending
<1>6. QueueRight'
  <2> SUFFICES ASSUME NEW k \in 1 .. Len(queue'),
                      \A j \in k + 1 .. Len(queue') : queue'[j].dev # queue'[k].dev
               PROVE  Right(queue'[k].ev, queue'[k].dev, present')
    BY DEF QueueRight
  <2>1. CASE k = Len(queue) + 1
    BY <1>3, <1>4, <2>1
  <2>2. CASE k \in 1 .. Len(queue)
    <3>1. queue'[k] = queue[k] /\ queue[k].dev # d
      BY <1>3, <2>2
    <3>2. Right(queue[k].ev, queue[k].dev, present)
      BY <1>3, <2>2, <3>1 DEF Views, QueueRight
    <3> QED
      BY <1>2, <3>1, <3>2 DEF Right
  <2> QED
    BY <1>3, <2>1, <2>2
<1>7. EventRight'
  BY <1>1, <1>2, <1>5 DEF Views, EventRight, Right
<1>8. ToldRight'
  BY <1>1, <1>2, <1>5 DEF Views, ToldRight
<1> QED
  BY <1>1, <1>6, <1>7, <1>8 DEF Views, Handed, T

\* Every step keeps the views.
LEMMA ViewsKept ==
  ASSUME TypeOK, Control, Views, [Next]_vars PROVE Views'
<1>0. /\ thread \in [Pumps -> {"none", "loop", "events", "check", "call", "user"}]
      /\ \A p \in Pumps : thread[p] # "none" => p = "hotplug"
  BY DEF TypeOK, Control, Threads, Pumps
<1>1. CASE \E cb \in Cbs : Listen(cb)
  BY <1>0, <1>1, SameViews DEF usb, T, Pumps, life, Listen
<1>2. CASE \E exit \in BOOLEAN : Close(exit)
  BY <1>0, <1>2, SameViews DEF usb, T, Pumps, life, Close
<1>3. CASE Exit
  BY <1>0, <1>3, SameViews DEF usb, T, Pumps, life, Exit
<1>4. CASE RegisterFails
  BY <1>0, <1>4, SameViews DEF usb, T, Pumps, life, RegisterFails
<1>5. CASE Register
  BY <1>0, <1>5, SameViews DEF Control, Phases, usb, T, Pumps, life, Register
<1>6. CASE Deregister
  BY <1>0, <1>6, SameViews DEF usb, T, Pumps, life, Deregister
<1>7. CASE Join
  BY <1>0, <1>7, SameViews DEF usb, T, Pumps, life, Join
<1>8. CASE Free
  BY <1>0, <1>8, SameViews DEF Control, Phases, usb, T, Pumps, life, Free
<1>9. CASE Clear
  BY <1>0, <1>9, SameViews DEF usb, T, Pumps, life, Clear
<1>10. CASE Loop
  BY <1>0, <1>10, SameViews DEF usb, T, Pumps, life, Loop
<1>11. CASE TimeOut
  BY <1>0, <1>11, SameViews DEF usb, T, Pumps, life, TimeOut
<1>12. CASE ListenDone
  <2>1. /\ UNCHANGED <<present, queue, event>> /\ T' = "loop"
        /\ \A d \in Devs : told'[d] = "none"
    BY <1>0, <1>12 DEF ListenDone, usb, T, Pumps
  <2> QED
    BY <2>1 DEF Views, QueueRight, EventRight, Handed, ToldRight, Right, Pending
<1>13. CASE \E p \in Pumps : Take(p)
  <2>1. Take("hotplug")
    BY <1>0, <1>13 DEF Take
  <2> QED
    BY <2>1, TakeViews
<1>14. CASE \E p \in Pumps : Check(p)
  <2>1. Check("hotplug")
    BY <1>0, <1>14 DEF Check
  <2>2. hotplug_state = "set"
    BY <2>1 DEF Control, Threads, T, Check
  <2> QED
    BY <1>0, <2>1, <2>2, SameViews DEF Check, usb, life, T, Pumps
<1>15. CASE \E p \in Pumps : Call(p)
  <2>1. Call("hotplug")
    BY <1>0, <1>15 DEF Call
  <2> QED
    BY <2>1, CallViews
<1>16. CASE \E p \in Pumps : Return(p)
  <2>1. Return("hotplug")
    BY <1>0, <1>16 DEF Return
  <2> QED
    BY <2>1, ReturnViews
<1>17. CASE \E d \in Devs : Plug(d)
  BY <1>17, PlugViews
<1>18. CASE UNCHANGED vars
  BY <1>18, SameViews DEF vars, T
<1> QED
  BY <1>1, <1>2, <1>3, <1>4, <1>5, <1>6, <1>7, <1>8, <1>9, <1>10, <1>11,
     <1>12, <1>13, <1>14, <1>15, <1>16, <1>17, <1>18
  DEF Next, Application, Finishing, Handover

-----------------------------------------------------------------------------
(* The theorems.                                                           *)

\* The initial states have their types.
LEMMA InitTypes == Init => TypeOK
<1> SUFFICES ASSUME Init PROVE TypeOK
  OBVIOUS
<1>1. event \in Seq(Events) /\ queue \in Seq(Events) /\ Len(event) <= 1
  <2>1. event = <<>> /\ queue = <<>> /\ Len(<<>>) = 0
    BY NoEvent DEF Init
  <2> QED
    BY <2>1, NoEvent
<1>2. thread \in [Pumps -> {"none", "loop", "events", "check", "call", "user"}]
  BY DEF Init
<1>3. told \in [Devs -> {"none", "attach", "detach"}] /\ count \in 0 .. MaxEvents
  BY HotplugAssumption DEF Init
<1> QED
  BY <1>1, <1>2, <1>3 DEF Init, TypeOK

\* Without a session that handles events the invariant holds initially.
LEMMA InitInv == ~SessionPump /\ Init => IInv
<1> SUFFICES ASSUME ~SessionPump, Init PROVE IInv
  OBVIOUS
<1> USE HotplugAssumption
<1>1. TypeOK
  BY InitTypes
<1>2. NoBadAccess /\ Phases /\ Threads
  BY DEF Init, NoBadAccess, Phases, Threads, T, Pumps
<1>3. Views
  BY DEF Init, Views, QueueRight, EventRight, Handed, ToldRight, T, Pumps
<1> QED
  BY <1>1, <1>2, <1>3 DEF IInv

\* The invariant is inductive.
THEOREM Invariance == ASSUME ~SessionPump PROVE Spec => []IInv
<1>1. Init => IInv
  BY InitInv
<1>2. IInv /\ [Next]_vars => IInv'
  BY TypeKept, ControlKept, ViewsKept DEF IInv, Control
<1> QED
  BY <1>1, <1>2, PTL DEF Spec

\* The state of the listener, the threads and libusb's queue keep their types,
\* whoever handles events.
THEOREM HotplugTypes == Spec => []TypeOK
BY InitTypes, TypeKept, PTL DEF Spec

\* sr_close_hotplug() and sr_exit() free nothing that the listener's thread still
\* uses, if no session handles events of the same libusb context.
THEOREM NothingFreedIsUsed == ASSUME ~SessionPump PROVE Spec => []NoBadAccess
<1>1. IInv => NoBadAccess
  BY DEF IInv
<1> QED
  BY <1>1, Invariance, PTL

\* Under the same condition closing leaves no thread, no registration and no
\* callback under way.
THEOREM ClosedIsQuiet == ASSUME ~SessionPump PROVE Spec => []QuietWhenClosed
<1>1. IInv => QuietWhenClosed
  BY DEF IInv, QuietWhenClosed, Phases, Threads, T, Pumps
<1> QED
  BY <1>1, Invariance, PTL

\* Under the same condition, whatever devices come and go while the application
\* listens, closes and listens again, the last report about a device is right once
\* all events have been handed over.
THEOREM ViewsAreCurrent == ASSUME ~SessionPump PROVE Spec => []ViewIsCurrent
<1>1. IInv => ViewIsCurrent
  <2> SUFFICES ASSUME IInv, app = "idle", hotplug_state = "set", queue = <<>>, event = <<>>,
                      NEW d \in Devs
               PROVE  told[d] # (IF d \in present THEN "detach" ELSE "attach")
    BY DEF ViewIsCurrent
  <2>1. registered
    BY DEF IInv, Phases
  <2>2. ~Pending(d, queue)
    BY NoEvent DEF Pending
  <2> QED
    BY <2>1, <2>2 DEF IInv, Views, ToldRight
<1> QED
  BY <1>1, Invariance, PTL
==============================================================================
