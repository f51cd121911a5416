------------------------------- MODULE Hotplug -------------------------------
(***************************************************************************)
(* The hotplug listener (src/src/hotplug.c): sr_listen_hotplug() registers a *)
(* libusb callback and starts a thread that handles libusb's events;        *)
(* sr_close_hotplug() undoes both and frees the state; sr_exit() closes and  *)
(* then frees the context.                                                 *)
(*                                                                         *)
(* libusb (external) queues an event for every device that comes or goes    *)
(* and hands the events, in order, to the registered callback in the thread *)
(* that handles events: the hotplug thread, or the thread of a session that *)
(* uses the same libusb context (fx2lafw and other drivers, receive_data()). *)
(* One thread handles events at a time.                                    *)
(*                                                                         *)
(* A definition named Mut_... is the next definition with a mistake in it;  *)
(* the specification does not use it.                                      *)
(***************************************************************************)
EXTENDS Naturals, Sequences

CONSTANTS
  Devs,         \* USB devices
  Cbs,          \* callbacks of the application
  NoCb,         \* not a callback
  SessionPump,  \* does a session thread handle libusb events?
  MaxEvents     \* bound: devices that come or go

ASSUME HotplugAssumption ==
  NoCb \notin Cbs /\ SessionPump \in BOOLEAN /\ MaxEvents \in Nat

VARIABLES
  ctx,            \* the sr_context: "live" or "freed"
  hotplug_state,  \* ctx->hotplug_state: "null", "set", or "dangling"
  st,             \* what it points to: [user_cb, hp_running]
  registered,     \* the libusb callback is registered
  app,            \* where the application's thread is
  exiting,        \* its sr_close_hotplug() is the one of sr_exit()
  thread,         \* where each thread that handles events is
  event,          \* the event a thread is handing over
  present,        \* devices plugged in
  queue,          \* events queued in libusb
  told,           \* last event the application got for each device
  bad,            \* an access to freed memory, or through NULL, has happened
  count           \* devices that came or went

vars == <<ctx, hotplug_state, st, registered, app, exiting, thread, event, present,
          queue, told, bad, count>>

usb == <<present, queue, count>>
life == <<ctx, hotplug_state, registered>>
apps == <<app, exiting>>

Pumps == {"hotplug", "session"}
Events == [ev : {"arrived", "left"}, dev : Devs]

TypeOK ==
  /\ ctx \in {"live", "freed"} /\ hotplug_state \in {"null", "set", "dangling"}
  /\ st \in [user_cb : Cbs \cup {NoCb}, hp_running : BOOLEAN]
  /\ registered \in BOOLEAN /\ exiting \in BOOLEAN /\ bad \in BOOLEAN
  /\ app \in {"idle", "register", "deregister", "join", "free", "clear", "exit"}
  /\ thread \in [Pumps -> {"none", "loop", "events", "check", "call", "user"}]
  /\ event \in Seq(Events) /\ Len(event) <= 1
  /\ present \subseteq Devs /\ queue \in Seq(Events)
  /\ told \in [Devs -> {"none", "attach", "detach"}]
  /\ count \in 0 .. MaxEvents

Init ==
  /\ ctx = "live" /\ hotplug_state = "null"
  /\ st = [user_cb |-> NoCb, hp_running |-> FALSE]
  /\ registered = FALSE /\ app = "idle" /\ exiting = FALSE
  /\ thread = [p \in Pumps |-> IF p = "session" /\ SessionPump THEN "events" ELSE "none"]
  /\ event = <<>> /\ present \in SUBSET Devs /\ queue = <<>>
  /\ told = [d \in Devs |-> "none"] /\ bad = FALSE /\ count = 0

-----------------------------------------------------------------------------
(* The application.                                                        *)

\* sr_listen_hotplug(cb) up to libusb_hotplug_register_callback().  If the
\* application listens already, nothing is done and SR_OK is returned.
Listen(cb) ==
  /\ app = "idle" /\ ctx = "live" /\ hotplug_state = "null"
  /\ st' = [user_cb |-> cb, hp_running |-> TRUE]
  /\ app' = "register"
  /\ UNCHANGED <<usb, told, life, exiting, thread, event, bad>>

\* The registration.  LIBUSB_HOTPLUG_ENUMERATE calls sr_hotplug_libusb_cb() for
\* every device present, at once, when ctx->hotplug_state is still NULL: these
\* calls return without a word to the application.
RegisterFails ==
  /\ app = "register" /\ ~registered
  /\ app' = "idle"
  /\ UNCHANGED <<usb, told, life, st, exiting, thread, event, bad>>

Register ==
  /\ app = "register" /\ ~registered
  /\ registered' = TRUE
  /\ UNCHANGED <<usb, told, apps, ctx, hotplug_state, st, thread, event,
                 bad>>

\* ctx->hotplug_state = st, and the thread.
ListenDone ==
  /\ app = "register" /\ registered
  /\ hotplug_state' = "set"
  /\ thread' = [thread EXCEPT !["hotplug"] = "loop"]
  /\ told' = [d \in Devs |-> "none"]
  /\ app' = "idle"
  /\ UNCHANGED <<usb, ctx, st, registered, exiting, event, bad>>

\* sr_close_hotplug(), of its own or from sr_exit().
Mut_KeepRunning == st
Stopped == [st EXCEPT !.hp_running = FALSE]

Close(exit) ==
  /\ app = "idle" /\ ctx = "live" /\ hotplug_state = "set"
  /\ st' = Stopped
  /\ exiting' = exit
  /\ app' = "deregister"
  /\ UNCHANGED <<usb, told, life, thread, event, bad>>

Deregister ==
  /\ app = "deregister"
  /\ registered' = FALSE
  /\ app' = "join"
  /\ UNCHANGED <<usb, told, ctx, hotplug_state, st, exiting, thread, event, bad>>

\* g_thread_join() returns when the thread has ended.
Mut_NoJoin == TRUE
Joined == thread["hotplug"] = "none"

Join ==
  /\ app = "join" /\ Joined
  /\ app' = "free"
  /\ UNCHANGED <<usb, told, life, st, exiting, thread, event, bad>>

Free ==
  /\ app = "free"
  /\ hotplug_state' = "dangling"
  /\ app' = "clear"
  /\ UNCHANGED <<usb, told, ctx, st, registered, exiting, thread, event,
                 bad>>

Clear ==
  /\ app = "clear"
  /\ hotplug_state' = "null"
  /\ app' = IF exiting THEN "exit" ELSE "idle"
  /\ UNCHANGED <<usb, told, ctx, st, registered, exiting, thread, event,
                 bad>>

\* sr_exit() without a listener; libusb_exit() and g_free(ctx).
Exit ==
  /\ \/ app = "exit"
     \/ app = "idle" /\ ctx = "live" /\ hotplug_state = "null" /\ ~SessionPump
  /\ ctx' = "freed" /\ app' = "idle"
  /\ UNCHANGED <<usb, told, hotplug_state, st, registered, exiting, thread, event, bad>>
-----------------------------------------------------------------------------
(* The threads that handle events.                                         *)

\* An access through ctx->hotplug_state is bad.
Unset == hotplug_state # "set"

\* sr_hotplug_thread_proc(): the condition of its loop.
Loop ==
  /\ thread["hotplug"] = "loop"
  /\ bad' = (bad \/ Unset \/ ctx = "freed")
  /\ thread' = [thread EXCEPT !["hotplug"] = IF st.hp_running THEN "events" ELSE "none"]
  /\ UNCHANGED <<usb, told, life, apps, st, event>>

\* libusb_handle_events_timeout() times out.
TimeOut ==
  /\ thread["hotplug"] = "events"
  /\ thread' = [thread EXCEPT !["hotplug"] = "loop"]
  /\ UNCHANGED <<usb, told, life, apps, st, event, bad>>

\* It takes an event and calls sr_hotplug_libusb_cb() if that is registered.
Take(p) ==
  /\ thread[p] = "events" /\ queue # <<>> /\ event = <<>>
  /\ queue' = Tail(queue)
  /\ IF registered
     THEN event' = <<Head(queue)>> /\ thread' = [thread EXCEPT ![p] = "check"]
     ELSE UNCHANGED <<event, thread>>
  /\ UNCHANGED <<told, life, apps, st, present, bad, count>>

\* Back from the callback.
Back(p) == IF p = "hotplug" THEN "loop" ELSE "events"

\* sr_hotplug_libusb_cb(): the test of ctx->hotplug_state.
Check(p) ==
  /\ thread[p] = "check"
  /\ bad' = (bad \/ ctx = "freed")
  /\ IF hotplug_state = "null"
     THEN event' = <<>> /\ thread' = [thread EXCEPT ![p] = Back(p)]
     ELSE event' = event /\ thread' = [thread EXCEPT ![p] = "call"]
  /\ UNCHANGED <<usb, told, life, apps, st>>

\* It fetches user_cb and user_data and calls the application.
Mut_OnlyAttach(e) == "attach"
Translated(e) == IF e = "arrived" THEN "attach" ELSE "detach"

Call(p) ==
  /\ thread[p] = "call"
  /\ bad' = (bad \/ Unset \/ ctx = "freed")
  /\ told' = [told EXCEPT ![event[1].dev] = Translated(event[1].ev)]
  /\ thread' = [thread EXCEPT ![p] = "user"]
  /\ UNCHANGED <<usb, life, apps, st, event>>

Return(p) ==
  /\ thread[p] = "user"
  /\ event' = <<>>
  /\ thread' = [thread EXCEPT ![p] = Back(p)]
  /\ UNCHANGED <<usb, told, life, apps, st, bad>>

\* A device comes or goes.
Plug(d) ==
  /\ count < MaxEvents
  /\ count' = count + 1
  /\ present' = IF d \in present THEN present \ {d} ELSE present \cup {d}
  /\ queue' = Append(queue, [ev |-> IF d \in present THEN "left" ELSE "arrived",
                             dev |-> d])
  /\ UNCHANGED <<told, life, apps, st, thread, event, bad>>

Application ==
  \/ \E cb \in Cbs : Listen(cb)
  \/ \E exit \in BOOLEAN : Close(exit)
  \/ Exit

Finishing == RegisterFails \/ Register \/ ListenDone \/ Deregister \/ Join \/ Free \/ Clear

Handover(p) == Check(p) \/ Call(p) \/ Return(p)

Next ==
  \/ Application
  \/ Finishing
  \/ Loop \/ TimeOut
  \/ \E p \in Pumps : Take(p) \/ Handover(p)
  \/ \E d \in Devs : Plug(d)

Spec == Init /\ [][Next]_vars

\* The application's call goes on, the thread is scheduled, callbacks return, and
\* waiting for events ends by its timeout of 100ms at the latest.
Fairness ==
  /\ WF_vars(Finishing)
  /\ WF_vars(Loop) /\ WF_vars(TimeOut) /\ SF_vars(Take("hotplug"))
  /\ \A p \in Pumps : WF_vars(Handover(p))

FairSpec == Spec /\ Fairness

-----------------------------------------------------------------------------
(* Properties.                                                             *)

\* No thread uses the state or the context after sr_close_hotplug() or sr_exit()
\* have freed it.
NoBadAccess == ~bad

\* Once sr_close_hotplug() has returned there is no thread, no registration and
\* no call of the application's callback any more.
QuietWhenClosed ==
  app \in {"idle", "exit"} /\ hotplug_state = "null" =>
    ~registered /\ thread["hotplug"] = "none" /\ \A p \in Pumps : thread[p] # "user"

\* When everything that happened has been handed over, the last thing the
\* application heard of a device is not wrong.
ViewIsCurrent ==
  app = "idle" /\ hotplug_state = "set" /\ queue = <<>> /\ event = <<>> =>
    \A d \in Devs : told[d] # (IF d \in present THEN "detach" ELSE "attach")

\* sr_close_hotplug() returns.
CloseReturns == (app = "deregister") ~> (app \in {"idle", "exit"})

\* A device that comes or goes is reported, unless the application stops listening.
Reported ==
  \A d \in Devs, e \in {"arrived", "left"} :
    (/\ hotplug_state = "set" /\ app = "idle"
     /\ \E k \in 1 .. Len(queue) : queue[k] = [ev |-> e, dev |-> d])
      ~> (told[d] = (IF e = "left" THEN "detach" ELSE "attach") \/ app # "idle")
=============================================================================
