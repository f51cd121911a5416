------------------------------- MODULE Session -------------------------------
(***************************************************************************)
(* The session of src/src/session.c: which devices take part, the registry *)
(* of event sources that keeps a run alive, the main context and main loop *)
(* the run executes in, and the two ways a run ends (sources drained, or   *)
(* sr_session_stop() from any thread).                                     *)
(*                                                                         *)
(* One thread, the session thread, calls the API and dispatches events.    *)
(* The threads in Stoppers only call sr_session_stop(), which the source   *)
(* documents as callable from any thread.                                  *)
(*                                                                         *)
(* Contexts are numbered: 0 is the thread-default GMainContext, r > 0 is   *)
(* the context that the r-th sr_session_start() creates for itself.  A     *)
(* context other than 0 lives as long as something holds a reference.      *)
(*                                                                         *)
(* Device drivers are reduced to what the session sees of them: which      *)
(* event sources they install and remove, and whether dev_acquisition_stop *)
(* removes the sources at once (SyncStop, like the serial drivers) or only *)
(* asks the acquisition to abort (like the USB drivers, whose transfers    *)
(* complete later).  All devices are open (SR_ST_ACTIVE).                  *)
(*                                                                         *)
(* A definition named Mut_... is the next definition with a mistake in it;  *)
(* the specification does not use it.                                      *)
(***************************************************************************)
EXTENDS Integers, Sequences, FiniteSets

CONSTANTS
  Devs,          \* device instances
  Keys,          \* keys of event sources (poll objects)
  Owner,         \* Owner[k]: the device whose driver uses key k
  SyncStop,      \* devices whose driver removes its sources in acquisition_stop
  Stoppers,      \* other threads that call sr_session_stop()
  LoopMode,      \* who iterates the context: see LoopModes
  StartMayFail,  \* can dev_acquisition_start() or the commit of a device fail?
  AddWhen,       \* values of `running` with which the application adds devices
  RemoveWhen,    \* values of `running` with which it removes devices
  MaxRuns,       \* bound: calls of sr_session_start() that begin a run
  MaxStops,      \* bound: calls of sr_session_stop() that find a context
  NULL

\* "app_loop": the session thread iterates its thread-default context itself.
\* "session_run": nobody does, until sr_session_run() is called.
\* "own_context": another thread owns the default context, so that every
\* sr_session_start() creates a context of its own.
LoopModes == {"app_loop", "session_run", "own_context"}

ASSUME SessionAssumption ==
  /\ Owner \in [Keys -> Devs]
  /\ SyncStop \subseteq Devs
  /\ LoopMode \in LoopModes
  /\ StartMayFail \in BOOLEAN
  /\ AddWhen \subseteq BOOLEAN /\ RemoveWhen \subseteq BOOLEAN
  /\ MaxRuns \in Nat /\ MaxStops \in Nat
  /\ NULL \notin Nat

Ctx == 0 .. MaxRuns

VARIABLES
  alive,         \* the session object has not been destroyed
  devs,          \* session->devs
  running,       \* session->running
  main_context,  \* session->main_context
  main_loop,     \* context of session->main_loop, NULL outside sr_session_run()
  quit,          \* g_main_loop_quit() was called on main_loop
  stop_check_id, \* session->stop_check_id is nonzero
  src,           \* session->event_sources: state of the source of each key
  srcCtx,        \* the context each registered source is attached to
  idles,         \* contexts holding an idle source for delayed_stop_check()
  invokes,       \* per context, queued calls of session_stop_sync()
  acq,           \* per device, what its driver is doing
  pc,            \* where the session thread is
  idx,           \* index into devs of the loop in sr_session_start()
  stopper,       \* per thread, the context sr_session_stop() holds a reference to
  run,           \* number of runs begun so far
  stops,         \* number of effective sr_session_stop() calls so far
  asked,         \* runs during which sr_session_stop() was called
  notified       \* runs whose end was reported to the application

regVars  == <<src, srcCtx, stop_check_id, idles>>
loopVars == <<main_context, main_loop, quit>>
histVars == <<run, stops, asked, notified>>
vars == <<alive, devs, running, main_context, main_loop, quit, stop_check_id,
          src, srcCtx, idles, invokes, acq, pc, idx, stopper, run, stops,
          asked, notified>>

TypeOK ==
  /\ alive \in BOOLEAN /\ running \in BOOLEAN /\ quit \in BOOLEAN
  /\ stop_check_id \in BOOLEAN
  /\ devs \in Seq(Devs)
  /\ main_context \in Ctx \cup {NULL}
  /\ main_loop \in Ctx \cup {NULL}
  /\ src \in [Keys -> {"none", "attached", "destroyed"}]
  /\ srcCtx \in [Keys -> Ctx]
  /\ idles \in SUBSET Ctx
  /\ invokes \in [Ctx -> Nat]
  /\ acq \in [Devs -> {"idle", "running", "aborting"}]
  /\ pc \in {"app", "starting", "unwinding", "unsetting", "deadlock",
            "crash"}
  /\ idx \in Nat
  /\ stopper \in [Stoppers -> Ctx \cup {NULL}]
  /\ run \in Ctx /\ stops \in Nat
  /\ asked \in SUBSET Ctx /\ notified \in SUBSET Ctx

Init ==
  /\ alive = TRUE /\ devs = <<>> /\ running = FALSE
  /\ main_context = NULL /\ main_loop = NULL /\ quit = FALSE
  /\ stop_check_id = FALSE
  /\ src = [k \in Keys |-> "none"] /\ srcCtx = [k \in Keys |-> 0]
  /\ idles = {} /\ invokes = [c \in Ctx |-> 0]
  /\ acq = [d \in Devs |-> "idle"]
  /\ pc = "app" /\ idx = 0
  /\ stopper = [t \in Stoppers |-> NULL]
  /\ run = 0 /\ stops = 0 /\ asked = {} /\ notified = {}

-----------------------------------------------------------------------------
(* The registry of event sources.                                          *)

Members == {devs[i] : i \in 1 .. Len(devs)}
KeysOf(D) == {k \in Keys : Owner[k] \in D}
Registered == {k \in Keys : src[k] # "none"}
Attached(K) == {k \in K : src[k] = "attached"}

\* The session thread can dispatch the sources of context c now.
Iterates(c) ==
  /\ alive /\ pc = "app"
  /\ \/ main_loop = c
     \/ c = 0 /\ LoopMode = "app_loop"

\* stop_check_later() where the condition for calling it is `needed`.
stop_check_later(needed) ==
  IF needed /\ ~stop_check_id /\ main_context # NULL
  THEN stop_check_id' = TRUE /\ idles' = idles \cup {main_context}
  ELSE UNCHANGED <<stop_check_id, idles>>

\* Finalizing the sources of K except those of Z empties the table.
Mut_SizeBeforeRemove(K, Z) == K \ Z # {} /\ Registered = {}
NoneLeft(K, Z) == K \ Z # {} /\ Registered \subseteq K \ Z

\* g_source_destroy() on the sources of K.  Those in Z are still referenced by
\* the dispatch loop and are finalized later; the others are finalized at once,
\* which unregisters them and, if none is left, installs the stop check.
sr_session_source_destroyed(K, Z) ==
  /\ src' = [k \in Keys |-> IF k \notin K THEN src[k]
                            ELSE IF k \in Z THEN "destroyed" ELSE "none"]
  /\ srcCtx' = srcCtx
  /\ stop_check_later(NoneLeft(K, Z))

\* A driver installs sources for the keys A.  A key that is still registered
\* is rejected (SR_ERR_BUG) and its source remains the registered one.
sr_session_source_add_internal(A) ==
  LET new == {k \in A : src[k] = "none"}
  IN  /\ src' = [k \in Keys |-> IF k \in new THEN "attached" ELSE src[k]]
      /\ srcCtx' = [k \in Keys |-> IF k \in new THEN main_context ELSE srcCtx[k]]
      /\ UNCHANGED <<stop_check_id, idles>>

\* sr_dev_acquisition_start(): the driver installs the sources A.  A device
\* left without any attached source has nothing more to do.
sr_dev_acquisition_start(d, A) ==
  /\ sr_session_source_add_internal(A)
  /\ acq' = [acq EXCEPT ![d] =
               IF \E k \in KeysOf({d}) : src'[k] = "attached" THEN "running" ELSE "idle"]

\* sr_dev_acquisition_stop() on every device of D, in list order.
sr_dev_acquisition_stop(D, Z) ==
  LET busy == {d \in D : acq[d] # "idle"}
      K == Attached(KeysOf(busy \cap SyncStop))
  IN  /\ sr_session_source_destroyed(K, K \cap Z)
      /\ acq' = [d \in Devs |-> IF d \notin busy THEN acq[d]
                                ELSE IF d \in SyncStop THEN "idle" ELSE "aborting"]

-----------------------------------------------------------------------------
(* Main contexts.                                                          *)

\* Context c survives when the reference `main_context` (M), `main_loop` (L)
\* and those of the stopping threads (S) are what remains.
Held(c, M, L, S) == c = 0 \/ c = M \/ c = L \/ \E t \in Stoppers : S[t] = c

\* Drop one reference to c: M, L, S are the references afterwards.  With the
\* last reference GLib destroys all sources of the context, and finalizing
\* ours unregisters them.
g_main_context_unref(c, M, L, S) ==
  LET K == {k \in Registered : srcCtx[k] = c}
      empty == K # {} /\ Registered \subseteq K
      armed == empty /\ ~stop_check_id /\ M # NULL
  IN  IF Held(c, M, L, S)
      THEN UNCHANGED <<src, srcCtx, stop_check_id, idles, invokes>>
      ELSE /\ src' = [k \in Keys |-> IF k \in K THEN "none" ELSE src[k]]
           /\ srcCtx' = srcCtx
           /\ invokes' = [invokes EXCEPT ![c] = 0]
           /\ stop_check_id' = (stop_check_id \/ armed)
           /\ idles' = (idles \ {c}) \cup (IF armed THEN {M} ELSE {})

-----------------------------------------------------------------------------
(* The application, in the session thread.                                 *)

AtApp == alive /\ pc = "app"

\* sr_session_dev_add() while the session is stopped.
DevAdd(d) ==
  /\ AtApp /\ d \notin Members /\ running \in AddWhen /\ ~running
  /\ devs' = Append(devs, d)
  /\ UNCHANGED <<alive, running, regVars, loopVars, histVars, invokes, acq, pc,
                 idx, stopper>>

\* sr_session_dev_add() to a running session: the device is committed and
\* started now.  If that fails the device stays in the session.
DevAddRunning(d, A) ==
  /\ AtApp /\ d \notin Members /\ running \in AddWhen /\ running
  /\ devs' = Append(devs, d)
  /\ sr_dev_acquisition_start(d, A)
  /\ UNCHANGED <<alive, running, loopVars, histVars, invokes, pc, idx, stopper>>

\* sr_session_dev_remove() of the i-th device: it loses its pointer to the
\* session; whether it still acquires is not looked at.
DevRemove(i) ==
  /\ AtApp /\ running \in RemoveWhen
  /\ devs' = SubSeq(devs, 1, i - 1) \o SubSeq(devs, i + 1, Len(devs))
  /\ UNCHANGED <<alive, running, regVars, loopVars, histVars, invokes, acq, pc,
                 idx, stopper>>

\* sr_session_dev_remove_all()
DevRemoveAll ==
  /\ AtApp /\ running \in RemoveWhen
  /\ devs' = <<>>
  /\ UNCHANGED <<alive, running, regVars, loopVars, histVars, invokes, acq, pc,
                 idx, stopper>>

\* sr_session_destroy(): only of a session that is not running, with no call of
\* sr_session_run() or sr_session_stop() in progress.
Destroy ==
  /\ AtApp /\ ~running /\ main_loop = NULL
  /\ \A t \in Stoppers : stopper[t] = NULL
  /\ alive' = FALSE /\ devs' = <<>>
  /\ UNCHANGED <<running, regVars, loopVars, histVars, invokes, acq, pc, idx,
                 stopper>>

\* The context set_main_context() chooses: the thread-default one if the
\* session thread can acquire it, a new one otherwise.
ChosenContext == IF LoopMode = "own_context" THEN run + 1 ELSE 0

\* sr_session_start() up to and including set_main_context().  The calls that
\* are refused (no devices, running, bad trigger, no channel, failed commit)
\* change nothing.  It is not called from the middle of a dispatch batch.
StartBegin ==
  /\ AtApp /\ run < MaxRuns
  /\ devs # <<>> /\ ~running /\ main_context = NULL
  /\ \A k \in Keys : src[k] # "destroyed"
  /\ run' = run + 1
  /\ main_context' = ChosenContext
  /\ running' = TRUE
  /\ pc' = "starting" /\ idx' = 1
  /\ UNCHANGED <<alive, devs, main_loop, quit, regVars, invokes, acq, stopper,
                 stops, asked, notified>>

\* One iteration of the loop that has every device start its acquisition.
StartDev(A, ok) ==
  /\ pc = "starting" /\ idx <= Len(devs)
  /\ A \subseteq KeysOf({devs[idx]})
  /\ ok \/ StartMayFail
  /\ sr_dev_acquisition_start(devs[idx], A)
  /\ IF ok THEN pc' = pc /\ idx' = idx + 1
           ELSE pc' = "unwinding" /\ idx' = idx
  /\ UNCHANGED <<alive, devs, running, loopVars, histVars, invokes, stopper>>

Mut_NoCheckAfterStart == FALSE
NothingToWaitFor == Registered = {}

\* All devices started: sr_session_start() returns SR_OK.
StartDone ==
  /\ pc = "starting" /\ idx > Len(devs)
  /\ pc' = "app" /\ idx' = 0
  /\ stop_check_later(NothingToWaitFor)
  /\ UNCHANGED <<alive, devs, running, loopVars, src, srcCtx, histVars, invokes,
                 acq, stopper>>

\* The devices the error path stops: up to and including the one that failed.
Mut_UnwindShort == {devs[i] : i \in 1 .. idx - 1}
ToUnwind == {devs[i] : i \in 1 .. idx}

\* A device failed: stop the ones before it, and itself.
UnwindStop ==
  /\ pc = "unwinding"
  /\ sr_dev_acquisition_stop(ToUnwind, {})
  /\ pc' = "unsetting" /\ idx' = 0
  /\ UNCHANGED <<alive, devs, running, loopVars, histVars, invokes, stopper>>

\* The sources left on the context die with it and the registry is empty
\* then, so that stop_check_later() wants main_mutex, which is held.
DeadlocksInUnset ==
  LET K == {k \in Registered : srcCtx[k] = main_context}
  IN  /\ ~Held(main_context, NULL, main_loop, stopper)
      /\ K # {} /\ K = Registered /\ ~stop_check_id

\* running = FALSE; unset_main_context(); sr_session_start() returns the error.
StartAbort ==
  /\ pc = "unsetting"
  /\ running' = FALSE
  /\ IF DeadlocksInUnset
     THEN pc' = "deadlock" /\ UNCHANGED <<main_context, regVars, invokes>>
     ELSE /\ pc' = "app" /\ main_context' = NULL
          /\ g_main_context_unref(main_context, NULL, main_loop, stopper)
  /\ UNCHANGED <<alive, devs, main_loop, quit, histVars, acq, idx, stopper>>

\* sr_session_run(): create the main loop and block in it.
RunEnter ==
  /\ AtApp /\ running /\ main_loop = NULL /\ main_context # NULL
  /\ main_loop' = main_context /\ quit' = FALSE
  /\ UNCHANGED <<alive, devs, running, main_context, regVars, invokes, acq, pc,
                 idx, stopper, histVars>>

\* (Mut_LeakLoop: the loop and its context are never released.)
Mut_LeakLoop ==
  /\ AtApp /\ main_loop # NULL /\ quit
  /\ main_loop' = NULL /\ quit' = FALSE
  /\ UNCHANGED <<alive, devs, running, main_context, regVars, invokes, acq, pc,
                 idx, stopper, histVars>>

\* g_main_loop_run() returns: release the loop and its context.
RunExit ==
  /\ AtApp /\ main_loop # NULL /\ quit
  /\ main_loop' = NULL /\ quit' = FALSE
  /\ g_main_context_unref(main_loop, main_context, NULL, stopper)
  /\ UNCHANGED <<alive, devs, running, main_context, acq, pc, idx, stopper,
                 histVars>>

-----------------------------------------------------------------------------
(* Event dispatch, in the session thread.                                  *)

\* Is the run over?  New event sources may have been installed meanwhile.
Mut_NoSourceCheck == running
RunIsOver == running /\ Registered = {}

\* unset_main_context() is reached only then.
ContextAfterCheck == IF RunIsOver THEN NULL ELSE main_context

\* The idle source removes itself and its id is forgotten.
Mut_KeepCheckId(c) == stop_check_id' = stop_check_id /\ idles' = idles \ {c}
StopCheckDone(c) == stop_check_id' = FALSE /\ idles' = idles \ {c}

Mut_NoQuit == quit
g_main_loop_quit == main_loop # NULL

\* The idle handler: end the run, tell the main loop and the application.
delayed_stop_check(c) ==
  /\ c \in idles /\ Iterates(c)
  /\ StopCheckDone(c)
  /\ main_context' = ContextAfterCheck
  /\ IF RunIsOver
     THEN running' = FALSE /\ quit' = g_main_loop_quit /\ notified' = notified \cup {run}
     ELSE UNCHANGED <<running, quit, notified>>
  /\ UNCHANGED <<alive, devs, main_loop, src, srcCtx, invokes, acq, pc, idx,
                 stopper, run, stops, asked>>

Dispatchable(k) == src[k] = "attached" /\ Iterates(srcCtx[k])

\* The callback of a device that has no session any more, sdi->session being
\* NULL: the driver removes its source from, or sends to, that session.
DispatchOrphan(k) ==
  /\ Dispatchable(k) /\ Owner[k] \notin Members
  /\ pc' = "crash"
  /\ UNCHANGED <<alive, devs, running, regVars, loopVars, invokes, acq, idx,
                 stopper, histVars>>

\* The driver's callback on the source of k ends the acquisition of its device
\* and removes all of the device's sources.  Its own source is finalized when
\* the callback has returned, those in Z when the dispatch loop reaches them.
DispatchFinish(k, Z) ==
  LET d == Owner[k]
      K == Attached(KeysOf({d}))
  IN  /\ Dispatchable(k) /\ Owner[k] \in Members
      /\ Z \subseteq K \ {k}
      /\ sr_session_source_destroyed(K, Z)
      /\ acq' = [acq EXCEPT ![d] = "idle"]
      /\ UNCHANGED <<alive, devs, running, loopVars, invokes, pc, idx, stopper,
                     histVars>>

\* The callback returns FALSE, or removes its own source, while the device
\* keeps another one.
DispatchDrop(k) ==
  /\ Dispatchable(k) /\ Owner[k] \in Members
  /\ Attached(KeysOf({Owner[k]})) # {k}
  /\ sr_session_source_destroyed({k}, {})
  /\ UNCHANGED <<alive, devs, running, loopVars, invokes, acq, pc, idx, stopper,
                 histVars>>

\* The callback on k installs the source of another key of its device.  With
\* no main context left the source is refused and finalized, to no effect.
DispatchAdd(k, k2) ==
  /\ Dispatchable(k) /\ Owner[k] \in Members
  /\ Owner[k2] = Owner[k] /\ src[k2] = "none" /\ acq[Owner[k]] = "running"
  /\ main_context # NULL
  /\ sr_session_source_add_internal({k2})
  /\ UNCHANGED <<alive, devs, running, loopVars, invokes, acq, pc, idx, stopper,
                 histVars>>

\* The dispatch loop reaches a destroyed source and drops the last reference.
FinalizeSource(k) ==
  /\ src[k] = "destroyed" /\ AtApp
  /\ sr_session_source_destroyed({k}, {})
  /\ UNCHANGED <<alive, devs, running, loopVars, invokes, acq, pc, idx, stopper,
                 histVars>>

-----------------------------------------------------------------------------
(* Stopping.                                                               *)

ToStop == Members

\* session_stop_sync(): ask every device of a running session to stop.
session_stop_sync(Z) ==
  IF running THEN sr_dev_acquisition_stop(ToStop, Z)
             ELSE UNCHANGED <<regVars, acq>>

\* A queued session_stop_sync() is dispatched.
StopDispatch(c, Z) ==
  /\ invokes[c] > 0 /\ Iterates(c)
  /\ invokes' = [invokes EXCEPT ![c] = @ - 1]
  /\ session_stop_sync(Z)
  /\ UNCHANGED <<alive, devs, running, loopVars, pc, idx, stopper, histVars>>

Asking ==
  /\ main_context # NULL /\ stops < MaxStops
  /\ stops' = stops + 1
  /\ asked' = asked \cup {run}

\* sr_session_stop() by the session thread, which owns the context (or can
\* acquire it) and calls session_stop_sync() directly.
StopHere(Z) ==
  /\ AtApp /\ Asking
  /\ LoopMode = "own_context" => main_loop = main_context
  /\ session_stop_sync(Z)
  /\ UNCHANGED <<alive, devs, running, loopVars, invokes, pc, idx, stopper, run,
                 notified>>

\* The same before sr_session_run(), on a context that is not the default one.
StopHereQueued ==
  /\ AtApp /\ Asking
  /\ LoopMode = "own_context" /\ main_loop # main_context
  /\ invokes' = [invokes EXCEPT ![main_context] = @ + 1]
  /\ UNCHANGED <<alive, devs, running, regVars, loopVars, acq, pc, idx, stopper,
                 run, notified>>

\* sr_session_stop() by another thread: reference the context under the mutex.
StopRef(t) ==
  /\ alive /\ stopper[t] = NULL /\ pc \notin {"deadlock", "crash"} /\ Asking
  /\ stopper' = [stopper EXCEPT ![t] = main_context]
  /\ UNCHANGED <<alive, devs, running, regVars, loopVars, invokes, acq, pc, idx,
                 run, notified>>

\* Nobody owns the default context, which is the calling thread's as well:
\* g_main_context_invoke() acquires it and calls session_stop_sync() here.
Unowned(c) == c = 0 /\ LoopMode = "session_run" /\ main_loop # 0

StopInvokeDirect(t) ==
  /\ stopper[t] # NULL /\ Unowned(stopper[t])
  /\ session_stop_sync({})
  /\ stopper' = [stopper EXCEPT ![t] = NULL]
  /\ UNCHANGED <<alive, devs, running, loopVars, invokes, pc, idx, histVars>>

\* g_main_context_invoke() queues session_stop_sync() for the owner, and the
\* reference is dropped.
StopInvokeQueued(t) ==
  LET c == stopper[t]
      S == [stopper EXCEPT ![t] = NULL]
  IN  /\ c # NULL /\ ~Unowned(c)
      /\ stopper' = S
      /\ IF Held(c, main_context, main_loop, S)
         THEN /\ invokes' = [invokes EXCEPT ![c] = @ + 1]
              /\ UNCHANGED regVars
         ELSE g_main_context_unref(c, main_context, main_loop, S)
      /\ UNCHANGED <<alive, devs, running, loopVars, acq, pc, idx, histVars>>

-----------------------------------------------------------------------------
Application ==
  \/ \E d \in Devs : DevAdd(d)
  \/ \E d \in Devs, A \in SUBSET Keys : A \subseteq KeysOf({d}) /\ DevAddRunning(d, A)
  \/ \E i \in 1 .. Len(devs) : DevRemove(i)
  \/ DevRemoveAll
  \/ Destroy
  \/ StartBegin
  \/ RunEnter
  \/ \E Z \in SUBSET Keys : StopHere(Z)
  \/ StopHereQueued

StartSteps ==
  \/ \E A \in SUBSET Keys, ok \in BOOLEAN : StartDev(A, ok)
  \/ StartDone
  \/ UnwindStop
  \/ StartAbort

Dispatch ==
  \/ \E c \in Ctx : delayed_stop_check(c)
  \/ \E c \in Ctx, Z \in SUBSET Keys : StopDispatch(c, Z)
  \/ \E k \in Keys, Z \in SUBSET Keys : DispatchFinish(k, Z)
  \/ \E k \in Keys : DispatchDrop(k) \/ DispatchOrphan(k)
  \/ \E k, k2 \in Keys : DispatchAdd(k, k2)
  \/ \E k \in Keys : FinalizeSource(k)
  \/ RunExit

OtherThreads ==
  \E t \in Stoppers : StopRef(t) \/ StopInvokeDirect(t) \/ StopInvokeQueued(t)

Next == Application \/ StartSteps \/ Dispatch \/ OtherThreads

Spec == Init /\ [][Next]_vars

\* What the scheduling guarantees: a started call returns, an application that
\* relies on sr_session_run() calls it, an iterated context dispatches what is
\* pending in it, an acquisition that was told to abort completes, and a call
\* of sr_session_stop() returns.  The application is free never to call
\* anything else, and an acquisition never has to end by itself.
Fairness ==
  /\ WF_vars(StartSteps)
  /\ WF_vars(LoopMode # "app_loop" /\ RunEnter)
  /\ WF_vars(RunExit)
  /\ \A c \in Ctx : WF_vars(delayed_stop_check(c))
  /\ \A c \in Ctx : WF_vars(\E Z \in SUBSET Keys : StopDispatch(c, Z))
  /\ \A k \in Keys : WF_vars(FinalizeSource(k))
  /\ \A k \in Keys : WF_vars(/\ acq[Owner[k]] = "aborting"
                            /\ \E Z \in SUBSET Keys : DispatchFinish(k, Z))
  /\ \A t \in Stoppers : WF_vars(StopInvokeDirect(t) \/ StopInvokeQueued(t))

FairSpec == Spec /\ Fairness

-----------------------------------------------------------------------------
(* Properties.                                                             *)

\* A running session without event sources has an idle handler pending in the
\* context of the current run: otherwise nothing ever ends the run.
\* (stop_check_later() and sr_session_source_destroyed())
StopCheckArmed ==
  AtApp /\ running /\ Registered = {} => stop_check_id /\ main_context \in idles

\* The driver callbacks run only for devices that are in the session: the
\* sources of a device are gone when the application, seeing the session
\* stopped, removes it.
NoOrphanCallback == pc # "crash"

\* When the session is not running, no device still acquires without having
\* been told to stop: the error path of sr_session_start() reaches all of the
\* devices that were started, the failing one included.
StoppedDevicesTold ==
  AtApp /\ ~running => \A d \in Devs : acq[d] # "running"

\* Nothing that refers to the session object is pending after
\* sr_session_destroy() of a session that is not running.
NoUseAfterDestroy ==
  ~alive => idles = {} /\ Registered = {} /\ \A c \in Ctx : invokes[c] = 0

\* "Once acquired, the main context pointer is immutable for the duration of
\* the session run": it changes only in a step that starts or ends a run.
MainContextImmutable ==
  [][main_context' # main_context => running' # running]_vars

\* After sr_session_stop() the run it was called in ends, whatever the devices
\* are doing and whichever thread called it.
StopDelivered ==
  \A r \in Ctx : (r \in asked /\ running /\ run = r) ~> ~(running /\ run = r)

\* A run that ends is over for sr_session_run() too: it returns.
RunReturns == (main_loop # NULL /\ ~running) ~> (main_loop = NULL)

-----------------------------------------------------------------------------
(* The session as the application sees it.                                 *)

Phase ==
  IF pc \in {"starting", "unwinding", "unsetting"} THEN "starting"
  ELSE IF running THEN "running" ELSE "stopped"

Lifecycle == INSTANCE SessionLifecycle
  WITH phase <- Phase,
       live  <- {Owner[k] : k \in Registered},
       ended <- Cardinality(notified)

\* The session implements its life cycle: a run is reported exactly once, only
\* when every device is done, and a run with no device left is reported.
\* (sr_session_start(), delayed_stop_check(), sr_session_source_destroyed())
ImplementsLifecycle == Lifecycle!LifeSpec
=============================================================================
