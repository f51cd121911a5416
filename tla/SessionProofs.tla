---------------------------- MODULE SessionProofs ----------------------------
(***************************************************************************)
(* Theorems about Session for every set of devices, keys and threads, every *)
(* ownership of keys and every bound.                                      *)
(***************************************************************************)
EXTENDS Session, FiniteSetTheorems, TLAPS

USE SessionAssumption DEF Ctx

-----------------------------------------------------------------------------
(* What the operators on the registry and on contexts leave behind.        *)

\* stop_check_later() keeps the types of the variables it sets.
LEMMA StopCheckLaterType ==
  ASSUME TypeOK, NEW STATE needed, needed \in BOOLEAN, stop_check_later(needed)
  PROVE  stop_check_id' \in BOOLEAN /\ idles' \in SUBSET Ctx
BY DEF TypeOK, stop_check_later

\* Finalizing sources keeps the registry well typed.
LEMMA SourceDestroyedType ==
  ASSUME TypeOK, NEW STATE K, NEW STATE Z, sr_session_source_destroyed(K, Z)
  PROVE  /\ src' \in [Keys -> {"none", "attached", "destroyed"}]
         /\ srcCtx' \in [Keys -> Ctx]
         /\ stop_check_id' \in BOOLEAN /\ idles' \in SUBSET Ctx
BY DEF TypeOK, stop_check_later, sr_session_source_destroyed

\* Adding sources keeps it well typed while the session has a context.
LEMMA SourceAddType ==
  ASSUME TypeOK, NEW STATE A, main_context # NULL, sr_session_source_add_internal(A)
  PROVE  /\ src' \in [Keys -> {"none", "attached", "destroyed"}]
         /\ srcCtx' \in [Keys -> Ctx]
         /\ stop_check_id' \in BOOLEAN /\ idles' \in SUBSET Ctx
BY DEF TypeOK, sr_session_source_add_internal

\* Stopping devices keeps the registry and the drivers' states well typed.
LEMMA AcquisitionStopType ==
  ASSUME TypeOK, NEW STATE D, NEW STATE Z, sr_dev_acquisition_stop(D, Z)
  PROVE  /\ src' \in [Keys -> {"none", "attached", "destroyed"}]
         /\ srcCtx' \in [Keys -> Ctx]
         /\ stop_check_id' \in BOOLEAN /\ idles' \in SUBSET Ctx
         /\ acq' \in [Devs -> {"idle", "running", "aborting"}]
<1> DEFINE busy == {d \in D : acq[d] # "idle"}
           K == Attached(KeysOf(busy \cap SyncStop))
<1>1. /\ sr_session_source_destroyed(K, K \cap Z)
      /\ acq' = [d \in Devs |-> IF d \notin busy THEN acq[d]
                                ELSE IF d \in SyncStop THEN "idle" ELSE "aborting"]
  BY DEF sr_dev_acquisition_stop
<1> HIDE DEF K, busy
<1>2. acq' \in [Devs -> {"idle", "running", "aborting"}]
  BY <1>1 DEF TypeOK
<1> QED BY <1>1, <1>2, SourceDestroyedType

\* So does a session_stop_sync(), which may find the session stopped.
LEMMA StopSyncType ==
  ASSUME TypeOK, NEW STATE Z, session_stop_sync(Z)
  PROVE  /\ src' \in [Keys -> {"none", "attached", "destroyed"}]
         /\ srcCtx' \in [Keys -> Ctx]
         /\ stop_check_id' \in BOOLEAN /\ idles' \in SUBSET Ctx
         /\ acq' \in [Devs -> {"idle", "running", "aborting"}]
BY AcquisitionStopType DEF session_stop_sync, TypeOK, regVars

\* Dropping a reference to a context keeps everything well typed.
LEMMA UnrefType ==
  ASSUME TypeOK, NEW STATE c, c \in Ctx, NEW STATE M, M \in Ctx \cup {NULL},
         NEW STATE L, NEW STATE S,
         g_main_context_unref(c, M, L, S)
  PROVE  /\ src' \in [Keys -> {"none", "attached", "destroyed"}]
         /\ srcCtx' \in [Keys -> Ctx]
         /\ stop_check_id' \in BOOLEAN /\ idles' \in SUBSET Ctx
         /\ invokes' \in [Ctx -> Nat]
<1> DEFINE K == {k \in Registered : srcCtx[k] = c}
           armed == (K # {} /\ Registered \subseteq K) /\ ~stop_check_id /\ M # NULL
<1>1. CASE Held(c, M, L, S)
  BY <1>1 DEF TypeOK, g_main_context_unref
<1>2. CASE ~Held(c, M, L, S)
  <2>1. /\ src' = [k \in Keys |-> IF k \in K THEN "none" ELSE src[k]]
        /\ srcCtx' = srcCtx
        /\ invokes' = [invokes EXCEPT ![c] = 0]
        /\ stop_check_id' = (stop_check_id \/ armed)
        /\ idles' = (idles \ {c}) \cup (IF armed THEN {M} ELSE {})
    BY <1>2 DEF g_main_context_unref
  <2>2. armed \in BOOLEAN /\ (armed => M \in Ctx)
    BY DEF TypeOK
  <2> HIDE DEF armed, K
  <2>3. idles' \in SUBSET Ctx
    BY <2>1, <2>2 DEF TypeOK
  <2>4. stop_check_id' \in BOOLEAN
    BY <2>1, <2>2 DEF TypeOK
  <2> QED BY <2>1, <2>3, <2>4 DEF TypeOK
<1> QED BY <1>1, <1>2

-----------------------------------------------------------------------------
(* Types.  A source is attached to session->main_context, so that typing    *)
(* the registry needs the fact that a running session has a context.        *)

InStart == pc \in {"starting", "unwinding", "unsetting"}

RunHasContext == (running => main_context # NULL) /\ (InStart => running)

TInv == TypeOK /\ RunHasContext

\* A session is born well typed.
LEMMA TInvInit == Init => TInv
<1>1. <<>> \in Seq(Devs) /\ 0 \in Ctx
  OBVIOUS
<1> SUFFICES ASSUME Init PROVE TInv
  OBVIOUS
<1>2. devs \in Seq(Devs)
  BY <1>1 DEF Init
<1>3. /\ src \in [Keys -> {"none", "attached", "destroyed"}]
      /\ srcCtx \in [Keys -> Ctx] /\ invokes \in [Ctx -> Nat]
      /\ acq \in [Devs -> {"idle", "running", "aborting"}]
      /\ stopper \in [Stoppers -> Ctx \cup {NULL}]
  BY <1>1 DEF Init
<1>4. RunHasContext
  BY DEF Init, RunHasContext, InStart
<1> QED BY <1>1, <1>2, <1>3, <1>4 DEF Init, TInv, TypeOK

\* Every step keeps the types and keeps the context of a running session.
LEMMA TInvNext == TInv /\ [Next]_vars => TInv'
<1> SUFFICES ASSUME TInv, [Next]_vars PROVE TInv'
  OBVIOUS
<1> USE DEF TInv
<1>1. ASSUME NEW d \in Devs, DevAdd(d) PROVE TInv'
  BY <1>1 DEF DevAdd, AtApp, TypeOK, RunHasContext, InStart, regVars, loopVars, histVars
<1>2. ASSUME NEW d \in Devs, NEW A \in SUBSET Keys, DevAddRunning(d, A) PROVE TInv'
  <2>1. main_context # NULL
    BY <1>2 DEF DevAddRunning, RunHasContext
  <2>2. sr_session_source_add_internal(A)
    BY <1>2 DEF DevAddRunning, sr_dev_acquisition_start
  <2>3. acq' \in [Devs -> {"idle", "running", "aborting"}]
    BY <1>2 DEF DevAddRunning, sr_dev_acquisition_start, TypeOK
  <2>4. devs' \in Seq(Devs)
    BY <1>2 DEF DevAddRunning, TypeOK
  <2>5. /\ src' \in [Keys -> {"none", "attached", "destroyed"}]
        /\ srcCtx' \in [Keys -> Ctx]
        /\ stop_check_id' \in BOOLEAN /\ idles' \in SUBSET Ctx
    BY <2>1, <2>2, SourceAddType
  <2> QED BY <1>2, <2>3, <2>4, <2>5
          DEF DevAddRunning, TypeOK, RunHasContext, InStart, loopVars, histVars
<1>3. CASE DevRemoveAll \/ \E i \in 1 .. Len(devs) : DevRemove(i)
  <2>1. ASSUME NEW i \in 1 .. Len(devs), devs \in Seq(Devs)
        PROVE  SubSeq(devs, 1, i - 1) \o SubSeq(devs, i + 1, Len(devs)) \in Seq(Devs)
    <3>1. SubSeq(devs, 1, i - 1) \in Seq(Devs) /\ SubSeq(devs, i + 1, Len(devs)) \in Seq(Devs)
      BY <2>1
    <3> QED BY <3>1
  <2>2. <<>> \in Seq(Devs) /\ devs \in Seq(Devs)
    BY DEF TypeOK
  <2>3. devs' \in Seq(Devs)
    BY <1>3, <2>1, <2>2 DEF DevRemove, DevRemoveAll
  <2>4. UNCHANGED <<alive, running, regVars, loopVars, histVars, invokes, acq, pc, idx, stopper>>
    BY <1>3 DEF DevRemove, DevRemoveAll
  <2> QED BY <2>3, <2>4
          DEF TypeOK, RunHasContext, InStart, regVars, loopVars,
              histVars
<1>4. CASE Destroy
  <2>1. <<>> \in Seq(Devs)
    OBVIOUS
  <2> QED BY <1>4, <2>1
          DEF Destroy, TypeOK, RunHasContext, InStart, regVars, loopVars, histVars
<1>5. CASE StartBegin
  <2>1. run + 1 \in Ctx /\ 0 \in Ctx /\ 0 # NULL /\ run + 1 # NULL
    BY <1>5 DEF StartBegin, TypeOK
  <2> QED BY <1>5, <2>1
          DEF StartBegin, ChosenContext, TypeOK, RunHasContext, InStart, regVars
<1>6. CASE RunEnter
  BY <1>6 DEF RunEnter, AtApp, TypeOK, RunHasContext, InStart, regVars, histVars
<1>7. ASSUME NEW Z \in SUBSET Keys, StopHere(Z) PROVE TInv'
  <2>1. stops' \in Nat /\ asked' \in SUBSET Ctx
    BY <1>7 DEF StopHere, Asking, TypeOK
  <2>2. session_stop_sync(Z)
    BY <1>7 DEF StopHere
  <2> QED BY <1>7, <2>1, <2>2, StopSyncType
          DEF StopHere, TypeOK, RunHasContext, InStart, loopVars
<1>8. CASE StopHereQueued
  <2>1. stops' \in Nat /\ asked' \in SUBSET Ctx
    BY <1>8 DEF StopHereQueued, Asking, TypeOK
  <2>2. invokes' \in [Ctx -> Nat]
    BY <1>8 DEF StopHereQueued, Asking, TypeOK
  <2> QED BY <1>8, <2>1, <2>2
          DEF StopHereQueued, TypeOK, RunHasContext, InStart, regVars, loopVars
<1>9. ASSUME NEW A \in SUBSET Keys, NEW ok \in BOOLEAN, StartDev(A, ok) PROVE TInv'
  <2>1. main_context # NULL
    BY <1>9 DEF StartDev, RunHasContext, InStart
  <2>2. sr_session_source_add_internal(A)
    BY <1>9 DEF StartDev, sr_dev_acquisition_start
  <2>3. acq' \in [Devs -> {"idle", "running", "aborting"}]
    BY <1>9 DEF StartDev, sr_dev_acquisition_start, TypeOK
  <2>4. idx' \in Nat /\ pc' \in {"starting", "unwinding"}
    BY <1>9 DEF StartDev, TypeOK
  <2> QED BY <1>9, <2>1, <2>2, <2>3, <2>4, SourceAddType
          DEF StartDev, TypeOK, RunHasContext, InStart, loopVars, histVars
<1>10. CASE StartDone
  <2>1. stop_check_id' \in BOOLEAN /\ idles' \in SUBSET Ctx
    BY <1>10, StopCheckLaterType DEF StartDone, NothingToWaitFor
  <2> QED BY <1>10, <2>1
          DEF StartDone, TypeOK, RunHasContext, InStart, loopVars, histVars
<1>11. CASE UnwindStop
  <2>1. sr_dev_acquisition_stop(ToUnwind, {})
    BY <1>11 DEF UnwindStop
  <2> QED BY <1>11, <2>1, AcquisitionStopType
          DEF UnwindStop, TypeOK, RunHasContext, InStart, loopVars, histVars
<1>12. CASE StartAbort
  <2>1. CASE DeadlocksInUnset
    BY <1>12, <2>1 DEF StartAbort, TypeOK, RunHasContext, InStart, regVars, histVars
  <2>2. CASE ~DeadlocksInUnset
    <3>1. main_context \in Ctx
      BY <1>12 DEF StartAbort, TypeOK, RunHasContext, InStart
    <3>2. g_main_context_unref(main_context, NULL, main_loop, stopper)
      BY <1>12, <2>2 DEF StartAbort
    <3> QED BY <1>12, <2>2, <3>1, <3>2, UnrefType
            DEF StartAbort, TypeOK, RunHasContext, InStart, histVars
  <2> QED BY <2>1, <2>2
<1>13. ASSUME NEW c \in Ctx, delayed_stop_check(c) PROVE TInv'
  <2>1. stop_check_id' \in BOOLEAN /\ idles' \in SUBSET Ctx
    BY <1>13 DEF delayed_stop_check, StopCheckDone, TypeOK
  <2>2. /\ running' \in BOOLEAN /\ quit' \in BOOLEAN /\ notified' \in SUBSET Ctx
        /\ main_context' \in Ctx \cup {NULL}
        /\ running' => main_context' # NULL
    BY <1>13 DEF delayed_stop_check, RunIsOver, ContextAfterCheck, g_main_loop_quit,
                 TypeOK, RunHasContext
  <2> QED BY <1>13, <2>1, <2>2
          DEF delayed_stop_check, Iterates, TypeOK, RunHasContext, InStart
<1>14. ASSUME NEW c \in Ctx, NEW Z \in SUBSET Keys, StopDispatch(c, Z) PROVE TInv'
  <2>1. invokes' \in [Ctx -> Nat]
    BY <1>14 DEF StopDispatch, TypeOK
  <2>2. session_stop_sync(Z)
    BY <1>14 DEF StopDispatch
  <2> QED BY <1>14, <2>1, <2>2, StopSyncType
          DEF StopDispatch, TypeOK, RunHasContext, InStart, loopVars, histVars
<1>15. ASSUME NEW k \in Keys, NEW Z \in SUBSET Keys, DispatchFinish(k, Z) PROVE TInv'
  <2>1. sr_session_source_destroyed(Attached(KeysOf({Owner[k]})), Z)
    BY <1>15 DEF DispatchFinish
  <2>2. acq' \in [Devs -> {"idle", "running", "aborting"}]
    BY <1>15 DEF DispatchFinish, TypeOK
  <2> QED BY <1>15, <2>1, <2>2, SourceDestroyedType
          DEF DispatchFinish, TypeOK, RunHasContext, InStart, loopVars, histVars
<1>16. ASSUME NEW k \in Keys, DispatchDrop(k) PROVE TInv'
  <2>1. sr_session_source_destroyed({k}, {})
    BY <1>16 DEF DispatchDrop
  <2> QED BY <1>16, <2>1, SourceDestroyedType
          DEF DispatchDrop, TypeOK, RunHasContext, InStart, loopVars, histVars
<1>17. ASSUME NEW k \in Keys, DispatchOrphan(k) PROVE TInv'
  BY <1>17 DEF DispatchOrphan, TypeOK, RunHasContext, InStart, regVars, loopVars, histVars
<1>18. ASSUME NEW k \in Keys, NEW k2 \in Keys, DispatchAdd(k, k2) PROVE TInv'
  <2>1. main_context # NULL /\ sr_session_source_add_internal({k2})
    BY <1>18 DEF DispatchAdd
  <2> QED BY <1>18, <2>1, SourceAddType
          DEF DispatchAdd, TypeOK, RunHasContext, InStart, loopVars, histVars
<1>19. ASSUME NEW k \in Keys, FinalizeSource(k) PROVE TInv'
  <2>1. sr_session_source_destroyed({k}, {})
    BY <1>19 DEF FinalizeSource
  <2> QED BY <1>19, <2>1, SourceDestroyedType
          DEF FinalizeSource, TypeOK, RunHasContext, InStart, loopVars, histVars
<1>20. CASE RunExit
  <2>1. main_loop \in Ctx /\ g_main_context_unref(main_loop, main_context, NULL, stopper)
    BY <1>20 DEF RunExit, TypeOK
  <2>2. main_context \in Ctx \cup {NULL}
    BY DEF TypeOK
  <2> QED BY <1>20, <2>1, <2>2, UnrefType
          DEF RunExit, TypeOK, RunHasContext, InStart, histVars
<1>21. ASSUME NEW t \in Stoppers, StopRef(t) PROVE TInv'
  <2>1. stops' \in Nat /\ asked' \in SUBSET Ctx
    BY <1>21 DEF StopRef, Asking, TypeOK
  <2>2. stopper' \in [Stoppers -> Ctx \cup {NULL}]
    BY <1>21 DEF StopRef, TypeOK
  <2> QED BY <1>21, <2>1, <2>2
          DEF StopRef, TypeOK, RunHasContext, InStart, regVars, loopVars
<1>22. ASSUME NEW t \in Stoppers, StopInvokeDirect(t) PROVE TInv'
  <2>1. session_stop_sync({}) /\ stopper' \in [Stoppers -> Ctx \cup {NULL}]
    BY <1>22 DEF StopInvokeDirect, TypeOK
  <2> QED BY <1>22, <2>1, StopSyncType
          DEF StopInvokeDirect, TypeOK, RunHasContext, InStart, loopVars, histVars
<1>23. ASSUME NEW t \in Stoppers, StopInvokeQueued(t) PROVE TInv'
  <2> DEFINE S == [stopper EXCEPT ![t] = NULL]
  <2>1. stopper[t] \in Ctx /\ stopper' = S /\ S \in [Stoppers -> Ctx \cup {NULL}]
    BY <1>23 DEF StopInvokeQueued, TypeOK
  <2>2. CASE Held(stopper[t], main_context, main_loop, S)
    <3>1. invokes' = [invokes EXCEPT ![stopper[t]] = @ + 1] /\ UNCHANGED regVars
      BY <1>23, <2>2 DEF StopInvokeQueued
    <3>2. invokes' \in [Ctx -> Nat]
      BY <2>1, <3>1 DEF TypeOK
    <3> QED BY <1>23, <2>1, <3>1, <3>2
            DEF StopInvokeQueued, TypeOK, RunHasContext, InStart, regVars, loopVars, histVars
  <2>3. CASE ~Held(stopper[t], main_context, main_loop, S)
    <3>1. g_main_context_unref(stopper[t], main_context, main_loop, S)
      BY <1>23, <2>3 DEF StopInvokeQueued
    <3>2. main_context \in Ctx \cup {NULL}
      BY DEF TypeOK
    <3>3. /\ src' \in [Keys -> {"none", "attached", "destroyed"}]
          /\ srcCtx' \in [Keys -> Ctx]
          /\ stop_check_id' \in BOOLEAN /\ idles' \in SUBSET Ctx
          /\ invokes' \in [Ctx -> Nat]
      BY <2>1, <3>1, <3>2, UnrefType
    <3> QED BY <1>23, <2>1, <3>3
            DEF StopInvokeQueued, TypeOK, RunHasContext, InStart, loopVars, histVars
  <2> QED BY <2>2, <2>3
<1>24. CASE UNCHANGED vars
  BY <1>24 DEF vars, TypeOK, RunHasContext, InStart
<1> QED BY <1>1, <1>2, <1>3, <1>4, <1>5, <1>6, <1>7, <1>8, <1>9, <1>10, <1>11,
           <1>12, <1>13, <1>14, <1>15, <1>16, <1>17, <1>18, <1>19, <1>20, <1>21,
           <1>22, <1>23, <1>24
        DEF Next, Application, StartSteps, Dispatch, OtherThreads

\* Every reachable state is well typed, and a running session has a context.
LEMMA TInvAlways == Spec => []TInv
BY TInvInit, TInvNext, PTL DEF Spec

\* All the state of the session keeps its type, for every set of devices, keys
\* and threads (session.c: struct sr_session and what the drivers keep).
THEOREM SessionTypes == Spec => []TypeOK
BY TInvAlways, PTL DEF TInv

\* The context pointer changes only where a run begins or ends, which is what
\* the comment of set_main_context() requires.
THEOREM ContextIsImmutable == Spec => MainContextImmutable
<1>1. ASSUME TInv, [Next]_vars PROVE main_context' # main_context => running' # running
  <2> SUFFICES ASSUME main_context' # main_context PROVE running' # running
    OBVIOUS
  <2>1. CASE StartBegin
    BY <2>1 DEF StartBegin
  <2>2. CASE StartAbort
    BY <1>1, <2>2 DEF StartAbort, TInv, RunHasContext, InStart
  <2>3. ASSUME NEW c \in Ctx, delayed_stop_check(c) PROVE running' # running
    BY <2>3 DEF delayed_stop_check, ContextAfterCheck, RunIsOver
  <2>4. CASE UNCHANGED loopVars
    BY <2>4 DEF loopVars
  <2>5. CASE RunEnter \/ RunExit \/ UNCHANGED vars
    BY <2>5 DEF RunEnter, RunExit, vars
  <2> QED
    BY <1>1, <2>1, <2>2, <2>3, <2>4, <2>5
    DEF Next, Application, StartSteps, Dispatch, OtherThreads, DevAdd, DevAddRunning,
        DevRemove, DevRemoveAll, Destroy, StopHere, StopHereQueued, StartDev, StartDone,
        UnwindStop, StopDispatch, DispatchFinish, DispatchDrop, DispatchOrphan,
        DispatchAdd, FinalizeSource, StopRef, StopInvokeDirect, StopInvokeQueued
<1>2. TInv /\ [Next]_vars => [main_context' # main_context => running' # running]_vars
  BY <1>1
<1> QED BY <1>2, TInvAlways, PTL DEF Spec, MainContextImmutable

-----------------------------------------------------------------------------
(* A drained run ends.  The state to keep is that stop_check_id, when set,  *)
(* stands for an idle source in the context the run will iterate.  It does  *)
(* not survive the release of a context with a pending idle source, which   *)
(* is what a failed start does to a context of its own.                     *)

CheckContext == IF LoopMode = "own_context" THEN main_context ELSE 0

SInv ==
  /\ TInv
  /\ LoopMode # "own_context" => main_context \in {0, NULL}
  /\ ~StartMayFail => ~(pc \in {"unwinding", "unsetting"})
  /\ stop_check_id => CheckContext \in idles
  /\ (AtApp /\ running /\ Registered = {}) => stop_check_id

\* What every operation on the registry does for a session with context M: if
\* it takes away the last source then the stop check is installed, and pending
\* idle sources of M and of the default context stay.
Arms(M) ==
  /\ M # NULL /\ Registered' = {} => Registered = {} \/ stop_check_id'
  /\ stop_check_id => stop_check_id'
  /\ stop_check_id' => stop_check_id \/ M \in idles'
  /\ \A x \in idles : x = M \/ x = 0 => x \in idles'

\* Finalizing sources arms the stop check of the current context.
LEMMA DestroyedArms ==
  ASSUME TypeOK, NEW STATE K, NEW STATE Z, sr_session_source_destroyed(K, Z)
  PROVE  Arms(main_context)
<1>1. Registered' = (Registered \ K) \cup {k \in Keys : k \in K /\ k \in Z}
  BY DEF Registered, sr_session_source_destroyed, TypeOK
<1>2. Registered' = {} => Registered = {} \/ NoneLeft(K, Z)
  BY <1>1 DEF NoneLeft, Registered
<1>3. stop_check_later(NoneLeft(K, Z))
  BY DEF sr_session_source_destroyed
<1> QED BY <1>2, <1>3 DEF Arms, stop_check_later, TypeOK

\* Adding sources leaves the stop check alone.
LEMMA AddArms ==
  ASSUME TypeOK, NEW STATE A, sr_session_source_add_internal(A)
  PROVE  Arms(main_context)
<1>1. Registered \subseteq Registered'
  BY DEF Registered, sr_session_source_add_internal, TypeOK
<1>2. stop_check_id' = stop_check_id /\ idles' = idles
  BY DEF sr_session_source_add_internal
<1> QED BY <1>1, <1>2 DEF Arms

\* So does a step that leaves the registry alone.
LEMMA UnchangedArms ==
  ASSUME NEW STATE M, UNCHANGED regVars
  PROVE  Arms(M)
BY DEF Arms, regVars, Registered

\* A stop request arms the check if it removes the last source.
LEMMA StopSyncArms ==
  ASSUME TypeOK, NEW STATE Z, session_stop_sync(Z)
  PROVE  Arms(main_context)
<1>1. CASE running
  BY <1>1, DestroyedArms DEF session_stop_sync, sr_dev_acquisition_stop
<1>2. CASE ~running
  BY <1>2, UnchangedArms DEF session_stop_sync
<1> QED BY <1>1, <1>2

\* Releasing a context does too, for a session that uses another context.
LEMMA UnrefArms ==
  ASSUME TypeOK, NEW STATE c, NEW STATE M, NEW STATE L, NEW STATE S,
         g_main_context_unref(c, M, L, S)
  PROVE  Arms(M)
<1> DEFINE K == {k \in Registered : srcCtx[k] = c}
           armed == (K # {} /\ Registered \subseteq K) /\ ~stop_check_id /\ M # NULL
<1>1. CASE Held(c, M, L, S)
  BY <1>1, UnchangedArms DEF g_main_context_unref, regVars
<1>2. CASE ~Held(c, M, L, S)
  <2>1. /\ src' = [k \in Keys |-> IF k \in K THEN "none" ELSE src[k]]
        /\ stop_check_id' = (stop_check_id \/ armed)
        /\ idles' = (idles \ {c}) \cup (IF armed THEN {M} ELSE {})
    BY <1>2 DEF g_main_context_unref
  <2>2. c # M /\ c # 0
    BY <1>2 DEF Held
  <2>3. Registered' = Registered \ K
    BY <2>1 DEF Registered, TypeOK
  <2> QED BY <2>1, <2>2, <2>3 DEF Arms, TypeOK
<1> QED BY <1>1, <1>2

\* A step that keeps the session running or not, at the same place and with the
\* same context, and arms the check as above, preserves the invariant.
LEMMA SInvKept ==
  ASSUME SInv, TInv', Arms(main_context), pc' = pc,
         UNCHANGED <<main_context, running, alive>>
  PROVE  SInv'
<1>1. (stop_check_id => CheckContext \in idles)'
  <2>1. CheckContext' = CheckContext
    BY DEF CheckContext
  <2>2. ASSUME stop_check_id' PROVE CheckContext \in idles'
    <3>1. CASE stop_check_id
      BY <3>1 DEF SInv, Arms, CheckContext
    <3>2. CASE main_context \in idles'
      <4>1. main_context # NULL
        BY <3>2 DEF TInv, TypeOK
      <4> QED BY <3>2, <4>1 DEF SInv, CheckContext
    <3> QED BY <2>2, <3>1, <3>2 DEF Arms
  <2> QED BY <2>1, <2>2
<1>2. ((AtApp /\ running /\ Registered = {}) => stop_check_id)'
  BY DEF SInv, TInv, RunHasContext, AtApp, Arms
<1> QED BY <1>1, <1>2 DEF SInv

\* The invariant holds of a new session.
LEMMA SInvInit == Init => SInv
BY TInvInit DEF Init, SInv, AtApp

\* Every step preserves it, if no start on a context of its own can fail.
LEMMA SInvNext ==
  ASSUME LoopMode # "own_context" \/ ~StartMayFail
  PROVE  SInv /\ [Next]_vars => SInv'
<1> SUFFICES ASSUME SInv, [Next]_vars PROVE SInv'
  OBVIOUS
<1>t. TInv' /\ TInv /\ TypeOK
  BY TInvNext DEF SInv, TInv
<1>1. CASE UNCHANGED <<regVars, main_context, running, alive, pc>>
  BY <1>t, <1>1, UnchangedArms, SInvKept
<1>2. ASSUME NEW d \in Devs, NEW A \in SUBSET Keys, DevAddRunning(d, A) PROVE SInv'
  BY <1>t, <1>2, AddArms, SInvKept DEF DevAddRunning, sr_dev_acquisition_start, loopVars
<1>3. CASE Destroy
  <2>1. ~AtApp'
    BY <1>3 DEF Destroy, AtApp
  <2> QED BY <1>t, <1>3, <2>1 DEF Destroy, SInv, CheckContext, regVars, loopVars
<1>4. CASE StartBegin
  <2>1. LoopMode = "own_context" => ~stop_check_id
    BY <1>t, <1>4 DEF StartBegin, SInv, CheckContext, TypeOK
  <2>2. ~AtApp'
    BY <1>4 DEF StartBegin, AtApp
  <2> QED BY <1>t, <1>4, <2>1, <2>2
          DEF StartBegin, ChosenContext, SInv, CheckContext, regVars
<1>5. ASSUME NEW Z \in SUBSET Keys, StopHere(Z) PROVE SInv'
  BY <1>t, <1>5, StopSyncArms, SInvKept DEF StopHere, loopVars
<1>6. ASSUME NEW A \in SUBSET Keys, NEW ok \in BOOLEAN, StartDev(A, ok) PROVE SInv'
  <2>1. stop_check_id' = stop_check_id /\ idles' = idles /\ CheckContext' = CheckContext
    BY <1>6 DEF StartDev, sr_dev_acquisition_start, sr_session_source_add_internal,
                CheckContext, loopVars
  <2>2. ~AtApp' /\ (pc' = "unwinding" => StartMayFail) /\ pc' # "unsetting"
    BY <1>6 DEF StartDev, AtApp
  <2> QED BY <1>t, <1>6, <2>1, <2>2 DEF StartDev, SInv, loopVars
<1>7. CASE StartDone
  <2>1. main_context # NULL /\ running
    BY <1>t, <1>7 DEF StartDone, TInv, RunHasContext, InStart
  <2>2. Registered = {} => stop_check_id'
    BY <1>7, <2>1 DEF StartDone, NothingToWaitFor, stop_check_later
  <2>3. CheckContext' = CheckContext /\ Registered' = Registered
    BY <1>7 DEF StartDone, CheckContext, Registered, loopVars
  <2>4. stop_check_id' => CheckContext \in idles'
    BY <1>7, <2>1 DEF StartDone, stop_check_later, SInv, CheckContext
  <2>5. pc' = "app" /\ UNCHANGED <<main_context, running>>
    BY <1>7 DEF StartDone, loopVars
  <2> QED BY <1>t, <2>2, <2>3, <2>4, <2>5 DEF SInv
<1>8. CASE UnwindStop
  <2>1. Arms(main_context)
    BY <1>t, <1>8, DestroyedArms DEF UnwindStop, sr_dev_acquisition_stop
  <2>2. LoopMode # "own_context" /\ main_context = 0
    BY <1>t, <1>8 DEF UnwindStop, SInv, TInv, RunHasContext, InStart
  <2>3. stop_check_id' => 0 \in idles'
    BY <2>1, <2>2 DEF Arms, SInv, CheckContext
  <2>4. ~AtApp' /\ main_context' = main_context
    BY <1>8 DEF UnwindStop, AtApp, loopVars
  <2>5. StartMayFail
    BY <1>8 DEF UnwindStop, SInv
  <2> QED BY <1>t, <2>2, <2>3, <2>4, <2>5 DEF SInv, CheckContext
<1>9. CASE StartAbort
  <2>1. LoopMode # "own_context" /\ main_context = 0
    BY <1>t, <1>9 DEF StartAbort, SInv, TInv, RunHasContext, InStart
  <2>2. UNCHANGED <<stop_check_id, idles>>
    BY <1>9, <2>1 DEF StartAbort, DeadlocksInUnset, g_main_context_unref, Held
  <2>3. ~running' /\ main_context' \in {0, NULL} /\ pc' \in {"app", "deadlock"}
    BY <1>9, <2>1 DEF StartAbort
  <2> QED BY <1>t, <2>1, <2>2, <2>3 DEF SInv, CheckContext
<1>10. ASSUME NEW c \in Ctx, delayed_stop_check(c) PROVE SInv'
  <2>1. stop_check_id' = FALSE /\ Registered' = Registered
    BY <1>10 DEF delayed_stop_check, StopCheckDone, Registered
  <2>2. ~(running' /\ Registered = {})
    BY <1>10 DEF delayed_stop_check, RunIsOver
  <2>3. pc' = pc /\ main_context' \in {main_context, NULL}
    BY <1>10 DEF delayed_stop_check, ContextAfterCheck
  <2> QED BY <1>t, <2>1, <2>2, <2>3 DEF SInv
<1>11. ASSUME NEW c \in Ctx, NEW Z \in SUBSET Keys, StopDispatch(c, Z) PROVE SInv'
  BY <1>t, <1>11, StopSyncArms, SInvKept DEF StopDispatch, loopVars
<1>12. ASSUME NEW k \in Keys, NEW Z \in SUBSET Keys, DispatchFinish(k, Z) PROVE SInv'
  BY <1>t, <1>12, DestroyedArms, SInvKept DEF DispatchFinish, loopVars
<1>13. ASSUME NEW k \in Keys, DispatchDrop(k) \/ FinalizeSource(k) PROVE SInv'
  BY <1>t, <1>13, DestroyedArms, SInvKept DEF DispatchDrop, FinalizeSource, loopVars
<1>14. ASSUME NEW k \in Keys, DispatchOrphan(k) PROVE SInv'
  <2>1. ~AtApp' /\ pc' = "crash"
    BY <1>14 DEF DispatchOrphan, AtApp
  <2> QED BY <1>t, <1>14, <2>1 DEF DispatchOrphan, SInv, CheckContext, regVars, loopVars
<1>15. ASSUME NEW k \in Keys, NEW k2 \in Keys, DispatchAdd(k, k2) PROVE SInv'
  BY <1>t, <1>15, AddArms, SInvKept DEF DispatchAdd, loopVars
<1>16. CASE RunExit
  BY <1>t, <1>16, UnrefArms, SInvKept DEF RunExit
<1>17. ASSUME NEW t \in Stoppers, StopInvokeDirect(t) PROVE SInv'
  BY <1>t, <1>17, StopSyncArms, SInvKept DEF StopInvokeDirect, loopVars
<1>18. ASSUME NEW t \in Stoppers, StopInvokeQueued(t) PROVE SInv'
  <2>1. Arms(main_context)
    BY <1>t, <1>18, UnrefArms, UnchangedArms DEF StopInvokeQueued
  <2> QED BY <1>t, <1>18, <2>1, SInvKept DEF StopInvokeQueued, loopVars
<1> QED
  BY <1>1, <1>2, <1>3, <1>4, <1>5, <1>6, <1>7, <1>8, <1>9, <1>10, <1>11, <1>12, <1>13,
     <1>14, <1>15, <1>16, <1>17, <1>18
  DEF Next, Application, StartSteps, Dispatch, OtherThreads, DevAdd, DevRemove,
      DevRemoveAll, StopHereQueued, RunEnter, StopRef, vars, regVars, loopVars

\* In a running session without sources the idle handler that ends the run is
\* pending in the run's own context, in every configuration in which a failed
\* start does not free a context: the run cannot be forgotten.
THEOREM DrainedRunIsChecked ==
  ASSUME LoopMode # "own_context" \/ ~StartMayFail
  PROVE  Spec => []StopCheckArmed
<1>1. SInv => StopCheckArmed
  <2> SUFFICES ASSUME SInv, AtApp, running, Registered = {}
               PROVE  stop_check_id /\ main_context \in idles
    BY DEF StopCheckArmed
  <2>1. stop_check_id /\ CheckContext \in idles
    BY DEF SInv
  <2>2. CheckContext = main_context
    BY DEF SInv, TInv, RunHasContext, CheckContext
  <2> QED BY <2>1, <2>2
<1> QED BY <1>1, SInvInit, SInvNext, PTL DEF Spec
-----------------------------------------------------------------------------
(* Sources and acquisitions.  A driver that is acquiring has a source, and   *)
(* every source is on the context of the run, which lives, or on the default *)
(* one, so that releasing a context takes no source away.  A failed start    *)
(* on a context of its own breaks this: it may leave sources on a context    *)
(* that another thread still references.                                   *)

Gentle == LoopMode # "own_context" \/ ~StartMayFail

SourcesHeld == \A k \in Registered : srcCtx[k] = CheckContext

Attending(d) == \E k \in Keys : Owner[k] = d /\ src[k] = "attached"

\* The devices that may be acquiring, at each place of the session thread.
MayAcquire(d) ==
  /\ pc = "starting" => \E i \in 1 .. idx - 1 : d = devs[i]
  /\ pc = "unwinding" => d \in ToUnwind
  /\ pc # "unsetting"
  /\ pc = "app" => running

AcqInv ==
  /\ pc \in {"starting", "unwinding"} => idx >= 1
  /\ \A d \in Devs : acq[d] = "running" => Attending(d) /\ MayAcquire(d)

HeldInv == SInv /\ SourcesHeld /\ AcqInv

\* What finalizing sources does to them.
LEMMA DestroyedSources ==
  ASSUME TypeOK, NEW STATE K, NEW STATE Z, K \subseteq Registered, sr_session_source_destroyed(K, Z)
  PROVE  /\ Registered' \subseteq Registered /\ srcCtx' = srcCtx
         /\ \A k \in Keys : src'[k] = "attached" <=> src[k] = "attached" /\ k \notin K
<1>1. ASSUME NEW k \in Keys
      PROVE  /\ src'[k] = (IF k \notin K THEN src[k] ELSE IF k \in Z THEN "destroyed" ELSE "none")
  BY DEF sr_session_source_destroyed
<1>2. srcCtx' = srcCtx
  BY DEF sr_session_source_destroyed
<1>3. ASSUME NEW k \in Keys PROVE src'[k] = "attached" <=> src[k] = "attached" /\ k \notin K
  BY <1>1
<1>4. ASSUME NEW k \in Registered' PROVE k \in Registered
  BY <1>1, <1>4 DEF Registered
<1> QED BY <1>2, <1>3, <1>4

\* What adding sources does to them.
LEMMA AddedSources ==
  ASSUME TypeOK, NEW STATE A, A \in SUBSET Keys, sr_session_source_add_internal(A)
  PROVE  /\ Registered' = Registered \cup A
         /\ \A k \in Registered : srcCtx'[k] = srcCtx[k]
         /\ \A k \in Registered' : k \notin Registered => srcCtx'[k] = main_context
         /\ \A k \in Keys : src[k] = "attached" => src'[k] = "attached"
         /\ \A k \in Keys : src'[k] = "attached" => src[k] = "attached" \/ k \in A
BY DEF TypeOK, sr_session_source_add_internal, Registered

\* Stopping devices takes sources away, and leaves those of the devices that go on
\* acquiring; all devices that were asked stop acquiring.
LEMMA StoppedSources ==
  ASSUME TypeOK, NEW STATE D, NEW STATE Z, sr_dev_acquisition_stop(D, Z)
  PROVE  /\ Registered' \subseteq Registered /\ srcCtx' = srcCtx
         /\ \A k \in Keys : src'[k] = "attached" => src[k] = "attached"
         /\ \A d \in Devs : acq'[d] = "running" =>
              acq[d] = "running" /\ d \notin D /\ (Attending(d) => Attending(d)')
<1> DEFINE busy == {d \in D : acq[d] # "idle"}
           K == Attached(KeysOf(busy \cap SyncStop))
<1>1. /\ sr_session_source_destroyed(K, K \cap Z)
      /\ acq' = [d \in Devs |-> IF d \notin busy THEN acq[d]
                                ELSE IF d \in SyncStop THEN "idle" ELSE "aborting"]
  BY DEF sr_dev_acquisition_stop
<1>2. K \subseteq Registered /\ \A k \in K : Owner[k] \in busy
  BY DEF Attached, KeysOf, Registered
<1>3. busy = {d \in D : acq[d] # "idle"}
  OBVIOUS
<1> HIDE DEF K, busy
<1>4. /\ Registered' \subseteq Registered /\ srcCtx' = srcCtx
      /\ \A k \in Keys : src'[k] = "attached" <=> src[k] = "attached" /\ k \notin K
  BY <1>1, <1>2, DestroyedSources
<1>5. ASSUME NEW d \in Devs, acq'[d] = "running"
      PROVE  acq[d] = "running" /\ d \notin D /\ (Attending(d) => Attending(d)')
  <2>1. d \notin busy /\ acq[d] = "running" /\ d \notin D
    BY <1>1, <1>3, <1>5
  <2>2. \A k \in Keys : Owner[k] = d /\ src[k] = "attached" => src'[k] = "attached"
    BY <1>2, <1>4, <2>1
  <2> QED BY <2>1, <2>2 DEF Attending
<1> QED BY <1>4, <1>5

\* So does session_stop_sync().
LEMMA StopSyncSources ==
  ASSUME TypeOK, NEW STATE Z, session_stop_sync(Z)
  PROVE  /\ Registered' \subseteq Registered /\ srcCtx' = srcCtx
         /\ \A k \in Keys : src'[k] = "attached" => src[k] = "attached"
         /\ \A d \in Devs : acq'[d] = "running" =>
              acq[d] = "running" /\ (Attending(d) => Attending(d)')
<1>1. CASE running
  BY <1>1, StoppedSources DEF session_stop_sync
<1>2. CASE ~running
  BY <1>2 DEF session_stop_sync, regVars, Registered, Attending
<1> QED BY <1>1, <1>2

\* Releasing a context that is not the session's takes no source away.
LEMMA UnrefSources ==
  ASSUME TypeOK, SourcesHeld, NEW STATE c, NEW STATE L, NEW STATE S,
         g_main_context_unref(c, main_context, L, S)
  PROVE  src' = src /\ srcCtx' = srcCtx
<1>1. CASE Held(c, main_context, L, S)
  BY <1>1 DEF g_main_context_unref
<1>2. CASE ~Held(c, main_context, L, S)
  <2>1. c # 0 /\ c # main_context
    BY <1>2 DEF Held
  <2>2. {k \in Registered : srcCtx[k] = c} = {}
    BY <2>1 DEF SourcesHeld, CheckContext
  <2>3. src' = [k \in Keys |-> src[k]] /\ srcCtx' = srcCtx
    BY <1>2, <2>2 DEF g_main_context_unref
  <2> QED BY <2>3 DEF TypeOK
<1> QED BY <1>1, <1>2

\* A step that takes sources away, at the same place of the session thread, and lets
\* only devices go on acquiring that keep a source.
LEMMA Dwindles ==
  ASSUME SourcesHeld, AcqInv, Registered' \subseteq Registered, srcCtx' = srcCtx,
         \A d \in Devs : acq'[d] = "running" =>
           acq[d] = "running" /\ (Attending(d) => Attending(d)'),
         UNCHANGED <<pc, idx, running, main_context>>,
         pc # "app" => devs' = devs
  PROVE  SourcesHeld' /\ AcqInv'
<1>1. SourcesHeld'
  BY DEF SourcesHeld, CheckContext
<1>2. ASSUME NEW d \in Devs, acq'[d] = "running" PROVE Attending(d)' /\ MayAcquire(d)'
  <2>1. Attending(d)' /\ MayAcquire(d)
    BY <1>2 DEF AcqInv
  <2> QED BY <2>1 DEF MayAcquire, ToUnwind
<1> QED BY <1>1, <1>2 DEF AcqInv

\* A new session has no sources.
LEMMA HeldInit == Init => HeldInv
BY SInvInit DEF Init, HeldInv, SourcesHeld, AcqInv, Registered

\* Starting a device, in sr_session_start() or when it is added.
LEMMA StartSources ==
  ASSUME TypeOK, SourcesHeld, NEW STATE d, d \in Devs, NEW STATE A, A \in SUBSET Keys,
         A \subseteq KeysOf({d}), sr_dev_acquisition_start(d, A),
         main_context' = main_context, CheckContext = main_context
  PROVE  /\ SourcesHeld'
         /\ \A e \in Devs : acq'[e] = "running" =>
              /\ e # d => acq[e] = "running" /\ (Attending(e) => Attending(e)')
              /\ e = d => Attending(e)'
<1>1. /\ Registered' = Registered \cup A
      /\ \A k \in Registered : srcCtx'[k] = srcCtx[k]
      /\ \A k \in Registered' : k \notin Registered => srcCtx'[k] = main_context
      /\ \A k \in Keys : src[k] = "attached" => src'[k] = "attached"
  BY AddedSources DEF sr_dev_acquisition_start
<1>2. SourcesHeld'
  BY <1>1 DEF SourcesHeld, CheckContext
<1>3. ASSUME NEW e \in Devs, acq'[e] = "running"
      PROVE  /\ e # d => acq[e] = "running" /\ (Attending(e) => Attending(e)')
             /\ e = d => Attending(e)'
  <2>1. CASE e # d
    BY <1>1, <1>3, <2>1 DEF sr_dev_acquisition_start, TypeOK, Attending
  <2>2. CASE e = d
    BY <1>3, <2>2 DEF sr_dev_acquisition_start, TypeOK, Attending, KeysOf
  <2> QED BY <2>1, <2>2
<1> QED BY <1>2, <1>3

\* Every step keeps the sources on the session's context and the acquiring devices
\* within those that were started.
LEMMA HeldNext == ASSUME Gentle PROVE HeldInv /\ [Next]_vars => HeldInv'
<1> SUFFICES ASSUME HeldInv, [Next]_vars PROVE HeldInv'
  OBVIOUS
<1>s. SInv'
  BY SInvNext DEF HeldInv, Gentle
<1>t. TypeOK /\ RunHasContext /\ SInv /\ SourcesHeld /\ AcqInv
  BY DEF HeldInv, SInv, TInv
<1>c. main_context # NULL => CheckContext = main_context
  BY <1>t DEF SInv, CheckContext
<1> SUFFICES SourcesHeld' /\ AcqInv'
  BY <1>s DEF HeldInv
<1>1. CASE /\ UNCHANGED <<src, srcCtx, acq, pc, idx, running, main_context>>
           /\ pc # "app" => devs' = devs
  BY <1>t, <1>1, Dwindles DEF Registered, Attending
<1>2. ASSUME NEW d \in Devs, NEW A \in SUBSET Keys, A \subseteq KeysOf({d}), DevAddRunning(d, A)
      PROVE  SourcesHeld' /\ AcqInv'
  <2>1. /\ sr_dev_acquisition_start(d, A) /\ UNCHANGED <<running, main_context, pc, idx>>
        /\ running /\ pc = "app"
    BY <1>2 DEF DevAddRunning, AtApp, loopVars
  <2>2. CheckContext = main_context
    BY <1>t, <1>c, <2>1 DEF RunHasContext
  <2>3. /\ SourcesHeld'
        /\ \A e \in Devs : acq'[e] = "running" =>
             /\ e # d => acq[e] = "running" /\ (Attending(e) => Attending(e)')
             /\ e = d => Attending(e)'
    BY <1>t, <1>2, <2>1, <2>2, StartSources
  <2>4. ASSUME NEW e \in Devs, acq'[e] = "running" PROVE Attending(e)' /\ MayAcquire(e)'
    BY <1>t, <2>1, <2>3, <2>4 DEF AcqInv, MayAcquire
  <2> QED BY <2>1, <2>3, <2>4 DEF AcqInv
<1>3. CASE StartBegin
  <2>1. /\ ~running /\ pc = "app" /\ main_context = NULL /\ main_context' = ChosenContext
        /\ pc' = "starting" /\ idx' = 1 /\ UNCHANGED <<src, srcCtx, acq, devs>>
    BY <1>3 DEF StartBegin, AtApp, regVars
  <2>2. SourcesHeld'
    BY <1>t, <2>1 DEF SourcesHeld, CheckContext, Registered, TypeOK
  <2>3. \A d \in Devs : acq[d] # "running"
    BY <1>t, <2>1 DEF AcqInv, MayAcquire
  <2> QED BY <2>1, <2>2, <2>3 DEF AcqInv
<1>4. ASSUME NEW A \in SUBSET Keys, NEW ok \in BOOLEAN, StartDev(A, ok)
      PROVE  SourcesHeld' /\ AcqInv'
  <2> DEFINE d == devs[idx]
  <2>1. /\ sr_dev_acquisition_start(d, A) /\ A \subseteq KeysOf({d})
        /\ UNCHANGED <<running, main_context, devs>> /\ pc = "starting"
        /\ \/ pc' = "starting" /\ idx' = idx + 1
           \/ pc' = "unwinding" /\ idx' = idx
        /\ idx <= Len(devs)
    BY <1>4 DEF StartDev, loopVars
  <2>2. idx \in Nat /\ idx >= 1 /\ d \in Devs
    BY <1>t, <2>1 DEF AcqInv, TypeOK
  <2>3. CheckContext = main_context
    BY <1>t, <1>c, <2>1 DEF RunHasContext, InStart
  <2>5. idx \in 1 .. idx' /\ (pc' = "starting" => idx \in 1 .. idx' - 1)
        /\ \A i \in 1 .. idx - 1 : i \in 1 .. idx' /\ (pc' = "starting" => i \in 1 .. idx' - 1)
    BY <2>1, <2>2
  <2>6. \A i \in 1 .. idx' : devs[i] \in ToUnwind'
    BY <2>1 DEF ToUnwind
  <2> HIDE DEF d
  <2>4. /\ SourcesHeld'
        /\ \A e \in Devs : acq'[e] = "running" =>
             /\ e # d => acq[e] = "running" /\ (Attending(e) => Attending(e)')
             /\ e = d => Attending(e)'
    BY <1>t, <2>1, <2>2, <2>3, StartSources
  <2>7. ASSUME NEW e \in Devs, acq'[e] = "running" PROVE Attending(e)' /\ MayAcquire(e)'
    <3>1. CASE e = d
      BY <2>1, <2>4, <2>5, <2>6, <2>7, <3>1 DEF MayAcquire, d
    <3>2. CASE e # d
      <4>1. Attending(e)' /\ \E i \in 1 .. idx - 1 : e = devs[i]
        BY <1>t, <2>1, <2>4, <2>7, <3>2 DEF AcqInv, MayAcquire
      <4> QED BY <2>1, <2>5, <2>6, <4>1 DEF MayAcquire
    <3> QED BY <3>1, <3>2
  <2> QED BY <2>1, <2>2, <2>4, <2>7 DEF AcqInv
<1>5. CASE StartDone
  <2>1. running' /\ pc' = "app" /\ UNCHANGED <<src, srcCtx, acq, main_context>>
    BY <1>t, <1>5 DEF StartDone, RunHasContext, InStart, loopVars
  <2> QED BY <1>t, <2>1
          DEF AcqInv, MayAcquire, Attending, SourcesHeld, CheckContext, Registered
<1>6. CASE UnwindStop
  <2>1. sr_dev_acquisition_stop(ToUnwind, {}) /\ pc = "unwinding" /\ pc' = "unsetting"
        /\ main_context' = main_context
    BY <1>6 DEF UnwindStop, loopVars
  <2>2. /\ Registered' \subseteq Registered /\ srcCtx' = srcCtx
        /\ \A d \in Devs : acq'[d] = "running" => acq[d] = "running" /\ d \notin ToUnwind
    BY <1>t, <2>1, StoppedSources
  <2>3. \A d \in Devs : acq'[d] # "running"
    BY <1>t, <2>1, <2>2 DEF AcqInv, MayAcquire
  <2> QED BY <1>t, <2>1, <2>2, <2>3 DEF AcqInv, SourcesHeld, CheckContext
<1>7. CASE StartAbort
  <2>1. LoopMode # "own_context" /\ main_context = 0
    BY <1>t, <1>7 DEF StartAbort, SInv, Gentle, RunHasContext, InStart
  <2>2. UNCHANGED <<src, srcCtx, acq>> /\ pc = "unsetting" /\ pc' \in {"app", "deadlock"}
    BY <1>7, <2>1 DEF StartAbort, DeadlocksInUnset, g_main_context_unref, Held
  <2>3. \A d \in Devs : acq[d] # "running"
    BY <1>t, <2>2 DEF AcqInv, MayAcquire
  <2> QED BY <1>t, <2>1, <2>2, <2>3 DEF AcqInv, SourcesHeld, CheckContext, Registered
<1>8. ASSUME NEW c \in Ctx, delayed_stop_check(c) PROVE SourcesHeld' /\ AcqInv'
  <2>1. UNCHANGED <<src, srcCtx, acq, pc, idx, devs>> /\ pc = "app"
    BY <1>8 DEF delayed_stop_check, Iterates
  <2>2. CASE RunIsOver
    <3>1. Registered = {} /\ Registered' = {}
      BY <2>1, <2>2 DEF RunIsOver, Registered
    <3>2. \A d \in Devs : acq[d] # "running"
      BY <1>t, <3>1 DEF AcqInv, Attending, Registered
    <3> QED BY <2>1, <3>1, <3>2 DEF AcqInv, SourcesHeld
  <2>3. CASE ~RunIsOver
    <3>1. UNCHANGED <<running, main_context>>
      BY <1>8, <2>3 DEF delayed_stop_check, ContextAfterCheck
    <3> QED BY <1>1, <2>1, <3>1
  <2> QED BY <2>2, <2>3
<1>9. ASSUME NEW Z \in SUBSET Keys, session_stop_sync(Z),
             UNCHANGED <<pc, idx, running, main_context, devs>>
      PROVE  SourcesHeld' /\ AcqInv'
  BY <1>t, <1>9, StopSyncSources, Dwindles
<1>10. ASSUME NEW k \in Keys, NEW Z \in SUBSET Keys, DispatchFinish(k, Z)
       PROVE  SourcesHeld' /\ AcqInv'
  <2> DEFINE K == Attached(KeysOf({Owner[k]}))
  <2>1. /\ sr_session_source_destroyed(K, Z) /\ acq' = [acq EXCEPT ![Owner[k]] = "idle"]
        /\ UNCHANGED <<pc, idx, running, main_context, devs>>
    BY <1>10 DEF DispatchFinish, loopVars
  <2>2. K \subseteq Registered /\ \A l \in K : Owner[l] = Owner[k]
    BY DEF Attached, KeysOf, Registered
  <2> HIDE DEF K
  <2>3. /\ Registered' \subseteq Registered /\ srcCtx' = srcCtx
        /\ \A l \in Keys : src'[l] = "attached" <=> src[l] = "attached" /\ l \notin K
    BY <1>t, <2>1, <2>2, DestroyedSources
  <2>4. ASSUME NEW d \in Devs, acq'[d] = "running"
        PROVE  acq[d] = "running" /\ (Attending(d) => Attending(d)')
    <3>1. d # Owner[k] /\ acq[d] = "running"
      BY <1>t, <2>1, <2>4 DEF TypeOK
    <3> QED BY <2>2, <2>3, <3>1 DEF Attending
  <2> QED BY <1>t, <2>1, <2>3, <2>4, Dwindles
<1>11. ASSUME NEW k \in Keys, DispatchDrop(k) PROVE SourcesHeld' /\ AcqInv'
  <2>1. /\ sr_session_source_destroyed({k}, {}) /\ src[k] = "attached"
        /\ Attached(KeysOf({Owner[k]})) # {k}
        /\ UNCHANGED <<pc, idx, running, main_context, devs, acq>>
    BY <1>11 DEF DispatchDrop, Dispatchable, loopVars
  <2>2. PICK l \in Keys : l # k /\ Owner[l] = Owner[k] /\ src[l] = "attached"
    BY <2>1 DEF Attached, KeysOf
  <2>3. /\ Registered' \subseteq Registered /\ srcCtx' = srcCtx
        /\ \A m \in Keys : src'[m] = "attached" <=> src[m] = "attached" /\ m \notin {k}
    <3>1. {k} \subseteq Registered
      BY <2>1 DEF Registered
    <3> QED BY <1>t, <2>1, <3>1, DestroyedSources
  <2>4. ASSUME NEW d \in Devs, Attending(d) PROVE Attending(d)'
    BY <2>2, <2>3, <2>4 DEF Attending
  <2> QED BY <1>t, <2>1, <2>3, <2>4, Dwindles
<1>12. ASSUME NEW k \in Keys, DispatchOrphan(k) PROVE SourcesHeld' /\ AcqInv'
  BY <1>t, <1>12
  DEF DispatchOrphan, AcqInv, MayAcquire, Attending, SourcesHeld, CheckContext, Registered,
      regVars, loopVars
<1>13. ASSUME NEW k \in Keys, NEW l \in Keys, DispatchAdd(k, l) PROVE SourcesHeld' /\ AcqInv'
  <2>1. /\ sr_session_source_add_internal({l}) /\ main_context # NULL
        /\ UNCHANGED <<pc, idx, running, main_context, devs, acq>>
    BY <1>13 DEF DispatchAdd, loopVars
  <2>2. {l} \in SUBSET Keys
    OBVIOUS
  <2>3. /\ \A m \in Registered : srcCtx'[m] = srcCtx[m]
        /\ \A m \in Registered' : m \notin Registered => srcCtx'[m] = main_context
        /\ \A m \in Keys : src[m] = "attached" => src'[m] = "attached"
    BY <1>t, <2>1, <2>2, AddedSources
  <2>4. SourcesHeld'
    BY <1>t, <1>c, <2>1, <2>3 DEF SourcesHeld, CheckContext
  <2> QED BY <1>t, <2>1, <2>3, <2>4 DEF AcqInv, Attending, MayAcquire, ToUnwind
<1>14. ASSUME NEW k \in Keys, FinalizeSource(k) PROVE SourcesHeld' /\ AcqInv'
  <2>1. /\ sr_session_source_destroyed({k}, {}) /\ src[k] = "destroyed"
        /\ UNCHANGED <<pc, idx, running, main_context, devs, acq>>
    BY <1>14 DEF FinalizeSource, loopVars
  <2>2. /\ Registered' \subseteq Registered /\ srcCtx' = srcCtx
        /\ \A m \in Keys : src'[m] = "attached" <=> src[m] = "attached" /\ m \notin {k}
    <3>1. {k} \subseteq Registered
      BY <2>1 DEF Registered
    <3> QED BY <1>t, <2>1, <3>1, DestroyedSources
  <2>3. ASSUME NEW d \in Devs, Attending(d) PROVE Attending(d)'
    BY <2>1, <2>2, <2>3 DEF Attending
  <2> QED BY <1>t, <2>1, <2>2, <2>3, Dwindles
<1>15. ASSUME RunExit \/ \E t \in Stoppers : StopInvokeQueued(t)
       PROVE  SourcesHeld' /\ AcqInv'
  <2>1. UNCHANGED <<pc, idx, running, main_context, devs, acq>>
    BY <1>15 DEF RunExit, StopInvokeQueued, loopVars
  <2>2. src' = src /\ srcCtx' = srcCtx
    BY <1>t, <1>15, UnrefSources DEF RunExit, StopInvokeQueued, regVars
  <2> QED BY <1>1, <2>1, <2>2
<1>16. CASE Destroy
  BY <1>1, <1>16 DEF Destroy, AtApp, regVars, loopVars
<1>17. ASSUME NEW Z \in SUBSET Keys, StopHere(Z) PROVE SourcesHeld' /\ AcqInv'
  BY <1>9, <1>17 DEF StopHere, loopVars
<1>18. ASSUME NEW c \in Ctx, NEW Z \in SUBSET Keys, StopDispatch(c, Z) PROVE SourcesHeld' /\ AcqInv'
  BY <1>9, <1>18 DEF StopDispatch, loopVars
<1>19. ASSUME NEW t \in Stoppers, StopInvokeDirect(t) PROVE SourcesHeld' /\ AcqInv'
  <2>1. {} \in SUBSET Keys
    OBVIOUS
  <2> QED BY <1>9, <1>19, <2>1 DEF StopInvokeDirect, loopVars
<1>20. CASE \/ \E d \in Devs : DevAdd(d)
            \/ \E i \in 1 .. Len(devs) : DevRemove(i)
            \/ DevRemoveAll \/ RunEnter \/ StopHereQueued
            \/ \E t \in Stoppers : StopRef(t)
            \/ UNCHANGED vars
  BY <1>1, <1>20
  DEF DevAdd, DevRemove, DevRemoveAll, RunEnter, StopHereQueued, StopRef, AtApp, vars,
      regVars, loopVars, histVars
<1> QED
  BY <1>2, <1>3, <1>4, <1>5, <1>6, <1>7, <1>8, <1>10, <1>11, <1>12, <1>13, <1>14, <1>15,
     <1>16, <1>17, <1>18, <1>19, <1>20
  DEF Next, Application, StartSteps, Dispatch, OtherThreads

\* The error path of sr_session_start(), and every other way in which a run ends,
\* leaves no device acquiring that was not told to stop, for any number of devices and
\* sources, whatever other threads do in between.
THEOREM StoppedAreTold ==
  ASSUME Gentle
  PROVE  Spec => []StoppedDevicesTold
<1>1. HeldInv => StoppedDevicesTold
  BY DEF HeldInv, AcqInv, MayAcquire, StoppedDevicesTold, AtApp
<1> QED BY <1>1, HeldInit, HeldNext, PTL DEF Spec

-----------------------------------------------------------------------------
(* Nothing refers to a destroyed session.  In a context of its own whatever *)
(* is queued dies with the context, so that what has to be kept is that all   *)
(* of it is in contexts that something references: the session, the loop that *)
(* sr_session_run() iterates, or a thread in sr_session_stop(), which may     *)
(* hold the context of a start that has failed.                              *)

Own == LoopMode = "own_context"

Kept(c, M, L, S) == c # 0 /\ Held(c, M, L, S)

\* What is queued: idle sources, stops and event sources.
Queued(M, L, S) ==
  /\ \A c \in idles : Kept(c, M, L, S)
  /\ \A c \in Ctx : invokes[c] > 0 => Kept(c, M, L, S)
  /\ \A k \in Registered : Kept(srcCtx[k], M, L, S)

\* The loop of an earlier run may still be there when the next one starts, but it has
\* no stop check to dispatch any more.
Loops ==
  /\ main_context # 0 /\ main_loop # 0 /\ \A t \in Stoppers : stopper[t] # 0
  /\ main_context # NULL => main_context <= run
  /\ main_loop # NULL => main_loop <= run
  /\ main_loop \in idles => main_loop = main_context
  /\ InStart => main_loop # main_context

Ended ==
  /\ pc = "app" /\ ~running => main_context = NULL
  /\ ~alive => /\ pc = "app" /\ ~running /\ main_loop = NULL
               /\ \A t \in Stoppers : stopper[t] = NULL

LiveInv == Queued(main_context, main_loop, stopper) /\ Loops /\ Ended

\* Finalizing sources queues a stop check in the context of the run, if at all.
LEMMA DestroyedIdles ==
  ASSUME TypeOK, NEW STATE K, NEW STATE Z, K \subseteq Registered, sr_session_source_destroyed(K, Z)
  PROVE  idles' \subseteq idles \cup {main_context} /\ Registered' \subseteq Registered /\ srcCtx' = srcCtx
BY DestroyedSources DEF sr_session_source_destroyed, stop_check_later

\* So does stopping devices.
LEMMA StopIdles ==
  ASSUME TypeOK, NEW STATE D, NEW STATE Z, sr_dev_acquisition_stop(D, Z)
  PROVE  idles' \subseteq idles \cup {main_context} /\ Registered' \subseteq Registered /\ srcCtx' = srcCtx
BY StoppedSources DEF sr_dev_acquisition_stop, sr_session_source_destroyed, stop_check_later

LEMMA StopSyncIdles ==
  ASSUME TypeOK, NEW STATE Z, session_stop_sync(Z)
  PROVE  idles' \subseteq idles \cup {main_context} /\ Registered' \subseteq Registered /\ srcCtx' = srcCtx
BY StopIdles DEF session_stop_sync, regVars, Registered

\* A step of a living session that keeps its references, takes sources away or attaches
\* them to the context of the run, and queues at most a stop check there.
LEMMA LiveKept ==
  ASSUME LiveInv, alive', idles' \subseteq idles \cup {main_context},
         \A c \in Ctx : invokes'[c] > 0 => invokes[c] > 0,
         \A k \in Registered' : srcCtx'[k] = main_context \/ (k \in Registered /\ srcCtx'[k] = srcCtx[k]),
         UNCHANGED <<main_context, main_loop, stopper, running, run>>,
         pc' = "app" => pc = "app" \/ running,
         InStart' => InStart
  PROVE  LiveInv'
<1>1. Queued(main_context, main_loop, stopper)'
  BY DEF LiveInv, Queued, Loops, Kept, Held
<1>2. Loops'
  BY DEF LiveInv, Loops
<1>3. Ended'
  BY DEF LiveInv, Ended
<1> QED BY <1>1, <1>2, <1>3 DEF LiveInv

\* Releasing a context: what was queued is still live, or was in the context and is
\* gone with it.
LEMMA UnrefLive ==
  ASSUME TypeOK, LiveInv, NEW STATE c, NEW STATE M, NEW STATE L, NEW STATE S,
         g_main_context_unref(c, M, L, S), M # 0, c \in Ctx,
         \A x \in Ctx : Held(x, main_context, main_loop, stopper) => x = c \/ Held(x, M, L, S)
  PROVE  /\ \A x \in idles' : Kept(x, M, L, S)
         /\ \A x \in Ctx : invokes'[x] > 0 => Kept(x, M, L, S)
         /\ \A k \in Registered' : Kept(srcCtx'[k], M, L, S)
         /\ idles' \subseteq idles \cup {M}
<1>1. /\ idles \subseteq Ctx /\ \A x \in idles : Kept(x, main_context, main_loop, stopper)
      /\ \A x \in Ctx : invokes[x] > 0 => Kept(x, main_context, main_loop, stopper)
      /\ \A k \in Registered : Kept(srcCtx[k], main_context, main_loop, stopper) /\ srcCtx[k] \in Ctx
  BY DEF LiveInv, Queued, TypeOK, Registered
<1>2. CASE Held(c, M, L, S)
  BY <1>1, <1>2 DEF g_main_context_unref, Kept, Registered
<1>3. CASE ~Held(c, M, L, S)
  <2>1. /\ \A k \in Keys : src'[k] = IF k \in Registered /\ srcCtx[k] = c THEN "none" ELSE src[k]
        /\ srcCtx' = srcCtx /\ invokes' = [invokes EXCEPT ![c] = 0]
        /\ idles' \subseteq (idles \ {c}) \cup {M}
    BY <1>3 DEF g_main_context_unref
  <2>2. Kept(M, M, L, S)
    BY DEF Kept, Held
  <2>3. \A x \in idles' : Kept(x, M, L, S)
    BY <1>1, <2>1, <2>2 DEF Kept
  <2>4. \A x \in Ctx : invokes'[x] > 0 => Kept(x, M, L, S)
    BY <1>1, <2>1 DEF Kept, TypeOK
  <2>5. \A k \in Registered' : k \in Registered /\ srcCtx[k] # c
    BY <2>1 DEF Registered
  <2> QED BY <1>1, <2>1, <2>3, <2>4, <2>5 DEF Kept
<1> QED BY <1>2, <1>3

\* A destroyed session takes no step.
LEMMA DeadIsQuiet == ASSUME TypeOK, LiveInv, Next PROVE alive
BY DEF LiveInv, Ended, Next, Application, StartSteps, Dispatch, OtherThreads, DevAdd, DevAddRunning,
       DevRemove, DevRemoveAll, Destroy, StartBegin, RunEnter, StopHere, StopHereQueued,
       StartDev, StartDone, UnwindStop, StartAbort, delayed_stop_check, StopDispatch,
       DispatchFinish, DispatchDrop, DispatchOrphan, DispatchAdd, Dispatchable,
       FinalizeSource, RunExit, StopRef, StopInvokeDirect, StopInvokeQueued, AtApp, Iterates

\* Nothing is queued in a new session.
LEMMA LiveInit == Init => LiveInv
BY DEF Init, LiveInv, Queued, Loops, Ended, Registered, InStart

\* Every step keeps what is queued in contexts that are referenced.
LEMMA LiveNext == ASSUME Own PROVE TInv /\ LiveInv /\ [Next]_vars => LiveInv'
<1> SUFFICES ASSUME TInv, LiveInv, [Next]_vars PROVE LiveInv'
  OBVIOUS
<1>t. TypeOK /\ RunHasContext /\ LoopMode = "own_context" /\ \A c \in Ctx : c # NULL
  BY DEF TInv, Own
<1>1. CASE UNCHANGED vars
  BY <1>1 DEF vars, LiveInv, Queued, Loops, Ended, Kept, Held, Registered, InStart
<1> SUFFICES ASSUME Next PROVE LiveInv'
  BY <1>1
<1>a. alive
  BY <1>t, DeadIsQuiet
<1>2. CASE \/ \E d \in Devs : DevAdd(d)
           \/ \E i \in 1 .. Len(devs) : DevRemove(i)
           \/ DevRemoveAll
           \/ \E k \in Keys : DispatchOrphan(k)
  <2>1. /\ alive' = alive /\ invokes' = invokes /\ UNCHANGED <<idles, src, srcCtx>>
        /\ UNCHANGED <<main_context, main_loop, stopper, running, run>> /\ pc' \in {pc, "crash"}
    BY <1>2 DEF DevAdd, DevRemove, DevRemoveAll, DispatchOrphan, regVars, loopVars, histVars
  <2> QED BY <1>a, <2>1, LiveKept DEF Registered, InStart
<1>3. CASE \/ \E d \in Devs, A \in SUBSET Keys : DevAddRunning(d, A)
           \/ \E A \in SUBSET Keys, ok \in BOOLEAN : StartDev(A, ok)
           \/ \E k, k2 \in Keys : DispatchAdd(k, k2)
  <2>1. \E A \in SUBSET Keys : sr_session_source_add_internal(A)
    BY <1>3 DEF DevAddRunning, StartDev, DispatchAdd, sr_dev_acquisition_start
  <2>2. PICK A \in SUBSET Keys : sr_session_source_add_internal(A)
    BY <2>1
  <2>3. /\ alive' = alive /\ invokes' = invokes
        /\ UNCHANGED <<main_context, main_loop, stopper, running, run>>
        /\ \/ pc' = pc
           \/ pc = "starting" /\ pc' = "unwinding"
    BY <1>3 DEF DevAddRunning, StartDev, DispatchAdd, loopVars, histVars
  <2>4. idles' = idles /\ \A k \in Registered' : srcCtx'[k] = main_context \/ (k \in Registered /\ srcCtx'[k] = srcCtx[k])
    BY <1>t, <2>2, AddedSources DEF sr_session_source_add_internal
  <2> QED BY <1>a, <2>3, <2>4, LiveKept DEF InStart
<1>4. CASE Destroy
  BY <1>4 DEF Destroy, AtApp, LiveInv, Queued, Loops, Ended, Kept, Held, Registered, InStart, regVars, loopVars,
              histVars
<1>5. CASE StartBegin
  <2>1. /\ alive' = alive /\ UNCHANGED <<invokes, idles, src, srcCtx, main_loop, stopper>> /\ main_context = NULL
        /\ main_context' = run + 1 /\ run' = run + 1 /\ running' /\ pc' = "starting"
    BY <1>t, <1>5 DEF StartBegin, ChosenContext, regVars
  <2>2. run \in Nat /\ run + 1 # 0 /\ run + 1 # NULL /\ main_loop \notin idles /\ main_loop # run + 1
    <3>1. run \in Ctx /\ idles \subseteq Ctx /\ main_loop \in Ctx \cup {NULL} /\ run + 1 \in Ctx
      BY <1>t, <1>5 DEF TypeOK, StartBegin
    <3>2. main_loop # NULL => main_loop <= run
      BY DEF LiveInv, Loops
    <3>3. main_loop \notin idles
      BY <1>t, <2>1, <3>1 DEF LiveInv, Loops
    <3>4. main_loop # run + 1
      BY <1>t, <3>1, <3>2
    <3> QED BY <1>t, <3>1, <3>3, <3>4
  <2>3. \A c \in Ctx : Held(c, main_context, main_loop, stopper) => Held(c, main_context', main_loop, stopper)
    BY <1>t, <2>1 DEF Held
  <2>4. Queued(main_context, main_loop, stopper)'
    BY <1>t, <2>1, <2>3 DEF LiveInv, Queued, Kept, Registered, TypeOK
  <2>5. Loops'
    BY <1>t, <2>1, <2>2 DEF LiveInv, Loops, TypeOK
  <2>6. Ended'
    BY <1>a, <2>1 DEF Ended
  <2> QED BY <2>4, <2>5, <2>6 DEF LiveInv
<1>6. CASE RunEnter
  <2>1. /\ pc = "app" /\ running /\ main_loop = NULL /\ main_loop' = main_context
        /\ UNCHANGED <<alive, running, main_context, src, srcCtx, idles, invokes, pc, stopper, run>>
    BY <1>6 DEF RunEnter, AtApp, regVars, histVars
  <2>2. Queued(main_context, main_loop, stopper)'
    BY <1>t, <2>1 DEF LiveInv, Queued, Kept, Held, Registered, TypeOK
  <2> QED BY <1>a, <2>1, <2>2 DEF LiveInv, Loops, Ended, InStart
<1>7. ASSUME NEW Z \in SUBSET Keys, StopHere(Z) PROVE LiveInv'
  BY <1>a, <1>t, <1>7, StopSyncIdles, LiveKept DEF StopHere, loopVars, InStart
<1>8. CASE StopHereQueued
  <2>1. /\ invokes' = [invokes EXCEPT ![main_context] = @ + 1] /\ main_context # NULL
        /\ UNCHANGED <<alive, idles, src, srcCtx, main_context, main_loop, stopper, running, run, pc>>
    BY <1>8 DEF StopHereQueued, Asking, regVars, loopVars
  <2>2. ASSUME NEW c \in Ctx, invokes'[c] > 0 PROVE Kept(c, main_context, main_loop, stopper)
    BY <1>t, <2>1, <2>2 DEF LiveInv, Queued, Loops, Kept, TypeOK, Held
  <2> QED BY <1>a, <2>1, <2>2 DEF LiveInv, Queued, Loops, Ended, Kept, Held, Registered, InStart
<1>9. CASE StartDone
  <2>1. /\ alive' = alive /\ invokes' = invokes /\ idles' \subseteq idles \cup {main_context}
        /\ UNCHANGED <<main_context, main_loop, stopper, running, run, src, srcCtx>> /\ pc = "starting" /\ pc' = "app"
    BY <1>9 DEF StartDone, stop_check_later, loopVars, histVars
  <2> QED BY <1>a, <1>t, <2>1, LiveKept DEF RunHasContext, InStart, Registered
<1>10. CASE UnwindStop
  <2>1. /\ alive' = alive /\ invokes' = invokes /\ sr_dev_acquisition_stop(ToUnwind, {})
        /\ UNCHANGED <<main_context, main_loop, stopper, running, run>> /\ pc = "unwinding" /\ pc' = "unsetting"
    BY <1>10 DEF UnwindStop, loopVars, histVars
  <2>2. idles' \subseteq idles \cup {main_context} /\ Registered' \subseteq Registered /\ srcCtx' = srcCtx
    BY <1>t, <2>1, StopIdles
  <2> QED BY <1>a, <2>1, <2>2, LiveKept DEF InStart
<1>18. CASE StartAbort
  <2>1. pc = "unsetting" /\ ~running' /\ UNCHANGED <<alive, main_loop, stopper, run>> /\ main_context \in Ctx
    BY <1>t, <1>18 DEF StartAbort, histVars, RunHasContext, InStart, TypeOK
  <2>2. CASE pc' = "deadlock" /\ UNCHANGED <<main_context, regVars, invokes>>
    BY <1>a, <2>1, <2>2 DEF LiveInv, Queued, Loops, Ended, Kept, Held, Registered, InStart, regVars
  <2>3. CASE /\ pc' = "app" /\ main_context' = NULL
             /\ g_main_context_unref(main_context, NULL, main_loop, stopper)
    <3>1. \A x \in Ctx : Held(x, main_context, main_loop, stopper) => x = main_context \/ Held(x, NULL, main_loop, stopper)
      BY DEF Held
    <3>2. NULL # 0
      BY <1>t
    <3>3. /\ \A x \in idles' : Kept(x, NULL, main_loop, stopper)
          /\ \A x \in Ctx : invokes'[x] > 0 => Kept(x, NULL, main_loop, stopper)
          /\ \A k \in Registered' : Kept(srcCtx'[k], NULL, main_loop, stopper)
          /\ idles' \subseteq idles
      BY <1>t, <2>1, <2>3, <3>1, <3>2, UnrefLive DEF g_main_context_unref
    <3>4. main_loop \notin idles
      BY <2>1 DEF LiveInv, Loops, InStart
    <3> QED BY <1>a, <2>1, <2>3, <3>2, <3>3, <3>4 DEF LiveInv, Queued, Loops, Ended, InStart, Kept, Held
  <2> QED BY <1>18, <2>2, <2>3 DEF StartAbort
<1>11. ASSUME NEW c \in Ctx, delayed_stop_check(c) PROVE LiveInv'
  <2>1. /\ c \in idles /\ main_loop = c /\ pc = "app" /\ idles' = idles \ {c}
        /\ UNCHANGED <<alive, invokes, src, srcCtx, main_loop, stopper, pc, run>>
    BY <1>t, <1>11 DEF delayed_stop_check, Iterates, StopCheckDone
  <2>2. main_context = main_loop
    BY <2>1 DEF LiveInv, Loops
  <2>3. \/ running' = FALSE /\ main_context' = NULL
        \/ running' = running /\ main_context' = main_context
    BY <1>11 DEF delayed_stop_check, ContextAfterCheck
  <2>4. \A x : Held(x, main_context, main_loop, stopper) => Held(x, main_context', main_loop, stopper)
    BY <2>2 DEF Held
  <2>5. Queued(main_context, main_loop, stopper)'
    BY <2>1, <2>4 DEF LiveInv, Queued, Kept, Held, Registered
  <2>6. Loops' /\ Ended'
    BY <1>a, <1>t, <2>1, <2>2, <2>3 DEF LiveInv, Loops, Ended, InStart
  <2> QED BY <2>5, <2>6 DEF LiveInv
<1>12. ASSUME NEW c \in Ctx, NEW Z \in SUBSET Keys, StopDispatch(c, Z) PROVE LiveInv'
  <2>1. /\ session_stop_sync(Z) /\ invokes' = [invokes EXCEPT ![c] = @ - 1]
        /\ UNCHANGED <<alive, main_context, main_loop, stopper, running, run, pc>>
    BY <1>12 DEF StopDispatch, loopVars, histVars
  <2>2. \A x \in Ctx : invokes'[x] > 0 => invokes[x] > 0
    BY <1>t, <2>1 DEF TypeOK
  <2> QED BY <1>a, <1>t, <2>1, <2>2, StopSyncIdles, LiveKept DEF InStart
<1>13. CASE \/ \E k \in Keys, Z \in SUBSET Keys : DispatchFinish(k, Z)
            \/ \E k \in Keys : DispatchDrop(k) \/ FinalizeSource(k)
  <2>1. \E K, Z \in SUBSET Keys : K \subseteq Registered /\ sr_session_source_destroyed(K, Z)
    <3>1. ASSUME NEW k \in Keys, NEW Z \in SUBSET Keys, DispatchFinish(k, Z)
          PROVE  \E K, Y \in SUBSET Keys : K \subseteq Registered /\ sr_session_source_destroyed(K, Y)
      <4> DEFINE K == Attached(KeysOf({Owner[k]}))
      <4>1. K \subseteq Registered /\ K \in SUBSET Keys
        BY DEF Attached, KeysOf, Registered
      <4>2. sr_session_source_destroyed(K, Z)
        BY <3>1 DEF DispatchFinish
      <4> HIDE DEF K
      <4> QED BY <4>1, <4>2
    <3>2. ASSUME NEW k \in Keys, DispatchDrop(k) \/ FinalizeSource(k)
          PROVE  \E K, Y \in SUBSET Keys : K \subseteq Registered /\ sr_session_source_destroyed(K, Y)
      <4> DEFINE K == {k}
                 Y == {}
      <4>1. K \subseteq Registered /\ K \in SUBSET Keys /\ Y \in SUBSET Keys
        BY <3>2 DEF DispatchDrop, FinalizeSource, Dispatchable, Registered
      <4>2. sr_session_source_destroyed(K, Y)
        BY <3>2 DEF DispatchDrop, FinalizeSource
      <4> HIDE DEF K, Y
      <4> QED BY <4>1, <4>2
    <3> QED BY <1>13, <3>1, <3>2
  <2>2. PICK K, Z \in SUBSET Keys : K \subseteq Registered /\ sr_session_source_destroyed(K, Z)
    BY <2>1
  <2>3. idles' \subseteq idles \cup {main_context} /\ Registered' \subseteq Registered /\ srcCtx' = srcCtx
    BY <1>t, <2>2, DestroyedIdles
  <2>4. UNCHANGED <<alive, invokes, main_context, main_loop, stopper, running, run, pc>>
    BY <1>13 DEF DispatchFinish, DispatchDrop, FinalizeSource, loopVars, histVars
  <2> QED BY <1>a, <2>3, <2>4, LiveKept DEF InStart
<1>14. CASE RunExit
  <2>1. /\ g_main_context_unref(main_loop, main_context, NULL, stopper) /\ main_loop \in Ctx
        /\ main_loop' = NULL /\ UNCHANGED <<alive, running, main_context, stopper, run, pc>> /\ pc = "app"
    BY <1>t, <1>14 DEF RunExit, TypeOK, AtApp, histVars
  <2>2. \A x \in Ctx : Held(x, main_context, main_loop, stopper)
                       => x = main_loop \/ Held(x, main_context, NULL, stopper)
    BY DEF Held
  <2>3. NULL # 0 /\ main_context # 0
    BY <1>t DEF LiveInv, Loops
  <2>4. /\ \A x \in idles' : Kept(x, main_context, NULL, stopper)
        /\ \A x \in Ctx : invokes'[x] > 0 => Kept(x, main_context, NULL, stopper)
        /\ \A k \in Registered' : Kept(srcCtx'[k], main_context, NULL, stopper)
        /\ idles' \subseteq idles \cup {main_context}
    BY <1>t, <2>1, <2>2, <2>3, UnrefLive
  <2>5. Queued(main_context, main_loop, stopper)'
    BY <2>1, <2>4 DEF Queued, Kept, Held
  <2>6. NULL \in idles' => NULL = main_context
    BY <1>t, <2>4 DEF TypeOK
  <2>7. Loops' /\ Ended'
    BY <1>a, <2>1, <2>3, <2>6 DEF LiveInv, Loops, Ended, InStart
  <2> QED BY <2>5, <2>7 DEF LiveInv
<1>15. ASSUME NEW t \in Stoppers, StopRef(t) PROVE LiveInv'
  <2>1. /\ stopper' = [stopper EXCEPT ![t] = main_context] /\ stopper[t] = NULL
        /\ UNCHANGED <<alive, invokes, idles, src, srcCtx, main_context, main_loop, running, run, pc>>
    BY <1>15 DEF StopRef, regVars, loopVars
  <2>2. \A c \in Ctx : Held(c, main_context, main_loop, stopper) => Held(c, main_context, main_loop, stopper')
    BY <1>t, <2>1 DEF Held, TypeOK
  <2>3. \A u \in Stoppers : stopper'[u] # 0
    BY <1>t, <2>1 DEF LiveInv, Loops, TypeOK
  <2>4. Queued(main_context, main_loop, stopper)'
    BY <1>t, <2>1, <2>2 DEF LiveInv, Queued, Kept, Registered, TypeOK
  <2>5. Loops' /\ Ended'
    BY <1>a, <2>1, <2>3 DEF LiveInv, Loops, Ended, InStart
  <2> QED BY <2>4, <2>5 DEF LiveInv
<1>16. ASSUME NEW t \in Stoppers, StopInvokeDirect(t) PROVE LiveInv'
  BY <1>t, <1>16 DEF StopInvokeDirect, Unowned
<1>17. ASSUME NEW t \in Stoppers, StopInvokeQueued(t) PROVE LiveInv'
  <2> DEFINE s == stopper[t]
             S == [stopper EXCEPT ![t] = NULL]
  <2>1. /\ stopper' = S /\ s \in Ctx /\ s # 0
        /\ UNCHANGED <<alive, main_context, main_loop, running, run, pc>>
    BY <1>t, <1>17 DEF StopInvokeQueued, TypeOK, loopVars, histVars, LiveInv, Loops
  <2>2. \A c \in Ctx : Held(c, main_context, main_loop, stopper) => c = s \/ Held(c, main_context, main_loop, S)
    BY <1>t DEF Held, TypeOK
  <2>3. \A u \in Stoppers : S[u] # 0
    BY <1>t DEF LiveInv, Loops, TypeOK
  <2>4. /\ \A x \in idles' : Kept(x, main_context, main_loop, S)
        /\ \A x \in Ctx : invokes'[x] > 0 => Kept(x, main_context, main_loop, S)
        /\ \A k \in Registered' : Kept(srcCtx'[k], main_context, main_loop, S)
        /\ idles' \subseteq idles \cup {main_context}
    <3>1. CASE Held(s, main_context, main_loop, S)
      <4>1. invokes' = [invokes EXCEPT ![s] = @ + 1] /\ UNCHANGED <<src, srcCtx, idles>>
        BY <1>17, <3>1 DEF StopInvokeQueued, regVars
      <4>2. \A x \in Ctx : invokes'[x] > 0 => x = s \/ invokes[x] > 0
        BY <1>t, <4>1 DEF TypeOK
      <4>3. \A k \in Registered' : k \in Registered /\ srcCtx'[k] = srcCtx[k] /\ srcCtx[k] \in Ctx
        BY <1>t, <4>1 DEF Registered, TypeOK
      <4> HIDE DEF s, S
      <4> QED BY <1>t, <2>1, <2>2, <3>1, <4>1, <4>2, <4>3 DEF LiveInv, Queued, Kept, TypeOK
    <3>2. CASE ~Held(s, main_context, main_loop, S)
      <4>1. g_main_context_unref(s, main_context, main_loop, S)
        BY <1>17, <3>2 DEF StopInvokeQueued
      <4>2. main_context # 0
        BY DEF LiveInv, Loops
      <4> HIDE DEF s, S
      <4> QED BY <1>t, <2>1, <2>2, <4>1, <4>2, UnrefLive
    <3> QED BY <3>1, <3>2
  <2> HIDE DEF s, S
  <2>5. Queued(main_context, main_loop, stopper)'
    BY <2>1, <2>4 DEF Queued, Kept, Held
  <2>6. Loops' /\ Ended'
    BY <1>a, <2>1, <2>3, <2>4 DEF LiveInv, Loops, Ended, InStart
  <2> QED BY <2>5, <2>6 DEF LiveInv
<1> QED
  BY <1>2, <1>3, <1>4, <1>5, <1>6, <1>7, <1>8, <1>9, <1>10, <1>11, <1>12, <1>13, <1>14,
     <1>15, <1>16, <1>17, <1>18
  DEF Next, Application, StartSteps, Dispatch, OtherThreads

\* sr_session_destroy() of a session that is not running leaves no idle handler, no
\* event source and no queued stop behind, whether or not starts failed, if every run
\* had a context of its own: on the default context a stop by another thread can be
\* queued when the run has ended, and is still there when the session is destroyed.
THEOREM DestroyedIsForgotten ==
  ASSUME Own
  PROVE  Spec => []NoUseAfterDestroy
<1>1. TInv /\ LiveInv => NoUseAfterDestroy
  <2> SUFFICES ASSUME TInv, LiveInv, ~alive
               PROVE  idles = {} /\ Registered = {} /\ \A c \in Ctx : invokes[c] = 0
    BY DEF NoUseAfterDestroy
  <2>1. main_context = NULL /\ main_loop = NULL /\ \A t \in Stoppers : stopper[t] = NULL
    BY DEF LiveInv, Ended
  <2>2. TypeOK /\ \A c \in Ctx : c # NULL
    BY DEF TInv
  <2>3. \A c \in Ctx : ~Kept(c, main_context, main_loop, stopper)
    BY <2>1, <2>2 DEF Kept, Held
  <2>4. idles = {} /\ Registered = {}
    BY <2>2, <2>3 DEF LiveInv, Queued, TypeOK, Registered
  <2>5. ASSUME NEW c \in Ctx PROVE invokes[c] = 0
    <3>1. ~(invokes[c] > 0)
      BY <2>3 DEF LiveInv, Queued
    <3>2. invokes[c] \in Nat
      BY <2>2 DEF TypeOK
    <3> QED BY <3>1, <3>2
  <2> QED BY <2>4, <2>5
<1> QED BY <1>1, TInvInit, TInvNext, LiveInit, LiveNext, PTL DEF Spec

-----------------------------------------------------------------------------
(* Where sources come from.  All steps but three only take them away.       *)

Narrows ==
  /\ Registered' \subseteq Registered /\ srcCtx' = srcCtx
  /\ \A k \in Keys : src'[k] = "attached" => src[k] = "attached"

\* The steps in which a driver installs sources.
Adding ==
  \/ \E d \in Devs, A \in SUBSET Keys : A \subseteq KeysOf({d}) /\ DevAddRunning(d, A)
  \/ \E A \in SUBSET Keys, ok \in BOOLEAN : StartDev(A, ok)
  \/ \E k, k2 \in Keys : DispatchAdd(k, k2)

\* Releasing a context takes away the sources on it, if it was the last reference.
LEMMA UnrefNarrows ==
  ASSUME TypeOK, NEW STATE c, NEW STATE M, NEW STATE L, NEW STATE S,
         g_main_context_unref(c, M, L, S)
  PROVE  Narrows
<1> DEFINE K == {k \in Registered : srcCtx[k] = c}
<1>1. src' = src \/ src' = [k \in Keys |-> IF k \in K THEN "none" ELSE src[k]]
  BY DEF g_main_context_unref
<1>2. srcCtx' = srcCtx
  BY DEF g_main_context_unref
<1> HIDE DEF K
<1> QED BY <1>1, <1>2 DEF Narrows, Registered, TypeOK

\* A step that does not install sources installs none.
LEMMA Narrowing ==
  ASSUME TInv, [Next]_vars, ~Adding
  PROVE  Narrows
<1>t. TypeOK
  BY DEF TInv
<1>1. CASE UNCHANGED <<src, srcCtx>>
  BY <1>1 DEF Narrows, Registered
<1>2. ASSUME NEW Z \in SUBSET Keys, session_stop_sync(Z) PROVE Narrows
  BY <1>t, <1>2, StopSyncSources DEF Narrows
<1>3. CASE UnwindStop
  BY <1>t, <1>3, StoppedSources DEF UnwindStop, Narrows
<1>4. CASE StartAbort
  BY <1>t, <1>1, <1>4, UnrefNarrows DEF StartAbort, regVars
<1>5. CASE RunExit
  BY <1>t, <1>5, UnrefNarrows DEF RunExit
<1>6. ASSUME NEW t \in Stoppers, StopInvokeQueued(t) PROVE Narrows
  BY <1>t, <1>1, <1>6, UnrefNarrows DEF StopInvokeQueued, regVars
<1>7. ASSUME NEW k \in Keys, NEW Z \in SUBSET Keys, DispatchFinish(k, Z) PROVE Narrows
  <2>1. Attached(KeysOf({Owner[k]})) \subseteq Registered
    BY DEF Attached, KeysOf, Registered
  <2> QED BY <1>t, <1>7, <2>1, DestroyedSources DEF DispatchFinish, Narrows
<1>8. ASSUME NEW k \in Keys, DispatchDrop(k) \/ FinalizeSource(k) PROVE Narrows
  <2>1. {k} \subseteq Registered
    BY <1>8 DEF DispatchDrop, Dispatchable, FinalizeSource, Registered
  <2> QED BY <1>t, <1>8, <2>1, DestroyedSources DEF DispatchDrop, FinalizeSource, Narrows
<1>9. {} \in SUBSET Keys
  OBVIOUS
<1> QED
  BY <1>1, <1>2, <1>3, <1>4, <1>5, <1>6, <1>7, <1>8, <1>9
  DEF Next, Application, StartSteps, Dispatch, OtherThreads, Adding, DevAdd, DevRemove,
      DevRemoveAll, Destroy, StartBegin, RunEnter, StopHere, StopHereQueued, StartDone,
      delayed_stop_check, StopDispatch, DispatchOrphan, StopRef, StopInvokeDirect, vars, regVars

-----------------------------------------------------------------------------
(* No callback of a device that left the session.  It takes an application   *)
(* that removes devices only while the session is stopped, and on a default  *)
(* context starts that do not fail: after a failed one sources may be left    *)
(* there, and are dispatched.  In a context of its own they are left, too, if *)
(* a stopping thread holds the context, but no loop iterates it.              *)

RemovesStopped == RemoveWhen = {} \/ (TRUE \notin RemoveWhen /\ (Own \/ ~StartMayFail))

MemInv ==
  /\ pc # "crash"
  /\ pc = "starting" => idx >= 1
  /\ alive => \A k \in Keys : src[k] = "attached" => Owner[k] \in Members
  /\ ~StartMayFail => (Registered # {} => running) /\ pc \notin {"unwinding", "unsetting"}

\* Adding a device to the list keeps the others in it.
LEMMA AppendMembers ==
  ASSUME TypeOK, NEW d \in Devs, devs' = Append(devs, d)
  PROVE  Members' = Members \cup {d}
<1>1. Len(devs') = Len(devs) + 1 /\ Len(devs) \in Nat
  BY DEF TypeOK
<1>2. devs'[Len(devs) + 1] = d /\ \A i \in 1 .. Len(devs) : devs'[i] = devs[i]
  BY DEF TypeOK
<1>3. 1 .. Len(devs') = (1 .. Len(devs)) \cup {Len(devs) + 1}
  BY <1>1
<1> QED BY <1>2, <1>3 DEF Members

\* A step that installs no source, removes no device and ends no run.
LEMMA MemKept ==
  ASSUME MemInv, Narrows, pc' \in {pc, "app"}, idx' = idx \/ pc' = "app",
         alive' => alive /\ Members \subseteq Members',
         running => running' \/ Registered' = {}
  PROVE  MemInv'
BY DEF MemInv, Narrows

\* A new session has no sources.
LEMMA MemInit == Init => MemInv
BY DEF Init, MemInv, Registered

\* Every step keeps the sources with the devices of the session.
LEMMA MemNext ==
  ASSUME RemoveWhen = {} \/ (~StartMayFail /\ TRUE \notin RemoveWhen)
  PROVE  TInv /\ MemInv /\ [Next]_vars => MemInv'
<1> SUFFICES ASSUME TInv, MemInv, [Next]_vars PROVE MemInv'
  OBVIOUS
<1>t. TypeOK /\ RunHasContext
  BY DEF TInv
<1>1. ASSUME NEW d \in Devs, NEW A \in SUBSET Keys, A \subseteq KeysOf({d}), DevAddRunning(d, A)
      PROVE  MemInv'
  <2>1. /\ sr_session_source_add_internal(A) /\ devs' = Append(devs, d) /\ running
        /\ UNCHANGED <<alive, running, pc, idx>>
    BY <1>1 DEF DevAddRunning, sr_dev_acquisition_start
  <2>2. \A k \in Keys : src'[k] = "attached" => src[k] = "attached" \/ k \in A
    BY <1>t, <2>1, AddedSources
  <2>3. Members' = Members \cup {d}
    BY <1>t, <2>1, AppendMembers
  <2> QED BY <1>1, <2>1, <2>2, <2>3 DEF MemInv, KeysOf
<1>2. ASSUME NEW A \in SUBSET Keys, NEW ok \in BOOLEAN, StartDev(A, ok) PROVE MemInv'
  <2>1. /\ sr_session_source_add_internal(A) /\ A \subseteq KeysOf({devs[idx]})
        /\ UNCHANGED <<alive, running, devs>> /\ pc = "starting" /\ idx <= Len(devs)
        /\ \/ pc' = "starting" /\ idx' = idx + 1
           \/ pc' = "unwinding" /\ idx' = idx /\ StartMayFail
    BY <1>2 DEF StartDev, sr_dev_acquisition_start
  <2>2. \A k \in Keys : src'[k] = "attached" => src[k] = "attached" \/ k \in A
    BY <1>t, <2>1, AddedSources
  <2>3. running /\ Members' = Members /\ devs[idx] \in Members /\ idx \in Nat /\ idx >= 1
    BY <1>t, <2>1 DEF RunHasContext, InStart, Members, MemInv, TypeOK
  <2> QED BY <2>1, <2>2, <2>3 DEF MemInv, KeysOf
<1>3. ASSUME NEW k \in Keys, NEW k2 \in Keys, DispatchAdd(k, k2) PROVE MemInv'
  <2>1. /\ sr_session_source_add_internal({k2}) /\ src[k] = "attached"
        /\ Owner[k] \in Members /\ Owner[k2] = Owner[k]
        /\ UNCHANGED <<alive, running, devs, pc, idx>>
    BY <1>3 DEF DispatchAdd, Dispatchable
  <2>2. \A l \in Keys : src'[l] = "attached" => src[l] = "attached" \/ l \in {k2}
    <3>1. {k2} \in SUBSET Keys
      OBVIOUS
    <3> QED BY <1>t, <2>1, <3>1, AddedSources
  <2>3. Members' = Members /\ k \in Registered
    BY <2>1 DEF Members, Registered
  <2> QED BY <2>1, <2>2, <2>3 DEF MemInv
<1> SUFFICES ASSUME ~Adding PROVE MemInv'
  BY <1>1, <1>2, <1>3 DEF Adding
<1>n. Narrows
  BY Narrowing
<1>4. ASSUME NEW d \in Devs, DevAdd(d) PROVE MemInv'
  <2>1. devs' = Append(devs, d) /\ UNCHANGED <<alive, running, pc, idx>>
    BY <1>4 DEF DevAdd
  <2>2. Members' = Members \cup {d}
    BY <1>t, <2>1, AppendMembers
  <2> QED BY <1>n, <2>1, <2>2, MemKept
<1>5. CASE DevRemoveAll \/ \E i \in 1 .. Len(devs) : DevRemove(i)
  <2>1. running \in RemoveWhen /\ UNCHANGED <<alive, running, pc, idx, src>>
    BY <1>5 DEF DevRemove, DevRemoveAll, regVars
  <2>2. ~StartMayFail /\ ~running
    BY <1>t, <2>1 DEF TypeOK
  <2>3. Registered = {} /\ Registered' = {} /\ \A k \in Keys : src'[k] # "attached"
    BY <2>1, <2>2 DEF MemInv, Registered
  <2> QED BY <2>1, <2>3 DEF MemInv
<1>6. CASE Destroy
  BY <1>n, <1>6, MemKept DEF Destroy
<1>7. CASE StartBegin
  BY <1>7 DEF StartBegin, MemInv, Members, Registered, regVars
<1>8. CASE UnwindStop \/ StartAbort
  <2>1. StartMayFail
    BY <1>8 DEF UnwindStop, StartAbort, MemInv
  <2>2. alive' = alive /\ Members' = Members /\ pc' \in {"unsetting", "app", "deadlock"}
    BY <1>8 DEF UnwindStop, StartAbort, Members
  <2> QED BY <1>n, <2>1, <2>2 DEF MemInv, Narrows
<1>9. ASSUME NEW c \in Ctx, delayed_stop_check(c) PROVE MemInv'
  <2>1. UNCHANGED <<alive, devs, pc, idx, src>>
    BY <1>9 DEF delayed_stop_check
  <2>2. running => running' \/ Registered = {}
    BY <1>9 DEF delayed_stop_check, RunIsOver
  <2>3. Members' = Members /\ Registered' = Registered
    BY <2>1 DEF Members, Registered
  <2> QED BY <1>n, <2>1, <2>2, <2>3, MemKept
<1>10. ASSUME NEW k \in Keys, DispatchOrphan(k) PROVE MemInv'
  BY <1>10 DEF DispatchOrphan, Dispatchable, Iterates, MemInv
<1>11. CASE StartDone
  <2>1. alive' = alive /\ running' = running /\ Members' = Members /\ pc' = "app"
    BY <1>11 DEF StartDone, Members
  <2> QED BY <1>n, <2>1, MemKept
<1>12. ASSUME UNCHANGED <<alive, devs, running, pc, idx>> PROVE MemInv'
  <2>1. Members' = Members
    BY <1>12 DEF Members
  <2> QED BY <1>n, <1>12, <2>1, MemKept
<1> QED
  BY <1>4, <1>5, <1>6, <1>7, <1>8, <1>9, <1>10, <1>11, <1>12
  DEF Next, Application, StartSteps, Dispatch, OtherThreads, Adding, RunEnter, RunExit,
      StopHere, StopHereQueued, StopDispatch, DispatchFinish, DispatchDrop, FinalizeSource,
      StopRef, StopInvokeDirect, StopInvokeQueued, vars

\* On a context of its own: a source that can be dispatched lies in the context of the
\* current run.  Contexts are not used again, so that what an earlier start has left
\* behind stays out of it.
OwnMem ==
  /\ pc # "crash"
  /\ pc = "starting" => idx >= 1
  /\ \A k \in Registered : srcCtx[k] <= run
  /\ alive => \A k \in Keys :
       src[k] = "attached" /\ srcCtx[k] \in {main_context, main_loop} =>
         srcCtx[k] = main_context /\ Owner[k] \in Members

\* A step that installs no source, removes no device and neither begins nor ends a run.
LEMMA OwnMemKept ==
  ASSUME OwnMem, Narrows, pc' \in {pc, "app", "unsetting", "deadlock"}, idx' = idx \/ pc' # "starting",
         alive' => alive /\ Members \subseteq Members',
         run' = run, main_context' = main_context,
         main_loop' \in {main_loop, main_context, NULL}, NULL \notin Nat, TypeOK
  PROVE  OwnMem'
<1>1. \A k \in Keys : srcCtx[k] # NULL
  BY DEF TypeOK, Ctx
<1>2. \A k \in Registered' : k \in Registered /\ srcCtx'[k] = srcCtx[k]
  BY DEF Narrows
<1> QED BY <1>1, <1>2 DEF OwnMem, Narrows

\* A source is installed in the context of the run, for a member of the session.
LEMMA OwnMemAdded ==
  ASSUME TypeOK, OwnMem, Loops, NEW STATE A, A \in SUBSET Keys, NEW STATE d,
         sr_session_source_add_internal(A), A \subseteq KeysOf({d}), d \in Members',
         Members \subseteq Members', main_context # NULL,
         UNCHANGED <<alive, run, main_context, main_loop>>,
         pc' # "crash", pc' = "starting" => idx' >= 1
  PROVE  OwnMem'
<1>1. \A k \in Registered' : (k \in Registered /\ srcCtx'[k] = srcCtx[k]) \/ srcCtx'[k] = main_context
  BY AddedSources
<1>2. main_context <= run
  BY DEF Loops
<1>3. \A k \in Registered' : srcCtx'[k] <= run'
  BY <1>1, <1>2 DEF OwnMem
<1>4. ASSUME NEW k \in Keys, src'[k] = "attached", src[k] # "attached"
      PROVE  srcCtx'[k] = main_context /\ Owner[k] = d
  <2>1. k \in A /\ src[k] = "none"
    BY <1>4 DEF sr_session_source_add_internal
  <2> QED BY <2>1, <1>4 DEF sr_session_source_add_internal, KeysOf
<1>5. ASSUME NEW k \in Keys, src[k] = "attached" PROVE srcCtx'[k] = srcCtx[k]
  BY <1>5, AddedSources DEF Registered
<1> QED BY <1>3, <1>4, <1>5 DEF OwnMem

\* A new session has no sources.
LEMMA OwnMemInit == Init => OwnMem
BY DEF Init, OwnMem, Registered

\* Every step keeps it.
LEMMA OwnMemNext ==
  ASSUME Own, TRUE \notin RemoveWhen
  PROVE  TInv /\ LiveInv /\ OwnMem /\ [Next]_vars => OwnMem'
<1> SUFFICES ASSUME TInv, LiveInv, OwnMem, [Next]_vars PROVE OwnMem'
  OBVIOUS
<1>t. TypeOK /\ RunHasContext /\ Loops /\ Ended /\ NULL \notin Nat /\ LoopMode = "own_context"
  BY SessionAssumption DEF TInv, LiveInv, Own
<1>1. ASSUME NEW d \in Devs, NEW A \in SUBSET Keys, A \subseteq KeysOf({d}), DevAddRunning(d, A)
      PROVE  OwnMem'
  <2>1. /\ sr_session_source_add_internal(A) /\ devs' = Append(devs, d) /\ main_context # NULL
        /\ UNCHANGED <<alive, pc, idx, run, main_context, main_loop>>
    BY <1>t, <1>1 DEF DevAddRunning, sr_dev_acquisition_start, RunHasContext, loopVars, histVars
  <2>2. Members' = Members \cup {d}
    BY <1>t, <2>1, AppendMembers
  <2>3. pc' # "crash" /\ (pc' = "starting" => idx' >= 1)
    BY <2>1 DEF OwnMem
  <2> QED BY <1>1, <1>t, <2>1, <2>2, <2>3, OwnMemAdded
<1>2. ASSUME NEW A \in SUBSET Keys, NEW ok \in BOOLEAN, StartDev(A, ok) PROVE OwnMem'
  <2>1. /\ sr_session_source_add_internal(A) /\ A \subseteq KeysOf({devs[idx]})
        /\ UNCHANGED <<alive, devs, run, main_context, main_loop>>
        /\ pc = "starting" /\ idx <= Len(devs)
        /\ (pc' = "starting" /\ idx' = idx + 1) \/ pc' = "unwinding"
    BY <1>2 DEF StartDev, sr_dev_acquisition_start, loopVars, histVars
  <2>2. Members' = Members /\ devs[idx] \in Members /\ idx \in Nat /\ idx >= 1 /\ main_context # NULL
    BY <1>t, <2>1 DEF RunHasContext, InStart, Members, OwnMem, TypeOK
  <2>3. pc' # "crash" /\ (pc' = "starting" => idx' >= 1)
    BY <2>1, <2>2
  <2> QED BY <1>t, <2>1, <2>2, <2>3, OwnMemAdded
<1>3. ASSUME NEW k \in Keys, NEW k2 \in Keys, DispatchAdd(k, k2) PROVE OwnMem'
  <2>1. /\ sr_session_source_add_internal({k2}) /\ main_context # NULL
        /\ Owner[k] \in Members /\ Owner[k2] = Owner[k]
        /\ UNCHANGED <<alive, devs, pc, idx, run, main_context, main_loop>>
    BY <1>3 DEF DispatchAdd, loopVars, histVars
  <2>2. {k2} \in SUBSET Keys /\ {k2} \subseteq KeysOf({Owner[k]}) /\ Members' = Members
    BY <2>1 DEF KeysOf, Members
  <2>3. pc' # "crash" /\ (pc' = "starting" => idx' >= 1)
    BY <2>1 DEF OwnMem
  <2> QED BY <1>t, <2>1, <2>2, <2>3, OwnMemAdded
<1> SUFFICES ASSUME ~Adding PROVE OwnMem'
  BY <1>1, <1>2, <1>3 DEF Adding
<1>n. Narrows
  BY Narrowing
<1>r. \A k \in Registered' : k \in Registered /\ srcCtx'[k] = srcCtx[k]
  BY <1>n DEF Narrows
<1>4. ASSUME NEW d \in Devs, DevAdd(d) PROVE OwnMem'
  <2>1. devs' = Append(devs, d) /\ UNCHANGED <<alive, pc, idx, run, main_context, main_loop>>
    BY <1>4 DEF DevAdd, loopVars, histVars
  <2>2. Members' = Members \cup {d}
    BY <1>t, <2>1, AppendMembers
  <2> QED BY <1>n, <1>t, <2>1, <2>2, OwnMemKept
<1>5. CASE DevRemoveAll \/ \E i \in 1 .. Len(devs) : DevRemove(i)
  <2>1. /\ running \in RemoveWhen /\ pc = "app"
        /\ UNCHANGED <<alive, pc, idx, src, srcCtx, run, main_context, main_loop>>
    BY <1>5 DEF DevRemove, DevRemoveAll, AtApp, regVars, loopVars, histVars
  <2>2. main_context = NULL
    BY <1>t, <2>1 DEF TypeOK, Ended
  <2>3. \A k \in Keys : src[k] = "attached" => srcCtx[k] # NULL
    BY <1>t DEF TypeOK, Ctx
  <2>4. alive => \A k \in Keys : src[k] = "attached" => srcCtx[k] \notin {main_context, main_loop}
    BY <2>2, <2>3 DEF OwnMem
  <2> QED BY <1>r, <2>1, <2>4 DEF OwnMem
<1>6. CASE Destroy
  <2>1. ~alive' /\ UNCHANGED <<pc, idx, run>>
    BY <1>6 DEF Destroy, histVars
  <2> QED BY <1>r, <2>1 DEF OwnMem
<1>7. CASE StartBegin
  <2>1. /\ main_context = NULL /\ main_context' = run + 1 /\ run' = run + 1 /\ pc' = "starting" /\ idx' = 1
        /\ UNCHANGED <<alive, devs, src, srcCtx, main_loop>>
    BY <1>t, <1>7 DEF StartBegin, ChosenContext, regVars
  <2>2. run \in Nat /\ \A k \in Keys : srcCtx[k] \in Nat /\ srcCtx[k] # NULL
    BY <1>t DEF TypeOK, Ctx
  <2>3. \A k \in Registered : srcCtx[k] <= run /\ srcCtx[k] # run + 1 /\ srcCtx[k] <= run + 1
    BY <2>2 DEF OwnMem, Registered
  <2>4. \A k \in Keys : src[k] = "attached" => k \in Registered
    BY DEF Registered
  <2>5. alive => \A k \in Keys : src[k] = "attached" => srcCtx[k] # main_loop
    BY <2>1, <2>2 DEF OwnMem
  <2> QED BY <1>r, <2>1, <2>3, <2>4, <2>5 DEF OwnMem
<1>8. CASE UnwindStop
  <2>1. UNCHANGED <<alive, devs, run, main_context, main_loop>> /\ pc' = "unsetting"
    BY <1>8 DEF UnwindStop, loopVars, histVars
  <2>2. Members' = Members
    BY <2>1 DEF Members
  <2> QED BY <1>n, <1>t, <2>1, <2>2, OwnMemKept
<1>9. CASE StartAbort
  <2>1. /\ UNCHANGED <<alive, devs, run, main_loop>> /\ pc' \in {"app", "deadlock"} /\ InStart
        /\ main_context' \in {main_context, NULL}
    BY <1>9 DEF StartAbort, histVars, InStart
  <2>2. Members' = Members /\ main_loop # main_context /\ \A k \in Keys : srcCtx[k] # NULL
    BY <1>t, <2>1 DEF Members, Loops, TypeOK, Ctx
  <2> QED BY <1>n, <1>r, <2>1, <2>2 DEF OwnMem, Narrows
<1>10. ASSUME NEW c \in Ctx, delayed_stop_check(c) PROVE OwnMem'
  <2>1. /\ UNCHANGED <<alive, devs, pc, idx, src, srcCtx, run, main_loop>>
        /\ main_context' = main_context \/ Registered = {}
    BY <1>10 DEF delayed_stop_check, ContextAfterCheck, RunIsOver
  <2>2. Members' = Members
    BY <2>1 DEF Members
  <2>3. CASE Registered = {}
    BY <1>r, <2>1, <2>3 DEF OwnMem, Registered
  <2> QED BY <1>n, <1>t, <2>1, <2>2, <2>3, OwnMemKept
<1>11. ASSUME NEW k \in Keys, DispatchOrphan(k) PROVE OwnMem'
  <2>1. src[k] = "attached" /\ alive /\ srcCtx[k] = main_loop /\ Owner[k] \notin Members
    BY <1>t, <1>11 DEF DispatchOrphan, Dispatchable, Iterates
  <2> QED BY <2>1 DEF OwnMem
<1>12. CASE StartDone
  <2>1. UNCHANGED <<alive, devs, run, main_context, main_loop>> /\ pc' = "app"
    BY <1>12 DEF StartDone, loopVars, histVars
  <2>2. Members' = Members
    BY <2>1 DEF Members
  <2> QED BY <1>n, <1>t, <2>1, <2>2, OwnMemKept
<1>13. ASSUME UNCHANGED <<alive, devs, pc, idx, run, main_context>>,
              main_loop' \in {main_loop, main_context, NULL}
       PROVE  OwnMem'
  <2>1. Members' = Members
    BY <1>13 DEF Members
  <2> QED BY <1>n, <1>t, <1>13, <2>1, OwnMemKept
<1> QED
  BY <1>4, <1>5, <1>6, <1>7, <1>8, <1>9, <1>10, <1>11, <1>12, <1>13
  DEF Next, Application, StartSteps, Dispatch, OtherThreads, Adding, RunEnter, RunExit,
      StopHere, StopHereQueued, StopDispatch, DispatchFinish, DispatchDrop, FinalizeSource,
      StopRef, StopInvokeDirect, StopInvokeQueued, vars, loopVars, histVars

\* No callback ever runs for a device without a session, for any number of devices and
\* sources, if the application never removes a device, or removes devices only from a
\* stopped session and, on a default context, no start fails (delayed_stop_check() stops
\* a session only when its last source is gone; the error path of sr_session_start()
\* does not wait for that).
THEOREM CallbacksHaveASession ==
  ASSUME RemovesStopped
  PROVE  Spec => []NoOrphanCallback
<1>1. MemInv \/ OwnMem => NoOrphanCallback
  BY DEF MemInv, OwnMem, NoOrphanCallback
<1>2. CASE RemoveWhen = {} \/ (~StartMayFail /\ TRUE \notin RemoveWhen)
  <2>1. TInv /\ MemInv /\ [Next]_vars => MemInv'
    BY <1>2, MemNext
  <2> QED BY <1>1, <2>1, MemInit, TInvAlways, PTL DEF Spec
<1>3. CASE Own /\ TRUE \notin RemoveWhen
  <2>1. TInv /\ LiveInv /\ OwnMem /\ [Next]_vars => OwnMem'
    BY <1>3, OwnMemNext
  <2>2. TInv /\ LiveInv /\ [Next]_vars => LiveInv'
    BY <1>3, LiveNext
  <2> QED BY <1>1, <2>1, <2>2, OwnMemInit, LiveInit, TInvAlways, PTL DEF Spec
<1> QED BY <1>2, <1>3 DEF RemovesStopped

-----------------------------------------------------------------------------
(* The session implements its life cycle.  A run is reported at most once    *)
(* because the current run, while it lasts, has not been reported.           *)

NotifiedInv ==
  /\ \A r \in notified : r <= run
  /\ running => run \notin notified

\* The steps that begin, end or report a run are the start and the stop check.
LEMMA NotifiedNext == TInv /\ NotifiedInv /\ [Next]_vars => NotifiedInv'
<1> SUFFICES ASSUME TInv, NotifiedInv, [Next]_vars PROVE NotifiedInv'
  OBVIOUS
<1>1. CASE StartBegin
  <2>1. run' = run + 1 /\ notified' = notified /\ run \in Nat /\ \A r \in notified : r \in Nat
    BY <1>1 DEF StartBegin, TInv, TypeOK
  <2> QED BY <2>1 DEF NotifiedInv
<1>2. ASSUME NEW c \in Ctx, delayed_stop_check(c) PROVE NotifiedInv'
  <2>1. run' = run /\ run \in Nat
    BY <1>2 DEF delayed_stop_check, TInv, TypeOK
  <2>2. \/ ~running' /\ notified' = notified \cup {run}
        \/ running' = running /\ notified' = notified
    BY <1>2 DEF delayed_stop_check
  <2> QED BY <2>1, <2>2 DEF NotifiedInv
<1>3. CASE StartAbort
  BY <1>3 DEF StartAbort, NotifiedInv, histVars
<1>4. CASE UNCHANGED <<run, notified, running>>
  BY <1>4 DEF NotifiedInv
<1> QED
  BY <1>1, <1>2, <1>3, <1>4
  DEF Next, Application, StartSteps, Dispatch, OtherThreads, DevAdd, DevAddRunning,
      DevRemove, DevRemoveAll, Destroy, RunEnter, RunExit, StopHere, StopHereQueued, StartDev,
      StartDone, UnwindStop, StopDispatch, DispatchFinish, DispatchDrop,
      DispatchOrphan, DispatchAdd, FinalizeSource, StopRef, StopInvokeDirect,
      StopInvokeQueued, vars, histVars

\* Reporting one more run counts one more.
LEMMA OneMoreReported ==
  ASSUME TypeOK, run \notin notified
  PROVE  Cardinality(notified \cup {run}) = Cardinality(notified) + 1
<1>1. IsFiniteSet(0 .. MaxRuns)
  BY FS_Interval
<1>2. IsFiniteSet(notified)
  BY <1>1, FS_Subset DEF TypeOK
<1> QED BY <1>2, FS_AddElement

Live == {Owner[k] : k \in Registered}

\* A step that takes sources away, within a phase, is a step in which devices finish.
LEMMA DrainStep ==
  ASSUME Narrows, Phase' = Phase, notified' = notified
  PROVE  Lifecycle!Drain
<1>1. Live' \subseteq Live
  BY DEF Live, Narrows
<1> QED BY <1>1 DEF Lifecycle!Drain, Live

\* A step that adds sources, in a start or in a run, makes devices live.
LEMMA ActivateStep ==
  ASSUME TypeOK, Registered \subseteq Registered', Phase' = Phase, notified' = notified,
         Phase \in {"starting", "running"}
  PROVE  Lifecycle!Activate
<1>1. Live \subseteq Live'
  BY DEF Live
<1>2. Live' \subseteq Devs
  BY DEF Live, Registered
<1> QED BY <1>1, <1>2 DEF Lifecycle!Activate, Live

\* Every step of the session is a step of its life cycle or changes nothing in it.
LEMMA LifecycleStep ==
  TInv /\ NotifiedInv /\ [Next]_vars => [Lifecycle!LifeNext]_(Lifecycle!lifeVars)
<1> SUFFICES ASSUME TInv, NotifiedInv, [Next]_vars, ~(UNCHANGED Lifecycle!lifeVars)
             PROVE  Lifecycle!LifeNext
  OBVIOUS
<1>t. TypeOK /\ RunHasContext
  BY DEF TInv
<1>1. ASSUME NEW d \in Devs, NEW A \in SUBSET Keys, DevAddRunning(d, A)
      PROVE  Lifecycle!LifeNext
  <2>1. sr_session_source_add_internal(A) /\ running /\ UNCHANGED <<running, pc, notified>>
        /\ pc = "app"
    BY <1>1 DEF DevAddRunning, sr_dev_acquisition_start, AtApp, histVars
  <2>2. Registered \subseteq Registered'
    BY <1>t, <2>1, AddedSources
  <2>3. Phase = "running" /\ Phase' = "running"
    BY <2>1 DEF Phase
  <2> QED BY <1>t, <2>1, <2>2, <2>3, ActivateStep DEF Lifecycle!LifeNext
<1>2. ASSUME NEW A \in SUBSET Keys, NEW ok \in BOOLEAN, StartDev(A, ok)
      PROVE  Lifecycle!LifeNext
  <2>1. sr_session_source_add_internal(A) /\ notified' = notified
        /\ pc = "starting" /\ pc' \in {"starting", "unwinding"}
    BY <1>2 DEF StartDev, sr_dev_acquisition_start, histVars
  <2>2. Registered \subseteq Registered'
    BY <1>t, <2>1, AddedSources
  <2>3. Phase = "starting" /\ Phase' = "starting"
    BY <2>1 DEF Phase
  <2> QED BY <1>t, <2>1, <2>2, <2>3, ActivateStep DEF Lifecycle!LifeNext
<1>3. ASSUME NEW k \in Keys, NEW k2 \in Keys, DispatchAdd(k, k2) PROVE Lifecycle!LifeNext
  <2>1. /\ sr_session_source_add_internal({k2}) /\ src[k] = "attached"
        /\ Owner[k2] = Owner[k] /\ UNCHANGED <<pc, running, notified>>
    BY <1>3 DEF DispatchAdd, Dispatchable, histVars
  <2>2. Registered' = Registered \cup {k2} /\ k \in Registered
    <3>1. {k2} \in SUBSET Keys
      OBVIOUS
    <3> QED BY <1>t, <2>1, <3>1, AddedSources DEF Registered
  <2>3. {Owner[l] : l \in Registered}' = {Owner[l] : l \in Registered} /\ Phase' = Phase
    BY <2>1, <2>2 DEF Phase
  <2> QED BY <2>1, <2>3 DEF Lifecycle!lifeVars
<1> SUFFICES ASSUME ~Adding PROVE Lifecycle!LifeNext
  BY <1>1, <1>2, <1>3 DEF Adding
<1>n. Narrows
  BY Narrowing
<1>l. Live' \subseteq Live /\ (src' = src => Live' = Live)
  BY <1>n DEF Narrows, Live, Registered
<1>4. CASE StartBegin
  <2>1. Phase = "stopped" /\ Phase' = "starting" /\ notified' = notified /\ src' = src
    BY <1>4 DEF StartBegin, AtApp, Phase, regVars
  <2> QED BY <1>l, <2>1 DEF Lifecycle!LifeNext, Lifecycle!Begin, Live
<1>5. CASE StartDone
  <2>1. Phase = "starting" /\ Phase' = "running" /\ notified' = notified /\ src' = src
    BY <1>t, <1>5 DEF StartDone, Phase, RunHasContext, InStart, histVars
  <2> QED BY <1>l, <2>1 DEF Lifecycle!LifeNext, Lifecycle!Ready, Live
<1>6. CASE StartAbort
  <2>1. Phase = "starting" /\ Phase' = "stopped" /\ notified' = notified
    BY <1>6 DEF StartAbort, Phase, histVars
  <2> QED BY <1>l, <2>1 DEF Lifecycle!LifeNext, Lifecycle!Fail, Live
<1>7. ASSUME NEW c \in Ctx, delayed_stop_check(c) PROVE Lifecycle!LifeNext
  <2>1. pc = "app" /\ pc' = pc /\ src' = src
    BY <1>7 DEF delayed_stop_check, Iterates
  <2>2. CASE RunIsOver
    <3>1. running /\ Registered = {} /\ ~running' /\ notified' = notified \cup {run}
      BY <1>7, <2>2 DEF delayed_stop_check, RunIsOver
    <3>2. Phase = "running" /\ Phase' = "stopped" /\ Live = {}
      BY <2>1, <3>1 DEF Phase, Live
    <3>3. Cardinality(notified)' = Cardinality(notified) + 1
      BY <1>t, <3>1, OneMoreReported DEF NotifiedInv
    <3> QED BY <1>l, <2>1, <3>2, <3>3 DEF Lifecycle!LifeNext, Lifecycle!End, Live
  <2>3. CASE ~RunIsOver
    <3>1. UNCHANGED <<running, notified>>
      BY <1>7, <2>3 DEF delayed_stop_check
    <3> QED BY <1>n, <2>1, <3>1, DrainStep DEF Phase, Lifecycle!LifeNext
  <2> QED BY <2>2, <2>3
<1>8. CASE UnwindStop \/ \E k \in Keys : DispatchOrphan(k)
  <2>1. Phase' = Phase /\ notified' = notified
    BY <1>8 DEF UnwindStop, DispatchOrphan, Dispatchable, Iterates, Phase, histVars
  <2> QED BY <1>n, <2>1, DrainStep DEF Lifecycle!LifeNext
<1>9. ASSUME UNCHANGED <<running, pc, notified>> PROVE Lifecycle!LifeNext
  BY <1>n, <1>9, DrainStep DEF Phase, Lifecycle!LifeNext
<1> QED
  BY <1>4, <1>5, <1>6, <1>7, <1>8, <1>9
  DEF Next, Application, StartSteps, Dispatch, OtherThreads, Adding, DevAdd, DevRemove,
      DevRemoveAll, Destroy, RunEnter, RunExit, StopHere, StopHereQueued, StopDispatch,
      DispatchFinish, DispatchDrop, FinalizeSource, StopRef, StopInvokeDirect,
      StopInvokeQueued, vars, histVars

\* In every configuration the session implements the safety part of its life cycle:
\* devices become live only in a start or a run, a run is reported as ended exactly
\* once and only when no device is live, and a start that fails is never reported
\* (sr_session_start(), delayed_stop_check(), sr_session_source_destroyed()).
THEOREM ImplementsLifecycleSafety == Spec => Lifecycle!LifeSafe
<1>1. Init => Lifecycle!LifeInit
  <2> SUFFICES ASSUME Init PROVE Lifecycle!LifeInit
    OBVIOUS
  <2>1. Registered = {} /\ Phase = "stopped" /\ notified = {}
    BY DEF Init, Registered, Phase
  <2>2. Cardinality({}) = 0
    BY FS_EmptySet
  <2> QED BY <2>1, <2>2 DEF Lifecycle!LifeInit
<1>2. Init => NotifiedInv
  BY DEF Init, NotifiedInv
<1> QED BY <1>1, <1>2, TInvAlways, NotifiedNext, LifecycleStep, PTL DEF Spec, Lifecycle!LifeSafe

-----------------------------------------------------------------------------
(* unset_main_context() drops the last reference to a context with main_mutex *)
(* held, and finalizing the last source of the session takes that mutex.  So   *)
(* no source may be left on the context of a start that has failed.            *)

\* Sources of the run that is being started belong to devices that were started, up to
\* the current one, and are gone when all of those have stopped.
StartedSources ==
  /\ pc = "starting" => idx >= 1
  /\ pc \in {"starting", "unwinding"} =>
       \A k \in Registered : srcCtx[k] = main_context =>
         /\ src[k] = "attached" /\ acq[Owner[k]] # "idle"
         /\ \E i \in 1 .. idx : Owner[k] = devs[i]
  /\ pc = "unsetting" => \A k \in Registered : srcCtx[k] # main_context

UnsetInv ==
  /\ pc # "deadlock"
  /\ ~Own => main_context \in {0, NULL}
  /\ ~StartMayFail => pc \notin {"unwinding", "unsetting"}
  /\ main_context # NULL => main_context <= run
  /\ \A k \in Registered : srcCtx[k] <= run
  /\ Own /\ SyncStop = Devs => StartedSources

\* A step outside sr_session_start(), or one of another thread during it that at most
\* takes sources away.
LEMMA UnsetKept ==
  ASSUME UnsetInv, pc' \in {pc, "app", "crash"}, main_context' \in {main_context, NULL}, run' = run,
         \A k \in Registered' : \/ k \in Registered /\ srcCtx'[k] = srcCtx[k]
                                \/ srcCtx'[k] = main_context /\ main_context # NULL,
         Own /\ InStart' => /\ UNCHANGED <<acq, idx, devs, main_context, pc>>
                            /\ \A k \in Registered' : k \in Registered /\ src'[k] = src[k]
                                                      /\ srcCtx'[k] = srcCtx[k]
  PROVE  UnsetInv'
<1>1. Own /\ SyncStop = Devs => StartedSources'
  BY DEF UnsetInv, StartedSources, InStart
<1>2. \A k \in Registered' : srcCtx'[k] <= run'
  BY DEF UnsetInv
<1>3. main_context' # NULL => main_context' <= run'
  BY DEF UnsetInv
<1>4. pc' # "deadlock" /\ (~StartMayFail => pc' \notin {"unwinding", "unsetting"})
  BY DEF UnsetInv
<1>5. ~Own => main_context' \in {0, NULL}
  BY DEF UnsetInv
<1> QED BY <1>1, <1>2, <1>3, <1>4, <1>5 DEF UnsetInv

\* What a driver installs is attached to the context of the run.
LEMMA AddedInRun ==
  ASSUME TypeOK, NEW STATE A, sr_session_source_add_internal(A)
  PROVE  \A k \in Keys : src'[k] # "none" =>
           \/ src'[k] = src[k] /\ srcCtx'[k] = srcCtx[k]
           \/ k \in A /\ srcCtx'[k] = main_context /\ src'[k] = "attached"
<1> DEFINE new == {k \in A : src[k] = "none"}
<1>1. /\ src' = [k \in Keys |-> IF k \in new THEN "attached" ELSE src[k]]
      /\ srcCtx' = [k \in Keys |-> IF k \in new THEN main_context ELSE srcCtx[k]]
  BY DEF sr_session_source_add_internal
<1> QED BY <1>1

\* A new session has no sources and is not in a start.
LEMMA UnsetInit == Init => UnsetInv
BY DEF Init, UnsetInv, StartedSources, Registered

\* Every step keeps it, if starts do not fail, if the context is the default one, or if
\* every device stops at once.
LEMMA UnsetNext ==
  ASSUME ~Own \/ ~StartMayFail \/ SyncStop = Devs
  PROVE  TInv /\ UnsetInv /\ [Next]_vars => UnsetInv'
<1> SUFFICES ASSUME TInv, UnsetInv, [Next]_vars PROVE UnsetInv'
  OBVIOUS
<1>t. TypeOK /\ RunHasContext
  BY DEF TInv
<1>1. CASE StartBegin
  <2>1. /\ run' = run + 1 /\ main_context' = ChosenContext /\ pc' = "starting" /\ idx' = 1
        /\ run \in Nat /\ Registered' = Registered /\ srcCtx' = srcCtx
    BY <1>t, <1>1 DEF StartBegin, TypeOK, regVars, Registered
  <2>2. \A k \in Registered : srcCtx[k] \in Nat /\ srcCtx[k] <= run
    BY <1>t DEF UnsetInv, TypeOK, Registered
  <2>3. Own => \A k \in Registered : srcCtx[k] # main_context'
    BY <2>1, <2>2 DEF ChosenContext, Own
  <2>4. ChosenContext <= run' /\ (~Own => ChosenContext = 0)
    BY <2>1 DEF ChosenContext, Own
  <2>5. \A k \in Registered' : srcCtx'[k] <= run'
    BY <2>1, <2>2
  <2>6. Own => StartedSources'
    BY <2>1, <2>3 DEF StartedSources
  <2> QED BY <2>1, <2>4, <2>5, <2>6 DEF UnsetInv
<1>2. ASSUME NEW A \in SUBSET Keys, NEW ok \in BOOLEAN, StartDev(A, ok) PROVE UnsetInv'
  <2>1. /\ UNCHANGED <<devs, main_context, run>> /\ pc = "starting"
        /\ A \subseteq KeysOf({devs[idx]}) /\ sr_session_source_add_internal(A)
        /\ pc' \in {"starting", "unwinding"} /\ (pc' = "unwinding" => StartMayFail)
        /\ idx' \in {idx, idx + 1} /\ idx \in Nat /\ idx <= Len(devs) /\ devs \in Seq(Devs)
    BY <1>t, <1>2 DEF StartDev, sr_dev_acquisition_start, loopVars, histVars, TypeOK
  <2>2. main_context # NULL
    BY <1>t, <2>1 DEF RunHasContext, InStart
  <2>3. ASSUME NEW k \in Keys, k \in Registered'
        PROVE  \/ k \in Registered /\ srcCtx'[k] = srcCtx[k] /\ src'[k] = src[k]
               \/ k \in A /\ srcCtx'[k] = main_context /\ src'[k] = "attached"
    BY <1>t, <2>1, <2>3, AddedInRun DEF Registered
  <2>r. Registered' \subseteq Keys
    BY DEF Registered
  <2>4. \A k \in Registered' : srcCtx'[k] <= run'
    BY <2>1, <2>2, <2>3, <2>r DEF UnsetInv
  <2>5. ASSUME StartedSources PROVE StartedSources'
    <3>1. idx >= 1 /\ idx' >= 1 /\ idx \in 1 .. idx' /\ devs[idx] \in Devs
      BY <2>1, <2>5 DEF StartedSources
    <3>2. ASSUME NEW k \in Registered', srcCtx'[k] = main_context
          PROVE  src'[k] = "attached" /\ acq'[Owner[k]] # "idle" /\ \E i \in 1 .. idx' : Owner[k] = devs[i]
      <4>0. k \in Keys /\ Owner[k] \in Devs
        BY <3>2 DEF Registered
      <4>1. src'[k] = "attached"
        BY <2>1, <2>3, <2>5, <3>2, <4>0 DEF StartedSources
      <4>2. CASE Owner[k] = devs[idx]
        <5>1. \E x \in KeysOf({devs[idx]}) : src'[x] = "attached"
          BY <4>0, <4>1, <4>2 DEF KeysOf
        <5>2. acq' = [acq EXCEPT ![devs[idx]] = "running"]
          BY <1>2, <5>1 DEF StartDev, sr_dev_acquisition_start
        <5>3. acq'[Owner[k]] = "running"
          BY <1>t, <3>1, <4>2, <5>2 DEF TypeOK
        <5> QED BY <3>1, <4>1, <4>2, <5>3
      <4>3. CASE Owner[k] # devs[idx]
        <5>1. k \in Registered /\ srcCtx[k] = main_context
          BY <2>1, <2>3, <3>2, <4>0, <4>3 DEF KeysOf
        <5>2. acq[Owner[k]] # "idle" /\ \E i \in 1 .. idx : Owner[k] = devs[i]
          BY <2>1, <2>5, <5>1 DEF StartedSources
        <5>3. acq'[Owner[k]] = acq[Owner[k]]
          BY <1>t, <1>2, <4>0, <4>3 DEF StartDev, sr_dev_acquisition_start, TypeOK
        <5>4. 1 .. idx \subseteq 1 .. idx'
          BY <2>1
        <5> QED BY <4>1, <5>2, <5>3, <5>4
      <4> QED BY <4>2, <4>3
    <3> QED BY <2>1, <3>1, <3>2 DEF StartedSources
  <2> QED BY <2>1, <2>4, <2>5 DEF UnsetInv
<1>3. CASE UnwindStop
  <2>1. /\ UNCHANGED <<devs, main_context, run>> /\ pc = "unwinding" /\ pc' = "unsetting"
        /\ sr_dev_acquisition_stop(ToUnwind, {})
    BY <1>3 DEF UnwindStop, loopVars, histVars
  <2>2. Registered' \subseteq Registered /\ srcCtx' = srcCtx
    BY <1>t, <2>1, StoppedSources
  <2>3. ASSUME StartedSources, SyncStop = Devs PROVE StartedSources'
    <3>1. ASSUME NEW k \in Registered', srcCtx[k] = main_context PROVE FALSE
      <4> DEFINE busy == {d \in ToUnwind : acq[d] # "idle"}
                 K == Attached(KeysOf(busy \cap SyncStop))
      <4>1. /\ k \in Keys /\ Owner[k] \in Devs /\ src[k] = "attached" /\ acq[Owner[k]] # "idle"
            /\ Owner[k] \in ToUnwind
        BY <2>1, <2>2, <2>3, <3>1 DEF StartedSources, Registered, ToUnwind
      <4>2. k \in K
        BY <2>3, <4>1 DEF Attached, KeysOf
      <4>3. sr_session_source_destroyed(K, K \cap {})
        BY <2>1 DEF sr_dev_acquisition_stop
      <4> HIDE DEF K
      <4>4. src'[k] = "none"
        BY <4>1, <4>2, <4>3 DEF sr_session_source_destroyed
      <4> QED BY <3>1, <4>4 DEF Registered
    <3> QED BY <2>1, <2>2, <3>1 DEF StartedSources
  <2> QED BY <2>1, <2>2, <2>3 DEF UnsetInv
<1>4. CASE StartAbort
  <2>1. pc = "unsetting" /\ run' = run /\ main_context # NULL
    BY <1>t, <1>4 DEF StartAbort, histVars, RunHasContext, InStart
  <2>2. ~DeadlocksInUnset
    <3>1. CASE ~Own
      BY <2>1, <3>1 DEF UnsetInv, DeadlocksInUnset, Held
    <3>2. CASE Own
      <4>1. SyncStop = Devs
        BY <2>1, <3>2 DEF UnsetInv
      <4> QED BY <2>1, <3>2, <4>1 DEF UnsetInv, StartedSources, DeadlocksInUnset
    <3> QED BY <3>1, <3>2
  <2>3. pc' = "app" /\ main_context' = NULL
    BY <1>4, <2>2 DEF StartAbort
  <2>4. ~Adding
    BY <2>1 DEF Adding, DevAddRunning, StartDev, DispatchAdd, Dispatchable, Iterates, AtApp
  <2>5. Registered' \subseteq Registered /\ srcCtx' = srcCtx
    BY <2>4, Narrowing DEF Narrows
  <2> QED BY <2>1, <2>3, <2>5, UnsetKept DEF InStart
<1>5. ASSUME NEW d \in Devs, NEW A \in SUBSET Keys, DevAddRunning(d, A) PROVE UnsetInv'
  <2>1. /\ UNCHANGED <<main_context, run, pc>> /\ pc = "app" /\ main_context # NULL
        /\ sr_session_source_add_internal(A)
    BY <1>t, <1>5 DEF DevAddRunning, sr_dev_acquisition_start, loopVars, histVars, AtApp, RunHasContext
  <2>2. \A x \in Registered' : \/ x \in Registered /\ srcCtx'[x] = srcCtx[x]
                               \/ srcCtx'[x] = main_context /\ main_context # NULL
    BY <1>t, <2>1, AddedInRun DEF Registered
  <2> QED BY <2>1, <2>2, UnsetKept DEF InStart
<1>6. ASSUME NEW k \in Keys, NEW k2 \in Keys, DispatchAdd(k, k2) PROVE UnsetInv'
  <2>1. /\ UNCHANGED <<main_context, run, pc>> /\ pc = "app" /\ main_context # NULL
        /\ sr_session_source_add_internal({k2})
    BY <1>6 DEF DispatchAdd, Dispatchable, Iterates, loopVars, histVars
  <2>2. \A x \in Registered' : \/ x \in Registered /\ srcCtx'[x] = srcCtx[x]
                               \/ srcCtx'[x] = main_context /\ main_context # NULL
    BY <1>t, <2>1, AddedInRun DEF Registered
  <2> QED BY <2>1, <2>2, UnsetKept DEF InStart
<1>7. ASSUME ~Adding, ~StartBegin, ~UnwindStop, ~StartAbort PROVE UnsetInv'
  <2>1. Registered' \subseteq Registered /\ srcCtx' = srcCtx
    BY <1>7, Narrowing DEF Narrows
  <2>2. ASSUME pc' \in {"app", "crash"}, main_context' \in {main_context, NULL}, run' = run
        PROVE  UnsetInv'
    BY <2>1, <2>2, UnsetKept DEF InStart
  <2>3. ASSUME UNCHANGED <<pc, acq, idx, devs, main_context, run, src>> PROVE UnsetInv'
    BY <2>1, <2>3, UnsetKept
  <2>4. ASSUME NEW t \in Stoppers, StopInvokeDirect(t) PROVE UnsetInv'
    <3>1. ~Own /\ UNCHANGED <<pc, main_context, run>>
      BY <2>4 DEF StopInvokeDirect, Unowned, Own, loopVars, histVars
    <3> QED BY <2>1, <3>1, UnsetKept
  <2>5. ASSUME NEW t \in Stoppers, StopInvokeQueued(t) PROVE UnsetInv'
    <3>1. UNCHANGED <<pc, acq, idx, devs, main_context, run>>
      BY <2>5 DEF StopInvokeQueued, loopVars, histVars
    <3>2. \A k \in Registered' : src'[k] = src[k]
      BY <1>t, <2>5 DEF StopInvokeQueued, g_main_context_unref, regVars, Registered
    <3> QED BY <2>1, <3>1, <3>2, UnsetKept
  <2>6. CASE UNCHANGED vars
    BY <2>3, <2>6 DEF vars
  <2>7. CASE Application
    <3>1. pc' = "app" /\ main_context' = main_context /\ run' = run
      BY <1>7, <2>7 DEF Application, Adding, DevAdd, DevRemove, DevRemoveAll, Destroy, RunEnter,
                        StopHere, StopHereQueued, AtApp, loopVars, histVars
    <3> QED BY <2>2, <3>1
  <2>8. CASE StartDone
    BY <2>2, <2>8 DEF StartDone, loopVars, histVars
  <2>9. CASE Dispatch
    <3>1. ASSUME NEW c \in Ctx, delayed_stop_check(c) PROVE UnsetInv'
      BY <2>2, <3>1 DEF delayed_stop_check, Iterates, ContextAfterCheck
    <3>2. CASE ~ \E c \in Ctx : delayed_stop_check(c)
      <4>1. pc' \in {"app", "crash"} /\ main_context' = main_context /\ run' = run
        BY <1>7, <2>9, <3>2 DEF Dispatch, Adding, StopDispatch, DispatchFinish, DispatchDrop,
             DispatchOrphan, FinalizeSource, RunExit, Dispatchable, Iterates, AtApp, loopVars,
             histVars
      <4> QED BY <2>2, <4>1
    <3> QED BY <3>1, <3>2
  <2>10. ASSUME NEW t \in Stoppers, StopRef(t) PROVE UnsetInv'
    BY <2>3, <2>10 DEF StopRef, regVars, loopVars
  <2> QED
    BY <1>7, <2>4, <2>5, <2>6, <2>7, <2>8, <2>9, <2>10 DEF Next, StartSteps, OtherThreads, Adding
<1> QED BY <1>1, <1>2, <1>3, <1>4, <1>5, <1>6, <1>7 DEF Adding

\* sr_session_start() never waits for itself: on a default context, if no start fails, or
\* if the drivers of all devices remove their sources in dev_acquisition_stop(), however
\* many devices, sources and stopping threads there are.
THEOREM StartsReturn ==
  ASSUME ~Own \/ ~StartMayFail \/ SyncStop = Devs
  PROVE  Spec => [](pc # "deadlock")
<1>1. UnsetInv => pc # "deadlock"
  BY DEF UnsetInv
<1> QED BY <1>1, TInvAlways, UnsetInit, UnsetNext, PTL DEF Spec
=============================================================================
