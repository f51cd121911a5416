---------------------------- MODULE Fx2lafwProofs ----------------------------
(***************************************************************************)
(* Proofs about Fx2lafw for any number of transfers, any limits and any size *)
(* of transfers, when only the session thread handles libusb's events.      *)
(***************************************************************************)
EXTENDS Fx2lafw, FiniteSetTheorems, TLAPS

\* Who has the transfers, at every point of the start and of a callback.
Accounted ==
  /\ IsFiniteSet(flying)
  /\ submitted_transfers =
       Cardinality(flying) + (IF cur = NoXfer THEN 0 ELSE 1) - (IF pc = "book" THEN 1 ELSE 0)
  /\ cur \notin flying
  /\ pc = "submit" => i >= 1 /\ \A t \in flying : t < i
  /\ pc = "book" => i \in flying
  /\ pc = "book" => \A t \in flying : t <= i

\* The event source is there as long as anything can happen.
Sourced ==
  /\ ends <= 1
  /\ pc \in {"submit", "book", "command"} => source /\ cur = NoXfer
  /\ cur # NoXfer => source
  /\ source => ends = 0
  /\ ~source => flying = {} /\ transfers = {} /\ stl = "null"

\* Where the frames are.
Framed ==
  /\ ~trigger_fired => sent_samples = 0
  /\ LimitSamples > 0 => sent_samples < LimitSamples
  /\ size \in {0, LimitSamples}
  /\ open = (IF trigger_fired THEN 1 ELSE 0)
  /\ LimitFrames > 0 => num_frames <= LimitFrames
  /\ LimitFrames > 0 /\ (cur # NoXfer \/ ~acq_aborted) => num_frames < LimitFrames

IInv == TypeOK /\ Accounted /\ Sourced /\ Framed

USE Fx2lafwAssumption DEF Xfers, NoXfer

Stages == {"null", "armed", "matched"}

\* The callback of transfer t is running, and nothing else.
InCallback(t) ==
  /\ t \in Xfers /\ pc \notin {"submit", "book", "command"} /\ pc' = pc /\ i' = i
  /\ source
  /\ cur = NoXfer => t \in flying
  /\ cur # NoXfer => t = cur

\* Whether a callback is running; a definition of its own keeps the arithmetic of
\* Accounted away from sets.
LEMMA CountOf ==
  ASSUME Accounted, TypeOK
  PROVE  /\ Cardinality(flying) \in Nat
         /\ Cardinality(flying) = 0 <=> flying = {}
BY FS_CardinalityType, FS_EmptySet DEF Accounted

\* free_transfer() keeps the account, and ends the acquisition with the last
\* transfer only.
LEMMA FreeKeeps ==
  ASSUME TypeOK, Accounted, Sourced, NEW STATE t, InCallback(t),
         NEW STATE stage, stage \in Stages,
         free_transfer(t, stage), cur' = NoXfer
  PROVE  /\ Accounted' /\ Sourced'
         /\ flying' \in SUBSET Xfers /\ transfers' \in SUBSET Xfers
         /\ submitted_transfers' \in Nat /\ ends' \in Nat /\ source' \in BOOLEAN
         /\ stl' \in Stages
<1>1. /\ Cardinality(flying) \in Nat
      /\ Cardinality(flying) = 0 <=> flying = {}
  BY CountOf
<1>2. /\ IsFiniteSet(flying')
      /\ Cardinality(flying') =
           IF t \in flying THEN Cardinality(flying) - 1 ELSE Cardinality(flying)
  BY FS_RemoveElement DEF Accounted, free_transfer
<1>3. Cardinality(flying') \in Nat /\ (Cardinality(flying') = 0 <=> flying' = {})
  BY <1>2, FS_CardinalityType, FS_EmptySet
<1>4. /\ submitted_transfers = Cardinality(flying) + (IF cur = NoXfer THEN 0 ELSE 1)
      /\ submitted_transfers' = Cardinality(flying')
  BY <1>1, <1>2 DEF Accounted, InCallback, free_transfer, AfterFree
<1>5. flying' \subseteq flying /\ NoXfer \notin flying'
  BY DEF free_transfer, TypeOK
<1>6. Accounted'
  BY <1>2, <1>4, <1>5, <1>3 DEF Accounted, InCallback
<1>7. CASE LastFreed
  <2>1. flying' = {} /\ ends' = ends + 1 /\ source' = FALSE /\ stl' = "null" /\ transfers' = {}
    BY <1>3, <1>4, <1>7 DEF LastFreed, AfterFree, free_transfer, TypeOK
  <2>2. ends' = 1
    BY <2>1 DEF Sourced, InCallback
  <2>3. Sourced'
    BY <2>1, <2>2 DEF Sourced, InCallback
  <2>4. flying' \in SUBSET Xfers /\ transfers' \in SUBSET Xfers /\ stl' \in Stages
    BY <2>1 DEF Stages
  <2>5. submitted_transfers' \in Nat /\ ends' \in Nat
    BY <1>3, <1>4, <2>2
  <2>6. source' \in BOOLEAN
    BY <2>1
  <2> QED BY <1>6, <2>3, <2>4, <2>5, <2>6
<1>8. CASE ~LastFreed
  <2>1. UNCHANGED <<ends, source>> /\ stl' = stage /\ transfers' \subseteq transfers
    BY <1>8 DEF free_transfer
  <2> QED BY <1>3, <1>4, <1>5, <1>6, <2>1 DEF Sourced, InCallback, TypeOK, Stages
<1> QED BY <1>7, <1>8

\* So does resubmit_transfer(), whether libusb takes the transfer or not.
LEMMA ResubmitKeeps ==
  ASSUME TypeOK, Accounted, Sourced, NEW STATE t, InCallback(t),
         NEW STATE stage, stage \in Stages,
         NEW STATE ok, resubmit_transfer(t, stage, ok), cur' = NoXfer
  PROVE  /\ Accounted' /\ Sourced'
         /\ flying' \in SUBSET Xfers /\ transfers' \in SUBSET Xfers
         /\ submitted_transfers' \in Nat /\ ends' \in Nat /\ source' \in BOOLEAN
         /\ stl' \in Stages
<1>1. CASE free_transfer(t, stage)
  BY <1>1, FreeKeeps
<1>2. CASE /\ flying' = flying \cup {t} /\ stl' = stage
           /\ UNCHANGED <<transfers, submitted_transfers, source, ends>>
  <2>1. /\ IsFiniteSet(flying')
        /\ Cardinality(flying') =
             IF t \in flying THEN Cardinality(flying) ELSE Cardinality(flying) + 1
    BY <1>2, FS_AddElement DEF Accounted
  <2>2. Cardinality(flying) \in Nat
    BY CountOf
  <2>3. submitted_transfers' = Cardinality(flying')
    BY <1>2, <2>1, <2>2 DEF Accounted, InCallback
  <2>4. NoXfer \notin flying' /\ flying' \in SUBSET Xfers
    BY <1>2 DEF InCallback, TypeOK
  <2>5. Accounted'
    BY <2>1, <2>2, <2>3, <2>4 DEF Accounted, InCallback
  <2> QED BY <1>2, <2>3, <2>4, <2>5 DEF Sourced, InCallback, TypeOK, Stages
<1> QED BY <1>1, <1>2 DEF resubmit_transfer

-----------------------------------------------------------------------------
(* The end of a pass through the samples of a transfer.                     *)

\* Clamp() fills the frame at most, and takes no more than there is.
LEMMA ClampFits ==
  ASSUME NEW STATE base, base \in Nat, NEW STATE have, have \in Nat,
         LimitSamples > 0 => base <= LimitSamples
  PROVE  /\ Clamp(base, have) \in 0 .. have
         /\ LimitSamples > 0 => base + Clamp(base, have) <= LimitSamples
BY DEF Clamp

\* Whatever a pass has found, the rest of the callback keeps the invariant.
LEMMA EndOfPassKeeps ==
  ASSUME IInv, cur # NoXfer, pc' = pc, i' = i,
         UNCHANGED <<acqs, empty_transfer_count>>,
         NEW STATE total, total \in Nat, LimitSamples > 0 => total <= LimitSamples,
         NEW STATE rest, rest \in Nat,
         NEW STATE fired, fired \in BOOLEAN, ~fired => total = 0,
         NEW STATE begun, begun \in Nat, open + begun = (IF fired THEN 1 ELSE 0),
         NEW STATE stage, stage \in Stages,
         NEW STATE ok, EndOfPass(total, rest, fired, stage, begun, ok)
  PROVE  IInv'
<1> DEFINE ended == frame_ended(total)
           more == ended /\ rest > 0
           again == IF more /\ stage = "null" THEN 1 ELSE 0
           left_at == ResetStage(more, stage)
<1>1. /\ num_frames' = num_frames + (IF ended THEN 1 ELSE 0)
      /\ sent_samples' = IF ended THEN 0 ELSE total
      /\ trigger_fired' = IF ended THEN again = 1 ELSE fired
      /\ size' = IF ended THEN total ELSE size
      /\ frames' = frames + begun + again
      /\ open' = open + begun + again - (IF ended THEN 1 ELSE 0)
  BY DEF EndOfPass
<1>2. \/ /\ more /\ ~final_frame /\ left' = rest /\ stl' = left_at
         /\ UNCHANGED <<flying, transfers, submitted_transfers, source, ends,
                        acq_aborted, cur>>
      \/ /\ cur' = NoXfer /\ left' = 0 /\ ended /\ final_frame
         /\ acq_aborted' = TRUE /\ free_transfer(cur, left_at)
      \/ /\ cur' = NoXfer /\ left' = 0 /\ ~(ended /\ final_frame)
         /\ acq_aborted' = acq_aborted /\ resubmit_transfer(cur, left_at, ok)
  BY DEF EndOfPass
<1>3. ended <=> LimitSamples > 0 /\ total = LimitSamples
  BY DEF frame_ended
<1>4. left_at \in Stages
  BY DEF ResetStage, Stages
<1>5. InCallback(cur)
  BY DEF InCallback, IInv, TypeOK, Sourced
<1>6. \/ ended /\ ~final_frame
      \/ ended /\ final_frame /\ acq_aborted' = TRUE /\ cur' = NoXfer
      \/ ~ended /\ acq_aborted' = acq_aborted /\ cur' = NoXfer
  BY <1>2
<1>7. /\ sent_samples' \in Nat /\ num_frames' \in Nat /\ size' \in Nat
      /\ frames' \in Nat /\ open' \in Int /\ trigger_fired' \in BOOLEAN
  <2>1. again \in {0, 1} /\ (again = 1) \in BOOLEAN
    OBVIOUS
  <2>2. trigger_fired' \in BOOLEAN
    BY <1>1, Zenon
  <2> HIDE DEF ended, again
  <2> QED BY <1>1, <2>1, <2>2 DEF IInv, TypeOK
<1>8. Framed'
  <2>1. open' = (IF trigger_fired' THEN 1 ELSE 0)
    <3>1. CASE ended
      <4>1. fired
        BY <1>3, <3>1
      <4>2. open + begun = 1
        BY <4>1
      <4>3. again \in {0, 1} /\ (trigger_fired' <=> again = 1) /\ open' = open + begun + again - 1
        BY <1>1, <3>1
      <4> HIDE DEF again
      <4> QED BY <4>2, <4>3 DEF IInv, TypeOK
    <3>2. CASE ~ended
      <4>1. again = 0
        BY <3>2
      <4> QED BY <1>1, <3>2, <4>1 DEF IInv, TypeOK
    <3> QED BY <3>1, <3>2
  <2>2. LimitFrames > 0 => num_frames < LimitFrames
    BY DEF IInv, Framed
  <2>3. ended /\ ~final_frame /\ LimitFrames > 0 => num_frames + 1 < LimitFrames
    BY DEF final_frame, IInv, TypeOK
  <2>4. LimitFrames > 0 => num_frames' <= LimitFrames
    <3> HIDE DEF ended
    <3> QED BY <1>1, <2>2 DEF IInv, TypeOK
  <2>5. LimitFrames > 0 /\ (cur' # NoXfer \/ ~acq_aborted') => num_frames' < LimitFrames
    <3> HIDE DEF ended
    <3> QED BY <1>1, <1>6, <2>2, <2>3 DEF IInv, TypeOK
  <2>6. /\ ~trigger_fired' => sent_samples' = 0
        /\ LimitSamples > 0 => sent_samples' < LimitSamples
        /\ size' \in {0, LimitSamples}
    <3> HIDE DEF ended
    <3> QED BY <1>1, <1>3 DEF IInv, Framed
  <2> QED BY <2>1, <2>4, <2>5, <2>6 DEF Framed
<1> HIDE DEF left_at, more, again, ended
<1>9. /\ Accounted' /\ Sourced'
      /\ flying' \in SUBSET Xfers /\ transfers' \in SUBSET Xfers
      /\ submitted_transfers' \in Nat /\ ends' \in Nat /\ source' \in BOOLEAN
      /\ stl' \in Stages
  <2>1. CASE /\ stl' = left_at
             /\ UNCHANGED <<flying, transfers, submitted_transfers, source, ends,
                            acq_aborted, cur>>
    <3>1. Accounted'
      BY <2>1 DEF IInv, Accounted
    <3>2. Sourced'
      BY <2>1, <1>4, <1>5 DEF IInv, Sourced, InCallback
    <3> QED BY <2>1, <3>1, <3>2, <1>4 DEF IInv, TypeOK
  <2>2. CASE cur' = NoXfer /\ free_transfer(cur, left_at)
    BY <2>2, <1>4, <1>5, FreeKeeps DEF IInv
  <2>3. CASE cur' = NoXfer /\ resubmit_transfer(cur, left_at, ok)
    BY <2>3, <1>4, <1>5, ResubmitKeeps DEF IInv
  <2> QED BY <1>2, <2>1, <2>2, <2>3
<1>10. /\ acq_aborted' \in BOOLEAN /\ left' \in Nat /\ cur' \in Xfers \cup {NoXfer}
  <2>1. acq_aborted' \in BOOLEAN
    BY <1>2, Zenon DEF IInv, TypeOK
  <2> QED BY <1>2, <2>1 DEF IInv, TypeOK
<1>11. TypeOK'
  BY <1>7, <1>9, <1>10 DEF IInv, TypeOK, Stages
<1> QED BY <1>8, <1>9, <1>11 DEF IInv

-----------------------------------------------------------------------------
(* The invariant.                                                          *)

\* A device that has never acquired satisfies the invariant.
LEMMA InitInv == Init => IInv
<1> SUFFICES ASSUME Init PROVE IInv
  OBVIOUS
<1>1. acq_aborted \in BOOLEAN /\ trigger_fired \in BOOLEAN /\ source \in BOOLEAN
  BY Zenon DEF Init
<1>2. TypeOK
  BY <1>1 DEF Init, TypeOK
<1>3. Sourced
  BY DEF Init, Sourced
<1>4. Framed
  BY DEF Init, Framed
<1>5. Accounted
  BY FS_EmptySet DEF Init, Accounted
<1> QED BY <1>2, <1>3, <1>4, <1>5 DEF IInv

\* A transfer is handled while the session thread is not starting anything.
LEMMA HandlingIsCallback ==
  ASSUME IInv, ~HotplugPump, NEW STATE t, Handling(t), UNCHANGED startVars
  PROVE  InCallback(t) /\ cur = NoXfer /\ stl \in Stages
BY DEF Handling, InCallback, IInv, TypeOK, Sourced, startVars, Stages

\* The steps of the start of an acquisition.
LEMMA StartKeeps ==
  ASSUME IInv, ~HotplugPump, (\E trig \in Triggered : StartAcquisition(trig)) \/ Starting
  PROVE  IInv'
<1>0. Cardinality(flying) \in Nat
  BY CountOf DEF IInv
<1>1. ASSUME NEW trig \in Triggered, StartAcquisition(trig) PROVE IInv'
  <2>1. flying = {} /\ cur = NoXfer
    BY <1>1 DEF StartAcquisition, IInv, Sourced
  <2>2. Accounted'
    BY <1>1, <2>1, FS_EmptySet DEF StartAcquisition, IInv, Accounted
  <2>3. trigger_fired' = ~trig /\ trigger_fired' \in BOOLEAN
    BY <1>1 DEF StartAcquisition
  <2>4. frames' = (IF trig THEN 0 ELSE 1) /\ open' = frames'
    BY <1>1 DEF StartAcquisition
  <2>5. Framed'
    <3>1. open' = (IF trigger_fired' THEN 1 ELSE 0)
      BY <2>3, <2>4
    <3>2. sent_samples' = 0 /\ size' = 0 /\ num_frames' = 0
      BY <1>1 DEF StartAcquisition
    <3> QED BY <3>1, <3>2 DEF Framed
  <2>6. stl' \in {"null", "armed"}
    BY <1>1 DEF StartAcquisition, IInv, Sourced
  <2>7. Sourced'
    BY <1>1, <2>1, <2>6 DEF StartAcquisition, Sourced
  <2>8. /\ source' \in BOOLEAN /\ acq_aborted' \in BOOLEAN
        /\ frames' \in Nat /\ open' \in Int
    <3>1. source' \in BOOLEAN /\ acq_aborted' \in BOOLEAN
      BY <1>1, Zenon DEF StartAcquisition
    <3> QED BY <2>4, <3>1
  <2>9. TypeOK'
    BY <1>1, <2>3, <2>6, <2>8 DEF StartAcquisition, IInv, TypeOK
  <2> QED BY <2>2, <2>5, <2>7, <2>9 DEF IInv
<1>2. CASE Submit
  <2>1. i \notin flying /\ i \in Xfers /\ cur = NoXfer /\ source
    BY <1>2 DEF Submit, IInv, Accounted, Sourced, TypeOK
  <2>2. IsFiniteSet(flying') /\ Cardinality(flying') = Cardinality(flying) + 1
    BY <1>2, <2>1, FS_AddElement DEF Submit, IInv, Accounted
  <2>3. Accounted'
    BY <1>0, <1>2, <2>1, <2>2 DEF Submit, IInv, Accounted, TypeOK
  <2>4. Sourced' /\ Framed' /\ TypeOK'
    BY <1>2, <2>1 DEF Submit, IInv, Sourced, Framed, TypeOK, feedVars
  <2> QED BY <2>3, <2>4 DEF IInv
<1>3. CASE Book
  <2>1. Accounted'
    BY <1>0, <1>3 DEF Book, IInv, Accounted, Sourced, TypeOK
  <2>2. Sourced' /\ Framed'
    BY <1>3 DEF Book, IInv, Sourced, Framed, feedVars
  <2>3. i \in Xfers
    BY <1>3 DEF Book, IInv, Accounted, TypeOK
  <2>4. TypeOK'
    BY <1>3, <2>3 DEF Book, IInv, TypeOK, feedVars
  <2> QED BY <2>1, <2>2, <2>4 DEF IInv
<1>4. CASE SubmitError \/ SubmitDone
  <2>1. /\ pc = "submit" /\ pc' = "command" /\ acq_aborted' \in {TRUE, acq_aborted}
        /\ UNCHANGED <<xferVars, feedVars, i, acqs, empty_transfer_count, cur, left>>
    BY <1>4 DEF SubmitError, SubmitDone
  <2>2. acq_aborted' \in BOOLEAN
    BY <2>1, Zenon DEF IInv, TypeOK
  <2>3. Accounted' /\ Sourced' /\ TypeOK'
    BY <2>1, <2>2 DEF IInv, Accounted, Sourced, TypeOK, xferVars, feedVars
  <2>4. Framed'
    BY <2>1 DEF IInv, Framed, xferVars, feedVars
  <2> QED BY <2>3, <2>4 DEF IInv
<1>5. ASSUME NEW ok \in BOOLEAN, Command(ok) PROVE IInv'
  <2>1. /\ pc = "command" /\ pc' = "idle" /\ (acq_aborted => acq_aborted')
        /\ acq_aborted' \in BOOLEAN
        /\ UNCHANGED <<xferVars, feedVars, i, acqs, empty_transfer_count, cur, left>>
    BY <1>5 DEF Command, IInv, TypeOK
  <2>2. Accounted' /\ Sourced' /\ TypeOK'
    BY <2>1 DEF IInv, Accounted, Sourced, TypeOK, xferVars, feedVars
  <2>3. Framed'
    BY <2>1 DEF IInv, Framed, xferVars, feedVars
  <2> QED BY <2>2, <2>3 DEF IInv
<1> QED BY <1>1, <1>2, <1>3, <1>4, <1>5 DEF Starting

\* The completion of a transfer, up to check_trigger.
LEMMA ReceiveKeeps ==
  ASSUME IInv, ~HotplugPump, NEW t \in Xfers, Receive(t)
  PROVE  IInv'
<1>1. UNCHANGED <<feedVars, startVars>> /\ Handling(t)
  BY DEF Receive, ReceiveAborted, ReceiveNoDevice, ReceiveEmpty, ReceiveData
<1>2. InCallback(t) /\ cur = NoXfer /\ stl \in Stages
  BY <1>1, HandlingIsCallback
<1>3. CASE ReceiveAborted(t) \/ ReceiveNoDevice(t)
  <2>1. free_transfer(t, stl) /\ cur' = NoXfer /\ left' = left
        /\ acq_aborted' = TRUE /\ empty_transfer_count' = empty_transfer_count
    BY <1>3, <1>2 DEF ReceiveAborted, ReceiveNoDevice, IInv, TypeOK
  <2>2. /\ Accounted' /\ Sourced'
        /\ flying' \in SUBSET Xfers /\ transfers' \in SUBSET Xfers
        /\ submitted_transfers' \in Nat /\ ends' \in Nat /\ source' \in BOOLEAN
        /\ stl' \in Stages
    BY <1>2, <2>1, FreeKeeps DEF IInv
  <2>3. Framed'
    BY <1>1, <2>1 DEF IInv, Framed, feedVars
  <2>4. TypeOK'
    BY <1>1, <2>1, <2>2 DEF IInv, TypeOK, feedVars, startVars, Stages
  <2> QED BY <2>2, <2>3, <2>4 DEF IInv
<1>4. ASSUME NEW ok \in BOOLEAN, ReceiveEmpty(t, ok) PROVE IInv'
  <2>1. /\ cur' = NoXfer /\ left' = left /\ empty_transfer_count' \in Nat
        /\ acq_aborted = FALSE /\ acq_aborted' \in BOOLEAN
    <3>1. acq_aborted = FALSE /\ acq_aborted' \in BOOLEAN
      BY <1>4, Zenon DEF ReceiveEmpty, IInv, TypeOK
    <3> QED BY <1>2, <1>4, <3>1 DEF ReceiveEmpty, EmptyCount, IInv, TypeOK
  <2>2. free_transfer(t, stl) \/ resubmit_transfer(t, stl, ok)
    BY <1>4 DEF ReceiveEmpty
  <2>3. /\ Accounted' /\ Sourced'
        /\ flying' \in SUBSET Xfers /\ transfers' \in SUBSET Xfers
        /\ submitted_transfers' \in Nat /\ ends' \in Nat /\ source' \in BOOLEAN
        /\ stl' \in Stages
    BY <1>2, <2>1, <2>2, FreeKeeps, ResubmitKeeps DEF IInv
  <2>4. Framed'
    BY <1>1, <2>1 DEF IInv, Framed, feedVars
  <2>5. TypeOK'
    BY <1>1, <2>1, <2>3 DEF IInv, TypeOK, feedVars, startVars, Stages
  <2> QED BY <2>3, <2>4, <2>5 DEF IInv
<1>5. ASSUME NEW n \in 1 .. MaxXfer, ReceiveData(t, n) PROVE IInv'
  <2>1. /\ flying' = flying \ {t} /\ cur' = t /\ left' = n /\ empty_transfer_count' = 0
        /\ acq_aborted = FALSE /\ acq_aborted' = acq_aborted
        /\ UNCHANGED <<transfers, submitted_transfers, source, stl, ends>>
    BY <1>5 DEF ReceiveData, IInv, TypeOK
  <2>2. IsFiniteSet(flying') /\ Cardinality(flying') = Cardinality(flying) - 1
    BY <1>2, <2>1, FS_RemoveElement DEF IInv, Accounted, InCallback
  <2>3. Cardinality(flying) \in Nat
    BY CountOf DEF IInv
  <2>4. Accounted'
    BY <1>2, <2>1, <2>2, <2>3 DEF IInv, Accounted, InCallback
  <2>5. Sourced'
    BY <1>2, <2>1 DEF IInv, Sourced, InCallback
  <2>6. Framed'
    BY <1>1, <2>1 DEF IInv, Framed, feedVars
  <2>7. TypeOK'
    BY <1>1, <2>1 DEF IInv, TypeOK, feedVars, startVars
  <2> QED BY <2>4, <2>5, <2>6, <2>7 DEF IInv
<1> QED BY <1>3, <1>4, <1>5 DEF Receive

\* One pass through the samples of a transfer.
LEMMA ProcessingKeeps ==
  ASSUME IInv, ~HotplugPump, Processing
  PROVE  IInv'
<1>1. sent_samples \in Nat /\ left \in Nat /\ stl \in Stages /\ open \in Int
  BY DEF IInv, TypeOK, Stages
<1>2. /\ ~trigger_fired => sent_samples = 0
      /\ LimitSamples > 0 => sent_samples < LimitSamples
      /\ open = (IF trigger_fired THEN 1 ELSE 0)
      BY DEF IInv, Framed, Sourced
<1>3. ASSUME NEW ok \in BOOLEAN, SendData(ok) PROVE IInv'
  <2> DEFINE n == IF frame_ended(sent_samples) THEN 0 ELSE Clamp(sent_samples, left)
  <2>1. /\ cur # NoXfer /\ trigger_fired /\ UNCHANGED <<startVars, empty_transfer_count>>
        /\ EndOfPass(sent_samples + n, left - n, TRUE, stl, 0, ok)
    BY <1>3 DEF SendData
  <2>2. n \in 0 .. left /\ (LimitSamples > 0 => sent_samples + n <= LimitSamples)
    BY <1>1, <1>2, ClampFits DEF frame_ended
  <2> HIDE DEF n
  <2>3. sent_samples + n \in Nat /\ left - n \in Nat
    BY <1>1, <2>2
  <2>4. open + 0 = 1
    BY <1>1, <1>2, <2>1
  <2> QED BY <1>1, <1>2, <2>1, <2>2, <2>3, <2>4, EndOfPassKeeps DEF startVars
<1>4. ASSUME NEW ok \in BOOLEAN, NoTrigger(ok) PROVE IInv'
  <2>1. /\ cur # NoXfer /\ ~trigger_fired /\ UNCHANGED <<startVars, empty_transfer_count>>
        /\ stl # "null" /\ EndOfPass(sent_samples, left, FALSE, "armed", 0, ok)
    BY <1>4 DEF NoTrigger
  <2>2. open + 0 = 0 /\ sent_samples = 0 /\ "armed" \in Stages
    BY <1>1, <1>2, <2>1 DEF Stages
  <2>3. LimitSamples > 0 => sent_samples <= LimitSamples
    BY <1>2, <2>2
  <2>4. open + 0 = (IF FALSE THEN 1 ELSE 0)
    BY <2>2
  <2>5. pc' = pc /\ i' = i /\ UNCHANGED <<acqs, empty_transfer_count>>
    BY <2>1 DEF startVars
  <2>6. 0 \in Nat /\ FALSE \in BOOLEAN
    OBVIOUS
  <2> QED BY <1>1, <2>1, <2>2, <2>3, <2>4, <2>5, <2>6, EndOfPassKeeps
<1>5. ASSUME NEW off \in 0 .. MaxXfer, NEW pre \in 0 .. Pre, NEW ok \in BOOLEAN,
             Trigger(off, pre, ok)
      PROVE  IInv'
  <2> DEFINE n == Clamp(sent_samples + pre, left - off)
  <2>1. /\ cur # NoXfer /\ ~trigger_fired /\ UNCHANGED <<startVars, empty_transfer_count>>
        /\ stl # "null" /\ off < left
        /\ EndOfPass(sent_samples + pre + n, left - off - n, TRUE, "matched", 1, ok)
    BY <1>5 DEF Trigger
  <2>2. /\ sent_samples + pre \in Nat /\ left - off \in Nat
        /\ LimitSamples > 0 => sent_samples + pre <= LimitSamples
    BY <1>1, <1>2, <2>1
  <2>3. /\ n \in 0 .. (left - off)
        /\ LimitSamples > 0 => sent_samples + pre + n <= LimitSamples
    BY <2>2, ClampFits
  <2> HIDE DEF n
  <2>4. sent_samples + pre + n \in Nat /\ left - off - n \in Nat
    BY <2>2, <2>3
  <2>5. open + 1 = 1 /\ "matched" \in Stages
    BY <1>1, <1>2, <2>1 DEF Stages
  <2> QED BY <1>1, <1>2, <2>1, <2>3, <2>4, <2>5, EndOfPassKeeps DEF startVars
<1>6. CASE NullTrigger
  <2>1. Accounted' /\ Sourced'
    BY <1>6 DEF NullTrigger, IInv, Accounted, Sourced, xferVars, feedVars
  <2>2. Framed' /\ TypeOK'
    BY <1>6 DEF NullTrigger, IInv, Framed, TypeOK, xferVars, feedVars
  <2> QED BY <2>1, <2>2 DEF IInv
<1> QED BY <1>3, <1>4, <1>5, <1>6 DEF Processing

\* Every step keeps the invariant.
LEMMA NextInv ==
  ASSUME IInv, ~HotplugPump, [Next]_vars
  PROVE  IInv'
<1>1. CASE UNCHANGED vars
  <2>1. Accounted' /\ Sourced'
    BY <1>1 DEF vars, IInv, Accounted, Sourced
  <2>2. Framed' /\ TypeOK'
    BY <1>1 DEF vars, IInv, Framed, TypeOK
  <2> QED BY <2>1, <2>2 DEF IInv
<1>2. CASE (\E trig \in Triggered : StartAcquisition(trig)) \/ Starting
  BY <1>2, StartKeeps
<1>3. CASE Stop
  <2>1. acq_aborted' = TRUE /\ cur = NoXfer
        /\ UNCHANGED <<xferVars, feedVars, startVars, empty_transfer_count, cur, left>>
    BY <1>3 DEF Stop
  <2>2. Accounted' /\ Sourced'
    BY <2>1 DEF IInv, Accounted, Sourced, xferVars, startVars
  <2>3. Framed'
    BY <2>1 DEF IInv, Framed, feedVars
  <2>4. acq_aborted' \in BOOLEAN
    BY <2>1, Zenon
  <2>5. TypeOK'
    BY <2>1, <2>4 DEF IInv, TypeOK, xferVars, feedVars, startVars
  <2> QED BY <2>2, <2>3, <2>5 DEF IInv
<1>4. ASSUME NEW t \in Xfers, Receive(t) PROVE IInv'
  BY <1>4, ReceiveKeeps
<1>5. CASE Processing
  BY <1>5, ProcessingKeeps
<1> QED BY <1>1, <1>2, <1>3, <1>4, <1>5 DEF Next

\* The invariant: transfers are counted, the event source lives as long as there
\* are any, and frames are opened and closed in turn, provided that the driver's
\* callbacks run in the session thread only.
THEOREM Invariance == ASSUME ~HotplugPump PROVE Spec => []IInv
<1>1. Init => IInv
  BY InitInv
<1>2. IInv /\ [Next]_vars => IInv'
  BY NextInv
<1> QED BY <1>1, <1>2, PTL DEF Spec

\* All state of the driver keeps its type; the counter of transfers never drops
\* below zero (in the code: never wraps).
THEOREM Fx2lafwTypes == ASSUME ~HotplugPump PROVE Spec => []TypeOK
<1>1. IInv => TypeOK
  BY DEF IInv
<1> QED BY <1>1, Invariance, PTL

\* submitted_transfers counts the transfers that libusb or the callback holds,
\* for any number of transfers and any pattern of failures.
THEOREM TransfersAreCounted == ASSUME ~HotplugPump PROVE Spec => []SubmittedIsInFlight
<1>1. IInv => SubmittedIsInFlight
  <2> SUFFICES ASSUME IInv, pc # "book"
               PROVE  submitted_transfers =
                        Cardinality(flying) + (IF cur = NoXfer THEN 0 ELSE 1)
    BY DEF SubmittedIsInFlight
  <2>1. Cardinality(flying) \in Nat
    BY CountOf DEF IInv
  <2> QED BY <2>1 DEF IInv, Accounted
<1> QED BY <1>1, Invariance, PTL

\* finish_acquisition() runs once, when libusb has none of the transfers.
THEOREM AcquisitionEndsOnce == ASSUME ~HotplugPump PROVE Spec => []EndsOnce
<1>1. IInv => EndsOnce
  BY DEF IInv, Sourced, EndsOnce, TypeOK
<1> QED BY <1>1, Invariance, PTL

\* Frames hold exactly the limit of samples, are not nested and do not exceed
\* the frame limit, for every split of the samples into transfers.
THEOREM WholeFrames == ASSUME ~HotplugPump PROVE Spec => []FramesAreWhole
<1>1. IInv => FramesAreWhole
  BY DEF IInv, Framed, FramesAreWhole, TypeOK
<1> QED BY <1>1, Invariance, PTL
==============================================================================
