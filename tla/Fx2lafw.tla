------------------------------- MODULE Fx2lafw -------------------------------
(***************************************************************************)
(* An acquisition of the fx2lafw driver (src/src/hardware/fx2lafw): the USB *)
(* transfers that are kept in flight, the frames and samples sent to the    *)
(* session, and the end of the acquisition, which is reached when the last  *)
(* transfer has been freed.                                                *)
(*                                                                         *)
(* libusb completes a transfer by calling receive_transfer() from whoever   *)
(* handles events: the session thread, in receive_data(), or the hotplug    *)
(* thread of hotplug.c, which handles events of the same libusb context.    *)
(* One thread handles events at a time.  Every transfer completes in the    *)
(* end, because it has a timeout.  The contents of samples and the matching *)
(* of the trigger are those of SoftTrigger; here a check of the trigger     *)
(* finds any offset, or none.                                              *)
(*                                                                         *)
(* A definition named Mut_... is the next definition with a mistake in it;  *)
(* the specification does not use it.                                      *)
(***************************************************************************)
EXTENDS Integers, FiniteSets

CONSTANTS
  N,            \* number of transfers
  LimitSamples, \* devc->limit_samples, 0 for none
  LimitFrames,  \* devc->limit_frames, 0 for none
  Triggered,    \* has the session a trigger?  A set, as it may change between acquisitions
  Pre,          \* pre-trigger samples
  MAX_EMPTY_TRANSFERS,
  SubmitFails,  \* transfers that libusb_submit_transfer() may refuse
  CommandFails, \* can the start command fail?
  HotplugPump,  \* does the hotplug thread handle events, too?
  MaxXfer,      \* bound: samples in a transfer
  MaxSent,      \* bound: samples sent without a limit
  MaxAcqs       \* bound: acquisitions

ASSUME Fx2lafwAssumption ==
  /\ N \in Nat \ {0} /\ MaxXfer \in Nat \ {0} /\ MaxAcqs \in Nat /\ MaxSent \in Nat
  /\ LimitSamples \in Nat /\ LimitFrames \in Nat /\ MAX_EMPTY_TRANSFERS \in Nat
  /\ Pre \in Nat /\ Pre <= LimitSamples
  /\ SubmitFails \subseteq 1 .. N
  /\ Triggered \subseteq BOOLEAN /\ {CommandFails, HotplugPump} \subseteq BOOLEAN

Xfers == 1 .. N

VARIABLES
  flying,        \* transfers that libusb has
  transfers,     \* the i with devc->transfers[i] set
  submitted_transfers,
  acq_aborted, empty_transfer_count, sent_samples, num_frames, trigger_fired,
  stl,           \* "null", or its cur_stage: "armed" if it belongs to the search for
                 \* the next match, "matched" if the last match has left it there
  source,        \* the USB event source is installed
  pc, i,         \* session thread: inside the start of the acquisition
  cur, left,     \* the transfer in receive_transfer() and its unprocessed samples
  frames,        \* SR_DF_FRAME_BEGIN sent
  open,          \* SR_DF_FRAME_BEGIN minus SR_DF_FRAME_END
  size,          \* samples in the last frame that has ended
  ends,          \* SR_DF_END sent
  acqs           \* acquisitions started

xferVars == <<flying, transfers, submitted_transfers, source, stl, ends>>
feedVars == <<sent_samples, num_frames, trigger_fired, frames, open, size>>
startVars == <<pc, i, acqs>>
vars == <<flying, transfers, submitted_transfers, source, stl, ends, sent_samples,
          num_frames, trigger_fired, frames, open, size, pc, i, acqs, acq_aborted,
          empty_transfer_count, cur, left>>

NoXfer == 0

TypeOK ==
  /\ flying \in SUBSET Xfers /\ transfers \in SUBSET Xfers
  /\ submitted_transfers \in Nat
  /\ acq_aborted \in BOOLEAN /\ trigger_fired \in BOOLEAN /\ source \in BOOLEAN
  /\ empty_transfer_count \in Nat /\ sent_samples \in Nat /\ num_frames \in Nat
  /\ stl \in {"null", "armed", "matched"}
  /\ pc \in {"idle", "submit", "book", "command", "crash"} /\ i \in Nat
  /\ cur \in Xfers \cup {NoXfer} /\ left \in Nat
  /\ frames \in Nat /\ open \in Int /\ size \in Nat /\ ends \in Nat /\ acqs \in Nat

Init ==
  /\ flying = {} /\ transfers = {} /\ submitted_transfers = 0
  /\ acq_aborted = FALSE /\ empty_transfer_count = 0
  /\ sent_samples = 0 /\ num_frames = 0 /\ trigger_fired = FALSE
  /\ stl = "null" /\ source = FALSE /\ pc = "idle" /\ i = 0
  /\ cur = NoXfer /\ left = 0 /\ frames = 0 /\ open = 0 /\ size = 0
  /\ ends = 0 /\ acqs = 0

-----------------------------------------------------------------------------
(* Starting.                                                               *)

\* fx2lafw_start_acquisition() and start_transfers() before the loop.  Without
\* a trigger the first frame begins here.
StartAcquisition(trig) ==
  /\ pc = "idle" /\ cur = NoXfer /\ ~source /\ acqs < MaxAcqs
  /\ acqs' = acqs + 1 /\ source' = TRUE
  /\ num_frames' = 0 /\ sent_samples' = 0 /\ empty_transfer_count' = 0
  /\ acq_aborted' = FALSE /\ submitted_transfers' = 0
  /\ stl' = IF trig THEN "armed" ELSE stl
  /\ trigger_fired' = ~trig
  /\ frames' = (IF trig THEN 0 ELSE 1) /\ open' = frames' /\ ends' = 0
  /\ size' = 0
  /\ pc' = "submit" /\ i' = 1
  /\ UNCHANGED <<flying, transfers, cur, left>>

\* libusb_submit_transfer() of the i-th transfer.
Submit ==
  /\ pc = "submit" /\ i <= N
  /\ flying' = flying \cup {i}
  /\ pc' = "book"
  /\ UNCHANGED <<transfers, submitted_transfers, source, stl, ends, feedVars, i,
                 acqs, acq_aborted, empty_transfer_count, cur, left>>

\* It has succeeded and is accounted for.
Book ==
  /\ pc = "book"
  /\ transfers' = transfers \cup {i}
  /\ submitted_transfers' = submitted_transfers + 1
  /\ pc' = "submit" /\ i' = i + 1
  /\ UNCHANGED <<flying, source, stl, ends, feedVars, acqs, acq_aborted,
                 empty_transfer_count, cur, left>>

\* It has failed: fx2lafw_abort_acquisition(), SR_ERR.  The caller ignores it.
SubmitError ==
  /\ pc = "submit" /\ i \in SubmitFails
  /\ acq_aborted' = TRUE
  /\ pc' = "command"
  /\ UNCHANGED <<xferVars, feedVars, i, acqs, empty_transfer_count, cur, left>>

\* All transfers are submitted; the header is sent.
SubmitDone ==
  /\ pc = "submit" /\ i > N
  /\ pc' = "command"
  /\ UNCHANGED <<xferVars, feedVars, i, acqs, acq_aborted, empty_transfer_count,
                 cur, left>>

\* command_start_acquisition().
Command(ok) ==
  /\ pc = "command" /\ (ok \/ CommandFails)
  /\ pc' = "idle"
  /\ acq_aborted' = (acq_aborted \/ ~ok)
  /\ UNCHANGED <<xferVars, feedVars, i, acqs, empty_transfer_count, cur, left>>

\* dev_acquisition_stop(), that is fx2lafw_abort_acquisition().
Stop ==
  /\ pc = "idle" /\ source /\ (cur = NoXfer \/ HotplugPump)
  /\ acq_aborted' = TRUE
  /\ UNCHANGED <<xferVars, feedVars, startVars, empty_transfer_count, cur, left>>

-----------------------------------------------------------------------------
(* Completion of transfers.                                                *)

\* free_transfer(t), where the trigger is left at `stage`; the last transfer
\* calls finish_acquisition().
AfterFree == submitted_transfers - 1

Mut_FinishEarly == AfterFree <= 1
Mut_FinishLate == submitted_transfers = 0
LastFreed == AfterFree = 0

free_transfer(t, stage) ==
  /\ flying' = flying \ {t}
  /\ submitted_transfers' = AfterFree
  /\ IF LastFreed
     THEN /\ ends' = ends + 1 /\ source' = FALSE /\ stl' = "null"
          /\ transfers' = {}
     ELSE /\ transfers' = transfers \ {t} /\ stl' = stage
          /\ UNCHANGED <<ends, source>>

\* resubmit_transfer(t): a failure frees the transfer.
Mut_LoseTransfer(t, stage, ok) ==
  /\ flying' = (IF ok \/ t \notin SubmitFails THEN flying \cup {t} ELSE flying \ {t})
  /\ stl' = stage
  /\ UNCHANGED <<transfers, submitted_transfers, source, ends>>
resubmit_transfer(t, stage, ok) ==
  \/ /\ ok /\ flying' = flying \cup {t} /\ stl' = stage
     /\ UNCHANGED <<transfers, submitted_transfers, source, ends>>
  \/ ~ok /\ t \in SubmitFails /\ free_transfer(t, stage)

\* Somebody handles libusb's events and no callback is active.
Handling(t) ==
  /\ t \in flying /\ cur = NoXfer /\ pc # "crash"
  /\ \/ source /\ pc = "idle"
     \/ HotplugPump

\* The acquisition was aborted before.
ReceiveAborted(t) ==
  /\ Handling(t) /\ acq_aborted
  /\ free_transfer(t, stl)
  /\ UNCHANGED <<feedVars, startVars, acq_aborted, empty_transfer_count, cur, left>>

\* LIBUSB_TRANSFER_NO_DEVICE
ReceiveNoDevice(t) ==
  /\ Handling(t) /\ ~acq_aborted
  /\ acq_aborted' = TRUE
  /\ free_transfer(t, stl)
  /\ UNCHANGED <<feedVars, startVars, empty_transfer_count, cur, left>>

Mut_NarrowCount == 1 + (empty_transfer_count % MAX_EMPTY_TRANSFERS)
EmptyCount == empty_transfer_count + 1

GivesUp == EmptyCount > MAX_EMPTY_TRANSFERS

\* An empty transfer, or one with an error: "The FX2 gave up", at some point.
ReceiveEmpty(t, ok) ==
  /\ Handling(t) /\ ~acq_aborted
  /\ empty_transfer_count' = EmptyCount
  /\ IF GivesUp THEN acq_aborted' = TRUE /\ free_transfer(t, stl)
                ELSE acq_aborted' = acq_aborted /\ resubmit_transfer(t, stl, ok)
  /\ UNCHANGED <<feedVars, startVars, cur, left>>

\* A transfer with n samples: the callback goes on at check_trigger.
ReceiveData(t, n) ==
  /\ Handling(t) /\ ~acq_aborted
  /\ LimitSamples = 0 => sent_samples + n <= MaxSent
  /\ flying' = flying \ {t}
  /\ empty_transfer_count' = 0
  /\ cur' = t /\ left' = n
  /\ UNCHANGED <<transfers, submitted_transfers, source, stl, ends, feedVars,
                 startVars, acq_aborted>>

\* How many of the `have` samples at hand fit into the frame that has `base`.
Mut_NoClamp(base, have) == have
Clamp(base, have) ==
  IF LimitSamples > 0 /\ base + have > LimitSamples THEN LimitSamples - base ELSE have

frame_ended(total) == LimitSamples > 0 /\ total >= LimitSamples
final_frame == LimitFrames > 0 /\ num_frames >= LimitFrames - 1

\* The callback from frame_ended on: the frame has `total` samples, `rest` are
\* unprocessed, `fired` and `stage` say where the trigger is and `begun` frames
\* have been begun in this pass.
ResetStage(more, stage) == IF more /\ stage # "null" THEN "armed" ELSE stage

EndOfPass(total, rest, fired, stage, begun, ok) ==
  LET ended == frame_ended(total)
      more == ended /\ rest > 0
      again == IF more /\ stage = "null" THEN 1 ELSE 0   \* the next frame begins
      left_at == ResetStage(more, stage)
  IN  /\ num_frames' = num_frames + (IF ended THEN 1 ELSE 0)
      /\ sent_samples' = IF ended THEN 0 ELSE total
      /\ trigger_fired' = IF ended THEN again = 1 ELSE fired
      /\ size' = IF ended THEN total ELSE size
      /\ frames' = frames + begun + again
      /\ open' = open + begun + again - (IF ended THEN 1 ELSE 0)
      /\ IF more /\ ~final_frame
         THEN /\ left' = rest                \* goto check_trigger
              /\ stl' = left_at
              /\ UNCHANGED <<flying, transfers, submitted_transfers, source, ends,
                             acq_aborted, cur>>
         ELSE /\ cur' = NoXfer /\ left' = 0
              /\ IF ended /\ final_frame
                 THEN acq_aborted' = TRUE /\ free_transfer(cur, left_at)
                 ELSE /\ acq_aborted' = acq_aborted
                      /\ resubmit_transfer(cur, left_at, ok)

\* check_trigger with the trigger fired, or none: send what fits.
SendData(ok) ==
  /\ cur # NoXfer /\ trigger_fired
  /\ LET n == IF frame_ended(sent_samples) THEN 0 ELSE Clamp(sent_samples, left)
     IN  EndOfPass(sent_samples + n, left - n, TRUE, stl, 0, ok)
  /\ UNCHANGED <<startVars, empty_transfer_count>>

\* check_trigger with the trigger pending: not found.
NoTrigger(ok) ==
  /\ cur # NoXfer /\ ~trigger_fired /\ stl # "null"
  /\ EndOfPass(sent_samples, left, FALSE, "armed", 0, ok)
  /\ UNCHANGED <<startVars, empty_transfer_count>>

\* Found at `off`, with `pre` samples of pre-trigger data sent before it.
Trigger(off, pre, ok) ==
  /\ cur # NoXfer /\ ~trigger_fired /\ stl # "null"
  /\ off < left
  /\ LET n == Clamp(sent_samples + pre, left - off)
     IN  EndOfPass(sent_samples + pre + n, left - off - n, TRUE, "matched", 1, ok)
  /\ UNCHANGED <<startVars, empty_transfer_count>>

\* soft_trigger_logic_check(NULL, ...)
NullTrigger ==
  /\ cur # NoXfer /\ ~trigger_fired /\ stl = "null" /\ pc # "crash"
  /\ pc' = "crash"
  /\ UNCHANGED <<xferVars, feedVars, i, acqs, acq_aborted, empty_transfer_count,
                 cur, left>>

Starting == Submit \/ Book \/ SubmitError \/ SubmitDone \/ \E ok \in BOOLEAN : Command(ok)

Receive(t) ==
  \/ ReceiveAborted(t)
  \/ ReceiveNoDevice(t)
  \/ \E ok \in BOOLEAN : ReceiveEmpty(t, ok)
  \/ \E n \in 1 .. MaxXfer : ReceiveData(t, n)

Processing ==
  \/ \E ok \in BOOLEAN : SendData(ok) \/ NoTrigger(ok)
  \/ \E off \in 0 .. MaxXfer, pre \in 0 .. Pre, ok \in BOOLEAN : Trigger(off, pre, ok)
  \/ NullTrigger

Next ==
  \/ \E trig \in Triggered : StartAcquisition(trig)
  \/ Starting
  \/ Stop
  \/ \E t \in Xfers : Receive(t)
  \/ Processing

Spec == Init /\ [][Next]_vars

\* The start runs to its end, a callback returns, and every transfer completes.
Fairness ==
  /\ WF_vars(Starting)
  /\ WF_vars(Processing)
  /\ \A t \in Xfers : WF_vars(Receive(t))

FairSpec == Spec /\ Fairness

-----------------------------------------------------------------------------
(* Properties.                                                             *)

\* The counter that decides when the acquisition is over is the number of
\* transfers that libusb or the callback still holds.
SubmittedIsInFlight ==
  pc # "book" =>
    submitted_transfers = Cardinality(flying) + (IF cur = NoXfer THEN 0 ELSE 1)

\* finish_acquisition() runs once per acquisition, when no transfer is left, and
\* takes the event source with it.
EndsOnce ==
  /\ ends <= 1
  /\ ends = 1 => ~source /\ flying = {} /\ transfers = {} /\ stl = "null"

\* A frame ends with exactly the limit of samples, pre-trigger samples included,
\* however the samples are spread over transfers; no frame ends beyond the frame
\* limit; frames do not nest.
FramesAreWhole ==
  /\ size \in {0, LimitSamples}
  /\ LimitFrames > 0 => num_frames <= LimitFrames
  /\ open \in {0, 1}

\* An aborted acquisition ends, and the session with it: the event source goes
\* away.  (dev_acquisition_stop() only cancels; the callbacks do the rest.)
AbortEnds == (acq_aborted /\ source) ~> ~source

\* A device that delivers nothing any more ends the acquisition, although the
\* empty transfers are submitted again.
SilentDeviceEnds ==
  (source /\ empty_transfer_count > 0) ~> (~source \/ empty_transfer_count = 0)
=============================================================================
