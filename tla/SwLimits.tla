------------------------------- MODULE SwLimits ------------------------------
(***************************************************************************)
(* Software limits of an acquisition (src/src/sw_limits.c), as a driver uses *)
(* them: configuration, accounting, and the two ways to ask whether a limit *)
(* is reached.  Counters and times are unsigned integers of a given width.  *)
(* A driver reads some samples and frames, in full or as far as get_remain() *)
(* admits, accounts for them and stops when check() says so.  A driver that  *)
(* asks for the remainder may get bytes that hold several samples each.      *)
(*                                                                         *)
(* A definition named Mut_... is the next definition with a mistake in it;  *)
(* the specification does not use it.                                      *)
(***************************************************************************)
EXTENDS Naturals

CONSTANTS
  Modulus,    \* 2^64 in the code
  Msec,       \* microseconds in a millisecond: 1000 in the code
  Limits,     \* limits the user may set, 0 for none
  Points,     \* how many samples a byte may hold: 1, 2, 4 or 8 in greatfet
  MaxRead,    \* bound: samples or frames per call of the work function
  MaxGot,     \* bound: samples or frames in an acquisition
  MaxTime     \* bound: microseconds

ASSUME SwLimitsAssumption ==
  /\ Msec \in Nat \ {0} /\ Modulus \in Nat /\ Modulus > Msec /\ Limits \subseteq 0 .. Modulus - 1
  /\ MaxRead \in Nat \ {0} /\ MaxTime \in Nat /\ MaxGot \in Nat
  /\ MaxTime < Modulus /\ MaxRead < Modulus /\ Points \subseteq Nat \ {0}

Word == 0 .. Modulus - 1
Add(x, y) == (x + y) % Modulus

VARIABLES
  eager,         \* the driver asks for the remainder before it takes samples
  points_per_byte,  \* samples in a byte, which such a driver takes as a whole
  limit_samples, limit_frames,
  limit_msec,    \* in microseconds, despite its name
  samples_read, frames_read, start_time,
  now,           \* g_get_monotonic_time()
  set_msec,      \* what the user has set, in milliseconds
  got,           \* samples and frames the acquisition has really delivered
  acquiring      \* an acquisition is running

driver == <<eager, points_per_byte>>
limits == <<limit_samples, limit_frames, limit_msec, set_msec>>
limitsVars == <<driver, limits, samples_read, frames_read, start_time, now, got, acquiring>>

TypeOK ==
  /\ limit_samples \in Word /\ limit_frames \in Word /\ limit_msec \in Word
  /\ samples_read \in Word /\ frames_read \in Word /\ start_time \in Word
  /\ got \in [s : Nat, f : Nat] /\ now \in Word /\ set_msec \in Word /\ acquiring \in BOOLEAN
  /\ eager \in BOOLEAN /\ points_per_byte \in Points \cup {1}

\* sr_sw_limits_init().  The clock does not start at zero.
LimitsInit ==
  /\ limit_samples = 0 /\ limit_frames = 0 /\ limit_msec = 0 /\ set_msec = 0
  /\ samples_read = 0 /\ frames_read = 0 /\ start_time = 0
  /\ now = 1 /\ got = [s |-> 0, f |-> 0] /\ acquiring = FALSE
  /\ eager \in BOOLEAN /\ points_per_byte \in (IF eager THEN Points ELSE {1})

-----------------------------------------------------------------------------
(* Questions.                                                              *)

Reached(read, limit) == limit # 0 /\ read >= limit
CountReached == Reached(samples_read, limit_samples) \/ Reached(frames_read, limit_frames)

TimeReached ==
  /\ limit_msec # 0 /\ start_time # 0
  /\ now > start_time /\ now - start_time > limit_msec

sr_sw_limits_check == CountReached \/ TimeReached

\* sr_sw_limits_get_remain(): what is left of a limit, 0 if there is none.
Remain(read, limit) == IF limit # 0 /\ read < limit THEN limit - read ELSE 0

RemainMsecs ==
  IF limit_msec # 0 /\ start_time # 0 /\ now >= start_time /\ now - start_time < limit_msec
  THEN (limit_msec - (now - start_time)) \div Msec
  ELSE 0

TimeExceeded ==
  /\ limit_msec # 0 /\ start_time # 0 /\ now >= start_time
  /\ now - start_time >= limit_msec

exceeded == CountReached \/ TimeExceeded

-----------------------------------------------------------------------------
(* Operations.                                                             *)

\* sr_sw_limits_config_set()
ConfigSamples(v) ==
  /\ limit_samples' = v
  /\ UNCHANGED <<limit_frames, limit_msec, set_msec, samples_read, frames_read,
                 start_time, now, got, acquiring, driver>>

ConfigFrames(v) ==
  /\ limit_frames' = v
  /\ UNCHANGED <<limit_samples, limit_msec, set_msec, samples_read, frames_read,
                 start_time, now, got, acquiring, driver>>

ConfigMsec(v) ==
  /\ limit_msec' = (v * Msec) % Modulus
  /\ set_msec' = v
  /\ UNCHANGED <<limit_samples, limit_frames, samples_read, frames_read, start_time,
                 now, got, acquiring, driver>>

\* sr_sw_limits_acquisition_start()
Mut_KeepCount == samples_read
FirstCount == 0

AcquisitionStart ==
  /\ ~acquiring
  /\ samples_read' = FirstCount /\ frames_read' = FirstCount /\ start_time' = now
  /\ got' = [s |-> 0, f |-> 0] /\ acquiring' = TRUE
  /\ UNCHANGED <<limits, now, driver>>

\* How many samples a driver takes of n bytes (or, with one sample in each, of n
\* samples): all of them, or, if it asks first, those of the bytes that hold what is
\* left of the limit, and nothing when that was reached before.
Mut_TakeAll(n) == n * points_per_byte
Take(n) ==
  LET remain == Remain(samples_read, limit_samples)
      bytes == (remain + points_per_byte - 1) \div points_per_byte
  IN  IF ~eager THEN n
      ELSE IF Reached(samples_read, limit_samples) THEN 0
      ELSE IF remain # 0 /\ n * points_per_byte > remain THEN bytes * points_per_byte
      ELSE n * points_per_byte

\* sr_sw_limits_update_samples_read() and _frames_read()
Account(n, f) ==
  /\ got.s + Take(n) <= MaxGot /\ got.f + f <= MaxGot
  /\ got' = [s |-> got.s + Take(n), f |-> got.f + f]
  /\ samples_read' = Add(samples_read, Take(n))
  /\ frames_read' = Add(frames_read, f)
  /\ UNCHANGED <<limits, start_time, now, driver>>

\* The work function of a driver that checks late: n samples and f frames are read
\* and accounted for, and the acquisition stops if a limit is reached.
Work(n, f) ==
  /\ acquiring /\ ~eager
  /\ Account(n, f)
  /\ acquiring' = ~sr_sw_limits_check'

\* A driver that asks for the remainder gets several transfers of samples before
\* it checks.
Transfer(n) ==
  /\ acquiring /\ eager
  /\ Account(n, 0)
  /\ UNCHANGED acquiring

CheckTransfers ==
  /\ acquiring /\ eager /\ sr_sw_limits_check
  /\ acquiring' = FALSE
  /\ UNCHANGED <<limits, samples_read, frames_read, start_time, now, got, driver>>

Tick ==
  /\ now < MaxTime
  /\ now' = now + 1
  /\ UNCHANGED <<limits, samples_read, frames_read, start_time, got, acquiring, driver>>

\* Applications configure a device between acquisitions.
Configure ==
  /\ ~acquiring
  /\ \E v \in Limits : ConfigSamples(v) \/ ConfigFrames(v) \/ ConfigMsec(v)

LimitsNext ==
  \/ Configure
  \/ AcquisitionStart
  \/ \E n, f \in 0 .. MaxRead : Work(n, f)
  \/ \E n \in 0 .. MaxRead : Transfer(n)
  \/ CheckTransfers
  \/ Tick

LimitsSpec == LimitsInit /\ [][LimitsNext]_limitsVars

-----------------------------------------------------------------------------
(* Properties.                                                             *)

\* How far a limit is missed: a driver that checks after the fact delivers less
\* than one more read; one that asks for the remainder first delivers less than the
\* samples of one more byte, and so none too many if a byte holds only one.
Overshoot ==
  [][acquiring =>
       /\ limit_samples # 0 =>
            got'.s <= limit_samples + (IF eager THEN points_per_byte - 1 ELSE MaxRead - 1)
       /\ limit_frames # 0 => got'.f <= limit_frames + MaxRead - 1]_limitsVars

\* An acquisition stops only when what was delivered, or the time since its start,
\* has reached a limit as the user has set it.
StopIsJustified ==
  [][acquiring /\ ~acquiring' =>
       \/ limit_samples # 0 /\ got'.s >= limit_samples
       \/ limit_frames # 0 /\ got'.f >= limit_frames
       \/ set_msec # 0 /\ now - start_time > set_msec * Msec]_limitsVars

\* check() never says that a limit is reached when get_remain() says that it is
\* not, or that there is time left.
CheckImpliesExceeded == (sr_sw_limits_check => exceeded) /\ (TimeReached => RemainMsecs = 0)
=============================================================================
