----------------------------- MODULE DriverProofs ----------------------------
(***************************************************************************)
(* Theorems about what drivers are built on and about the driver of session *)
(* files.                                                                  *)
(*                                                                         *)
(* SwLimits: the types, how far a limit can be overshot, that an acquisition *)
(* stops for a reason, and that the two questions agree.  Counters wrap when *)
(* no limit is set; as long as a limit leaves room for one more read below   *)
(* the largest word, they do not wrap before it.                            *)
(*                                                                         *)
(* VirtualSession: a replay sends the data of a regular session file in      *)
(* order and in full, within its buffers.  The argument is that the place of *)
(* the reader in the archive (channel, chunk and position, or phase and      *)
(* block) says exactly which part of the data has been sent.                 *)
(***************************************************************************)
EXTENDS SwLimits, VirtualSession, SequenceTheorems, NaturalsInduction, WellFoundedInduction,
        TLAPS

-----------------------------------------------------------------------------
(* Software limits.                                                        *)

\* Remainders of a word.
LEMMA ModWord ==
  ASSUME NEW x \in Nat
  PROVE  x % Modulus \in Word /\ x % Modulus <= x /\ (x < Modulus => x % Modulus = x)
BY SwLimitsAssumption DEF Word

LEMMA ProductNat == ASSUME NEW a \in Nat, NEW b \in Nat PROVE a * b \in Nat
OBVIOUS

\* Division with remainder.
LEMMA Division ==
  ASSUME NEW a \in Nat, NEW b \in Nat \ {0}
  PROVE  /\ a \div b \in Nat /\ a % b \in 0 .. b - 1 /\ a = b * (a \div b) + (a % b)
<1>1. a % b \in 0 .. b - 1
  OBVIOUS
<1>2. a \div b \in Int
  OBVIOUS
<1>3. a = b * (a \div b) + (a % b)
  OBVIOUS
<1>4. a \div b \in Nat
  BY <1>2
<1> QED
  BY <1>1, <1>3, <1>4

\* The bytes that hold m samples hold less than the samples of a byte too many.
LEMMA RoundedUp ==
  ASSUME NEW m \in Nat, NEW p \in Nat \ {0}
  PROVE  ((m + p - 1) \div p) * p \in m .. m + p - 1
<1> DEFINE x == m + p - 1
           q == x \div p
<1>1. x \in Nat /\ q \in Int
  OBVIOUS
<1>2. x = p * q + (x % p) /\ x % p \in 0 .. p - 1
  <2> HIDE DEF x
  <2> QED BY <1>1, Division
<1>3. p * q = q * p
  BY <1>1
<1>4. q * p \in Int
  BY <1>1
<1> HIDE DEF q
<1> QED BY <1>2, <1>3, <1>4 DEF q

\* What a driver that asks takes of n bytes does not pass its limit by the samples of a
\* byte, and what another one takes of n samples is at most n.
LEMMA TakeBound ==
  ASSUME TypeOK, NEW n \in 0 .. MaxRead
  PROVE  /\ Take(n) \in Nat /\ (~eager => Take(n) <= n)
         /\ eager /\ limit_samples # 0 =>
              IF samples_read >= limit_samples THEN Take(n) = 0
              ELSE samples_read + Take(n) < limit_samples + points_per_byte
<1> DEFINE p == points_per_byte
           remain == Remain(samples_read, limit_samples)
           rounded == ((remain + p - 1) \div p) * p
           all == n * p
<1>1. n \in Nat /\ p \in Nat \ {0} /\ samples_read \in Nat /\ limit_samples \in Nat
  BY SwLimitsAssumption DEF TypeOK, Word
<1>2. /\ remain \in Nat
      /\ limit_samples # 0 /\ samples_read < limit_samples =>
           remain # 0 /\ samples_read + remain = limit_samples
  BY <1>1 DEF Remain
<1>3. rounded \in remain .. remain + p - 1
  BY <1>1, <1>2, RoundedUp
<1>4. all \in Nat
  BY <1>1, ProductNat
<1>5. Take(n) = IF ~eager THEN n
                ELSE IF Reached(samples_read, limit_samples) THEN 0
                ELSE IF remain # 0 /\ all > remain THEN rounded ELSE all
  BY DEF Take
<1> HIDE DEF p, remain, rounded, all
<1> QED
  <2>1. p = points_per_byte
    BY DEF p
  <2> QED BY <1>1, <1>2, <1>3, <1>4, <1>5, <2>1 DEF Reached

LEMMA AccountTypes ==
  ASSUME TypeOK, NEW n \in 0 .. MaxRead, NEW f \in 0 .. MaxRead, Account(n, f)
  PROVE  samples_read' \in Word /\ frames_read' \in Word /\ got' \in [s : Nat, f : Nat]
<1>1. Take(n) \in Nat /\ f \in Nat
  BY TakeBound, SwLimitsAssumption
<1>2. samples_read + Take(n) \in Nat /\ frames_read + f \in Nat
  BY <1>1, SwLimitsAssumption DEF TypeOK, Word
<1>3. got.s + Take(n) \in Nat /\ got.f + f \in Nat
  BY <1>1 DEF TypeOK
<1> QED BY <1>2, <1>3, ModWord DEF Account, Add

LEMMA TypeStep == TypeOK /\ [LimitsNext]_limitsVars => TypeOK'
<1> SUFFICES ASSUME TypeOK, [LimitsNext]_limitsVars PROVE TypeOK'
  OBVIOUS
<1>1. CASE Configure
  <2>1. PICK v \in Limits : ConfigSamples(v) \/ ConfigFrames(v) \/ ConfigMsec(v)
    BY <1>1 DEF Configure
  <2>2. v \in Word /\ v \in Nat
    BY SwLimitsAssumption DEF Word
  <2>3. v * Msec \in Nat
    BY <2>2, ProductNat, SwLimitsAssumption
  <2>4. (v * Msec) % Modulus \in Word
    BY <2>3, ModWord
  <2> QED BY <2>1, <2>2, <2>4 DEF TypeOK, ConfigSamples, ConfigFrames, ConfigMsec, driver
<1>2. CASE AcquisitionStart
  BY <1>2, SwLimitsAssumption DEF TypeOK, AcquisitionStart, FirstCount, Word, limits, driver
<1>3. ASSUME NEW n \in 0 .. MaxRead, NEW f \in 0 .. MaxRead, Work(n, f) PROVE TypeOK'
  <2>1. samples_read' \in Word /\ frames_read' \in Word /\ got' \in [s : Nat, f : Nat]
    BY <1>3, AccountTypes DEF Work
  <2>2. acquiring' \in BOOLEAN
    BY <1>3 DEF Work, sr_sw_limits_check
  <2> QED BY <1>3, <2>1, <2>2 DEF TypeOK, Work, Account, limits, driver
<1>4. ASSUME NEW n \in 0 .. MaxRead, Transfer(n) PROVE TypeOK'
  <2>1. 0 \in 0 .. MaxRead
    BY SwLimitsAssumption
  <2>2. samples_read' \in Word /\ frames_read' \in Word /\ got' \in [s : Nat, f : Nat]
    BY <1>4, <2>1, AccountTypes DEF Transfer
  <2> QED BY <1>4, <2>2 DEF TypeOK, Transfer, Account, limits, driver
<1>5. CASE CheckTransfers
  BY <1>5 DEF TypeOK, CheckTransfers, limits, driver
<1>6. CASE Tick
  BY <1>6, SwLimitsAssumption DEF TypeOK, Tick, limits, driver, Word
<1>7. CASE UNCHANGED limitsVars
  BY <1>7 DEF TypeOK, limitsVars, limits, driver
<1> QED BY <1>1, <1>2, <1>3, <1>4, <1>5, <1>6, <1>7 DEF LimitsNext

LEMMA InitTypes == LimitsInit => TypeOK
<1>1. 0 \in Word /\ 1 \in Word
  BY SwLimitsAssumption DEF Word
<1>2. [s |-> 0, f |-> 0] \in [s : Nat, f : Nat]
  OBVIOUS
<1> QED BY <1>1, <1>2, Zenon DEF LimitsInit, TypeOK

\* The state keeps its type, counters that wrap included.
THEOREM LimitTypes == LimitsSpec => []TypeOK
<1>1. LimitsInit => TypeOK
  BY InitTypes
<1> QED BY <1>1, TypeStep, PTL DEF LimitsSpec

\* sr_sw_limits_check() and sr_sw_limits_get_remain() do not contradict each other:
\* what the one stops for is exceeded for the other, with no time left.
THEOREM QuestionsAgree == LimitsSpec => []CheckImpliesExceeded
<1>1. TypeOK => CheckImpliesExceeded
  BY DEF TypeOK, Word, CheckImpliesExceeded, sr_sw_limits_check, exceeded, CountReached,
         TimeReached, TimeExceeded, RemainMsecs
<1> QED BY <1>1, LimitTypes, PTL

-----------------------------------------------------------------------------
(* Counting.                                                               *)

\* Every limit leaves room for one more read or byte, and for its milliseconds.
Fitting ==
  \A l \in Limits :
    l + MaxRead <= Modulus /\ l * Msec < Modulus /\ \A p \in Points : l + p <= Modulus

\* While an acquisition runs, the counters of its limits are what was delivered and
\* have not passed them, or by less than the samples of a byte.
Counted ==
  /\ samples_read <= got.s /\ frames_read <= got.f
  /\ acquiring /\ limit_samples # 0 =>
       /\ samples_read = got.s
       /\ IF eager THEN got.s < limit_samples + points_per_byte ELSE got.s < limit_samples
  /\ acquiring /\ limit_frames # 0 => frames_read = got.f /\ got.f < limit_frames

\* Limits are the user's.
Asked ==
  /\ limit_samples \in Limits \cup {0} /\ limit_frames \in Limits \cup {0}
  /\ limit_msec = set_msec * Msec

LimitInv == TypeOK /\ Counted /\ Asked

\* The bounds of Overshoot for one step.
Bounded ==
  /\ limit_samples # 0 =>
       got'.s <= limit_samples + (IF eager THEN points_per_byte - 1 ELSE MaxRead - 1)
  /\ limit_frames # 0 => got'.f <= limit_frames + MaxRead - 1

LEMMA AccountStep ==
  ASSUME Fitting, LimitInv, acquiring, NEW n \in 0 .. MaxRead, NEW f \in 0 .. MaxRead,
         Account(n, f), eager => f = 0
  PROVE  /\ Bounded
         /\ samples_read' <= got'.s /\ frames_read' <= got'.f
         /\ limit_samples # 0 => samples_read' = got'.s
         /\ limit_frames # 0 => frames_read' = got'.f
         /\ eager /\ limit_samples # 0 => got'.s < limit_samples + points_per_byte
         /\ eager /\ limit_frames # 0 => got'.f < limit_frames
<1> DEFINE m == Take(n)
<1>1. /\ m \in Nat /\ (~eager => m <= n) /\ n \in Nat /\ f \in Nat /\ n <= MaxRead /\ f <= MaxRead
      /\ MaxRead \in Nat \ {0} /\ Modulus \in Nat
  BY TakeBound, SwLimitsAssumption DEF LimitInv
<1>2. /\ got'.s = got.s + m /\ got'.f = got.f + f
      /\ samples_read' = (samples_read + m) % Modulus /\ frames_read' = (frames_read + f) % Modulus
      /\ got.s \in Nat /\ got.f \in Nat /\ samples_read \in Nat /\ frames_read \in Nat
      /\ limit_samples \in Nat /\ limit_frames \in Nat /\ eager \in BOOLEAN
      /\ points_per_byte \in Nat \ {0}
  BY SwLimitsAssumption DEF Account, Add, LimitInv, TypeOK, Word
<1>3. /\ samples_read + m \in Nat /\ frames_read + f \in Nat
      /\ samples_read' <= samples_read + m /\ frames_read' <= frames_read + f
      /\ samples_read + m < Modulus => samples_read' = samples_read + m
      /\ frames_read + f < Modulus => frames_read' = frames_read + f
  <2>1. samples_read + m \in Nat /\ frames_read + f \in Nat
    BY <1>1, <1>2
  <2> HIDE DEF m
  <2> QED BY <1>2, <2>1, ModWord
<1>4. samples_read' <= got'.s /\ frames_read' <= got'.f
  BY <1>1, <1>2, <1>3 DEF LimitInv, Counted
<1>5. /\ limit_samples # 0 => limit_samples + MaxRead <= Modulus
      /\ limit_frames # 0 => limit_frames + MaxRead <= Modulus
      /\ limit_samples # 0 => limit_samples + points_per_byte <= Modulus
  BY SwLimitsAssumption DEF Fitting, LimitInv, Asked, TypeOK
<1>6. eager /\ limit_samples # 0 => got.s + m < limit_samples + points_per_byte
  <2>1. eager /\ limit_samples # 0 =>
          IF samples_read >= limit_samples THEN m = 0
          ELSE samples_read + m < limit_samples + points_per_byte
    BY TakeBound DEF LimitInv
  <2> HIDE DEF m
  <2> QED BY <1>1, <1>2, <2>1 DEF LimitInv, Counted
<1>7. limit_samples # 0 => samples_read' = got'.s
  BY <1>1, <1>2, <1>3, <1>5, <1>6 DEF LimitInv, Counted
<1>8. limit_frames # 0 => frames_read' = got'.f
  BY <1>1, <1>2, <1>3, <1>5 DEF LimitInv, Counted
<1>9. Bounded
  BY <1>1, <1>2, <1>6 DEF Bounded, LimitInv, Counted
<1>10. eager /\ limit_frames # 0 => got'.f < limit_frames
  BY <1>1, <1>2 DEF LimitInv, Counted
<1> QED BY <1>2, <1>4, <1>6, <1>7, <1>8, <1>9, <1>10

LEMMA LimitStep ==
  ASSUME Fitting
  PROVE  LimitInv /\ [LimitsNext]_limitsVars =>
           LimitInv' /\ (acquiring => Bounded \/ UNCHANGED limitsVars)
<1> SUFFICES ASSUME LimitInv, [LimitsNext]_limitsVars
             PROVE  LimitInv' /\ (acquiring => Bounded \/ UNCHANGED limitsVars)
  OBVIOUS
<1>0. TypeOK'
  BY TypeStep DEF LimitInv
<1>a. UNCHANGED got /\ acquiring /\ UNCHANGED <<limit_samples, limit_frames>> => Bounded
  BY SwLimitsAssumption DEF Bounded, LimitInv, Counted, TypeOK, Word
<1>1. CASE Configure
  <2>1. PICK v \in Limits : ConfigSamples(v) \/ ConfigFrames(v) \/ ConfigMsec(v)
    BY <1>1 DEF Configure
  <2>2. v \in Nat /\ v * Msec \in Nat /\ v * Msec < Modulus
    BY ProductNat, SwLimitsAssumption DEF Fitting, Word
  <2>3. (v * Msec) % Modulus = v * Msec
    BY <2>2, ModWord
  <2>4. ~acquiring /\ ~acquiring'
    BY <1>1 DEF Configure, ConfigSamples, ConfigFrames, ConfigMsec
  <2>5. Asked'
    BY <2>1, <2>3 DEF LimitInv, Asked, ConfigSamples, ConfigFrames, ConfigMsec
  <2>6. Counted'
    BY <2>1, <2>4 DEF LimitInv, Counted, ConfigSamples, ConfigFrames, ConfigMsec
  <2> QED BY <1>0, <2>4, <2>5, <2>6 DEF LimitInv
<1>2. CASE AcquisitionStart
  <2>1. Asked' /\ ~acquiring
    BY <1>2 DEF LimitInv, Asked, AcquisitionStart, limits, driver
  <2>2. Counted'
    BY <1>2, SwLimitsAssumption
       DEF LimitInv, Counted, TypeOK, Word, AcquisitionStart, FirstCount, limits, driver
  <2> QED BY <1>0, <2>1, <2>2 DEF LimitInv
<1>3. ASSUME NEW n \in 0 .. MaxRead, NEW f \in 0 .. MaxRead, Work(n, f)
      PROVE  LimitInv' /\ Bounded
  <2>1. /\ acquiring /\ ~eager /\ Account(n, f) /\ acquiring' = ~sr_sw_limits_check'
        /\ UNCHANGED <<limits, driver>>
    BY <1>3 DEF Work, Account
  <2>2. /\ Bounded /\ samples_read' <= got'.s /\ frames_read' <= got'.f
        /\ limit_samples # 0 => samples_read' = got'.s
        /\ limit_frames # 0 => frames_read' = got'.f
    BY <2>1, AccountStep
  <2>3. Asked'
    BY <2>1 DEF LimitInv, Asked, limits, driver
  <2>4. acquiring' => /\ limit_samples # 0 => samples_read' < limit_samples
                      /\ limit_frames # 0 => frames_read' < limit_frames
    BY <1>0, <2>1 DEF sr_sw_limits_check, CountReached, Reached, TypeOK, Word, limits, driver
  <2>5. Counted'
    BY <2>1, <2>2, <2>4 DEF Counted, limits, driver
  <2> QED BY <1>0, <2>2, <2>3, <2>5 DEF LimitInv
<1>4. ASSUME NEW n \in 0 .. MaxRead, Transfer(n) PROVE LimitInv' /\ Bounded
  <2>1. acquiring /\ eager /\ Account(n, 0) /\ 0 \in 0 .. MaxRead /\ UNCHANGED <<limits, driver>>
    BY <1>4, SwLimitsAssumption DEF Transfer, Account
  <2>2. /\ Bounded /\ samples_read' <= got'.s /\ frames_read' <= got'.f
        /\ limit_samples # 0 => samples_read' = got'.s
        /\ limit_frames # 0 => frames_read' = got'.f
        /\ limit_samples # 0 => got'.s < limit_samples + points_per_byte
        /\ limit_frames # 0 => got'.f < limit_frames
    BY <2>1, AccountStep
  <2>3. Asked' /\ Counted'
    BY <2>1, <2>2 DEF LimitInv, Asked, Counted, limits, driver
  <2> QED BY <1>0, <2>2, <2>3 DEF LimitInv
<1>5. CASE CheckTransfers
  BY <1>0, <1>5, <1>a DEF LimitInv, Asked, Counted, CheckTransfers, limits, driver
<1>6. CASE Tick
  BY <1>0, <1>6, <1>a DEF LimitInv, Asked, Counted, Tick, limits, driver
<1>7. CASE UNCHANGED limitsVars
  BY <1>0, <1>7 DEF LimitInv, Asked, Counted, limitsVars, limits, driver
<1> QED BY <1>1, <1>2, <1>3, <1>4, <1>5, <1>6, <1>7 DEF LimitsNext

LEMMA LimitAlways == ASSUME Fitting PROVE LimitsSpec => []LimitInv
<1>1. LimitsInit => LimitInv
  BY InitTypes, SwLimitsAssumption DEF LimitsInit, LimitInv, Counted, Asked
<1>2. LimitInv /\ [LimitsNext]_limitsVars => LimitInv'
  BY LimitStep
<1> QED BY <1>1, <1>2, PTL DEF LimitsSpec

\* For all word sizes, limits and sizes of reads, a driver that checks after the fact
\* delivers less than one more read than its limit, and one that asks for the remainder
\* less than the samples of one more byte, in any number of acquisitions.
THEOREM LimitsKept == ASSUME Fitting PROVE LimitsSpec => Overshoot
<1>1. LimitInv /\ [LimitsNext]_limitsVars =>
        [acquiring =>
           /\ limit_samples # 0 =>
                got'.s <= limit_samples + (IF eager THEN points_per_byte - 1 ELSE MaxRead - 1)
           /\ limit_frames # 0 => got'.f <= limit_frames + MaxRead - 1]_limitsVars
  BY LimitStep DEF Bounded
<1> QED BY <1>1, LimitAlways, PTL DEF LimitsSpec, Overshoot

\* An acquisition stops only when a limit as the user has set it is reached.
THEOREM StopsJustified == ASSUME Fitting PROVE LimitsSpec => StopIsJustified
<1>1. LimitInv /\ [LimitsNext]_limitsVars =>
        [acquiring /\ ~acquiring' =>
           \/ limit_samples # 0 /\ got'.s >= limit_samples
           \/ limit_frames # 0 /\ got'.f >= limit_frames
           \/ set_msec # 0 /\ now - start_time > set_msec * Msec]_limitsVars
  <2> SUFFICES ASSUME LimitInv, LimitsNext, acquiring, ~acquiring'
               PROVE  \/ limit_samples # 0 /\ got'.s >= limit_samples
                      \/ limit_frames # 0 /\ got'.f >= limit_frames
                      \/ set_msec # 0 /\ now - start_time > set_msec * Msec
    BY DEF limitsVars
  <2>1. LimitInv'
    BY LimitStep
  <2>2. sr_sw_limits_check' /\ UNCHANGED <<limits, now, start_time>>
    BY DEF LimitsNext, Configure, ConfigSamples, ConfigFrames, ConfigMsec, AcquisitionStart, Work,
           Transfer, CheckTransfers, Account, Tick, limits, driver, sr_sw_limits_check, CountReached,
           TimeReached
  <2>3. CASE CountReached'
    BY <2>1, <2>2, <2>3 DEF CountReached, Reached, LimitInv, Counted, TypeOK, Word, limits, driver
  <2>4. CASE TimeReached'
    <3>1. set_msec # 0
      BY <2>2, <2>4, SwLimitsAssumption DEF TimeReached, LimitInv, Asked, limits, driver
    <3> QED BY <2>2, <2>4, <3>1 DEF TimeReached, LimitInv, Asked, limits, driver
  <2> QED BY <2>2, <2>3, <2>4 DEF sr_sw_limits_check
<1> QED BY <1>1, LimitAlways, PTL DEF LimitsSpec, StopIsJustified

-----------------------------------------------------------------------------
(* Recursion over numbers, and sequences joined.                            *)

\* Induction over a set of numbers.
LEMMA SetInduction ==
  ASSUME NEW S, 0 \in S, \A n \in Nat : n \in S => n + 1 \in S
  PROVE  Nat \subseteq S
<1> SUFFICES ASSUME Nat \ S # {} PROVE FALSE
  OBVIOUS
<1>1. PICK m \in Nat \ S : \A y \in Nat \ S : ~(<<y, m>> \in OpToRel(<, Nat))
  <2> DEFINE R == OpToRel(<, Nat)
  <2>1. IsWellFoundedOn(R, Nat)
    BY NatLessThanWellFounded
  <2> HIDE DEF R
  <2>2. \E x \in Nat \ S : \A y \in Nat \ S : ~(<<y, x>> \in R)
    BY <2>1, WFMin
  <2> QED
    BY <2>2 DEF R
<1>2. \A y \in Nat \ S : ~(y < m)
  BY <1>1 DEF OpToRel
<1>3. m # 0 /\ m - 1 \in Nat
  OBVIOUS
<1>4. m - 1 \in S
  BY <1>2, <1>3
<1> QED
  BY <1>3, <1>4

\* The recursion of Joined has a solution, for every number of parts.
LEMMA JoinedDef ==
  ASSUME NEW parts, Len(parts) \in Nat
  PROVE  /\ Joined(parts)[0] = <<>>
         /\ \A k \in Nat : k + 1 <= Len(parts) =>
              Joined(parts)[k + 1] = Joined(parts)[k] \o parts[k + 1]
<1> DEFINE Eq(g, n) == g = [k \in 0 .. n |-> IF k = 0 THEN <<>> ELSE g[k - 1] \o parts[k]]
           S == {n \in Nat : \E g : Eq(g, n)}
<1>1. 0 \in S
  <2>1. Eq([k \in 0 .. 0 |-> <<>>], 0)
    OBVIOUS
  <2> QED
    BY <2>1
<1>2. ASSUME NEW n \in Nat, n \in S PROVE n + 1 \in S
  <2>1. PICK g : Eq(g, n)
    BY <1>2
  <2> DEFINE h == [k \in 0 .. n + 1 |-> IF k <= n THEN g[k] ELSE g[n] \o parts[n + 1]]
  <2>2. ASSUME NEW k \in 0 .. n + 1 PROVE h[k] = IF k = 0 THEN <<>> ELSE h[k - 1] \o parts[k]
    <3>1. CASE k = 0
      BY <2>1, <3>1
    <3>2. CASE k # 0 /\ k <= n
      BY <2>1, <3>2
    <3>3. CASE k = n + 1
      BY <3>3
    <3> QED
      BY <3>1, <3>2, <3>3
  <2>3. Eq(h, n + 1)
    BY <2>2
  <2>4. \E g2 : Eq(g2, n + 1)
    <3> HIDE DEF h, Eq
    <3> QED BY <2>3
  <2> HIDE DEF Eq
  <2> QED
    BY <2>4
<1>3. Len(parts) \in S
  <2> HIDE DEF S
  <2> QED BY <1>1, <1>2, SetInduction
<1>4. PICK g : Eq(g, Len(parts))
  BY <1>3
<1>5. Eq(Joined(parts), Len(parts))
  BY <1>4 DEF Joined
<1>6. ASSUME NEW k \in Nat, k + 1 <= Len(parts)
      PROVE  Joined(parts)[k + 1] = Joined(parts)[k] \o parts[k + 1]
  <2>1. k + 1 \in 0 .. Len(parts) /\ k + 1 # 0 /\ (k + 1) - 1 = k
    BY <1>6
  <2> QED
    BY <1>5, <2>1
<1>7. Joined(parts)[0] = <<>>
  <2>1. 0 \in 0 .. Len(parts)
    OBVIOUS
  <2> QED
    BY <1>5, <2>1
<1> QED
  BY <1>6, <1>7

\* Joining sequences gives a sequence.
LEMMA JoinedType ==
  ASSUME NEW U, NEW parts \in Seq(Seq(U))
  PROVE  \A k \in 0 .. Len(parts) : Joined(parts)[k] \in Seq(U)
<1> DEFINE S == {n \in Nat : n <= Len(parts) => Joined(parts)[n] \in Seq(U)}
<1>0. Len(parts) \in Nat
  OBVIOUS
<1>j. /\ Joined(parts)[0] = <<>>
      /\ \A k \in Nat : k + 1 <= Len(parts) =>
           Joined(parts)[k + 1] = Joined(parts)[k] \o parts[k + 1]
  BY <1>0, JoinedDef, Zenon
<1>1. 0 \in S
  <2>1. Joined(parts)[0] \in Seq(U)
    BY <1>j, EmptySeq, Zenon
  <2> QED BY <2>1
<1>2. ASSUME NEW n \in Nat, n \in S PROVE n + 1 \in S
  <2> SUFFICES ASSUME n + 1 <= Len(parts) PROVE Joined(parts)[n + 1] \in Seq(U)
    OBVIOUS
  <2>1. n + 1 \in 1 .. Len(parts) /\ parts[n + 1] \in Seq(U)
    BY <1>0
  <2>2. Joined(parts)[n + 1] = Joined(parts)[n] \o parts[n + 1]
    BY <1>j
  <2>3. Joined(parts)[n] \in Seq(U)
    BY <1>0, <1>2
  <2> QED
    BY <2>1, <2>2, <2>3, ConcatProperties
<1>3. Nat \subseteq S
  <2> HIDE DEF S
  <2> QED BY <1>1, <1>2, SetInduction
<1> QED
  BY <1>0, <1>3

\* The first parts joined are a prefix of more of them.
LEMMA JoinedMore ==
  ASSUME NEW U, NEW parts \in Seq(Seq(U)), NEW k \in 0 .. Len(parts)
  PROVE  \E r \in Seq(U) : All(parts) = Joined(parts)[k] \o r
<1> DEFINE P(m) == \E r \in Seq(U) : Joined(parts)[m] = Joined(parts)[k] \o r
           S == {d \in Nat : k + d <= Len(parts) => P(k + d)}
<1>0. Len(parts) \in Nat /\ k \in Nat /\ Joined(parts)[k] \in Seq(U)
  BY JoinedType
<1>j. \A n \in Nat : n + 1 <= Len(parts) =>
        Joined(parts)[n + 1] = Joined(parts)[n] \o parts[n + 1]
  BY <1>0, JoinedDef, Zenon
<1>1. 0 \in S
  <2>1. Joined(parts)[k] = Joined(parts)[k] \o <<>> /\ <<>> \in Seq(U)
    BY <1>0, ConcatEmptySeq
  <2>2. P(k + 0)
    <3>1. k + 0 = k
      BY <1>0
    <3> QED BY <2>1, <3>1, Zenon
  <2> HIDE DEF P
  <2> QED
    BY <2>2
<1>2. ASSUME NEW d \in Nat, d \in S PROVE d + 1 \in S
  <2> SUFFICES ASSUME k + d + 1 <= Len(parts) PROVE P(k + (d + 1))
    <3> HIDE DEF P
    <3> QED BY <1>0
  <2>1. k + d + 1 \in 1 .. Len(parts) /\ parts[k + d + 1] \in Seq(U)
    BY <1>0
  <2>2. Joined(parts)[k + d + 1] = Joined(parts)[k + d] \o parts[k + d + 1]
    <3>1. k + d \in Nat
      BY <1>0
    <3> QED BY <1>j, <3>1
  <2>3. PICK r \in Seq(U) : Joined(parts)[k + d] = Joined(parts)[k] \o r
    <3>1. P(k + d)
      <4> HIDE DEF P
      <4> QED BY <1>0, <1>2
    <3> QED BY <3>1
  <2>4. Joined(parts)[k + d + 1] = Joined(parts)[k] \o (r \o parts[k + d + 1])
    <3> DEFINE a == Joined(parts)[k]
               c == parts[k + d + 1]
    <3>1. a \in Seq(U) /\ r \in Seq(U) /\ c \in Seq(U)
      BY <1>0, <2>1, <2>3
    <3>2. (a \o r) \o c = a \o (r \o c)
      <4> HIDE DEF a, c
      <4> QED BY <3>1, ConcatAssociative, SMTT(30)
    <3> QED BY <2>2, <2>3, <3>2
  <2>5. r \o parts[k + d + 1] \in Seq(U)
    BY <2>1, ConcatProperties
  <2>6. k + d + 1 = k + (d + 1)
    BY <1>0
  <2> QED
    BY <2>4, <2>5, <2>6
<1>3. Nat \subseteq S
  <2> HIDE DEF S
  <2> QED BY <1>1, <1>2, SetInduction
<1>4. P(Len(parts))
  <2>1. Len(parts) - k \in Nat /\ k + (Len(parts) - k) = Len(parts)
    BY <1>0
  <2> HIDE DEF P
  <2>2. Len(parts) - k \in S
    BY <1>3, <2>1
  <2>3. k + (Len(parts) - k) <= Len(parts) => P(k + (Len(parts) - k))
    BY <2>2
  <2> QED BY <1>0, <2>1, <2>3
<1> QED
  BY <1>4 DEF All

\* A sequence is a prefix of what it begins.
LEMMA PrefixOfConcat ==
  ASSUME NEW U, NEW s \in Seq(U), NEW r \in Seq(U)
  PROVE  IsPrefix(s, s \o r)
<1>1. Len(s) \in Nat /\ Len(r) \in Nat /\ Len(s \o r) = Len(s) + Len(r) /\ s \o r \in Seq(U)
  BY ConcatProperties
<1>2. \A i \in 1 .. Len(s) : (s \o r)[i] = s[i] /\ s[i] \in U
  BY <1>1, ConcatProperties, ElementOfSeq
<1> DEFINE a == SubSeq(s, 1, Len(s))
           b == SubSeq(s \o r, 1, Len(s))
<1>3. a \in Seq(U) /\ Len(a) = Len(s) /\ \A i \in 1 .. Len(s) : a[i] = s[i]
  BY <1>1, <1>2, SubSeqProperties
<1>4. b \in Seq(U) /\ Len(b) = Len(s) /\ \A i \in 1 .. Len(s) : b[i] = (s \o r)[i]
  BY <1>1, <1>2, SubSeqProperties
<1>5. a = b
  <2> HIDE DEF a, b
  <2> QED BY <1>2, <1>3, <1>4, SeqEqual
<1> QED
  BY <1>1, <1>5 DEF IsPrefix

\* The entries of a base end somewhere.
LEMMA CountDef ==
  ASSUME NEW f \in Files, NEW base, NEW from \in {0, 1}
  PROVE  /\ Count(f, base, from) \in Nat
         /\ \A m \in Nat : from <= m /\ m < from + Count(f, base, from) =>
              <<base, m>> \in DOMAIN f.entry
         /\ <<base, from + Count(f, base, from)>> \notin DOMAIN f.entry
<1> DEFINE S == {n \in Nat : \A m \in from .. from + n - 1 : <<base, m>> \in DOMAIN f.entry}
           P(n) == /\ \A m \in from .. from + n - 1 : <<base, m>> \in DOMAIN f.entry
                   /\ <<base, from + n>> \notin DOMAIN f.entry
<1>0. MaxNumber \in Nat
  BY VirtualSessionAssumption
<1>1. 0 \in S
  OBVIOUS
<1>2. ASSUME NEW m \in Nat, m > MaxNumber PROVE <<base, m>> \notin DOMAIN f.entry
  BY <1>0, <1>2, VirtualSessionAssumption
<1>3. ~(Nat \subseteq S)
  <2>1. \/ <<base, from + MaxNumber>> \notin DOMAIN f.entry
        \/ <<base, from + MaxNumber + 1>> \notin DOMAIN f.entry
    BY <1>0, <1>2
  <2>2. MaxNumber + 2 \notin S
    BY <1>0, <2>1
  <2> QED BY <1>0, <2>2
<1>4. PICK n \in Nat : n \in S /\ n + 1 \notin S
  <2> HIDE DEF S
  <2> QED BY <1>1, <1>3, SetInduction
<1>5. P(n)
  BY <1>4
<1>6. n \in 0 .. MaxNumber + 1
  <2> SUFFICES ASSUME n > MaxNumber + 1 PROVE FALSE
    BY <1>0
  <2>1. MaxNumber + 1 \in from .. from + n - 1
    BY <1>0
  <2>2. <<base, MaxNumber + 1>> \in DOMAIN f.entry
    BY <1>5, <2>1
  <2>3. MaxNumber + 1 \in Nat /\ MaxNumber + 1 > MaxNumber
    BY <1>0
  <2> QED BY <1>2, <2>2, <2>3
<1>7. Count(f, base, from) \in 0 .. MaxNumber + 1 /\ P(Count(f, base, from))
  BY <1>5, <1>6 DEF Count
<1> QED
  <2> HIDE DEF S
  <2>1. \A m \in Nat : from <= m /\ m < from + Count(f, base, from) =>
          m \in from .. from + Count(f, base, from) - 1
    BY <1>0, <1>7
  <2> QED BY <1>0, <1>7, <2>1

-----------------------------------------------------------------------------
(* The data of an archive are sequences of items.                          *)

\* Entries of archives, and the data that packets carry.
Entries == UNION {DOMAIN f.entry : f \in Files}
Items ==
  (Nat \X Entries \X Nat) \cup ({"L"} \X Nat \X Nat \X SUBSET Nat) \cup ({"A"} \X Nat)

\* What Bytes gives, and that reads of an entry that follow each other join.
LEMMA BytesType ==
  ASSUME NEW e \in Entries, NEW ch \in Nat, NEW from \in Nat, NEW n \in Nat
  PROVE  /\ Bytes(e, ch, from, n) \in Seq(Items) /\ Len(Bytes(e, ch, from, n)) = n
         /\ \A k \in 1 .. n : Bytes(e, ch, from, n)[k] = <<ch, e, from + k>>
<1>1. \A k \in 1 .. n : <<ch, e, from + k>> \in Items
  BY DEF Items
<1>2. Bytes(e, ch, from, n) = [k \in 1 .. n |-> <<ch, e, from + k>>]
  BY DEF Bytes
<1>3. /\ [k \in 1 .. n |-> <<ch, e, from + k>>] \in Seq(Items)
      /\ Len([k \in 1 .. n |-> <<ch, e, from + k>>]) = n
  BY <1>1
<1>4. \A k \in 1 .. n : [i \in 1 .. n |-> <<ch, e, from + i>>][k] = <<ch, e, from + k>>
  OBVIOUS
<1> QED
  BY <1>2, <1>3, <1>4, Zenon

\* Reads of an entry that follow each other join.
LEMMA BytesJoin ==
  ASSUME NEW e \in Entries, NEW ch \in Nat, NEW m \in Nat, NEW n \in Nat
  PROVE  Bytes(e, ch, 0, m) \o Bytes(e, ch, m, n) = Bytes(e, ch, 0, m + n)
<1> DEFINE a == Bytes(e, ch, 0, m)
           b == Bytes(e, ch, m, n)
           c == Bytes(e, ch, 0, m + n)
<1>1. a \in Seq(Items) /\ Len(a) = m /\ \A k \in 1 .. m : a[k] = <<ch, e, 0 + k>>
  <2>1. 0 \in Nat
    OBVIOUS
  <2> QED
    BY <2>1, BytesType, ZenonT(30)
<1>2. b \in Seq(Items) /\ Len(b) = n /\ \A k \in 1 .. n : b[k] = <<ch, e, m + k>>
  BY BytesType, ZenonT(30)
<1>3. c \in Seq(Items) /\ Len(c) = m + n /\ \A k \in 1 .. m + n : c[k] = <<ch, e, 0 + k>>
  <2>1. m + n \in Nat
    OBVIOUS
  <2>2. 0 \in Nat
    OBVIOUS
  <2> QED
    BY <2>1, <2>2, BytesType, ZenonT(30)
<1> HIDE DEF a, b, c
<1> DEFINE t == a \o b
<1>4. /\ t \in Seq(Items) /\ Len(t) = m + n
      /\ \A i \in 1 .. m + n : t[i] = IF i <= m THEN a[i] ELSE b[i - m]
  BY <1>1, <1>2, ConcatProperties
<1> HIDE DEF t
<1>5. ASSUME NEW i \in 1 .. m + n PROVE t[i] = c[i]
  <2>0. c[i] = <<ch, e, 0 + i>>
    BY <1>3, Zenon
  <2>1. CASE i <= m
    <3>1. i \in 1 .. m
      BY <2>1
    <3>2. t[i] = a[i]
      BY <1>4, <2>1
    <3>3. a[i] = <<ch, e, 0 + i>>
      BY <1>1, <3>1, Zenon
    <3> QED
      BY <2>0, <3>2, <3>3, Zenon
  <2>2. CASE i > m
    <3>1. i - m \in 1 .. n /\ m + (i - m) = 0 + i
      BY <2>2
    <3>2. t[i] = b[i - m]
      BY <1>4, <2>2
    <3>3. b[i - m] = <<ch, e, m + (i - m)>>
      BY <1>2, <3>1, Zenon
    <3> QED
      BY <2>0, <3>1, <3>2, <3>3, Zenon
  <2> QED
    BY <2>1, <2>2
<1>6. t = c
  BY <1>3, <1>4, <1>5, SeqEqual
<1> QED
  BY <1>6 DEF a, b, c, t

\* A read of nothing.
LEMMA BytesNone == ASSUME NEW e, NEW ch, NEW from PROVE Bytes(e, ch, from, 0) = <<>>
  BY DEF Bytes

\* What a file holds is typed.
LEMMA FileTypes ==
  ASSUME NEW f \in Files
  PROVE  /\ f.analog \in Nat /\ f.unitsize \in Nat /\ f.enabled \in Seq(Nat)
         /\ \A e \in DOMAIN f.entry : e \in Entries /\ f.entry[e] \in Nat /\ e[1] # NULL
         /\ CHUNKSIZE \in Nat \ {0} /\ Float \in Nat \ {0} /\ Byte \in Nat \ {0}
  BY VirtualSessionAssumption DEF Entries

\* What an entry holds.
LEMMA ContentsType ==
  ASSUME NEW f \in Files, NEW e \in DOMAIN f.entry, NEW ch \in Nat
  PROVE  Contents(f, e, ch) \in Seq(Items)
  BY FileTypes, BytesType DEF Contents

\* The data of a channel and of all of them.
LEMMA ChunksType ==
  ASSUME NEW f \in Files, NEW base, NEW ch \in Nat
  PROVE  /\ Chunks(f, base, ch) \in Seq(Seq(Items))
         /\ Len(Chunks(f, base, ch)) = Count(f, base, 1)
         /\ \A n \in 1 .. Count(f, base, 1) : Chunks(f, base, ch)[n] = Contents(f, <<base, n>>, ch)
<1> DEFINE N == Count(f, base, 1)
<1>0. N \in Nat /\ \A m \in Nat : 1 <= m /\ m < 1 + N => <<base, m>> \in DOMAIN f.entry
  BY CountDef
<1> HIDE DEF N
<1>1. N \in Nat /\ \A m \in 1 .. N : <<base, m>> \in DOMAIN f.entry
  BY <1>0
<1>2. \A n \in 1 .. N : Contents(f, <<base, n>>, ch) \in Seq(Items)
  BY <1>1, ContentsType
<1>3. [n \in 1 .. N |-> Contents(f, <<base, n>>, ch)] \in Seq(Seq(Items))
  BY <1>1, <1>2
<1> QED
  BY <1>1, <1>3 DEF Chunks, N

\* The data of a channel, in chunks or not.
LEMMA WholeType ==
  ASSUME NEW f \in Files, NEW base, NEW ch \in Nat
  PROVE  Whole(f, base, ch) \in Seq(Items)
<1>1. CASE <<base, 0>> \in DOMAIN f.entry
  BY <1>1, ContentsType DEF Whole
<1>2. CASE <<base, 0>> \notin DOMAIN f.entry
  <2> DEFINE C == Chunks(f, base, ch)
  <2>1. C \in Seq(Seq(Items))
    BY ChunksType
  <2> HIDE DEF C
  <2>2. Len(C) \in 0 .. Len(C)
    BY <2>1
  <2>3. All(C) \in Seq(Items)
    BY <2>1, <2>2, JoinedType DEF All
  <2> QED
    BY <1>2, <2>3 DEF Whole, C
<1> QED
  BY <1>1, <1>2

\* The data of all channels: logic first, then the analog ones.
LEMMA ChannelsType ==
  ASSUME NEW f \in Files
  PROVE  /\ Channels(f) \in Seq(Seq(Items)) /\ Len(Channels(f)) = f.analog + 1
         /\ \A ch \in 0 .. f.analog : Channels(f)[ch + 1] = Whole(f, BaseOf(ch), ch)
<1>1. f.analog + 1 \in Nat
  BY FileTypes
<1>2. \A i \in 1 .. f.analog + 1 : Whole(f, BaseOf(i - 1), i - 1) \in Seq(Items)
  BY FileTypes, WholeType
<1>3. [i \in 1 .. f.analog + 1 |-> Whole(f, BaseOf(i - 1), i - 1)] \in Seq(Seq(Items))
  BY <1>1, <1>2
<1>4. Channels(f) \in Seq(Seq(Items)) /\ Len(Channels(f)) = f.analog + 1
  BY <1>1, <1>3 DEF Channels
<1>5. ASSUME NEW ch \in 0 .. f.analog PROVE Channels(f)[ch + 1] = Whole(f, BaseOf(ch), ch)
  <2>1. ch + 1 \in 1 .. f.analog + 1 /\ (ch + 1) - 1 = ch
    BY FileTypes
  <2> QED
    BY <2>1 DEF Channels
<1> QED
  BY <1>4, <1>5

-----------------------------------------------------------------------------
(* Beginnings of the data.                                                 *)

\* s begins t.
Begins(s, t) == s \in Seq(Items) /\ \E r \in Seq(Items) : t = s \o r

\* What begins a sequence is a prefix of it.
LEMMA BeginsPrefix == ASSUME NEW s, NEW t, Begins(s, t) PROVE IsPrefix(s, t)
<1>1. PICK r \in Seq(Items) : t = s \o r
  BY DEF Begins
<1> QED
  BY <1>1, PrefixOfConcat DEF Begins

\* Laws of beginnings.
LEMMA BeginsConcat ==
  ASSUME NEW a \in Seq(Items), NEW b \in Seq(Items) PROVE Begins(a, a \o b)
  BY DEF Begins

LEMMA BeginsSelf == ASSUME NEW a \in Seq(Items) PROVE Begins(a, a)
<1>1. a = a \o <<>> /\ <<>> \in Seq(Items)
  BY ConcatEmptySeq
<1> QED
  BY <1>1 DEF Begins

LEMMA BeginsTrans ==
  ASSUME NEW a, NEW b, NEW c, Begins(a, b), Begins(b, c)
  PROVE  Begins(a, c)
<1>1. PICK r \in Seq(Items) : b = a \o r
  BY DEF Begins
<1>2. PICK q \in Seq(Items) : c = b \o q
  BY DEF Begins
<1>3. a \in Seq(Items)
  BY DEF Begins
<1>4. c = a \o (r \o q)
  BY <1>1, <1>2, <1>3, ConcatAssociative, SMTT(30)
<1>5. r \o q \in Seq(Items)
  BY <1>1, <1>2, ConcatProperties
<1> QED
  BY <1>3, <1>4, <1>5 DEF Begins

LEMMA BeginsAfter ==
  ASSUME NEW a \in Seq(Items), NEW b, NEW c, Begins(b, c)
  PROVE  Begins(a \o b, a \o c)
<1>1. b \in Seq(Items)
  BY DEF Begins
<1>2. PICK r \in Seq(Items) : c = b \o r
  BY DEF Begins
<1>3. a \o c = (a \o b) \o r
  <2>1. a \o (b \o r) = (a \o b) \o r
    BY <1>1, <1>2, ConcatAssociative, SMTT(30)
  <2> QED BY <1>2, <2>1
<1>4. a \o b \in Seq(Items)
  BY <1>1, ConcatProperties
<1> QED
  BY <1>2, <1>3, <1>4 DEF Begins

-----------------------------------------------------------------------------
(* Places in an archive of the upstream format.                            *)

\* What is sent before a channel, before the chunk after number n of it, and up to a
\* byte of an entry.
Before(f, ch) == Joined(Channels(f))[ch]
Upto(f, ch, n) == Before(f, ch) \o Joined(Chunks(f, BaseOf(ch), ch))[n]
OpenAt(f, ch, n, p) ==
  Upto(f, ch, IF n = 0 THEN 0 ELSE n - 1) \o Bytes(<<BaseOf(ch), n>>, ch, 0, p)

Within(f, ch, n, p) ==
  /\ n \in 0 .. Count(f, BaseOf(ch), 1) /\ <<BaseOf(ch), n>> \in DOMAIN f.entry
  /\ n # 0 => <<BaseOf(ch), 0>> \notin DOMAIN f.entry
  /\ p \in 0 .. f.entry[<<BaseOf(ch), n>>]

\* The three are sequences of data.
LEMMA BeforeType ==
  ASSUME NEW f \in Files, NEW ch \in 0 .. f.analog + 1 PROVE Before(f, ch) \in Seq(Items)
  BY ChannelsType, JoinedType, FileTypes DEF Before

\* Some chunks of a channel.
LEMMA ChunksJoined ==
  ASSUME NEW f \in Files, NEW ch \in 0 .. f.analog, NEW n \in 0 .. Count(f, BaseOf(ch), 1)
  PROVE  Joined(Chunks(f, BaseOf(ch), ch))[n] \in Seq(Items)
<1>1. ch \in Nat
  BY FileTypes
<1> QED
  BY <1>1, ChunksType, JoinedType

LEMMA UptoType ==
  ASSUME NEW f \in Files, NEW ch \in 0 .. f.analog, NEW n \in 0 .. Count(f, BaseOf(ch), 1)
  PROVE  Upto(f, ch, n) \in Seq(Items)
<1>1. ch \in 0 .. f.analog + 1
  BY FileTypes
<1> QED
  BY <1>1, BeforeType, ChunksJoined, ConcatProperties DEF Upto

\* The beginning of a channel.
LEMMA UptoStart ==
  ASSUME NEW f \in Files, NEW ch \in 0 .. f.analog
  PROVE  Upto(f, ch, 0) = Before(f, ch)
<1>1. ch \in Nat /\ ch \in 0 .. f.analog + 1
  BY FileTypes
<1> DEFINE C == Chunks(f, BaseOf(ch), ch)
<1>2. Len(C) \in Nat
  BY <1>1, ChunksType, CountDef
<1>3. Joined(C)[0] = <<>>
  <2> HIDE DEF C
  <2> QED BY <1>2, JoinedDef
<1>4. Before(f, ch) \o <<>> = Before(f, ch)
  BY <1>1, BeforeType, ConcatEmptySeq
<1> QED
  BY <1>3, <1>4 DEF Upto

\* The end of an entry.
LEMMA OpenEnd ==
  ASSUME NEW f \in Files, NEW ch \in 0 .. f.analog, NEW n \in 1 .. Count(f, BaseOf(ch), 1)
  PROVE  OpenAt(f, ch, n, f.entry[<<BaseOf(ch), n>>]) = Upto(f, ch, n)
<1> DEFINE C == Chunks(f, BaseOf(ch), ch)
           B == Before(f, ch)
           J == Joined(C)[n - 1]
           X == Contents(f, <<BaseOf(ch), n>>, ch)
<1>0. ch \in Nat /\ ch \in 0 .. f.analog + 1 /\ Count(f, BaseOf(ch), 1) \in Nat
  <2>1. Count(f, BaseOf(ch), 1) \in Nat
    BY CountDef
  <2> QED
    BY <2>1, FileTypes
<1>1. C \in Seq(Seq(Items)) /\ Len(C) = Count(f, BaseOf(ch), 1) /\ C[n] = X
  BY <1>0, ChunksType
<1>2. n - 1 \in Nat /\ n - 1 + 1 = n /\ n <= Len(C) /\ n - 1 \in 0 .. Count(f, BaseOf(ch), 1)
  BY <1>0, <1>1
<1>3. Joined(C)[n] = J \o X
  <2>1. \A k \in Nat : k + 1 <= Len(C) => Joined(C)[k + 1] = Joined(C)[k] \o C[k + 1]
    <3> HIDE DEF C
    <3>1. Len(C) \in Nat
      BY <1>1
    <3> QED BY <3>1, JoinedDef, Zenon
  <2>2. (n - 1) + 1 <= Len(C) => Joined(C)[(n - 1) + 1] = Joined(C)[n - 1] \o C[(n - 1) + 1]
    <3> HIDE DEF C
    <3> QED BY <1>2, <2>1, Zenon
  <2> HIDE DEF C, X
  <2> QED BY <1>1, <1>2, <2>2
<1>4. B \in Seq(Items) /\ J \in Seq(Items)
  BY <1>0, <1>2, BeforeType, ChunksJoined
<1>5. X \in Seq(Items)
  <2>1. <<BaseOf(ch), n>> \in DOMAIN f.entry
    <3>1. n \in Nat /\ 1 <= n /\ n < 1 + Count(f, BaseOf(ch), 1)
      BY <1>0
    <3> QED BY <3>1, CountDef
  <2> QED BY <1>0, <2>1, ContentsType
<1>6. (B \o J) \o X = B \o (J \o X)
  <2> HIDE DEF B, J, X
  <2> QED BY <1>4, <1>5, ConcatAssociative, SMTT(30)
<1>7. OpenAt(f, ch, n, f.entry[<<BaseOf(ch), n>>]) = (B \o J) \o X
  <2>1. n # 0
    OBVIOUS
  <2> QED
    BY <2>1 DEF OpenAt, Upto, Contents
<1>8. Upto(f, ch, n) = B \o (J \o X)
  BY <1>3 DEF Upto
<1> QED
  BY <1>6, <1>7, <1>8, Zenon

\* The end of a channel is the beginning of the next.
LEMMA ChannelEnd ==
  ASSUME NEW f \in Files, NEW ch \in 0 .. f.analog
  PROVE  Before(f, ch + 1) = Before(f, ch) \o Whole(f, BaseOf(ch), ch)
<1> DEFINE C == Channels(f)
<1>1. C \in Seq(Seq(Items)) /\ Len(C) = f.analog + 1 /\ C[ch + 1] = Whole(f, BaseOf(ch), ch)
  BY ChannelsType
<1>2. ch \in Nat /\ ch + 1 <= Len(C)
  BY <1>1, FileTypes
<1>3. Joined(C)[ch + 1] = Joined(C)[ch] \o C[ch + 1]
  <2> HIDE DEF C
  <2>1. Len(C) \in Nat
    BY <1>1
  <2> QED BY <1>2, <2>1, JoinedDef
<1> QED
  BY <1>1, <1>3 DEF Before

\* After the last chunk a channel is at its end.
LEMMA ChunksEnd ==
  ASSUME NEW f \in Files, NEW ch \in 0 .. f.analog, <<BaseOf(ch), 0>> \notin DOMAIN f.entry
  PROVE  Upto(f, ch, Count(f, BaseOf(ch), 1)) = Before(f, ch + 1)
<1>1. ch \in Nat
  BY FileTypes
<1>2. Whole(f, BaseOf(ch), ch) = Joined(Chunks(f, BaseOf(ch), ch))[Count(f, BaseOf(ch), 1)]
  BY <1>1, ChunksType DEF Whole, All
<1> QED
  BY <1>2, ChannelEnd DEF Upto

\* After the last channel all data have been sent.
LEMMA AllBefore == ASSUME NEW f \in Files PROVE All(Channels(f)) = Before(f, f.analog + 1)
  BY ChannelsType DEF All, Before

\* What is sent before a channel begins the data.
LEMMA BeforeBegins ==
  ASSUME NEW f \in Files, NEW ch \in 0 .. f.analog + 1
  PROVE  Begins(Before(f, ch), All(Channels(f)))
<1> DEFINE C == Channels(f)
<1>1. C \in Seq(Seq(Items)) /\ ch \in 0 .. Len(C)
  BY ChannelsType
<1>2. \E r \in Seq(Items) : All(C) = Joined(C)[ch] \o r
  <2> HIDE DEF C
  <2> QED BY <1>1, JoinedMore
<1> QED
  BY <1>2, BeforeType DEF Begins, Before

\* What is sent after n chunks of a channel begins the data.
LEMMA UptoBegins ==
  ASSUME NEW f \in Files, NEW ch \in 0 .. f.analog, NEW n \in 0 .. Count(f, BaseOf(ch), 1),
         n # 0 => <<BaseOf(ch), 0>> \notin DOMAIN f.entry
  PROVE  Begins(Upto(f, ch, n), All(Channels(f)))
<1>0. ch \in Nat /\ ch \in 0 .. f.analog + 1 /\ ch + 1 \in 0 .. f.analog + 1
  BY FileTypes
<1>1. CASE n = 0
  BY <1>0, <1>1, UptoStart, BeforeBegins
<1>2. CASE n # 0
  <2> DEFINE C == Chunks(f, BaseOf(ch), ch)
  <2>1. C \in Seq(Seq(Items)) /\ n \in 0 .. Len(C)
    BY <1>0, ChunksType
  <2>2. Begins(Joined(C)[n], All(C))
    <3>1. \E r \in Seq(Items) : All(C) = Joined(C)[n] \o r
      <4> HIDE DEF C
      <4> QED BY <2>1, JoinedMore
    <3>2. Joined(C)[n] \in Seq(Items)
      BY ChunksJoined
    <3> QED BY <3>1, <3>2 DEF Begins
  <2>3. Whole(f, BaseOf(ch), ch) = All(C)
    BY <1>2 DEF Whole
  <2>4. Begins(Before(f, ch) \o Joined(C)[n], Before(f, ch) \o All(C))
    <3> HIDE DEF C
    <3> QED BY <1>0, <2>2, BeforeType, BeginsAfter
  <2>5. Begins(Upto(f, ch, n), Before(f, ch + 1))
    BY <2>3, <2>4, ChannelEnd DEF Upto
  <2>6. Begins(Before(f, ch + 1), All(Channels(f)))
    BY <1>0, BeforeBegins
  <2> QED
    BY <2>5, <2>6, BeginsTrans
<1> QED
  BY <1>1, <1>2

\* Reading on in an entry.
LEMMA WithinTypes ==
  ASSUME NEW f \in Files, NEW ch \in 0 .. f.analog, NEW n, NEW p, Within(f, ch, n, p)
  PROVE  /\ n \in Nat /\ p \in Nat /\ ch \in Nat /\ <<BaseOf(ch), n>> \in Entries
         /\ f.entry[<<BaseOf(ch), n>>] \in Nat /\ p <= f.entry[<<BaseOf(ch), n>>]
         /\ (IF n = 0 THEN 0 ELSE n - 1) \in 0 .. Count(f, BaseOf(ch), 1)
<1>1. Count(f, BaseOf(ch), 1) \in Nat
  BY CountDef
<1>2. <<BaseOf(ch), n>> \in Entries /\ f.entry[<<BaseOf(ch), n>>] \in Nat
  BY FileTypes DEF Within
<1> QED
  BY <1>1, <1>2, FileTypes DEF Within

\* A read of g bytes moves the place on by g bytes.
LEMMA OpenRead ==
  ASSUME NEW f \in Files, NEW ch \in 0 .. f.analog, NEW n, NEW p, Within(f, ch, n, p), NEW g \in Nat
  PROVE  OpenAt(f, ch, n, p) \o Bytes(<<BaseOf(ch), n>>, ch, p, g) = OpenAt(f, ch, n, p + g)
<1> DEFINE e == <<BaseOf(ch), n>>
           U == Upto(f, ch, IF n = 0 THEN 0 ELSE n - 1)
           X == Bytes(e, ch, 0, p)
           Y == Bytes(e, ch, p, g)
<1>0. p \in Nat /\ ch \in Nat /\ e \in Entries
  BY WithinTypes
<1>1. U \in Seq(Items)
  BY WithinTypes, UptoType
<1>2. X \in Seq(Items) /\ Y \in Seq(Items)
  BY <1>0, BytesType
<1>3. (U \o X) \o Y = U \o (X \o Y)
  <2> HIDE DEF U, X, Y
  <2> QED BY <1>1, <1>2, ConcatAssociative, SMTT(30)
<1>4. X \o Y = Bytes(e, ch, 0, p + g)
  BY <1>0, BytesJoin
<1> QED
  BY <1>3, <1>4 DEF OpenAt

\* What is sent at a place is a sequence of data.
LEMMA OpenType ==
  ASSUME NEW f \in Files, NEW ch \in 0 .. f.analog, NEW n, NEW p, Within(f, ch, n, p)
  PROVE  OpenAt(f, ch, n, p) \in Seq(Items)
<1>1. Upto(f, ch, IF n = 0 THEN 0 ELSE n - 1) \in Seq(Items)
  BY WithinTypes, UptoType
<1>2. 0 \in Nat /\ p \in Nat /\ ch \in Nat /\ <<BaseOf(ch), n>> \in Entries
  BY WithinTypes
<1>3. Bytes(<<BaseOf(ch), n>>, ch, 0, p) \in Seq(Items)
  BY <1>2, BytesType
<1> QED
  BY <1>1, <1>3, ConcatProperties DEF OpenAt

\* The beginning of an entry.
LEMMA OpenStart ==
  ASSUME NEW f \in Files, NEW ch \in 0 .. f.analog, NEW n, Within(f, ch, n, 0)
  PROVE  OpenAt(f, ch, n, 0) = Upto(f, ch, IF n = 0 THEN 0 ELSE n - 1)
<1>1. Upto(f, ch, IF n = 0 THEN 0 ELSE n - 1) \in Seq(Items)
  BY WithinTypes, UptoType
<1>2. Bytes(<<BaseOf(ch), n>>, ch, 0, 0) = <<>>
  BY BytesNone
<1> QED
  BY <1>1, <1>2, ConcatEmptySeq DEF OpenAt

\* The end of a file that is not cut into chunks.
LEMMA OpenWhole ==
  ASSUME NEW f \in Files, NEW ch \in 0 .. f.analog, <<BaseOf(ch), 0>> \in DOMAIN f.entry
  PROVE  OpenAt(f, ch, 0, f.entry[<<BaseOf(ch), 0>>]) = Before(f, ch + 1)
<1>1. Upto(f, ch, 0) = Before(f, ch)
  BY UptoStart
<1>2. Whole(f, BaseOf(ch), ch) = Bytes(<<BaseOf(ch), 0>>, ch, 0, f.entry[<<BaseOf(ch), 0>>])
  BY DEF Whole, Contents
<1> QED
  BY <1>1, <1>2, ChannelEnd DEF OpenAt

\* What is sent at a place in an entry begins the data.
LEMMA OpenBegins ==
  ASSUME NEW f \in Files, NEW ch \in 0 .. f.analog, NEW n, NEW p, Within(f, ch, n, p)
  PROVE  Begins(OpenAt(f, ch, n, p), All(Channels(f)))
<1> DEFINE e == <<BaseOf(ch), n>>
           g == f.entry[e] - p
<1>a. p \in Nat /\ ch \in Nat /\ e \in Entries /\ f.entry[e] \in Nat /\ p <= f.entry[e]
  BY WithinTypes
<1>0. /\ p \in Nat /\ ch \in Nat /\ e \in Entries /\ f.entry[e] \in Nat
      /\ g \in Nat /\ p + g = f.entry[e]
  BY <1>a
<1>1. OpenAt(f, ch, n, p) \o Bytes(e, ch, p, g) = OpenAt(f, ch, n, f.entry[e])
  <2>1. OpenAt(f, ch, n, p) \o Bytes(e, ch, p, g) = OpenAt(f, ch, n, p + g)
    <3> HIDE DEF g
    <3> QED BY <1>0, OpenRead, ZenonT(30)
  <2> QED BY <1>0, <2>1
<1>2. Bytes(e, ch, p, g) \in Seq(Items)
  BY <1>0, BytesType
<1>3. Begins(OpenAt(f, ch, n, p), OpenAt(f, ch, n, f.entry[e]))
  BY <1>1, <1>2, OpenType DEF Begins
<1>4. Begins(OpenAt(f, ch, n, f.entry[e]), All(Channels(f)))
  <2>1. CASE n = 0
    <3>1. ch + 1 \in 0 .. f.analog + 1
      BY FileTypes
    <3> QED
      BY <2>1, <3>1, OpenWhole, BeforeBegins DEF Within
  <2>2. CASE n # 0
    <3>1. n \in 1 .. Count(f, BaseOf(ch), 1) /\ n \in 0 .. Count(f, BaseOf(ch), 1)
      BY <2>2, WithinTypes DEF Within
    <3>2. Begins(Upto(f, ch, n), All(Channels(f)))
      BY <2>2, <3>1, UptoBegins DEF Within
    <3> QED
      BY <3>1, <3>2, OpenEnd
  <2> QED
    BY <2>1, <2>2
<1> QED
  BY <1>3, <1>4, BeginsTrans

-----------------------------------------------------------------------------
(* Sizes of reads.                                                         *)

\* Whole samples: a multiple of Float is one in the usual sense.
LEMMA MultipleDef ==
  ASSUME NEW n \in Nat PROVE Multiple(n) <=> \E k \in Nat : n = k * Float
<1>0. Float \in Nat \ {0}
  BY VirtualSessionAssumption
<1>1. ASSUME Multiple(n) PROVE \E k \in Nat : n = k * Float
  <2>1. n \div Float \in Nat /\ n = (n \div Float) * Float
    BY <1>0, <1>1, Division DEF Multiple
  <2> QED BY <2>1
<1>2. ASSUME NEW k \in Nat, n = k * Float PROVE Multiple(n)
  <2> DEFINE q == n \div Float
             r == n % Float
  <2>1. q \in Nat /\ r \in 0 .. Float - 1 /\ n = Float * q + r
    BY <1>0, Division
  <2> HIDE DEF q, r
  <2>2. r = (k - q) * Float /\ k - q \in Int
    BY <1>0, <1>2, <2>1
  <2>3. k - q < 1
    <3> SUFFICES ASSUME k - q >= 1 PROVE FALSE
      BY <2>2
    <3>1. (k - q) * Float >= Float
      BY <1>0, <2>2
    <3> QED BY <1>0, <2>1, <2>2, <3>1
  <2>4. k - q > -1
    <3> SUFFICES ASSUME k - q <= -1 PROVE FALSE
      BY <2>2
    <3>1. (k - q) * Float <= -1 * Float
      BY <1>0, <2>2
    <3> QED BY <1>0, <2>1, <2>2, <3>1
  <2>5. k - q = 0
    BY <2>2, <2>3, <2>4
  <2>6. r = 0
    BY <1>0, <2>2, <2>5
  <2> QED BY <2>6 DEF r, Multiple
<1> QED
  BY <1>1, <1>2

\* Sums and differences of multiples.
LEMMA MultipleSum ==
  ASSUME NEW a \in Nat, NEW b \in Nat, Multiple(a), Multiple(b)
  PROVE  Multiple(a + b) /\ (b <= a => Multiple(a - b))
<1>0. Float \in Nat \ {0}
  BY VirtualSessionAssumption
<1>1. PICK j \in Nat : a = j * Float
  BY MultipleDef
<1>2. PICK k \in Nat : b = k * Float
  BY MultipleDef
<1>3. a + b = (j + k) * Float /\ a - b = (j - k) * Float
  BY <1>0, <1>1, <1>2
<1>4. ASSUME b <= a PROVE j - k \in Nat
  <2> SUFFICES ASSUME j < k PROVE FALSE
    BY <1>1, <1>2
  <2>1. (k - j) * Float >= Float
    BY <1>0, <1>1, <1>2
  <2>2. (k - j) * Float = b - a
    BY <1>0, <1>1, <1>2
  <2> QED BY <1>0, <1>4, <2>1, <2>2
<1>5. Multiple(a + b)
  <2>1. j + k \in Nat /\ a + b \in Nat
    BY <1>1, <1>2
  <2> QED BY <1>3, <2>1, MultipleDef
<1>6. ASSUME b <= a PROVE Multiple(a - b)
  <2>1. j - k \in Nat /\ a - b \in Nat
    BY <1>4, <1>6
  <2> QED BY <1>3, <2>1, MultipleDef
<1> QED
  BY <1>5, <1>6

\* A read is of at least one byte unless a sample exceeds the buffer.
LEMMA ReadSizes ==
  ASSUME NEW f \in Files
  PROVE  ReadSize(f) \in Nat /\ (f.unitsize <= CHUNKSIZE => ReadSize(f) > 0)
<1> DEFINE u == f.unitsize
           q == CHUNKSIZE \div u
<1>0. u \in Nat /\ CHUNKSIZE \in Nat \ {0}
  BY FileTypes
<1>1. CASE u = 0
  BY <1>0, <1>1 DEF ReadSize
<1>2. CASE u # 0
  <2>1. q \in Nat /\ CHUNKSIZE % u \in 0 .. u - 1 /\ CHUNKSIZE = u * q + (CHUNKSIZE % u)
    BY <1>0, <1>2, Division
  <2> HIDE DEF q
  <2>2. q * u \in Nat /\ u * q = q * u
    BY <1>0, <2>1
  <2>3. ASSUME u <= CHUNKSIZE PROVE q * u > 0
    <3>1. CHUNKSIZE % u < CHUNKSIZE
      BY <1>0, <1>2, <2>1, <2>3
    <3> HIDE DEF u
    <3> QED BY <1>0, <2>1, <2>2, <3>1
  <2> QED BY <1>2, <2>2, <2>3 DEF ReadSize, q
<1> QED
  BY <1>1, <1>2

-----------------------------------------------------------------------------
(* Replays of the upstream format.                                         *)

\* Nothing was cut short among the analog channels, nothing could not be read.
Good == ~cut /\ ~lossy

\* What holds of the reader whatever has been sent.
Base(f, ch) == IF ch = 0 THEN FirstCapture(f) ELSE AnalogBase(ch)
ReaderInv ==
  /\ file \in Files /\ cur_analog_channel \in 0 .. file.analog
  /\ running => pxv_format = IsPxv(file)
  /\ running /\ finished => stopped
  /\ ~running => capfile = NoEntry /\ pos = 0
  /\ running /\ pxv_format => cur_analog_channel = 0 /\ capfile = NoEntry /\ pos = 0
  /\ ~cut => capturefile = IF running THEN Base(file, cur_analog_channel) ELSE FirstCapture(file)

\* The place of the reader, and what has been sent up to there.
PlainAt(f, ch, e, n, p, s) ==
  IF e = NoEntry
  THEN /\ p = 0 /\ n \in 0 .. Count(f, BaseOf(ch), 1)
       /\ n # 0 => <<BaseOf(ch), 0>> \notin DOMAIN f.entry
       /\ s = Upto(f, ch, n)
  ELSE /\ e = <<BaseOf(ch), n>> /\ Within(f, ch, n, p)
       /\ ch # 0 => Multiple(p)
       /\ s = OpenAt(f, ch, n, p)
PlainPlace == PlainAt(file, cur_analog_channel, capfile, cur_chunk, pos, sent)

\* The file is regular and of the upstream format.
Upstream == file \in Files /\ ~IsPxv(file) /\ RegularUpstream(file)

\* At every place of the reader, what has been sent begins the data.
LEMMA PlainBegins ==
  ASSUME NEW f \in Files, NEW ch \in 0 .. f.analog, NEW e, NEW n, NEW p, NEW s,
         PlainAt(f, ch, e, n, p, s)
  PROVE  Begins(s, All(Channels(f)))
<1>1. CASE e = NoEntry
  BY <1>1, UptoBegins DEF PlainAt
<1>2. CASE e # NoEntry
  BY <1>2, OpenBegins DEF PlainAt
<1> QED
  BY <1>1, <1>2

\* The base name is that of the channel, if there is one.
LEMMA BaseName ==
  ASSUME ReaderInv, running, ~cut
  PROVE  /\ capturefile # NULL => capturefile = BaseOf(cur_analog_channel)
         /\ capturefile = NULL => cur_analog_channel = 0 /\ file.enabled = <<>>
  BY DEF ReaderInv, Base, BaseOf, FirstCapture, NULL, Logic, AnalogBase

\* Base names of channels are names.
LEMMA BaseNotNull == ASSUME NEW ch PROVE BaseOf(ch) # NULL /\ \A n : <<BaseOf(ch), n>> # NoEntry
  BY DEF BaseOf, NULL, Logic, AnalogBase, NoEntry

\* The entry that is open, or about to be opened.
LEMMA Opened ==
  ASSUME ReaderInv, Upstream, PlainPlace, running, ~cut, capfile # NoEntry \/ Opening
  PROVE  /\ Current = <<BaseOf(cur_analog_channel), Chunk>> /\ Current # NoEntry
         /\ Within(file, cur_analog_channel, Chunk, pos)
         /\ cur_analog_channel # 0 => Multiple(pos)
         /\ sent = OpenAt(file, cur_analog_channel, Chunk, pos)
<1> DEFINE ch == cur_analog_channel
           b == BaseOf(ch)
           N == Count(file, b, 1)
<1>0. file \in Files /\ ch \in 0 .. file.analog
  BY DEF ReaderInv
<1>1. CASE capfile # NoEntry
  BY <1>1, BaseNotNull DEF PlainPlace, PlainAt, Current, Chunk
<1>2. CASE capfile = NoEntry /\ Opening
  <2>0. N \in Nat /\ (\A m \in Nat : 1 <= m /\ m < 1 + N => <<b, m>> \in DOMAIN file.entry)
        /\ <<b, 1 + N>> \notin DOMAIN file.entry
    BY <1>0, CountDef
  <2>1. Has(<<capturefile, NextChunk>>)
    BY <1>2 DEF Opening
  <2>2. capturefile # NULL
    BY <1>0, <2>1, FileTypes DEF Has
  <2>3. capturefile = b
    BY <2>2, BaseName
  <2>4. Current = <<b, NextChunk>> /\ Chunk = NextChunk
    BY <1>2, <2>3 DEF Current, Chunk
  <2>5. /\ pos = 0 /\ cur_chunk \in 0 .. N /\ sent = Upto(file, ch, cur_chunk)
        /\ cur_chunk # 0 => <<b, 0>> \notin DOMAIN file.entry
    BY <1>2 DEF PlainPlace, PlainAt
  <2>6. <<b, NextChunk>> \in DOMAIN file.entry
    BY <2>1, <2>3 DEF Has
  <2>7. /\ NextChunk \in 0 .. N /\ (NextChunk # 0 => <<b, 0>> \notin DOMAIN file.entry)
        /\ cur_chunk = IF NextChunk = 0 THEN 0 ELSE NextChunk - 1
    <3> HIDE DEF b, N
    <3>1. CASE ~AtStart
      <4>1. cur_chunk # 0 /\ NextChunk = cur_chunk + 1
        BY <2>2, <2>5, <3>1 DEF AtStart, NextChunk
      <4>2. cur_chunk # N
        BY <2>0, <2>5, <2>6, <4>1
      <4> QED BY <2>0, <2>5, <4>1, <4>2
    <3>2. CASE AtStart /\ Has(<<capturefile, 0>>)
      BY <2>0, <2>5, <3>2 DEF AtStart, NextChunk
    <3>3. CASE AtStart /\ ~Has(<<capturefile, 0>>)
      <4>1. NextChunk = 1 /\ <<b, 0>> \notin DOMAIN file.entry /\ cur_chunk = 0
        BY <2>3, <3>3 DEF AtStart, NextChunk, Has
      <4>2. N # 0
        BY <2>0, <2>6, <4>1
      <4> QED BY <2>0, <4>1, <4>2
    <3> QED BY <3>1, <3>2, <3>3
  <2>8. Within(file, ch, NextChunk, 0)
    <3>1. file.entry[<<b, NextChunk>>] \in Nat
      BY <1>0, <2>6, FileTypes
    <3> QED BY <2>6, <2>7, <3>1 DEF Within
  <2>9. OpenAt(file, ch, NextChunk, 0) = sent
    BY <1>0, <2>5, <2>7, <2>8, OpenStart
  <2>10. Multiple(0)
    BY VirtualSessionAssumption DEF Multiple
  <2> QED
    BY <2>4, <2>5, <2>8, <2>9, <2>10, BaseNotNull
<1> QED
  BY <1>1, <1>2

\* What is read next.
LEMMA GotFacts ==
  ASSUME ReaderInv, Upstream, PlainPlace, running, ~cut, capfile # NoEntry \/ Opening
  PROVE  /\ pos \in Nat /\ Got \in Nat /\ Size(Current) \in Nat /\ pos + Got <= Size(Current)
         /\ Got = 0 => pos = Size(Current)
         /\ cur_analog_channel # 0 => Multiple(Got)
<1> DEFINE ch == cur_analog_channel
           z == Size(Current)
           r == ReadSize(file)
<1>0. file \in Files /\ ch \in 0 .. file.analog
  BY DEF ReaderInv
<1>1. Current = <<BaseOf(ch), Chunk>> /\ Within(file, ch, Chunk, pos)
  BY Opened
<1>2. pos \in Nat /\ z \in Nat /\ pos <= z
  BY <1>0, <1>1, WithinTypes DEF Size
<1>3. r \in Nat /\ r > 0
  BY <1>0, ReadSizes DEF Upstream, RegularUpstream
<1>4. Got = IF z - pos < r THEN z - pos ELSE r
  BY DEF Got
<1>5. ASSUME ch # 0 PROVE Multiple(z) /\ Multiple(r) /\ Multiple(pos)
  <2>1. ch \in 1 .. file.analog /\ file.analog > 0
    BY <1>0, <1>5, FileTypes
  <2>2. Multiple(r) /\ Multiple(pos)
    BY <1>5, <2>1, Opened DEF Upstream, RegularUpstream
  <2>3. Current = <<AnalogBase(ch), Chunk>> /\ Current \in DOMAIN file.entry
    BY <1>1, <1>5 DEF BaseOf, Within
  <2>4. Chunk \in 0 .. MaxNumber
    <3>1. Current[2] \in 0 .. MaxNumber
      BY <1>0, <2>3, VirtualSessionAssumption
    <3> QED BY <2>3, <3>1
  <2> QED
    BY <2>1, <2>2, <2>3, <2>4 DEF Upstream, RegularUpstream, Size
<1> HIDE DEF z, r
<1>6. Got \in Nat /\ pos + Got <= z /\ (Got = 0 => pos = z)
  BY <1>2, <1>3, <1>4
<1>7. ASSUME ch # 0 PROVE Multiple(Got)
  <2>1. Multiple(z - pos)
    BY <1>2, <1>5, <1>7, MultipleSum
  <2> QED
    BY <1>4, <1>5, <1>7, <2>1
<1> QED
  BY <1>2, <1>6, <1>7 DEF z

\* A read goes on in its entry.
LEMMA ReadStep ==
  ASSUME ReaderInv, Upstream, PlainPlace, ~cut, Read
  PROVE  PlainPlace'
<1> DEFINE ch == cur_analog_channel
<1>0. file \in Files /\ ch \in 0 .. file.analog /\ ch \in Nat
  BY FileTypes DEF ReaderInv
<1>1. running /\ (capfile # NoEntry \/ Opening)
  BY DEF Read, Plain
<1>2. /\ Current = <<BaseOf(ch), Chunk>> /\ Current # NoEntry /\ Within(file, ch, Chunk, pos)
      /\ ch # 0 => Multiple(pos)
      /\ sent = OpenAt(file, ch, Chunk, pos)
  BY <1>1, Opened
<1>3. /\ pos \in Nat /\ Got \in Nat /\ Size(Current) \in Nat /\ pos + Got <= Size(Current)
      /\ ch # 0 => Multiple(Got)
  BY <1>1, GotFacts
<1>4. Payload = Bytes(Current, ch, pos, Got)
  <2>1. CASE ch = 0
    BY <2>1 DEF Payload
  <2>2. CASE ch # 0
    <3>1. Float \in Nat \ {0} /\ Got % Float = 0
      BY <1>3, <2>2, VirtualSessionAssumption DEF Multiple
    <3>2. Got \div Float \in Nat /\ Got = Float * (Got \div Float) + (Got % Float)
      BY <1>3, <3>1, Division
    <3>3. (Got \div Float) * Float = Got
      BY <3>1, <3>2
    <3> QED BY <1>3, <2>2, <3>3 DEF Payload
  <2> QED BY <2>1, <2>2
<1>5. sent \o Payload = OpenAt(file, ch, Chunk, pos + Got)
  BY <1>0, <1>2, <1>3, <1>4, OpenRead, ZenonT(30)
<1>6. Within(file, ch, Chunk, pos + Got)
  BY <1>2, <1>3 DEF Within, Size
<1>7. ch # 0 => Multiple(pos + Got)
  BY <1>2, <1>3, MultipleSum
<1>8. /\ capfile' = Current /\ cur_chunk' = Chunk /\ pos' = pos + Got /\ sent' = sent \o Payload
      /\ file' = file /\ cur_analog_channel' = ch
  BY DEF Read
<1>9. PlainAt(file, ch, Current, Chunk, pos + Got, sent \o Payload)
  BY <1>2, <1>5, <1>6, <1>7 DEF PlainAt
<1> QED
  BY <1>8, <1>9 DEF PlainPlace

\* At the end of an entry all of it has been sent.
LEMMA EntryDone ==
  ASSUME ReaderInv, Upstream, PlainPlace, ~cut, Plain, capfile # NoEntry \/ Opening, Got = 0
  PROVE  sent = IF Chunk = 0 THEN Before(file, cur_analog_channel + 1)
                ELSE Upto(file, cur_analog_channel, Chunk)
<1> DEFINE ch == cur_analog_channel
<1>0. file \in Files /\ ch \in 0 .. file.analog
  BY DEF ReaderInv
<1>1. running
  BY DEF Plain
<1>2. /\ Current = <<BaseOf(ch), Chunk>> /\ Within(file, ch, Chunk, pos)
      /\ sent = OpenAt(file, ch, Chunk, pos)
  BY <1>1, Opened
<1>3. pos = file.entry[<<BaseOf(ch), Chunk>>]
  BY <1>1, <1>2, GotFacts DEF Size
<1>4. CASE Chunk = 0
  BY <1>0, <1>2, <1>3, <1>4, OpenWhole DEF Within
<1>5. CASE Chunk # 0
  <2>1. Chunk \in 1 .. Count(file, BaseOf(ch), 1)
    BY <1>0, <1>2, <1>5, WithinTypes DEF Within
  <2> QED
    BY <1>0, <1>2, <1>3, <1>5, <2>1, OpenEnd
<1> QED
  BY <1>4, <1>5

\* The next chunk is looked for.
LEMMA ReadEndStep ==
  ASSUME ReaderInv, Upstream, PlainPlace, ~cut, ReadEnd(FALSE), Chunk # 0
  PROVE  PlainPlace'
<1> DEFINE ch == cur_analog_channel
<1>0. file \in Files /\ ch \in 0 .. file.analog
  BY DEF ReaderInv
<1>1. running /\ Plain /\ (capfile # NoEntry \/ Opening) /\ Got = 0
  BY DEF ReadEnd, Plain
<1>2. Within(file, ch, Chunk, pos)
  BY <1>1, Opened
<1>3. sent = Upto(file, ch, Chunk)
  BY <1>1, EntryDone
<1>4. /\ capfile' = NoEntry /\ pos' = 0 /\ cur_chunk' = Chunk /\ sent' = sent
      /\ file' = file /\ cur_analog_channel' = ch
  BY DEF ReadEnd, CloseCapfile
<1>5. PlainAt(file, ch, NoEntry, Chunk, 0, sent)
  BY <1>2, <1>3 DEF PlainAt, Within
<1> QED
  BY <1>4, <1>5 DEF PlainPlace

\* All chunks of a channel have been sent.
LEMMA ChannelDone ==
  ASSUME ReaderInv, Upstream, PlainPlace, ~cut, running, capfile = NoEntry, ~Opening, ~AtStart
  PROVE  sent = Before(file, cur_analog_channel + 1)
<1> DEFINE ch == cur_analog_channel
           b == BaseOf(ch)
           N == Count(file, b, 1)
<1>0. file \in Files /\ ch \in 0 .. file.analog
  BY DEF ReaderInv
<1>1. N \in Nat /\ (\A m \in Nat : 1 <= m /\ m < 1 + N => <<b, m>> \in DOMAIN file.entry)
      /\ <<b, 1 + N>> \notin DOMAIN file.entry
  BY <1>0, CountDef
<1>2. /\ cur_chunk \in 0 .. N /\ sent = Upto(file, ch, cur_chunk)
      /\ cur_chunk # 0 => <<b, 0>> \notin DOMAIN file.entry
  BY DEF PlainPlace, PlainAt
<1>3. cur_chunk = N /\ <<b, 0>> \notin DOMAIN file.entry
  <2>1. CASE capturefile = NULL
    <3>1. b = Logic /\ <<b, 0>> \notin DOMAIN file.entry /\ <<b, 1>> \notin DOMAIN file.entry
      BY <2>1, BaseName DEF Upstream, RegularUpstream, BaseOf
    <3>2. N = 0
      <4> HIDE DEF N, b
      <4> QED BY <1>1, <3>1
    <3> QED BY <1>2, <3>1, <3>2
  <2>2. CASE capturefile # NULL
    <3>1. capturefile = b /\ cur_chunk # 0 /\ NextChunk = cur_chunk + 1
      BY <2>2, BaseName DEF AtStart, NextChunk
    <3>2. <<b, cur_chunk + 1>> \notin DOMAIN file.entry
      BY <3>1 DEF Opening, Has
    <3>3. cur_chunk = N
      <4> HIDE DEF N, b
      <4>1. cur_chunk + 1 \in Nat /\ 1 <= cur_chunk + 1
        BY <1>1, <1>2
      <4>2. ~(cur_chunk + 1 < 1 + N)
        BY <1>1, <3>2, <4>1
      <4> QED BY <1>1, <1>2, <4>2
    <3> QED BY <1>2, <3>1, <3>3
  <2> QED BY <2>1, <2>2
<1> QED
  BY <1>0, <1>2, <1>3, ChunksEnd

\* The next analog channel follows.
LEMMA NextAnalogStep ==
  ASSUME ReaderInv, Upstream, PlainPlace, ~cut, NextAnalog
  PROVE  PlainPlace'
<1> DEFINE ch == cur_analog_channel
<1>0. file \in Files /\ ch \in 0 .. file.analog /\ ch + 1 \in 0 .. file.analog
  BY FileTypes DEF ReaderInv, NextAnalog, AnalogToCome
<1>1. sent = Before(file, ch + 1)
  BY ChannelDone DEF NextAnalog, Plain
<1>2. sent = Upto(file, ch + 1, 0)
  BY <1>0, <1>1, UptoStart
<1>3. Count(file, BaseOf(ch + 1), 1) \in Nat
  BY <1>0, CountDef
<1>4. /\ capfile' = NoEntry /\ pos' = 0 /\ cur_chunk' = 0 /\ sent' = sent
      /\ file' = file /\ cur_analog_channel' = ch + 1
  BY DEF NextAnalog, PlainPlace, PlainAt
<1>5. PlainAt(file, ch + 1, NoEntry, 0, 0, sent)
  BY <1>2, <1>3 DEF PlainAt
<1> QED
  BY <1>4, <1>5 DEF PlainPlace

\* When a replay ends by itself, all data have been sent.
LEMMA PlainEnd ==
  ASSUME ReaderInv, Upstream, PlainPlace, ~cut', ~lossy', ~cut,
         \/ ReadEnd(FALSE) /\ Chunk = 0
         \/ OpenFails
         \/ AllChunks
  PROVE  sent = Data(file)
<1> DEFINE ch == cur_analog_channel
<1>0. file \in Files /\ ch \in 0 .. file.analog /\ file.analog \in Nat
  BY FileTypes DEF ReaderInv
<1>1. Data(file) = Before(file, file.analog + 1)
  BY <1>0, AllBefore DEF Data, Upstream
<1>2. CASE AllChunks
  <2>1. ch = file.analog
    BY <1>0, <1>2 DEF AllChunks, AnalogToCome
  <2> QED
    BY <1>1, <1>2, <2>1, ChannelDone DEF AllChunks, Plain
<1>3. CASE ReadEnd(FALSE) /\ Chunk = 0
  <2>1. running /\ Plain /\ (capfile # NoEntry \/ Opening) /\ Got = 0 /\ ch = 0
    BY <1>3 DEF ReadEnd, Plain
  <2>2. sent = Before(file, ch + 1)
    BY <1>3, <2>1, EntryDone
  <2>3. <<Logic, 0>> \in DOMAIN file.entry
    BY <1>3, <2>1, Opened DEF Within, BaseOf
  <2>4. file.analog = 0
    BY <1>0, <2>3 DEF Upstream, RegularUpstream
  <2> QED
    BY <1>1, <2>1, <2>2, <2>4
<1>4. CASE OpenFails
  <2>1. running /\ capfile = NoEntry /\ ~Opening /\ AtStart /\ ch = 0
    BY <1>4 DEF OpenFails, Plain
  <2>2. capturefile = Logic /\ file.enabled # <<>>
    BY <2>1 DEF AtStart, ReaderInv, Base, FirstCapture
  <2>3. <<Logic, 0>> \notin DOMAIN file.entry /\ <<Logic, 1>> \notin DOMAIN file.entry
    BY <2>1, <2>2 DEF Opening, NextChunk, Has
  <2>4. file.analog = 0
    BY <1>0, <2>2, <2>3 DEF Upstream, RegularUpstream
  <2>5. BaseOf(ch) = Logic /\ cur_chunk = 0
    BY <2>1 DEF BaseOf, AtStart
  <2>6. Count(file, Logic, 1) = 0
    <3> DEFINE N == Count(file, Logic, 1)
    <3>1. N \in Nat /\ \A m \in Nat : 1 <= m /\ m < 1 + N => <<Logic, m>> \in DOMAIN file.entry
      BY <1>0, CountDef
    <3> HIDE DEF N
    <3>2. N = 0
      BY <2>3, <3>1
    <3> QED BY <3>2 DEF N
  <2>7. sent = Upto(file, ch, 0)
    BY <2>1, <2>5 DEF PlainPlace, PlainAt
  <2>8. Upto(file, ch, 0) = Before(file, ch + 1)
    BY <1>0, <2>3, <2>5, <2>6, ChunksEnd
  <2> QED
    BY <1>1, <2>1, <2>4, <2>7, <2>8
<1> QED
  BY <1>2, <1>3, <1>4

-----------------------------------------------------------------------------
(* Replays of the format of PXView.                                        *)

\* The base of analog blocks, the place of the reader of blocks in its three phases
\* (logic, analog, end), and what has been sent up to there.
Analogs == <<"A", 0>>

PxvAt(f, phase, b, a, s) ==
  /\ phase \in 0 .. 2 /\ b \in 0 .. LogicCount(f)
  /\ phase = 0 => s = Joined(LogicBlocks(f))[b]
  /\ phase # 0 => a \in 0 .. Count(f, Analogs, 0) /\ s = All(LogicBlocks(f)) \o AnalogBlocks(a)
  /\ phase = 2 => a = Count(f, Analogs, 0)
PxvPlace == PxvAt(file, pxv_phase, pxv_cur_block, pxv_cur_analog_block, sent)

\* The file is regular and of PXView's format.
Pxview == file \in Files /\ IsPxv(file) /\ RegularPxv(file)

\* The channels of a device.
LEMMA EnabledTypes ==
  ASSUME NEW f \in Files
  PROVE  /\ ToSet(f.enabled) \subseteq Nat
         /\ f.enabled # <<>> => Head(f.enabled) \in ToSet(f.enabled)
         /\ \A k \in 1 .. Len(f.enabled) : f.enabled[k] \in ToSet(f.enabled)
         /\ \A c \in ToSet(f.enabled) : \E k \in 1 .. Len(f.enabled) : c = f.enabled[k]
<1>1. f.enabled \in Seq(Nat)
  BY FileTypes
<1>2. /\ ToSet(f.enabled) = {f.enabled[k] : k \in DOMAIN f.enabled}
      /\ DOMAIN f.enabled = 1 .. Len(f.enabled)
  BY <1>1 DEF ToSet
<1>3. f.enabled # <<>> => Head(f.enabled) = f.enabled[1] /\ 1 \in DOMAIN f.enabled
  BY <1>1
<1> QED
  BY <1>1, <1>2, <1>3

\* The blocks of a file.
LEMMA LogicCountDef ==
  ASSUME NEW f \in Files
  PROVE  /\ LogicCount(f) \in Nat
         /\ \A b \in Nat : b < LogicCount(f) => f.enabled # <<>> /\ Bitmap(f, b) \in DOMAIN f.entry
         /\ f.enabled # <<>> => Bitmap(f, LogicCount(f)) \notin DOMAIN f.entry
<1>1. CASE f.enabled = <<>>
  BY <1>1 DEF LogicCount
<1>2. CASE f.enabled # <<>>
  <2> DEFINE N == Count(f, <<"L", Head(f.enabled)>>, 0)
  <2>1. /\ N \in Nat
        /\ \A m \in Nat : 0 <= m /\ m < 0 + N => <<<<"L", Head(f.enabled)>>, m>> \in DOMAIN f.entry
        /\ <<<<"L", Head(f.enabled)>>, 0 + N>> \notin DOMAIN f.entry
    BY CountDef
  <2>2. LogicCount(f) = N
    BY <1>2 DEF LogicCount
  <2> HIDE DEF N
  <2>3. 0 + N = N
    BY <2>1
  <2> QED
    BY <1>2, <2>1, <2>2, <2>3 DEF Bitmap
<1> QED
  BY <1>1, <1>2

\* Their samples, block by block.
LEMMA LogicBlocksType ==
  ASSUME NEW f \in Files
  PROVE  /\ LogicBlocks(f) \in Seq(Seq(Items)) /\ Len(LogicBlocks(f)) = LogicCount(f)
         /\ \A b \in Nat : b < LogicCount(f) => LogicBlocks(f)[b + 1] = LogicBlock(f, b)
         /\ \A b \in Nat : b < LogicCount(f) => LogicBlock(f, b) \in Seq(Items)
<1>0. LogicCount(f) \in Nat
  BY LogicCountDef
<1>1. ASSUME NEW b \in Nat, b < LogicCount(f) PROVE LogicBlock(f, b) \in Seq(Items)
  <2> DEFINE n == f.entry[Bitmap(f, b)]
             C == {c \in ToSet(f.enabled) : <<<<"L", c>>, b>> \in DOMAIN f.entry}
  <2>1. n \in Nat
    BY <1>1, LogicCountDef, FileTypes
  <2>2. C \in SUBSET Nat
    BY EnabledTypes
  <2> HIDE DEF n, C
  <2>3. <<"L", b, n, C>> \in Items
    BY <2>1, <2>2 DEF Items
  <2>4. <<>> \in Seq(Items) /\ << <<"L", b, n, C>> >> \in Seq(Items)
    BY <2>3
  <2> QED
    BY <2>4 DEF LogicBlock, n, C
<1>2. \A k \in 1 .. LogicCount(f) : LogicBlock(f, k - 1) \in Seq(Items)
  BY <1>0, <1>1
<1>3. [k \in 1 .. LogicCount(f) |-> LogicBlock(f, k - 1)] \in Seq(Seq(Items))
  BY <1>0, <1>2
<1>4. LogicBlocks(f) \in Seq(Seq(Items)) /\ Len(LogicBlocks(f)) = LogicCount(f)
  BY <1>0, <1>3 DEF LogicBlocks
<1>5. ASSUME NEW b \in Nat, b < LogicCount(f) PROVE LogicBlocks(f)[b + 1] = LogicBlock(f, b)
  <2>1. b + 1 \in 1 .. LogicCount(f) /\ (b + 1) - 1 = b
    BY <1>0, <1>5
  <2> QED BY <2>1 DEF LogicBlocks
<1> QED
  BY <1>1, <1>4, <1>5

\* The samples of the first b blocks begin those of all of them.
LEMMA LogicJoined ==
  ASSUME NEW f \in Files, NEW b \in 0 .. LogicCount(f)
  PROVE  /\ Joined(LogicBlocks(f))[b] \in Seq(Items)
         /\ Begins(Joined(LogicBlocks(f))[b], All(LogicBlocks(f)))
         /\ b < LogicCount(f) =>
              Joined(LogicBlocks(f))[b + 1] = Joined(LogicBlocks(f))[b] \o LogicBlock(f, b)
         /\ b = LogicCount(f) => Joined(LogicBlocks(f))[b] = All(LogicBlocks(f))
         /\ Joined(LogicBlocks(f))[0] = <<>>
<1> DEFINE L == LogicBlocks(f)
<1>0. b \in Nat /\ LogicCount(f) \in Nat
  BY LogicCountDef
<1>1. /\ L \in Seq(Seq(Items)) /\ Len(L) = LogicCount(f)
      /\ b < LogicCount(f) => L[b + 1] = LogicBlock(f, b)
  BY <1>0, LogicBlocksType
<1> HIDE DEF L
<1>2. Len(L) \in Nat /\ b \in 0 .. Len(L)
  BY <1>0, <1>1
<1>3. Joined(L)[b] \in Seq(Items)
  BY <1>1, <1>2, JoinedType
<1>4. \E r \in Seq(Items) : All(L) = Joined(L)[b] \o r
  BY <1>1, <1>2, JoinedMore
<1>5. /\ Joined(L)[0] = <<>>
      /\ b + 1 <= Len(L) => Joined(L)[b + 1] = Joined(L)[b] \o L[b + 1]
  BY <1>0, <1>2, JoinedDef
<1>6. Begins(Joined(L)[b], All(L))
  BY <1>3, <1>4 DEF Begins
<1>7. b < LogicCount(f) => Joined(L)[b + 1] = Joined(L)[b] \o LogicBlock(f, b)
  <2> SUFFICES ASSUME b < LogicCount(f)
               PROVE  Joined(L)[b + 1] = Joined(L)[b] \o LogicBlock(f, b)
    OBVIOUS
  <2>1. b + 1 <= Len(L)
    BY <1>0, <1>1
  <2> QED BY <1>1, <1>5, <2>1, Zenon
<1>8. b = LogicCount(f) => Joined(L)[b] = All(L)
  BY <1>1 DEF All
<1> QED
  BY <1>3, <1>5, <1>6, <1>7, <1>8 DEF L

\* The analog blocks.
LEMMA AnalogBlocksType ==
  ASSUME NEW n \in Nat
  PROVE  /\ AnalogBlocks(n) \in Seq(Items) /\ Len(AnalogBlocks(n)) = n
         /\ \A k \in 1 .. n : AnalogBlocks(n)[k] = <<"A", k - 1>>
<1>1. \A k \in 1 .. n : <<"A", k - 1>> \in Items
  BY DEF Items
<1>2. [k \in 1 .. n |-> <<"A", k - 1>>] \in Seq(Items) /\ Len([k \in 1 .. n |-> <<"A", k - 1>>]) = n
  BY <1>1
<1>3. \A k \in 1 .. n : [i \in 1 .. n |-> <<"A", i - 1>>][k] = <<"A", k - 1>>
  OBVIOUS
<1> QED
  BY <1>2, <1>3, Zenon DEF AnalogBlocks

\* One more analog block.
LEMMA AnalogBlocksNext ==
  ASSUME NEW n \in Nat
  PROVE  AnalogBlocks(n + 1) = Append(AnalogBlocks(n), <<"A", n>>)
<1> DEFINE a == AnalogBlocks(n)
           c == AnalogBlocks(n + 1)
           t == Append(a, <<"A", n>>)
<1>0. <<"A", n>> \in Items /\ n + 1 \in Nat
  BY DEF Items
<1>1. a \in Seq(Items) /\ Len(a) = n /\ \A k \in 1 .. n : a[k] = <<"A", k - 1>>
  BY AnalogBlocksType
<1>2. c \in Seq(Items) /\ Len(c) = n + 1 /\ \A k \in 1 .. n + 1 : c[k] = <<"A", k - 1>>
  BY <1>0, AnalogBlocksType
<1> HIDE DEF a, c
<1>3. /\ t \in Seq(Items) /\ Len(t) = n + 1 /\ t[n + 1] = <<"A", n>>
      /\ \A k \in 1 .. n : t[k] = a[k]
  BY <1>0, <1>1, AppendProperties
<1> HIDE DEF t
<1>4. ASSUME NEW k \in 1 .. n + 1 PROVE t[k] = c[k]
  <2>0. c[k] = <<"A", k - 1>>
    BY <1>2
  <2>1. CASE k \in 1 .. n
    BY <1>1, <1>3, <2>0, <2>1, Zenon
  <2>2. CASE k = n + 1
    <3>1. k - 1 = n
      BY <2>2
    <3> QED BY <1>3, <2>0, <2>2, <3>1, Zenon
  <2> QED BY <2>1, <2>2
<1>5. t = c
  BY <1>2, <1>3, <1>4, SeqEqual
<1> QED
  BY <1>5 DEF t, a, c

\* Fewer analog blocks begin more of them.
LEMMA AnalogBegins ==
  ASSUME NEW n \in Nat
  PROVE  \A a \in 0 .. n : Begins(AnalogBlocks(a), AnalogBlocks(n))
<1> DEFINE S == {m \in Nat : \A a \in 0 .. m : Begins(AnalogBlocks(a), AnalogBlocks(m))}
<1>1. 0 \in S
  <2>1. Begins(AnalogBlocks(0), AnalogBlocks(0))
    BY AnalogBlocksType, BeginsSelf
  <2> QED BY <2>1
<1>2. ASSUME NEW m \in Nat, m \in S PROVE m + 1 \in S
  <2>1. m + 1 \in Nat /\ <<"A", m>> \in Items
    BY DEF Items
  <2>2. AnalogBlocks(m) \in Seq(Items) /\ AnalogBlocks(m + 1) \in Seq(Items)
    BY <2>1, AnalogBlocksType
  <2>3. AnalogBlocks(m + 1) = AnalogBlocks(m) \o << <<"A", m>> >>
    BY <2>1, <2>2, AnalogBlocksNext, AppendIsConcat
  <2>4. Begins(AnalogBlocks(m), AnalogBlocks(m + 1))
    <3>1. << <<"A", m>> >> \in Seq(Items)
      BY <2>1
    <3> QED BY <2>2, <2>3, <3>1 DEF Begins
  <2>5. ASSUME NEW a \in 0 .. m + 1 PROVE Begins(AnalogBlocks(a), AnalogBlocks(m + 1))
    <3>1. CASE a = m + 1
      BY <2>2, <3>1, BeginsSelf
    <3>2. CASE a \in 0 .. m
      BY <1>2, <2>4, <3>2, BeginsTrans
    <3> QED BY <3>1, <3>2
  <2> QED BY <2>1, <2>5
<1>3. Nat \subseteq S
  <2> HIDE DEF S
  <2> QED BY <1>1, <1>2, SetInduction
<1> QED
  BY <1>3

\* At every place of the reader of blocks, what has been sent begins the data.
LEMMA PxvBegins ==
  ASSUME NEW f \in Files, NEW phase, NEW b, NEW a, NEW s, PxvAt(f, phase, b, a, s), IsPxv(f)
  PROVE  Begins(s, Data(f))
<1> DEFINE N == Count(f, Analogs, 0)
           L == All(LogicBlocks(f))
<1>0. N \in Nat /\ LogicCount(f) \in Nat
  BY CountDef, LogicCountDef
<1>1. Data(f) = L \o AnalogBlocks(N)
  BY DEF Data, Analogs
<1>2. L \in Seq(Items)
  <2>1. LogicCount(f) \in 0 .. LogicCount(f)
    BY <1>0
  <2> QED BY <2>1, LogicJoined
<1>3. AnalogBlocks(N) \in Seq(Items)
  BY <1>0, AnalogBlocksType
<1>4. CASE phase = 0
  <2>1. b \in 0 .. LogicCount(f) /\ s = Joined(LogicBlocks(f))[b]
    BY <1>4 DEF PxvAt
  <2>2. Begins(s, L)
    BY <2>1, LogicJoined
  <2>3. Begins(L, L \o AnalogBlocks(N))
    <3> HIDE DEF L
    <3> QED BY <1>2, <1>3, BeginsConcat
  <2> QED BY <1>1, <2>2, <2>3, BeginsTrans
<1>5. CASE phase # 0
  <2>1. a \in 0 .. N /\ s = L \o AnalogBlocks(a)
    BY <1>5 DEF PxvAt
  <2>2. Begins(AnalogBlocks(a), AnalogBlocks(N))
    BY <1>0, <2>1, AnalogBegins
  <2>3. Begins(L \o AnalogBlocks(a), L \o AnalogBlocks(N))
    <3> HIDE DEF L, N
    <3> QED BY <1>2, <2>2, BeginsAfter
  <2> QED BY <1>1, <2>1, <2>3
<1> QED
  BY <1>4, <1>5

\* The size of a block is that of the first bitmap, and of all others.
LEMMA BlockSizes ==
  ASSUME Pxview, LogicLeft, NEW read \in SUBSET InBlock
  PROVE  /\ BlockSize(read) = Size(Entry(Head(file.enabled))) /\ BlockSize(read) \in Nat
         /\ \A c \in InBlock : Size(Entry(c)) = BlockSize(read)
<1> DEFINE h == Head(file.enabled)
<1>0. file \in Files /\ file.enabled # <<>> /\ Has(Entry(h))
  BY DEF Pxview, LogicLeft
<1>1. h \in ToSet(file.enabled)
  BY <1>0, EnabledTypes
<1>2. pxv_cur_block \in 0 .. MaxNumber
  <2>1. Entry(h)[2] \in 0 .. MaxNumber
    BY <1>0, VirtualSessionAssumption DEF Has
  <2> QED BY <2>1 DEF Entry
<1>3. ASSUME NEW c \in InBlock PROVE Size(Entry(c)) = Size(Entry(h))
  <2>1. c \in ToSet(file.enabled) /\ Has(Entry(c))
    BY DEF InBlock, Enabled
  <2> QED BY <1>0, <1>1, <1>2, <2>1 DEF Pxview, RegularPxv, Has, Entry, Size
<1>4. Size(Entry(h)) \in Nat
  BY <1>0, FileTypes DEF Has, Size
<1>5. BlockSize(read) = Size(Entry(h))
  <2> DEFINE filled == {k \in 1 .. Len(file.enabled) :
                          file.enabled[k] \in read /\ Size(Entry(file.enabled[k])) > 0}
  <2>1. BlockSize(read) = IF Size(Entry(h)) # 0 \/ filled = {} THEN Size(Entry(h))
                          ELSE Size(Entry(file.enabled[Min(filled)]))
    BY DEF BlockSize
  <2>2. Size(Entry(h)) = 0 => filled = {}
    BY <1>3
  <2> QED BY <2>1, <2>2
<1> QED
  BY <1>3, <1>4, <1>5

\* A block of logic data is sent.
LEMMA PxvLogicStep ==
  ASSUME ReaderInv, Pxview, PxvPlace, ~lossy', NEW opened \in SUBSET Enabled,
         NEW read \in SUBSET opened, PxvLogic(opened, read)
  PROVE  PxvPlace'
<1> DEFINE b == pxv_cur_block
           n == BlockSize(read)
           J == Joined(LogicBlocks(file))[b]
<1>0. file \in Files /\ LogicLeft /\ read = InBlock /\ opened \subseteq InBlock /\ pxv_phase = 0
  BY DEF Pxview, PxvLogic, LogicLeft
<1>1. b \in 0 .. LogicCount(file) /\ sent = J
  BY <1>0 DEF PxvPlace, PxvAt
<1>2. b \in Nat /\ LogicCount(file) \in Nat /\ b < LogicCount(file)
  <2>1. Bitmap(file, b) \in DOMAIN file.entry /\ file.enabled # <<>>
    BY <1>0 DEF LogicLeft, Has, Entry, Bitmap
  <2>2. LogicCount(file) \in Nat /\ b # LogicCount(file)
    BY <1>0, <2>1, LogicCountDef
  <2> QED BY <1>1, <2>2
<1>3. n = file.entry[Bitmap(file, b)]
  BY <1>0, BlockSizes DEF Size, Entry, Bitmap
<1>4. read = {c \in ToSet(file.enabled) : <<<<"L", c>>, b>> \in DOMAIN file.entry}
  BY <1>0 DEF InBlock, Enabled, Has, Entry
<1>5. LogicBlock(file, b) = IF n = 0 THEN <<>> ELSE << <<"L", b, n, read>> >>
  BY <1>3, <1>4 DEF LogicBlock
<1>6. J \in Seq(Items) /\ LogicBlock(file, b) \in Seq(Items)
  BY <1>0, <1>1, <1>2, LogicJoined, LogicBlocksType
<1>7. Joined(LogicBlocks(file))[b + 1] = J \o LogicBlock(file, b)
  BY <1>0, <1>1, <1>2, LogicJoined
<1>8. sent' = J \o LogicBlock(file, b)
  <2>1. sent' = IF n = 0 THEN J ELSE Append(J, <<"L", b, n, read>>)
    BY <1>1 DEF PxvLogic
  <2>2. CASE n = 0
    <3>1. J \o <<>> = J
      <4> HIDE DEF J
      <4> QED BY <1>6, ConcatEmptySeq
    <3> QED BY <1>5, <2>1, <2>2, <3>1
  <2>3. CASE n # 0
    <3>1. <<"L", b, n, read>> \in Items
      BY <1>0, <1>2, BlockSizes, EnabledTypes DEF Items, InBlock, Enabled
    <3>2. Append(J, <<"L", b, n, read>>) = J \o << <<"L", b, n, read>> >>
      <4> HIDE DEF J, b, n
      <4> QED BY <1>6, <3>1, AppendIsConcat
    <3> QED BY <1>5, <2>1, <2>3, <3>2
  <2> QED BY <2>2, <2>3
<1>9. /\ file' = file /\ pxv_phase' = 0 /\ pxv_cur_block' = b + 1
      /\ pxv_cur_analog_block' = pxv_cur_analog_block
  BY <1>0 DEF PxvLogic, NextBlock
<1>10. PxvAt(file, 0, b + 1, pxv_cur_analog_block, sent')
  BY <1>2, <1>7, <1>8 DEF PxvAt
<1> QED
  BY <1>9, <1>10 DEF PxvPlace

\* When no logic data are left, all have been sent, and some analog blocks.
LEMMA PxvLogicDone ==
  ASSUME Pxview, PxvPlace, ~LogicLeft
  PROVE  /\ AnalogBlock \in 0 .. Count(file, Analogs, 0)
         /\ sent = All(LogicBlocks(file)) \o AnalogBlocks(AnalogBlock)
<1> DEFINE b == pxv_cur_block
<1>0. file \in Files
  BY DEF Pxview
<1>1. CASE pxv_phase # 0
  BY <1>1 DEF PxvPlace, PxvAt, AnalogBlock
<1>2. CASE pxv_phase = 0
  <2>1. b \in 0 .. LogicCount(file) /\ sent = Joined(LogicBlocks(file))[b]
    BY <1>2 DEF PxvPlace, PxvAt
  <2>2. LogicCount(file) \in Nat /\ b \in Nat
    BY <1>0, <2>1, LogicCountDef
  <2>3. b = LogicCount(file)
    <3> SUFFICES ASSUME b < LogicCount(file) PROVE FALSE
      BY <2>1, <2>2
    <3>1. 0 < LogicCount(file) /\ 0 \in Nat
      BY <2>2
    <3>2. /\ file.enabled # <<>> /\ Bitmap(file, b) \in DOMAIN file.entry
          /\ Bitmap(file, 0) \in DOMAIN file.entry
      BY <1>0, <2>2, <3>1, LogicCountDef
    <3>3. file.unitsize > 0
      BY <3>2 DEF Pxview, RegularPxv, Bitmap
    <3> QED
      BY <1>2, <3>2, <3>3 DEF LogicLeft, Has, Entry, Bitmap
  <2>4. sent = All(LogicBlocks(file)) /\ All(LogicBlocks(file)) \in Seq(Items)
    BY <1>0, <2>1, <2>3, LogicJoined
  <2>5. AnalogBlock = 0 /\ AnalogBlocks(0) = <<>>
    BY <1>2 DEF AnalogBlock, AnalogBlocks
  <2>6. Count(file, Analogs, 0) \in Nat
    BY <1>0, CountDef
  <2> QED
    BY <2>4, <2>5, <2>6, ConcatEmptySeq
<1> QED
  BY <1>1, <1>2

\* An analog block is sent.
LEMMA PxvAnalogStep ==
  ASSUME ReaderInv, Pxview, PxvPlace, ~lossy', NEW short \in BOOLEAN, PxvAnalog(short)
  PROVE  PxvPlace'
<1> DEFINE a == AnalogBlock
           N == Count(file, Analogs, 0)
           L == All(LogicBlocks(file))
<1>0. file \in Files /\ ~LogicLeft /\ AnalogLeft /\ ~short
  BY DEF Pxview, PxvAnalog
<1>1. a \in 0 .. N /\ sent = L \o AnalogBlocks(a)
  BY <1>0, PxvLogicDone
<1>2. N \in Nat /\ <<Analogs, 0 + N>> \notin DOMAIN file.entry
  BY <1>0, CountDef
<1>3. <<Analogs, a>> \in DOMAIN file.entry
  BY <1>0 DEF AnalogLeft, AnalogEntry, Has, Analogs
<1>4. a + 1 \in 0 .. N /\ a \in Nat
  <2> HIDE DEF a, N
  <2>1. a # N
    BY <1>2, <1>3
  <2> QED BY <1>1, <1>2, <2>1
<1>5. L \in Seq(Items) /\ AnalogBlocks(a) \in Seq(Items) /\ <<"A", a>> \in Items
  <2>1. LogicCount(file) \in 0 .. LogicCount(file)
    BY <1>0, LogicCountDef
  <2>2. L \in Seq(Items)
    BY <1>0, <2>1, LogicJoined
  <2>3. AnalogBlocks(a) \in Seq(Items) /\ <<"A", a>> \in Items
    BY <1>4, AnalogBlocksType DEF Items
  <2> QED BY <2>2, <2>3
<1>6. Append(sent, <<"A", a>>) = L \o AnalogBlocks(a + 1)
  <2> DEFINE A == AnalogBlocks(a)
             x == <<"A", a>>
  <2>1. AnalogBlocks(a + 1) = Append(A, x)
    BY <1>4, AnalogBlocksNext
  <2>2. A \in Seq(Items) /\ x \in Items /\ L \in Seq(Items) /\ sent = L \o A
    BY <1>1, <1>5
  <2> HIDE DEF A, x, L
  <2>3. Append(A, x) = A \o <<x>> /\ Append(L \o A, x) = (L \o A) \o <<x>>
    BY <2>2, AppendIsConcat, ConcatProperties
  <2>4. (L \o A) \o <<x>> = L \o (A \o <<x>>)
    <3>1. <<x>> \in Seq(Items)
      BY <2>2
    <3> QED BY <2>2, <3>1, ConcatAssociative, SMTT(30)
  <2>5. Append(sent, x) = L \o AnalogBlocks(a + 1)
    BY <2>1, <2>2, <2>3, <2>4, Zenon
  <2> QED BY <2>5 DEF x
<1>7. /\ file' = file /\ pxv_phase' = 1 /\ pxv_cur_block' = pxv_cur_block
      /\ pxv_cur_analog_block' = a + 1 /\ sent' = Append(sent, <<"A", a>>)
  BY <1>0 DEF PxvAnalog
<1>8. pxv_cur_block \in 0 .. LogicCount(file)
  BY DEF PxvPlace, PxvAt
<1>9. PxvAt(file, 1, pxv_cur_block, a + 1, sent')
  <2>1. sent' = L \o AnalogBlocks(a + 1)
    BY <1>6, <1>7, Zenon
  <2> HIDE DEF a
  <2> QED BY <1>4, <1>8, <2>1 DEF PxvAt
<1> QED
  BY <1>7, <1>9 DEF PxvPlace

\* When no analog data are left either, all data have been sent.
LEMMA PxvDone ==
  ASSUME Pxview, PxvPlace, ~LogicLeft, ~AnalogLeft
  PROVE  AnalogBlock = Count(file, Analogs, 0) /\ sent = Data(file)
<1> DEFINE a == AnalogBlock
           N == Count(file, Analogs, 0)
<1>0. file \in Files
  BY DEF Pxview
<1>1. a \in 0 .. N /\ sent = All(LogicBlocks(file)) \o AnalogBlocks(a)
  BY PxvLogicDone
<1>2. N \in Nat /\ \A m \in Nat : 0 <= m /\ m < 0 + N => <<Analogs, m>> \in DOMAIN file.entry
  BY <1>0, CountDef
<1>3. a = N
  <2> SUFFICES ASSUME a # N PROVE FALSE
    OBVIOUS
  <2>1. a \in Nat /\ a < 0 + N /\ 0 <= a /\ 0 < 0 + N /\ 0 \in Nat
    BY <1>1, <1>2
  <2>2. <<Analogs, a>> \in DOMAIN file.entry /\ <<Analogs, 0>> \in DOMAIN file.entry
    <3> HIDE DEF a, N
    <3> QED BY <1>2, <2>1
  <2>3. file.analog > 0 /\ file.atype = "analog"
    BY <2>2 DEF Pxview, RegularPxv, Analogs
  <2>4. Has(AnalogEntry)
    BY <2>2 DEF Has, AnalogEntry, Analogs
  <2>5. pxv_phase \in 0 .. 2 /\ ~(pxv_phase < 2)
    BY <2>3, <2>4 DEF AnalogLeft, PxvPlace, PxvAt
  <2>6. pxv_phase = 2
    BY <2>5
  <2> QED
    BY <2>6 DEF PxvPlace, PxvAt, AnalogBlock
<1>4. Data(file) = All(LogicBlocks(file)) \o AnalogBlocks(N)
  BY DEF Data, Pxview, Analogs
<1> QED
  BY <1>1, <1>3, <1>4

\* DSO data are sent: the place among the logic and analog data stays.
LEMMA PxvDsoStep ==
  ASSUME ReaderInv, Pxview, PxvPlace, NEW read \in SUBSET InDso, PxvDso(read)
  PROVE  PxvPlace'
<1>1. ~LogicLeft /\ ~AnalogLeft
  BY DEF PxvDso
<1>2. /\ AnalogBlock = Count(file, Analogs, 0) /\ AnalogBlock \in 0 .. Count(file, Analogs, 0)
      /\ sent = All(LogicBlocks(file)) \o AnalogBlocks(AnalogBlock)
  BY <1>1, PxvDone, PxvLogicDone
<1>3. /\ file' = file /\ pxv_phase' = 2 /\ pxv_cur_block' = pxv_cur_block /\ sent' = sent
      /\ pxv_cur_analog_block' = AnalogBlock
  BY DEF PxvDso
<1>4. pxv_cur_block \in 0 .. LogicCount(file)
  BY DEF PxvPlace, PxvAt
<1>5. PxvAt(file, 2, pxv_cur_block, AnalogBlock, sent)
  BY <1>2, <1>4 DEF PxvAt
<1> QED
  BY <1>3, <1>5 DEF PxvPlace

-----------------------------------------------------------------------------
(* All replays.                                                            *)

\* Every session file is regular, see VirtualSession.
AllRegular == \A f \in Files : Regular(f)

\* The inductive invariant: the place of the reader says exactly what has been sent, as
\* long as it reads; what has been sent begins the data; and a replay that has ended by
\* itself has sent all of them.
ReplayInv ==
  /\ ReaderInv
  /\ Good /\ running /\ ~finished => IF pxv_format THEN PxvPlace ELSE PlainPlace
  /\ Good => Begins(sent, Data(file))
  /\ Good /\ runs > 0 /\ ~running /\ ~stopped => sent = Data(file)

\* A replay runs in the format of its file.
LEMMA Kinds ==
  ASSUME AllRegular, ReaderInv, running
  PROVE  (pxv_format => Pxview) /\ (~pxv_format => Upstream)
  BY DEF AllRegular, Regular, ReaderInv, Pxview, Upstream

\* The data of an archive are a sequence, and the empty one begins them.
LEMMA DataBegins == ASSUME NEW f \in Files PROVE Begins(<<>>, Data(f))
<1>1. Data(f) \in Seq(Items)
  <2>1. CASE IsPxv(f)
    <3>0. LogicCount(f) \in Nat
      BY LogicCountDef
    <3>a. LogicCount(f) \in 0 .. LogicCount(f)
      BY <3>0
    <3>1. Count(f, Analogs, 0) \in Nat
      BY CountDef
    <3>2. All(LogicBlocks(f)) \in Seq(Items)
      BY <3>0, <3>a, LogicJoined
    <3>3. AnalogBlocks(Count(f, Analogs, 0)) \in Seq(Items)
      BY <3>1, AnalogBlocksType
    <3> QED BY <2>1, <3>2, <3>3, ConcatProperties DEF Data, Analogs
  <2>2. CASE ~IsPxv(f)
    <3>1. f.analog + 1 \in 0 .. f.analog + 1
      BY FileTypes
    <3> QED BY <2>2, <3>1, AllBefore, BeforeType DEF Data
  <2> QED BY <2>1, <2>2
<1>2. Data(f) = <<>> \o Data(f) /\ <<>> \in Seq(Items)
  BY <1>1, ConcatEmptySeq
<1> QED
  BY <1>1, <1>2 DEF Begins

\* A replay starts at the first entry.
LEMMA StartStep ==
  ASSUME ReplayInv, NEW ok \in BOOLEAN, Start(ok)
  PROVE  ReplayInv'
<1>0. /\ file \in Files /\ file' = file /\ ~running /\ capfile = NoEntry /\ pos = 0
      /\ 0 \in 0 .. file.analog
  BY FileTypes DEF ReplayInv, ReaderInv, Start
<1>1. /\ cur_analog_channel' = 0 /\ cur_chunk' = 0 /\ finished' = FALSE /\ running' = ok
      /\ capfile' = NoEntry /\ pos' = 0 /\ capturefile' = capturefile /\ cut' = cut
      /\ sent' = <<>> /\ stopped' = FALSE /\ lossy' = ~ok
  BY <1>0 DEF Start
<1>2. ok => pxv_format' = IsPxv(file) /\ pxv_phase' = 0 /\ pxv_cur_block' = 0
  BY DEF Start
<1>3. ~cut => capturefile = FirstCapture(file)
  BY <1>0 DEF ReplayInv, ReaderInv
<1>4. ReaderInv'
  BY <1>0, <1>1, <1>2, <1>3 DEF ReaderInv, Base
<1>5. PlainAt(file, 0, NoEntry, 0, 0, <<>>)
  <2>1. Upto(file, 0, 0) = Before(file, 0)
    BY <1>0, UptoStart
  <2>2. Before(file, 0) = <<>>
    <3> DEFINE C == Channels(file)
    <3>1. C \in Seq(Seq(Items))
      BY <1>0, ChannelsType
    <3> HIDE DEF C
    <3>2. Len(C) \in Nat
      BY <3>1
    <3>3. Joined(C)[0] = <<>>
      BY <3>2, JoinedDef
    <3> QED BY <3>3 DEF Before, C
  <2>3. Count(file, BaseOf(0), 1) \in Nat
    BY <1>0, CountDef
  <2> QED BY <2>1, <2>2, <2>3 DEF PlainAt
<1>6. ASSUME NEW a PROVE PxvAt(file, 0, 0, a, <<>>)
  <2>1. LogicCount(file) \in Nat /\ 0 \in 0 .. LogicCount(file)
    BY <1>0, LogicCountDef
  <2>2. Joined(LogicBlocks(file))[0] = <<>>
    BY <1>0, <2>1, LogicJoined
  <2> QED BY <2>1, <2>2 DEF PxvAt
<1>7. ASSUME ok PROVE IF pxv_format' THEN PxvPlace' ELSE PlainPlace'
  BY <1>0, <1>1, <1>2, <1>5, <1>6, <1>7 DEF PxvPlace, PlainPlace
<1>8. Begins(<<>>, Data(file))
  BY <1>0, DataBegins
<1> QED
  BY <1>0, <1>1, <1>4, <1>7, <1>8 DEF ReplayInv, Good

\* A replay is stopped: what was sent stays.
LEMMA StopStep == ReplayInv /\ (Stop \/ Finish) => ReplayInv'
<1> SUFFICES ASSUME ReplayInv, Stop \/ Finish PROVE ReplayInv'
  OBVIOUS
<1>0. /\ file' = file /\ sent' = sent /\ lossy' = lossy /\ (~cut' => ~cut) /\ finished' = TRUE
      /\ cur_analog_channel' = cur_analog_channel /\ capturefile' = capturefile
      /\ stopped' /\ pxv_format' = pxv_format /\ running
  <2>1. CASE Stop
    BY <2>1 DEF Stop, reader
  <2>2. CASE Finish
    <3>1. running /\ finished /\ stopped
      BY <2>2 DEF Finish, ReplayInv, ReaderInv
    <3>2. ~cut' => ~cut
      BY <2>2 DEF Finish
    <3>3. /\ file' = file /\ sent' = sent /\ finished' = TRUE /\ stopped' = stopped
          /\ pxv_format' = pxv_format
      BY <2>2 DEF Finish, End
    <3>4. lossy' = lossy /\ cur_analog_channel' = cur_analog_channel /\ capturefile' = capturefile
      BY <2>2 DEF Finish
    <3> QED BY <3>1, <3>2, <3>3, <3>4
  <2> QED BY <2>1, <2>2
<1>1. ReaderInv'
  <2>1. CASE Stop
    BY <1>0, <2>1 DEF Stop, reader, ReplayInv, ReaderInv
  <2>2. CASE Finish
    <3>1. ~running' /\ capfile' = NoEntry /\ pos' = 0 /\ (~cut' => cur_analog_channel = 0)
      BY <2>2 DEF Finish, End, CloseCapfile
    <3> QED BY <1>0, <3>1 DEF ReplayInv, ReaderInv, Base
  <2> QED BY <2>1, <2>2
<1> QED
  BY <1>0, <1>1 DEF ReplayInv, Good

\* A step that goes on in the archive.
LEMMA GoOn ==
  ASSUME AllRegular, ReaderInv', running', ~finished',
         Good' => (IF pxv_format' THEN PxvPlace' ELSE PlainPlace')
  PROVE  ReplayInv'
<1>0. file' \in Files /\ cur_analog_channel' \in 0 .. file'.analog
      /\ (pxv_format' <=> IsPxv(file'))
  BY DEF ReaderInv
<1>1. ASSUME Good' PROVE Begins(sent', Data(file'))
  <2>1. CASE pxv_format'
    BY <1>0, <1>1, <2>1, PxvBegins DEF PxvPlace
  <2>2. CASE ~pxv_format'
    <3>1. Begins(sent', All(Channels(file')))
      BY <1>0, <1>1, <2>2, PlainBegins DEF PlainPlace
    <3> QED BY <1>0, <2>2, <3>1 DEF Data
  <2> QED BY <2>1, <2>2
<1> QED
  BY <1>1 DEF ReplayInv

\* A step that ends a replay.
LEMMA EndIt ==
  ASSUME ReplayInv, End, running, Good' => Good /\ sent = Data(file),
         ~cut' => ~cut /\ capturefile' = FirstCapture(file),
         cur_analog_channel' = cur_analog_channel
  PROVE  ReplayInv'
<1>0. /\ file' = file /\ sent' = sent /\ ~running' /\ finished' /\ capfile' = NoEntry /\ pos' = 0
  BY DEF End, CloseCapfile
<1>1. ReaderInv'
  BY <1>0 DEF ReplayInv, ReaderInv
<1>2. Good' => Begins(sent', Data(file'))
  BY <1>0 DEF ReplayInv
<1>3. Good' => sent' = Data(file')
  BY <1>0
<1> QED
  BY <1>0, <1>1, <1>2, <1>3 DEF ReplayInv

\* The steps of an upstream replay.
LEMMA PlainStep ==
  ASSUME AllRegular, ReplayInv, Plain,
         \/ Read \/ ReadIgnored \/ OpenFails \/ NextAnalog \/ AllChunks
         \/ \E failed \in BOOLEAN : ReadEnd(failed)
  PROVE  ReplayInv'
<1>0. running /\ ~finished /\ ~pxv_format /\ ReaderInv /\ (Good => PlainPlace)
  BY DEF Plain, ReplayInv
<1>1. Upstream
  BY <1>0, Kinds
<1>2. CASE Read
  <2>1. ReaderInv'
    <3>1. /\ file' = file /\ cur_analog_channel' = cur_analog_channel /\ running' = running
          /\ pxv_format' = pxv_format /\ finished' = finished /\ capturefile' = capturefile
          /\ cut' = cut /\ stopped' = stopped
      BY <1>2 DEF Read, history
    <3> QED BY <1>0, <3>1 DEF ReaderInv
  <2>2. /\ (Good' => Good) /\ running' = running /\ finished' = finished /\ pxv_format' = pxv_format
    BY <1>2 DEF Read, history, Good
  <2>3. Good => PlainPlace'
    BY <1>0, <1>1, <1>2, ReadStep DEF Good
  <2> QED
    BY <1>0, <2>1, <2>2, <2>3, GoOn
<1>3. CASE NextAnalog
  <2>1. ReaderInv'
    <3>1. /\ file' = file /\ cur_analog_channel' = cur_analog_channel + 1 /\ running' = running
          /\ cur_analog_channel < file.analog
          /\ pxv_format' = pxv_format /\ finished' = finished
          /\ capturefile' = AnalogBase(cur_analog_channel + 1)
          /\ cut' = cut /\ stopped' = stopped
      BY <1>3 DEF NextAnalog, history, AnalogToCome
    <3>2. cur_analog_channel' \in 0 .. file.analog /\ cur_analog_channel' # 0
      BY <1>0, <3>1, FileTypes DEF ReaderInv
    <3> QED BY <1>0, <3>1, <3>2 DEF ReaderInv, Base
  <2>2. /\ (Good' => Good) /\ running' = running /\ finished' = finished /\ pxv_format' = pxv_format
    BY <1>3 DEF NextAnalog, history, Good
  <2>3. Good => PlainPlace'
    BY <1>0, <1>1, <1>3, NextAnalogStep DEF Good
  <2> QED
    BY <1>0, <2>1, <2>2, <2>3, GoOn
<1>4. ASSUME NEW failed \in BOOLEAN, ReadEnd(failed), Chunk # 0 PROVE ReplayInv'
  <2>0. /\ file' = file /\ cur_analog_channel' = cur_analog_channel /\ running' = running
        /\ pxv_format' = pxv_format /\ finished' = finished /\ capturefile' = capturefile
        /\ cut' = cut /\ stopped' = stopped /\ (~lossy' => ~lossy /\ ~failed)
    BY <1>4 DEF ReadEnd
  <2>1. ReaderInv'
    BY <1>0, <2>0 DEF ReaderInv
  <2>2. ASSUME Good' PROVE PlainPlace'
    <3>1. ~cut /\ ~lossy /\ failed = FALSE
      BY <2>0, <2>2 DEF Good
    <3> QED BY <1>0, <1>1, <1>4, <3>1, ReadEndStep DEF Good
  <2> QED
    BY <1>0, <2>0, <2>1, <2>2, GoOn
<1>5. ASSUME NEW failed \in BOOLEAN, ReadEnd(failed), Chunk = 0 PROVE ReplayInv'
  <2>0. /\ End /\ cur_analog_channel' = cur_analog_channel /\ capturefile' = capturefile
        /\ (~cut' => ~cut /\ cur_analog_channel = 0) /\ (~lossy' => ~lossy /\ ~failed)
    BY <1>5 DEF ReadEnd
  <2>1. ~cut' => capturefile' = FirstCapture(file)
    BY <1>0, <2>0 DEF ReaderInv, Base
  <2>2. ASSUME Good' PROVE Good /\ sent = Data(file)
    <3>1. ~cut /\ ~lossy /\ failed = FALSE /\ ~cut' /\ ~lossy'
      BY <2>0, <2>2 DEF Good
    <3> QED BY <1>0, <1>1, <1>5, <3>1, PlainEnd DEF Good
  <2> QED
    BY <1>0, <2>0, <2>1, <2>2, EndIt
<1>6. CASE OpenFails
  <2>0. /\ End /\ cur_analog_channel' = cur_analog_channel /\ capturefile' = capturefile
        /\ (~cut' => ~cut /\ cur_analog_channel = 0) /\ (~lossy' => ~lossy)
    <3>1. lossy' = TRUE \/ lossy' = lossy
      BY <1>6, Zenon DEF OpenFails
    <3>2. /\ End /\ cur_analog_channel' = cur_analog_channel /\ capturefile' = capturefile
      BY <1>6 DEF OpenFails
    <3>3. ~cut' => ~cut /\ cur_analog_channel = 0
      BY <1>6 DEF OpenFails
    <3>4. ~lossy' => ~lossy
      <4>1. CASE lossy' = TRUE
        BY <4>1
      <4>2. CASE lossy' = lossy
        BY <4>2
      <4> QED BY <3>1, <4>1, <4>2
    <3> QED BY <3>2, <3>3, <3>4
  <2>1. ~cut' => capturefile' = FirstCapture(file)
    BY <1>0, <2>0 DEF ReaderInv, Base
  <2>2. ASSUME Good' PROVE Good /\ sent = Data(file)
    <3>1. ~cut /\ ~lossy /\ ~cut' /\ ~lossy'
      BY <2>0, <2>2 DEF Good
    <3> QED BY <1>0, <1>1, <1>6, <3>1, PlainEnd DEF Good
  <2> QED
    BY <1>0, <2>0, <2>1, <2>2, EndIt
<1>7. CASE AllChunks
  <2>0. /\ End /\ cur_analog_channel' = cur_analog_channel /\ capturefile' = FirstCapture(file)
        /\ cut' = cut /\ lossy' = lossy
    BY <1>7 DEF AllChunks, CaptureAtEnd
  <2>2. ASSUME Good' PROVE Good /\ sent = Data(file)
    <3>1. ~cut /\ ~lossy /\ ~cut' /\ ~lossy'
      BY <2>0, <2>2 DEF Good
    <3> QED BY <1>0, <1>1, <1>7, <3>1, PlainEnd DEF Good
  <2> QED
    BY <1>0, <2>0, <2>2, EndIt
<1>8. CASE ReadIgnored
  <2>0. /\ End /\ cur_analog_channel' = cur_analog_channel /\ capturefile' = capturefile
        /\ cut' = cut /\ lossy' /\ cur_analog_channel = 0
    BY <1>8 DEF ReadIgnored
  <2>1. ~cut' => capturefile' = FirstCapture(file)
    BY <1>0, <2>0 DEF ReaderInv, Base
  <2>2. ~Good'
    BY <2>0 DEF Good
  <2> QED
    BY <1>0, <2>0, <2>1, <2>2, EndIt
<1> QED
  BY <1>2, <1>3, <1>4, <1>5, <1>6, <1>7, <1>8

\* The steps of a replay of PXView's format.
LEMMA PxvStep ==
  ASSUME AllRegular, ReplayInv, Pxv,
         \/ \E opened \in SUBSET Enabled : \E read \in SUBSET opened : PxvLogic(opened, read)
         \/ \E short \in BOOLEAN : PxvAnalog(short)
         \/ \E read \in SUBSET InDso : PxvDso(read)
         \/ PxvEnd
  PROVE  ReplayInv'
<1>0. running /\ ~finished /\ pxv_format /\ ReaderInv /\ (Good => PxvPlace)
  BY DEF Pxv, ReplayInv
<1>1. Pxview
  BY <1>0, Kinds
<1>2. ASSUME NEW opened \in SUBSET Enabled, NEW read \in SUBSET opened, PxvLogic(opened, read)
      PROVE  ReplayInv'
  <2>0. /\ UNCHANGED <<file, reader, finished, pxv_format, running, cut, stopped>>
        /\ ~lossy' => ~lossy
    BY <1>2 DEF PxvLogic
  <2>1. ReaderInv'
    BY <1>0, <2>0 DEF ReaderInv, reader
  <2>2. ASSUME Good' PROVE PxvPlace'
    <3>1. PxvPlace /\ ~lossy'
      BY <1>0, <2>0, <2>2 DEF Good
    <3> QED BY <1>0, <1>1, <1>2, <3>1, PxvLogicStep
  <2> QED BY <1>0, <2>0, <2>1, <2>2, GoOn
<1>3. ASSUME NEW short \in BOOLEAN, PxvAnalog(short) PROVE ReplayInv'
  <2>0. /\ UNCHANGED <<file, reader, finished, pxv_format, running, cut, stopped>>
        /\ ~lossy' => ~lossy
    BY <1>3 DEF PxvAnalog
  <2>1. ReaderInv'
    BY <1>0, <2>0 DEF ReaderInv, reader
  <2>2. ASSUME Good' PROVE PxvPlace'
    <3>1. PxvPlace /\ ~lossy'
      BY <1>0, <2>0, <2>2 DEF Good
    <3> QED BY <1>0, <1>1, <1>3, <3>1, PxvAnalogStep
  <2> QED BY <1>0, <2>0, <2>1, <2>2, GoOn
<1>4. ASSUME NEW read \in SUBSET InDso, PxvDso(read) PROVE ReplayInv'
  <2>0. /\ UNCHANGED <<file, reader, finished, pxv_format, running, cut, stopped>>
        /\ ~lossy' => ~lossy
    BY <1>4 DEF PxvDso
  <2>1. ReaderInv'
    BY <1>0, <2>0 DEF ReaderInv, reader
  <2>2. ASSUME Good' PROVE PxvPlace'
    <3>1. PxvPlace
      BY <1>0, <2>0, <2>2 DEF Good
    <3> QED BY <1>0, <1>1, <1>4, <3>1, PxvDsoStep
  <2> QED BY <1>0, <2>0, <2>1, <2>2, GoOn
<1>5. CASE PxvEnd
  <2>0. /\ End /\ cur_analog_channel' = cur_analog_channel /\ capturefile' = capturefile
        /\ cut' = cut /\ (~lossy' => ~lossy /\ ~AnalogLeft) /\ ~LogicLeft
    BY <1>5 DEF PxvEnd
  <2>1. ~cut' => ~cut /\ capturefile' = FirstCapture(file)
    BY <1>0, <2>0 DEF ReaderInv, Base
  <2>2. ASSUME Good' PROVE Good /\ sent = Data(file)
    <3>1. Good /\ PxvPlace /\ ~LogicLeft /\ ~AnalogLeft
      BY <1>0, <2>0, <2>2 DEF Good
    <3> QED BY <1>1, <3>1, PxvDone
  <2> QED BY <1>0, <2>0, <2>1, <2>2, EndIt
<1> QED
  BY <1>2, <1>3, <1>4, <1>5

\* Every step preserves the invariant.
LEMMA ReplayStep == AllRegular /\ ReplayInv /\ [Next]_vars => ReplayInv'
<1> SUFFICES ASSUME AllRegular, ReplayInv, [Next]_vars PROVE ReplayInv'
  OBVIOUS
<1>1. CASE receive_data
  <2>1. CASE Finish
    BY <2>1, StopStep
  <2>2. CASE \/ Read \/ ReadIgnored \/ OpenFails \/ NextAnalog \/ AllChunks
             \/ \E failed \in BOOLEAN : ReadEnd(failed)
    <3>1. Plain
      BY <2>2 DEF Read, ReadIgnored, OpenFails, NextAnalog, AllChunks, ReadEnd
    <3> QED BY <2>2, <3>1, PlainStep
  <2>3. CASE \/ \E opened \in SUBSET Enabled : \E read \in SUBSET opened : PxvLogic(opened, read)
             \/ \E short \in BOOLEAN : PxvAnalog(short)
             \/ \E read \in SUBSET InDso : PxvDso(read)
             \/ PxvEnd
    <3>1. Pxv
      BY <2>3 DEF PxvLogic, PxvAnalog, PxvDso, PxvEnd
    <3> QED BY <2>3, <3>1, PxvStep
  <2> QED BY <1>1, <2>1, <2>2, <2>3 DEF receive_data
<1>2. CASE UNCHANGED vars
  <2>1. UNCHANGED <<file, capturefile, capfile, pos, cur_chunk, cur_analog_channel, finished,
                    pxv_format, pxv_phase, pxv_cur_block, pxv_cur_analog_block, running, sent,
                    cut, stopped, lossy, runs>>
    BY <1>2 DEF vars, reader, pxv, history
  <2> QED
    BY <2>1 DEF ReplayInv, ReaderInv, Good, PxvPlace, PlainPlace
<1> QED
  BY <1>1, <1>2, StartStep, StopStep DEF Next

\* Replays of session files with any number of channels, chunks and blocks of any size, in
\* either format, one after the other: receive_data() sends the data of a regular file in
\* their order, none twice and none left out, and all of them before it removes its source
\* by itself.
THEOREM ReplaysFaithful == AllRegular => (Spec => []Faithful)
<1> SUFFICES ASSUME AllRegular PROVE Spec => []Faithful
  OBVIOUS
<1>1. Init => ReplayInv
  <2> SUFFICES ASSUME Init PROVE ReplayInv
    OBVIOUS
  <2>1. file \in Files /\ 0 \in 0 .. file.analog
    BY FileTypes DEF Init
  <2>2. Begins(<<>>, Data(file))
    BY <2>1, DataBegins
  <2> QED BY <2>1, <2>2 DEF Init, ReplayInv, ReaderInv, Good
<1>2. ReplayInv => Faithful
  BY BeginsPrefix DEF ReplayInv, Faithful, Good
<1>3. ReplayInv /\ [Next]_vars => ReplayInv'
  BY ReplayStep
<1> QED
  BY <1>1, <1>2, <1>3, PTL DEF Spec

\* The units of a sample hold its channels.
LEMMA UnitFits ==
  ASSUME NEW q \in Nat, NEW n \in Nat, q * Byte < n
  PROVE  q < Units(n)
<1> DEFINE u == (n + Byte - 1) \div Byte
           r == (n + Byte - 1) % Byte
<1>0. Byte \in Nat \ {0} /\ n + Byte - 1 \in Nat
  BY VirtualSessionAssumption
<1>1. u \in Nat /\ r \in 0 .. Byte - 1 /\ n + Byte - 1 = Byte * u + r
  BY <1>0, Division
<1> HIDE DEF u, r
<1>2. q * Byte < u * Byte
  BY <1>0, <1>1
<1>3. q < u
  <2> SUFFICES ASSUME u <= q PROVE FALSE
    BY <1>1
  <2>1. u * Byte <= q * Byte
    BY <1>0, <1>1
  <2> QED BY <1>0, <1>1, <1>2, <2>1
<1> QED
  BY <1>3 DEF u, Units

\* Replays of such files put packets together within their buffers: receive_data() reads no
\* bitmap or DSO chunk past its end and sets no bit beyond the last unit of a sample.
THEOREM ReplaysWithinBuffers == AllRegular => (Spec => []NoOverrun)
<1> SUFFICES ASSUME AllRegular PROVE Spec => []NoOverrun
  OBVIOUS
<1> DEFINE I == file \in Files /\ (running => pxv_format = IsPxv(file)) /\ NoOverrun
<1>1. Init => I
  BY DEF Init, NoOverrun
<1>2. I /\ [Next]_vars => I'
  <2> SUFFICES ASSUME I, [Next]_vars PROVE I'
    OBVIOUS
  <2>1. ASSUME NEW opened \in SUBSET Enabled, NEW read \in SUBSET opened, PxvLogic(opened, read)
        PROVE  I'
    <3>1. /\ LogicLeft /\ opened \subseteq InBlock /\ read \in SUBSET InBlock
          /\ file' = file /\ running' = running /\ pxv_format' = pxv_format /\ running /\ pxv_format
      BY <2>1 DEF PxvLogic, Pxv
    <3>2. Pxview
      BY <3>1 DEF AllRegular, Regular, Pxview
    <3>3. ASSUME NEW c \in opened
          PROVE  Size(Entry(c)) = BlockSize(read) /\ BlockSize(read) \in Nat
                 /\ UnitOf(c) \in Nat /\ UnitOf(c) < Units(Len(file.enabled))
      <4>1. c \in InBlock /\ c \in ToSet(file.enabled)
        BY <3>1 DEF Enabled
      <4>2. PICK k \in 1 .. Len(file.enabled) : c = file.enabled[k]
        BY <4>1, EnabledTypes
      <4>3. c \in Nat /\ Len(file.enabled) \in Nat /\ Byte \in Nat \ {0}
        BY <4>1, EnabledTypes, FileTypes
      <4>4. UnitOf(c) * Byte < Len(file.enabled) /\ UnitOf(c) \in Nat
        BY <3>2, <4>2, <4>3, Division DEF Pxview, RegularPxv, UnitOf
      <4> QED BY <3>1, <3>2, <4>1, <4>3, <4>4, BlockSizes, UnitFits
    <3>4. ~ \E c \in opened : \/ Size(Entry(c)) < BlockSize(read)
                              \/ UnitOf(c) >= Units(Len(file.enabled))
      <4>1. Units(Len(file.enabled)) \in Int
        BY VirtualSessionAssumption, FileTypes DEF Units
      <4> QED BY <3>3, <4>1
    <3> QED BY <2>1, <3>1, <3>4 DEF PxvLogic, NoOverrun
  <2>2. ASSUME UNCHANGED <<file, pxv_format, overrun>>, running' => running PROVE I'
    BY <2>2 DEF NoOverrun
  <2>3. ASSUME NEW ok \in BOOLEAN, Start(ok) PROVE I'
    BY <2>3 DEF Start, NoOverrun
  <2>4. CASE Stop
    BY <2>2, <2>4 DEF Stop
  <2>5. CASE Finish \/ ReadIgnored \/ OpenFails \/ AllChunks \/ PxvEnd
    BY <2>2, <2>5 DEF Finish, ReadIgnored, OpenFails, AllChunks, PxvEnd, End
  <2>6. CASE Read \/ NextAnalog
    BY <2>2, <2>6 DEF Read, NextAnalog, history
  <2>7. ASSUME NEW failed \in BOOLEAN, ReadEnd(failed) PROVE I'
    BY <2>2, <2>7 DEF ReadEnd, End
  <2>8. ASSUME NEW short \in BOOLEAN, PxvAnalog(short) PROVE I'
    BY <2>2, <2>8 DEF PxvAnalog
  <2>9. ASSUME NEW read \in SUBSET InDso, PxvDso(read) PROVE I'
    <3>1. /\ DsoLeft /\ running /\ pxv_format
          /\ file' = file /\ running' = running /\ pxv_format' = pxv_format
      BY <2>9 DEF PxvDso, Pxv
    <3>2. Pxview
      BY <3>1 DEF AllRegular, Regular, Pxview
    <3>3. ASSUME NEW c \in read PROVE ~(Size(DsoEntry(c)) < Size(DsoEntry(0)))
      <4>1. c \in 0 .. file.analog - 1 /\ Has(DsoEntry(c)) /\ Has(DsoEntry(0))
        BY <3>1 DEF InDso, DsoLeft
      <4>2. Size(DsoEntry(c)) >= Size(DsoEntry(0))
        BY <3>2, <4>1 DEF Pxview, RegularPxv, Has, Size
      <4>3. Size(DsoEntry(c)) \in Nat /\ Size(DsoEntry(0)) \in Nat
        BY <3>2, <4>1, VirtualSessionAssumption DEF Pxview, Has, Size
      <4> QED BY <4>2, <4>3
    <3> QED BY <2>9, <3>1, <3>3 DEF PxvDso, NoOverrun
  <2>10. CASE UNCHANGED vars
    BY <2>2, <2>10 DEF vars, history
  <2> QED
    BY <2>1, <2>3, <2>4, <2>5, <2>6, <2>7, <2>8, <2>9, <2>10 DEF Next, receive_data
<1> QED
  BY <1>1, <1>2, PTL DEF Spec
=============================================================================
