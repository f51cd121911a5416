-------------------------- MODULE SoftTriggerProofs --------------------------
(***************************************************************************)
(* Theorems about SoftTrigger: the types, and what the circular buffer holds *)
(* when the trigger fires, for every size of samples and of the buffer and   *)
(* however the samples are cut into calls.                                  *)
(***************************************************************************)
EXTENDS SoftTrigger, SequenceTheorems, TLAPS

\* The samples that are in the circular buffer or have been there.
Kept == IF pc = "scan" THEN past ELSE past \o buf

\* The buffer holds the last of them from the oldest one on.
Oldest == IF fill < Size THEN 0 ELSE head
Holding(kept) ==
  /\ fill = Smaller(Len(kept), Size)
  /\ fill < Size => head = fill
  /\ \A j \in 1 .. fill : ring[(Oldest + j - 1) % Size] = kept[Len(kept) - fill + j]
RingInv == pc # "fired" => Holding(Kept)

\* n bytes are a number of samples.
Whole(n) == \E k \in Nat : n = k * Unit
Bounds == Whole(Len(buf)) /\ Whole(Len(past)) /\ Whole(i)

\* Going back past the start of a buffer ends at a sample only if a sample is a byte;
\* a trigger of one stage never goes back.
Steady == Unit = 1 \/ \A t \in Triggers : Len(t) = 1

-----------------------------------------------------------------------------
(* Arithmetic.                                                             *)

LEMMA SizeFacts == Unit \in Nat \ {0} /\ Pre \in Nat /\ Size \in Nat /\ Whole(Size)
<1>1. Unit \in Nat \ {0} /\ Pre \in Nat
  BY SoftTriggerAssumption
<1>2. Size = Pre * Unit /\ Size \in Nat
  BY <1>1 DEF Size
<1> QED BY <1>1, <1>2 DEF Whole

LEMMA DivFacts ==
  ASSUME NEW x \in Int, NEW s \in Nat \ {0}
  PROVE  /\ x % s \in 0 .. s - 1 /\ x \div s \in Int
         /\ x = s * (x \div s) + (x % s)
<1>1. x % s \in 0 .. s - 1
  OBVIOUS
<1>2. x \div s \in Int
  OBVIOUS
<1>3. x = s * (x \div s) + (x % s)
  OBVIOUS
<1> QED BY <1>1, <1>2, <1>3

\* Once around the buffer at most.
LEMMA ModFacts ==
  ASSUME NEW s \in Nat \ {0}, NEW x \in Int, -s <= x, x < 2 * s
  PROVE  x % s = IF x < 0 THEN x + s ELSE IF x < s THEN x ELSE x - s
<1> DEFINE q == x \div s
           r == x % s
<1>1. r \in 0 .. s - 1 /\ q \in Int /\ x = s * q + r
  BY DivFacts
<1> HIDE DEF q, r
<1>2. q \in {-1, 0, 1}
  <2>1. ASSUME q >= 2 PROVE FALSE
    <3>1. s * q >= s * 2
      BY <1>1, <2>1
    <3> QED BY <1>1, <3>1
  <2>2. ASSUME q <= -2 PROVE FALSE
    <3>1. s * q <= s * (-2)
      BY <1>1, <2>2
    <3> QED BY <1>1, <3>1
  <2> QED BY <1>1, <2>1, <2>2
<1>3. s * (-1) = -s /\ s * 0 = 0 /\ s * 1 = s
  OBVIOUS
<1>4. r = IF x < 0 THEN x + s ELSE IF x < s THEN x ELSE x - s
  <2>1. CASE q = -1
    BY <1>1, <1>3, <2>1
  <2>2. CASE q = 0
    BY <1>1, <1>3, <2>2
  <2>3. CASE q = 1
    BY <1>1, <1>3, <2>3
  <2> QED BY <1>2, <2>1, <2>2, <2>3
<1> QED BY <1>4 DEF r

LEMMA DivExact == ASSUME NEW k \in Nat, NEW u \in Nat \ {0} PROVE (k * u) \div u = k
<1> DEFINE x == k * u
           q == x \div u
           r == x % u
<1>0. x \in Int /\ x = k * u
  OBVIOUS
<1> HIDE DEF x
<1>1. r \in 0 .. u - 1 /\ q \in Int /\ x = u * q + r
  BY <1>0, DivFacts
<1> HIDE DEF q, r
<1>2. u * (k - q) = r
  BY <1>0, <1>1
<1>3. ASSUME k - q >= 1 PROVE FALSE
  <2>1. u * (k - q) >= u * 1
    BY <1>1, <1>3
  <2> QED BY <1>1, <1>2, <2>1
<1>4. ASSUME k - q <= -1 PROVE FALSE
  <2>1. u * (k - q) <= u * (-1)
    BY <1>1, <1>4
  <2> QED BY <1>1, <1>2, <2>1
<1>5. k = q
  BY <1>1, <1>3, <1>4
<1> QED BY <1>5 DEF q, x

LEMMA WholeFacts ==
  /\ Whole(0)
  /\ \A m, n \in Nat : Whole(m) /\ Whole(n) => Whole(m + n)
  /\ \A m, n \in Nat : Whole(m) /\ Whole(n) => Whole(Smaller(m, n))
  /\ Whole(Unit)
<1>1. Unit \in Nat
  BY SizeFacts
<1>2. 0 = 0 * Unit /\ Unit = 1 * Unit
  BY <1>1
<1>3. ASSUME NEW m \in Nat, NEW n \in Nat, Whole(m), Whole(n) PROVE Whole(m + n)
  <2>1. PICK k \in Nat : m = k * Unit
    BY <1>3 DEF Whole
  <2>2. PICK l \in Nat : n = l * Unit
    BY <1>3 DEF Whole
  <2>3. m + n = (k + l) * Unit /\ k + l \in Nat
    BY <1>1, <2>1, <2>2
  <2> QED BY <2>3 DEF Whole
<1> QED BY <1>2, <1>3 DEF Whole, Smaller

-----------------------------------------------------------------------------
(* Sequences.                                                              *)

LEMMA LastFacts ==
  ASSUME NEW s \in Seq(Byte), NEW n \in Nat
  PROVE  /\ LastOf(s, n) \in Seq(Byte) /\ Len(LastOf(s, n)) = Smaller(n, Len(s))
         /\ \A k \in 1 .. Smaller(n, Len(s)) : LastOf(s, n)[k] = s[Len(s) - Smaller(n, Len(s)) + k]
<1> DEFINE m == Smaller(n, Len(s))
<1>1. m \in 0 .. Len(s) /\ Len(s) \in Nat
  BY DEF Smaller
<1> HIDE DEF m
<1>2. /\ SubSeq(s, Len(s) - m + 1, Len(s)) \in Seq(Byte) /\ Len(SubSeq(s, Len(s) - m + 1, Len(s))) = m
      /\ \A k \in 1 .. m : SubSeq(s, Len(s) - m + 1, Len(s))[k] = s[Len(s) - m + k]
  BY <1>1
<1> QED BY <1>2 DEF m, LastOf

LEMMA CatFacts ==
  ASSUME NEW s \in Seq(Byte), NEW t \in Seq(Byte)
  PROVE  /\ s \o t \in Seq(Byte) /\ Len(s \o t) = Len(s) + Len(t)
         /\ \A k \in 1 .. Len(s) + Len(t) : (s \o t)[k] = IF k <= Len(s) THEN s[k] ELSE t[k - Len(s)]
OBVIOUS

\* The samples up to one in the second sequence.
LEMMA FrontOfCat ==
  ASSUME NEW s \in Seq(Byte), NEW t \in Seq(Byte), NEW n \in 0 .. Len(t)
  PROVE  SubSeq(s \o t, 1, Len(s) + n) = s \o SubSeq(t, 1, n) /\ SubSeq(t, 1, n) \in Seq(Byte)
         /\ Len(SubSeq(t, 1, n)) = n
<1> DEFINE c == s \o t
           x == SubSeq(t, 1, n)
           y == SubSeq(c, 1, Len(s) + n)
<1>1. /\ c \in Seq(Byte) /\ Len(c) = Len(s) + Len(t) /\ Len(s) \in Nat /\ Len(t) \in Nat
      /\ \A k \in 1 .. Len(s) + Len(t) : c[k] = IF k <= Len(s) THEN s[k] ELSE t[k - Len(s)]
  BY CatFacts
<1>2. x \in Seq(Byte) /\ Len(x) = n /\ \A k \in 1 .. n : x[k] = t[k]
  OBVIOUS
<1> HIDE DEF c, x
<1>3. y \in Seq(Byte) /\ Len(y) = Len(s) + n /\ \A k \in 1 .. Len(s) + n : y[k] = c[k]
  BY <1>1
<1>4. /\ s \o x \in Seq(Byte) /\ Len(s \o x) = Len(s) + Len(x)
      /\ \A k \in 1 .. Len(s) + Len(x) : (s \o x)[k] = IF k <= Len(s) THEN s[k] ELSE x[k - Len(s)]
  BY <1>2, CatFacts
<1> HIDE DEF y
<1>5. ASSUME NEW k \in 1 .. Len(y) PROVE y[k] = (s \o x)[k]
  BY <1>1, <1>2, <1>3, <1>4
<1>6. y = s \o x
  BY <1>2, <1>3, <1>4, <1>5, SeqEqual
<1> QED BY <1>2, <1>6 DEF c, x, y

-----------------------------------------------------------------------------
(* The circular buffer.                                                    *)

RingOK ==
  /\ ring \in [0 .. Size - 1 -> Byte] /\ head \in Nat /\ fill \in 0 .. Size
  /\ (Size > 0 => head < Size) /\ (Size = 0 => head = 0)

\* Appending keeps the shape.
LEMMA AppendTypes ==
  ASSUME RingOK, NEW data \in Seq(Byte)
  PROVE  /\ RingAfter(data) \in [0 .. Size - 1 -> Byte] /\ FillAfter(data) \in 0 .. Size
         /\ HeadAfter(data) \in Nat /\ (Size > 0 => HeadAfter(data) < Size)
         /\ (Size = 0 => HeadAfter(data) = 0) /\ SendFrom(data) \in Nat /\ (Size > 0 => SendFrom(data) < Size)
<1>1. Size \in Nat /\ Len(data) \in Nat /\ fill \in Nat /\ head \in Nat
  BY SizeFacts DEF RingOK
<1>2. FillAfter(data) \in 0 .. Size
  BY <1>1 DEF FillAfter, Smaller
<1>3. Size > 0 => (head + Smaller(Len(data), Size)) % Size \in 0 .. Size - 1
  <2> DEFINE x == head + Smaller(Len(data), Size)
  <2>1. x \in Int
    BY <1>1 DEF Smaller
  <2> HIDE DEF x
  <2>2. Size > 0 => Size \in Nat \ {0}
    BY <1>1
  <2>3. Size > 0 => x % Size \in 0 .. Size - 1
    BY <2>1, <2>2, DivFacts
  <2> QED BY <2>3 DEF x
<1>4. /\ HeadAfter(data) \in Nat /\ (Size > 0 => HeadAfter(data) < Size)
      /\ (Size = 0 => HeadAfter(data) = 0)
  BY <1>1, <1>3 DEF HeadAfter
<1>5. SendFrom(data) \in Nat /\ (Size > 0 => SendFrom(data) < Size)
  BY <1>1, <1>4 DEF SendFrom
<1>6. RingAfter(data) \in [0 .. Size - 1 -> Byte]
  <2> DEFINE new == LastOf(data, Size)
  <2>1. new \in Seq(Byte) /\ Len(new) \in Nat
    BY <1>1, LastFacts
  <2> HIDE DEF new
  <2>2. ASSUME NEW b \in 0 .. Size - 1
        PROVE  (IF (b - head) % Size < Len(new) THEN new[((b - head) % Size) + 1] ELSE ring[b]) \in Byte
    <3>1. Size \in Nat \ {0} /\ b - head \in Int
      BY <1>1
    <3>2. (b - head) % Size \in 0 .. Size - 1
      BY <3>1, DivFacts
    <3>3. (b - head) % Size < Len(new) => ((b - head) % Size) + 1 \in 1 .. Len(new)
      BY <1>1, <2>1, <3>2
    <3> QED BY <2>1, <3>3 DEF RingOK
  <2> QED BY <2>2 DEF RingAfter, new
<1> QED BY <1>2, <1>4, <1>5, <1>6

\* What pre_trigger_append() makes of a buffer that holds the end of kept is one that
\* holds the end of kept \o data.
LEMMA AppendHolds ==
  ASSUME RingOK, NEW kept \in Seq(Byte), Holding(kept), NEW data \in Seq(Byte)
  PROVE  /\ FillAfter(data) = Smaller(Len(kept) + Len(data), Size)
         /\ FillAfter(data) < Size => HeadAfter(data) = FillAfter(data)
         /\ \A j \in 1 .. FillAfter(data) :
              RingAfter(data)[(SendFrom(data) + j - 1) % Size]
                = (kept \o data)[Len(kept) + Len(data) - FillAfter(data) + j]
<1> DEFINE S == Size
           K == Len(kept)
           D == Len(data)
           n == Smaller(D, S)
           f == FillAfter(data)
           h == HeadAfter(data)
           new == LastOf(data, S)
<1>1. S \in Nat /\ K \in Nat /\ D \in Nat /\ n \in Nat /\ n <= D /\ n <= S /\ (n < S => n = D)
  BY SizeFacts DEF Smaller
<1>2. /\ fill \in 0 .. S /\ fill = Smaller(K, S) /\ head \in Nat /\ (S > 0 => head < S)
      /\ (fill < S => head = fill /\ K = fill)
  BY <1>1 DEF RingOK, Holding, Smaller
<1>3. f = Smaller(fill + n, S)
  BY DEF FillAfter
<1>4. /\ Len(new) = n /\ \A k \in 1 .. n : new[k] = data[D - n + k]
  <2>1. n = Smaller(S, D)
    BY <1>1 DEF Smaller
  <2> QED BY <1>1, <2>1, LastFacts
<1>5. S > 0 => h = (head + n) % S
  BY <1>1 DEF HeadAfter
<1>6. /\ \A k \in 1 .. K + D : (kept \o data)[k] = IF k <= K THEN kept[k] ELSE data[k - K]
  BY CatFacts
<1>7. ASSUME NEW b \in 0 .. S - 1
      PROVE  RingAfter(data)[b] = IF (b - head) % S < Len(new) THEN new[((b - head) % S) + 1] ELSE ring[b]
  BY DEF RingAfter
<1>8. \A j \in 1 .. fill : ring[(Oldest + j - 1) % S] = kept[K - fill + j]
  BY DEF Holding
<1>9. SendFrom(data) = IF f < S THEN 0 ELSE h
  BY DEF SendFrom
<1>10. Oldest = IF fill < S THEN 0 ELSE head
  BY DEF Oldest
<1> DEFINE R == RingAfter(data)
           from == SendFrom(data)
           old == Oldest
           all == kept \o data
<1> HIDE DEF S, K, D, n, f, h, new, R, from, old, all
<1>11. f = Smaller(K + D, S)
  BY <1>1, <1>2, <1>3 DEF Smaller
<1>12. f < S => h = f
  <2> SUFFICES ASSUME f < S PROVE h = f
    OBVIOUS
  <2>1. f = fill + n /\ head = fill /\ S > 0 /\ S \in Nat \ {0} /\ head + n \in Int
        /\ -S <= head + n /\ head + n < S /\ head + n < 2 * S /\ head + n >= 0
    BY <1>1, <1>2, <1>3 DEF Smaller
  <2>2. (head + n) % S = head + n
    BY <2>1, ModFacts
  <2> QED BY <1>5, <2>1, <2>2
<1>13. ASSUME NEW j \in 1 .. f PROVE R[(from + j - 1) % S] = all[K + D - f + j]
  <2>1. S \in Nat \ {0} /\ S > 0 /\ f \in Nat /\ f <= S /\ j \in Int /\ 1 <= j /\ j <= f
    BY <1>1, <1>2, <1>3 DEF Smaller
  <2>a. ASSUME NEW x \in Int, -S <= x, x < 2 * S
        PROVE  x % S = IF x < 0 THEN x + S ELSE IF x < S THEN x ELSE x - S
    BY <2>1, <2>a, ModFacts
  <2>b. all[K + D - f + j] = IF K + D - f + j <= K THEN kept[K + D - f + j] ELSE data[D - f + j]
    <3>1. K + D - f + j \in 1 .. K + D /\ (K + D - f + j) - K = D - f + j
      BY <1>1, <1>11, <2>1 DEF Smaller
    <3> QED BY <1>6, <3>1 DEF all
  <2>2. CASE f < S
    <3>1. from = 0 /\ K + D = f /\ n = D /\ fill = K /\ head = fill /\ old = 0
      BY <1>1, <1>2, <1>3, <1>9, <1>10, <1>11, <2>2 DEF Smaller, from, old
    <3>2. (from + j - 1) % S = j - 1 /\ j - 1 \in 0 .. S - 1
      BY <1>1, <2>1, <2>2, <2>a, <3>1
    <3>3. CASE j <= fill
      <4>1. (j - 1 - head) % S = j - 1 - head + S
        BY <1>1, <1>2, <2>1, <2>a, <3>1, <3>3
      <4>2. ~((j - 1 - head) % S < Len(new))
        BY <1>1, <1>4, <2>1, <2>2, <3>1, <4>1
      <4>3. R[j - 1] = ring[j - 1]
        BY <1>7, <3>2, <4>2 DEF R
      <4>4. ring[(old + j - 1) % S] = kept[K - fill + j] /\ (old + j - 1) % S = j - 1
        BY <1>2, <1>8, <2>1, <3>1, <3>2, <3>3 DEF old
      <4> QED BY <1>1, <2>1, <2>b, <3>1, <3>2, <3>3, <4>3, <4>4
    <3>4. CASE j > fill
      <4>1. (j - 1 - head) % S = j - 1 - head
        BY <1>1, <1>2, <2>1, <2>a, <3>1, <3>4
      <4>2. (j - 1 - head) % S < Len(new) /\ ((j - 1 - head) % S) + 1 = j - fill /\ j - fill \in 1 .. n
        BY <1>1, <1>4, <2>1, <3>1, <3>4, <4>1
      <4>3. R[j - 1] = new[j - fill]
        BY <1>7, <3>2, <4>2 DEF R
      <4>4. new[j - fill] = data[D - n + (j - fill)] /\ D - n + (j - fill) = D - f + j
        BY <1>1, <1>2, <1>4, <2>1, <3>1, <4>2
      <4>5. ~(K + D - f + j <= K)
        BY <1>1, <2>1, <3>1, <3>4
      <4> QED BY <2>b, <3>2, <4>3, <4>4, <4>5
    <3> QED BY <1>2, <2>1, <3>3, <3>4
  <2>3. CASE f = S
    <3> DEFINE b == (from + j - 1) % S
    <3>1. from = h /\ h = IF head + n < S THEN head + n ELSE head + n - S
      BY <1>1, <1>2, <1>5, <1>9, <2>1, <2>3, <2>a DEF from
    <3>2. from \in Nat /\ from < S
      BY <1>1, <1>2, <2>1, <3>1
    <3>3. b = IF from + j - 1 < S THEN from + j - 1 ELSE from + j - 1 - S
      BY <2>1, <2>3, <2>a, <3>2
    <3>4. b \in 0 .. S - 1
      BY <2>1, <2>3, <3>2, <3>3
    <3> HIDE DEF b
    <3>5. (b - head) % S = IF b < head THEN b - head + S ELSE b - head
      BY <1>2, <2>1, <2>a, <3>4
    <3>6. CASE j <= S - n
      <4>1. (b - head) % S = n + j - 1 /\ ~((b - head) % S < Len(new)) /\ n = D
        BY <1>1, <1>2, <1>4, <2>1, <3>1, <3>2, <3>3, <3>4, <3>5, <3>6
      <4>2. R[b] = ring[b]
        BY <1>7, <3>4, <4>1 DEF R
      <4>3. CASE fill = S
        <5>1. old = head /\ n + j \in 1 .. fill /\ (head + (n + j) - 1) % S = b
          BY <1>1, <1>2, <1>10, <2>1, <2>a, <3>1, <3>2, <3>3, <3>6, <4>3 DEF old
        <5>2. ring[b] = kept[K - fill + (n + j)]
          BY <1>8, <5>1 DEF old
        <5>3. K - fill + (n + j) = K + D - f + j /\ K + D - f + j <= K
          BY <1>1, <1>2, <2>1, <2>3, <3>6, <4>1, <4>3
        <5> QED BY <2>b, <4>2, <5>2, <5>3 DEF b
      <4>4. CASE fill < S
        <5>1. old = 0 /\ head = fill /\ K = fill /\ fill + n >= S
          BY <1>1, <1>2, <1>3, <1>10, <2>3, <4>4 DEF old, Smaller
        <5>a. fill \in Nat /\ from = fill + n - S /\ from + j - 1 < S
          BY <1>1, <1>2, <2>1, <3>1, <3>6, <4>4, <5>1
        <5>2. b = fill + n + j - 1 - S /\ b + 1 \in 1 .. fill
          BY <1>1, <2>1, <3>3, <3>6, <5>1, <5>a
        <5>3. (old + (b + 1) - 1) % S = b
          BY <2>1, <2>a, <3>4, <5>1
        <5>4. ring[b] = kept[K - fill + (b + 1)]
          BY <1>8, <5>2, <5>3 DEF old
        <5>5. K - fill + (b + 1) = K + D - f + j /\ K + D - f + j <= K
          BY <1>1, <2>1, <2>3, <3>6, <4>1, <5>1, <5>2, <5>a
        <5> QED BY <2>b, <4>2, <5>4, <5>5 DEF b
      <4> QED BY <1>1, <1>2, <4>3, <4>4
    <3>7. CASE j > S - n
      <4>1. (b - head) % S = n + j - 1 - S /\ (b - head) % S < Len(new)
        BY <1>1, <1>2, <1>4, <2>1, <2>3, <3>1, <3>2, <3>3, <3>4, <3>5, <3>7
      <4>2. ((b - head) % S) + 1 = n + j - S /\ n + j - S \in 1 .. n
        BY <1>1, <2>1, <2>3, <3>7, <4>1
      <4>3. R[b] = new[n + j - S]
        BY <1>7, <3>4, <4>1, <4>2 DEF R
      <4>4. new[n + j - S] = data[D - n + (n + j - S)] /\ D - n + (n + j - S) = D - f + j
        BY <1>1, <1>4, <2>1, <2>3, <4>2
      <4>5. ~(K + D - f + j <= K)
        BY <1>1, <2>1, <2>3, <3>7
      <4> QED BY <2>b, <4>3, <4>4, <4>5 DEF b
    <3> QED BY <1>1, <2>1, <3>6, <3>7
  <2> QED BY <2>1, <2>2, <2>3
<1> QED BY <1>11, <1>12, <1>13 DEF S, K, D, f, h, R, from, all

-----------------------------------------------------------------------------
(* The types.                                                              *)

LEMMA RingTypes == TypeOK => RingOK
BY SizeFacts DEF TypeOK, RingOK

LEMMA SampleTypes ==
  ASSUME buf \in Seq(Byte), NEW n \in Nat, NEW junk \in Byte
  PROVE  SampleAt(n, junk) \in [0 .. Unit - 1 -> Byte]
<1>1. ASSUME NEW b \in 0 .. Unit - 1
      PROVE  (IF n + b < Len(buf) THEN buf[n + b + 1] ELSE junk) \in Byte
  <2>1. n + b < Len(buf) => n + b + 1 \in 1 .. Len(buf)
    BY SizeFacts
  <2> QED BY <2>1
<1> QED BY <1>1 DEF SampleAt

\* What every iteration of the loop keeps.
LEMMA IterateTypes ==
  ASSUME TypeOK, NEW junk \in Byte, Iterate(SampleAt(i, junk))
  PROVE  /\ stages' \in Triggers /\ stages' = stages /\ prev_sample' \in [0 .. Unit - 1 -> Byte]
         /\ count' \in BOOLEAN /\ buf' = buf /\ past' = past
<1>1. buf \in Seq(Byte) /\ i \in Nat /\ stages \in Triggers
  BY DEF TypeOK
<1>2. SampleAt(i, junk) \in [0 .. Unit - 1 -> Byte]
  BY <1>1, SampleTypes
<1>3. prev_sample' = SampleAt(i, junk) /\ stages' = stages /\ buf' = buf /\ past' = past
  BY DEF Iterate
<1>4. count' \in BOOLEAN
  BY DEF Iterate
<1> QED BY <1>1, <1>2, <1>3, <1>4

LEMMA RestartFacts ==
  ASSUME TypeOK
  PROVE  RestartAt \in Nat /\ NextSample \in Nat /\ Len(stages) \in Nat
<1>1. i \in Nat /\ Unit \in Nat \ {0} /\ cur_stage \in Nat /\ Len(stages) \in Nat
  BY SizeFacts, SoftTriggerAssumption DEF TypeOK
<1>2. i - cur_stage * Unit \in Int
  BY <1>1
<1> QED BY <1>1, <1>2 DEF RestartAt, NextSample

LEMMA BufferTypes ==
  ASSUME NEW data \in Buffers
  PROVE  data \in Seq(Byte) /\ Whole(Len(data))
<1>1. PICK n \in 1 .. MaxBuf : data \in [1 .. n * Unit -> Byte]
  BY DEF Buffers
<1>2. n \in Nat /\ n * Unit \in Nat
  BY SizeFacts, SoftTriggerAssumption
<1>3. data \in Seq(Byte) /\ Len(data) = n * Unit
  BY <1>1, <1>2
<1> QED BY <1>2, <1>3 DEF Whole

\* What pre_trigger_send() sends.
LEMMA SentTypes ==
  ASSUME RingOK, NEW data \in Seq(Byte)
  PROVE  /\ [n \in 1 .. FillAfter(data) |-> RingAfter(data)[(SendFrom(data) + n - 1) % Size]] \in Seq(Byte)
         /\ FillAfter(data) \div Unit \in Nat
<1>1. /\ RingAfter(data) \in [0 .. Size - 1 -> Byte] /\ FillAfter(data) \in 0 .. Size
      /\ SendFrom(data) \in Nat /\ Size \in Nat /\ Unit \in Nat \ {0}
  BY AppendTypes, SizeFacts
<1> DEFINE f == FillAfter(data)
           r == RingAfter(data)
           from == SendFrom(data)
<1> HIDE DEF f, r, from
<1>2. ASSUME NEW n \in 1 .. f PROVE r[(from + n - 1) % Size] \in Byte
  <2>1. Size \in Nat \ {0} /\ from + n - 1 \in Int
    BY <1>1 DEF f, from
  <2>2. (from + n - 1) % Size \in 0 .. Size - 1
    BY <2>1, DivFacts
  <2> QED BY <1>1, <2>2 DEF r
<1>3. f \in Nat
  BY <1>1 DEF f
<1>4. [n \in 1 .. f |-> r[(from + n - 1) % Size]] \in Seq(Byte)
  BY <1>2, <1>3
<1>5. f \div Unit \in Nat
  BY <1>1, <1>3
<1> QED BY <1>4, <1>5 DEF f, r, from

LEMMA TypeStep == TypeOK /\ [Next]_vars => TypeOK'
<1> SUFFICES ASSUME TypeOK, [Next]_vars PROVE TypeOK'
  OBVIOUS
<1>0. /\ RingOK /\ buf \in Seq(Byte) /\ past \in Seq(Byte) /\ i \in Nat /\ Size \in Nat /\ Unit \in Nat \ {0}
      /\ RestartAt \in Nat /\ NextSample \in Nat /\ Len(stages) \in Nat /\ cur_stage \in 0 .. Len(stages) - 1
  BY RingTypes, SizeFacts, RestartFacts DEF TypeOK
<1>1. ASSUME NEW data \in Buffers, Call(data) PROVE TypeOK'
  <2>1. data \in Seq(Byte) /\ past \o buf \in Seq(Byte)
    BY <1>0, BufferTypes, CatFacts
  <2> QED BY <1>1, <2>1 DEF Call, ringVars, TypeOK
<1>2. ASSUME NEW junk \in Byte, Advance(junk) PROVE TypeOK'
  <2>1. Iterate(SampleAt(i, junk)) /\ cur_stage' \in 0 .. Len(stages) - 1 /\ i' \in Nat
    BY <1>0, <1>2 DEF Advance
  <2>2. UNCHANGED <<ringVars, pc, offset, sent, pre_trigger_samples>>
    BY <1>2 DEF Advance
  <2> QED BY <2>1, <2>2, IterateTypes DEF ringVars, TypeOK
<1>3. ASSUME NEW junk \in Byte, Fire(junk) PROVE TypeOK'
  <2> DEFINE data == SubSeq(buf, 1, i)
  <2>1. Iterate(SampleAt(i, junk)) /\ UNCHANGED <<cur_stage, i>> /\ pc' = "fired" /\ i < Len(buf)
        /\ offset' = i \div Unit
    BY <1>3 DEF Fire, Iterate
  <2>2. data \in Seq(Byte)
    BY <1>0, <2>1
  <2>3. pre_trigger_send(data)
    BY <1>3 DEF Fire
  <2> HIDE DEF data
  <2>4. ring' \in [0 .. Size - 1 -> Byte] /\ head' = 0 /\ fill' = 0
    BY <1>0, <2>2, <2>3, AppendTypes DEF pre_trigger_send
  <2>5. sent' \in Seq(Byte) /\ pre_trigger_samples' \in Nat
    BY <1>0, <2>2, <2>3, SentTypes DEF pre_trigger_send
  <2>6. offset' \in Nat
    BY <1>0, <2>1
  <2> QED BY <1>0, <2>1, <2>4, <2>5, <2>6, IterateTypes DEF TypeOK
<1>4. ASSUME NEW junk \in Byte, Fail(junk) PROVE TypeOK'
  <2>1. Iterate(SampleAt(i, junk)) /\ cur_stage' = 0 /\ i' \in Nat
    BY <1>0, <1>4 DEF Fail, StageAfterFailure
  <2>2. UNCHANGED <<ringVars, pc, offset, sent, pre_trigger_samples>>
    BY <1>4 DEF Fail
  <2> QED BY <1>0, <2>1, <2>2, IterateTypes DEF ringVars, TypeOK
<1>5. CASE Return
  <2>1. /\ RingAfter(buf) \in [0 .. Size - 1 -> Byte] /\ FillAfter(buf) \in 0 .. Size
        /\ HeadAfter(buf) \in Nat /\ (Size > 0 => HeadAfter(buf) < Size) /\ (Size = 0 => HeadAfter(buf) = 0)
    BY <1>0, AppendTypes
  <2>2. ring' = RingAfter(buf) /\ fill' = FillAfter(buf) /\ head' = HeadAfter(buf) /\ pc' = "idle"
    BY <1>5 DEF Return, pre_trigger_append
  <2>3. UNCHANGED <<stages, cur_stage, prev_sample, count, buf, i, offset, sent, pre_trigger_samples, past>>
    BY <1>5 DEF Return
  <2>4. head' \in 0 .. Size
    BY <1>0, <2>1, <2>2
  <2> QED BY <2>1, <2>2, <2>3, <2>4 DEF TypeOK
<1>6. CASE UNCHANGED vars
  BY <1>6 DEF vars, TypeOK
<1> QED BY <1>1, <1>2, <1>3, <1>4, <1>5, <1>6 DEF Next

LEMMA TypeInit == Init => TypeOK
<1> SUFFICES ASSUME Init PROVE TypeOK
  OBVIOUS
<1>1. stages \in Triggers /\ Len(stages) \in Nat \ {0}
  BY SoftTriggerAssumption DEF Init
<1>2. {} \in Byte /\ Size \in Nat
  BY SizeFacts DEF Byte
<1>3. prev_sample \in [0 .. Unit - 1 -> Byte] /\ ring \in [0 .. Size - 1 -> Byte]
  BY <1>2 DEF Init
<1>4. /\ head = 0 /\ fill = 0 /\ buf = <<>> /\ past = <<>> /\ sent = <<>> /\ i = 0 /\ pc = "idle"
      /\ offset = -1 /\ pre_trigger_samples = 0 /\ cur_stage = 0 /\ count = FALSE
  BY DEF Init
<1>a. count \in BOOLEAN
  BY <1>4, Zenon
<1>b. cur_stage \in 0 .. Len(stages) - 1
  BY <1>1, <1>4
<1>5. count \in BOOLEAN /\ cur_stage \in 0 .. Len(stages) - 1
  BY <1>a, <1>b
<1>6. buf \in Seq(Byte) /\ past \in Seq(Byte) /\ sent \in Seq(Byte)
  BY <1>4
<1> QED BY <1>1, <1>2, <1>3, <1>4, <1>5, <1>6 DEF TypeOK

\* The trigger keeps its types: the stage stays among the stages of the trigger, and
\* the head and the fill of the circular buffer stay within it.
THEOREM SoftTriggerTypes == Spec => []TypeOK
BY TypeInit, TypeStep, PTL DEF Spec

-----------------------------------------------------------------------------
(* What the circular buffer holds.                                          *)

LEMMA RingInit == Init => RingInv
<1> SUFFICES ASSUME Init PROVE RingInv
  OBVIOUS
<1>1. Kept = <<>> \o <<>> /\ fill = 0 /\ head = 0
  BY DEF Init, Kept
<1>2. Kept = <<>> /\ Len(Kept) = 0
  BY <1>1
<1>3. fill = Smaller(Len(Kept), Size)
  BY <1>1, <1>2, SizeFacts DEF Smaller
<1> QED BY <1>1, <1>3 DEF RingInv, Holding

LEMMA RingStep == TypeOK /\ RingInv /\ [Next]_vars => RingInv'
<1> SUFFICES ASSUME TypeOK, RingInv, [Next]_vars PROVE RingInv'
  OBVIOUS
<1>0. RingOK /\ buf \in Seq(Byte) /\ past \in Seq(Byte)
  BY RingTypes DEF TypeOK
<1>1. ASSUME NEW k, Holding(k), UNCHANGED ringVars, Kept' = k PROVE RingInv'
  BY <1>1 DEF ringVars, RingInv, Holding, Oldest
<1>2. ASSUME NEW data \in Buffers, Call(data) PROVE RingInv'
  <2>1. Kept' = past \o buf /\ Kept = past \o buf /\ pc # "fired" /\ UNCHANGED ringVars
    BY <1>2 DEF Call, Kept
  <2> QED BY <1>1, <2>1 DEF RingInv
<1>3. ASSUME NEW junk \in Byte, Advance(junk) \/ Fail(junk) PROVE RingInv'
  <2>1. pc = "scan" /\ pc' = "scan" /\ past' = past /\ UNCHANGED ringVars
    BY <1>3 DEF Advance, Fail, Iterate
  <2>2. Kept' = past /\ Kept = past
    BY <2>1 DEF Kept
  <2> QED BY <1>1, <2>1, <2>2 DEF RingInv
<1>4. ASSUME NEW junk \in Byte, Fire(junk) PROVE RingInv'
  BY <1>4 DEF Fire, RingInv
<1>5. CASE Return
  <2>1. pc = "scan" /\ pc' = "idle" /\ past' = past /\ buf' = buf
    BY <1>5 DEF Return
  <2>2. Kept = past /\ Kept' = past \o buf
    BY <2>1 DEF Kept
  <2>3. ring' = RingAfter(buf) /\ fill' = FillAfter(buf) /\ head' = HeadAfter(buf)
    BY <1>5 DEF Return, pre_trigger_append
  <2>4. /\ FillAfter(buf) = Smaller(Len(past) + Len(buf), Size)
        /\ FillAfter(buf) < Size => HeadAfter(buf) = FillAfter(buf)
        /\ \A j \in 1 .. FillAfter(buf) :
             RingAfter(buf)[(SendFrom(buf) + j - 1) % Size]
               = (past \o buf)[Len(past) + Len(buf) - FillAfter(buf) + j]
    BY <1>0, <2>1, <2>2, AppendHolds DEF RingInv
  <2>5. Oldest' = SendFrom(buf)
    BY <2>3 DEF Oldest, SendFrom, Size
  <2>6. Len(Kept') = Len(past) + Len(buf)
    BY <1>0, <2>2, CatFacts
  <2>7. fill' = Smaller(Len(Kept'), Size) /\ (fill' < Size => head' = fill')
    BY <2>3, <2>4, <2>6
  <2>8. ASSUME NEW j \in 1 .. fill' PROVE ring'[(Oldest' + j - 1) % Size] = Kept'[Len(Kept') - fill' + j]
    <3>1. j \in 1 .. FillAfter(buf)
      BY <2>3
    <3>2. RingAfter(buf)[(SendFrom(buf) + j - 1) % Size]
            = (past \o buf)[Len(past) + Len(buf) - FillAfter(buf) + j]
      BY <2>4, <3>1
    <3>3. Len(Kept') - fill' + j = Len(past) + Len(buf) - FillAfter(buf) + j
      BY <1>0, <2>3, <2>6, AppendTypes, SizeFacts
    <3>4. ring'[(Oldest' + j - 1) % Size] = RingAfter(buf)[(SendFrom(buf) + j - 1) % Size]
      BY <2>3, <2>5, Zenon
    <3> QED BY <2>2, <3>2, <3>3, <3>4, Zenon
  <2> QED BY <2>7, <2>8 DEF RingInv, Holding
<1>6. CASE UNCHANGED vars
  <2>1. Kept' = Kept /\ UNCHANGED ringVars /\ pc' = pc
    BY <1>6 DEF vars, Kept, ringVars
  <2> QED BY <1>1, <2>1 DEF RingInv
<1> QED BY <1>2, <1>3, <1>4, <1>5, <1>6 DEF Next

\* The loop stands at the start of a sample.
LEMMA BoundsInit == Init => Bounds
BY WholeFacts DEF Init, Bounds

LEMMA BoundsStep == ASSUME Steady PROVE TypeOK /\ Bounds /\ [Next]_vars => Bounds'
<1> SUFFICES ASSUME TypeOK, Bounds, [Next]_vars PROVE Bounds'
  OBVIOUS
<1>0. /\ buf \in Seq(Byte) /\ past \in Seq(Byte) /\ i \in Nat /\ Unit \in Nat \ {0}
      /\ RestartAt \in Nat /\ NextSample \in Nat /\ stages \in Triggers /\ cur_stage \in 0 .. Len(stages) - 1
      /\ Whole(Len(buf)) /\ Whole(Len(past)) /\ Whole(i)
  BY SizeFacts, RestartFacts DEF TypeOK, Bounds
<1>1. ASSUME NEW data \in Buffers, Call(data) PROVE Bounds'
  <2>1. past' = past \o buf /\ buf' = data /\ i' = 0
    BY <1>1 DEF Call
  <2>2. Len(past \o buf) = Len(past) + Len(buf) /\ Whole(Len(past) + Len(buf))
    <3>1. Len(past \o buf) = Len(past) + Len(buf) /\ Len(past) \in Nat /\ Len(buf) \in Nat
      BY <1>0, CatFacts
    <3> QED BY <1>0, <3>1, WholeFacts
  <2> QED BY <2>1, <2>2, BufferTypes, WholeFacts DEF Bounds
<1>2. Whole(NextSample)
  BY <1>0, WholeFacts DEF NextSample
<1>3. ASSUME NEW junk \in Byte, Advance(junk) \/ Fire(junk) PROVE Bounds'
  <2>1. i' \in {i, NextSample} /\ UNCHANGED <<buf, past>>
    BY <1>3 DEF Advance, Fire, Iterate
  <2> QED BY <1>0, <1>2, <2>1 DEF Bounds
<1>4. ASSUME NEW junk \in Byte, Fail(junk) PROVE Bounds'
  <2>1. i' = (IF cur_stage > 0 THEN RestartAt ELSE NextSample) /\ UNCHANGED <<buf, past>>
    BY <1>4 DEF Fail, Iterate
  <2>2. CASE cur_stage > 0
    <3>1. Len(stages) # 1
      BY <1>0, <2>2, SoftTriggerAssumption, SMTT(30)
    <3>2. Unit = 1
      BY <1>0, <3>1 DEF Steady
    <3>3. i' \in Nat /\ i' = i' * Unit
      BY <1>0, <2>1, <2>2, <3>2
    <3>4. Whole(i')
      BY <3>3 DEF Whole
    <3> QED BY <1>0, <2>1, <3>4 DEF Bounds
  <2>3. CASE ~(cur_stage > 0)
    BY <1>0, <1>2, <2>1, <2>3 DEF Bounds
  <2> QED BY <2>2, <2>3
<1>5. CASE Return \/ UNCHANGED vars
  BY <1>5 DEF Return, vars, Bounds
<1> QED BY <1>1, <1>3, <1>4, <1>5 DEF Next

\* The trigger fires.
LEMMA FireTail ==
  ASSUME TypeOK, RingInv, Bounds, NEW junk \in Byte, Fire(junk)
  PROVE  PreTriggerIsTail'
<1> DEFINE data == SubSeq(buf, 1, i)
           f == FillAfter(data)
           r == RingAfter(data)
           from == SendFrom(data)
           all == past \o data
<1>0. RingOK /\ buf \in Seq(Byte) /\ past \in Seq(Byte) /\ i \in Nat /\ Unit \in Nat \ {0} /\ Size \in Nat
  BY RingTypes, SizeFacts DEF TypeOK
<1>1. /\ pc = "scan" /\ i < Len(buf) /\ past' = past /\ buf' = buf /\ offset' = i \div Unit
      /\ sent' = [n \in 1 .. f |-> r[(from + n - 1) % Size]] /\ pre_trigger_samples' = f \div Unit
  BY DEF Fire, Iterate, pre_trigger_send
<1>2. PICK k \in Nat : i = k * Unit
  BY DEF Bounds, Whole
<1>3. offset' = k /\ offset' * Unit = i
  BY <1>0, <1>1, <1>2, DivExact
<1>4. i \in 0 .. Len(buf)
  BY <1>0, <1>1
<1>5. SubSeq(past \o buf, 1, Len(past) + i) = all /\ data \in Seq(Byte) /\ Len(data) = i
  BY <1>0, <1>4, FrontOfCat
<1>6. Holding(past)
  BY <1>1 DEF RingInv, Kept
<1> HIDE DEF data
<1>7. /\ f = Smaller(Len(past) + Len(data), Size)
      /\ \A j \in 1 .. f : r[(from + j - 1) % Size] = all[Len(past) + Len(data) - f + j]
  BY <1>0, <1>5, <1>6, AppendHolds
<1>8. all \in Seq(Byte) /\ Len(all) = Len(past) + Len(data) /\ Len(past) \in Nat /\ Len(data) \in Nat
  BY <1>0, <1>5, CatFacts
<1>9. sent' \in Seq(Byte)
  BY <1>0, <1>1, <1>5, SentTypes
<1> HIDE DEF f, r, from, all
<1>10. f \in Nat /\ f = Smaller(Size, Len(all))
  BY <1>0, <1>7, <1>8 DEF Smaller
<1>11. /\ LastOf(all, Size) \in Seq(Byte) /\ Len(LastOf(all, Size)) = f
       /\ \A j \in 1 .. f : LastOf(all, Size)[j] = all[Len(all) - f + j]
  BY <1>0, <1>8, <1>10, LastFacts
<1>12. Len(sent') = f /\ \A j \in 1 .. f : sent'[j] = all[Len(all) - f + j]
  <2>1. Len(sent') = f
    BY <1>1, <1>10
  <2>2. ASSUME NEW j \in 1 .. f PROVE sent'[j] = all[Len(all) - f + j]
    <3>1. sent'[j] = r[(from + j - 1) % Size]
      BY <1>1
    <3>2. r[(from + j - 1) % Size] = all[Len(past) + Len(data) - f + j]
      BY <1>7
    <3>3. Len(all) - f + j = Len(past) + Len(data) - f + j
      BY <1>8, <1>10
    <3> QED BY <3>1, <3>2, <3>3, Zenon
  <2> QED BY <2>1, <2>2
<1>13. ASSUME NEW j \in 1 .. Len(sent') PROVE sent'[j] = LastOf(all, Size)[j]
  BY <1>11, <1>12
<1>14. sent' = LastOf(all, Size)
  BY <1>9, <1>11, <1>12, <1>13, SeqEqual
<1>15. SubSeq(Stream', 1, Len(past') + offset' * Unit) = all
  BY <1>1, <1>3, <1>5 DEF Stream
<1>16. pre_trigger_samples' * Unit = Len(sent')
  <2>1. Whole(Len(past)) /\ Whole(Len(data)) /\ Whole(Size)
    BY <1>5, SizeFacts DEF Bounds
  <2>2. Whole(f)
    BY <1>0, <1>7, <1>8, <2>1, WholeFacts
  <2>3. PICK m \in Nat : f = m * Unit
    BY <2>2 DEF Whole
  <2>4. f \div Unit = m
    BY <1>0, <2>3, DivExact
  <2> QED BY <1>1, <1>12, <2>3, <2>4
<1> QED BY <1>14, <1>15, <1>16 DEF PreTriggerIsTail

\* When the trigger fires, what is sent is exactly the last samples before it, in
\* order, as many as were asked for or as there are, wherever in the circular buffer
\* they lie and however many calls brought them.
THEOREM TailSent == ASSUME Steady PROVE Spec => []PreTriggerIsTail
<1>1. TypeOK /\ RingInv /\ Bounds /\ PreTriggerIsTail /\ [Next]_vars => PreTriggerIsTail'
  <2> SUFFICES ASSUME TypeOK, RingInv, Bounds, PreTriggerIsTail, [Next]_vars PROVE PreTriggerIsTail'
    OBVIOUS
  <2>1. ASSUME NEW junk \in Byte, Fire(junk) PROVE PreTriggerIsTail'
    BY <2>1, FireTail
  <2>2. CASE UNCHANGED vars
    BY <2>2 DEF vars, PreTriggerIsTail, Stream
  <2>3. ASSUME NEW data \in Buffers, Call(data) PROVE pc' # "fired"
    BY <2>3 DEF Call
  <2>4. ASSUME NEW junk \in Byte, Advance(junk) \/ Fail(junk) PROVE pc' # "fired"
    BY <2>4 DEF Advance, Fail, Iterate
  <2>5. CASE Return
    BY <2>5 DEF Return, PreTriggerIsTail
  <2> QED BY <2>1, <2>2, <2>3, <2>4, <2>5 DEF Next, PreTriggerIsTail
<1>2. Init => PreTriggerIsTail
  BY DEF Init, PreTriggerIsTail
<1>3. TypeOK /\ Bounds /\ [Next]_vars => Bounds'
  BY BoundsStep
<1> QED BY <1>1, <1>2, <1>3, TypeInit, TypeStep, RingInit, RingStep, BoundsInit, PTL DEF Spec

-----------------------------------------------------------------------------
(* Where the trigger fires.  The stages so far have matched on the samples    *)
(* just before the loop, and a match of all stages that begins in this        *)
(* buffer does not begin before the first of those.                         *)

Begun == Len(past) \div Unit          \* samples before this buffer
Seen == (Len(past) + i) \div Unit     \* samples before the loop

StageHolds(s, n) == \A k \in Matches(s) : Holds(stages[s][k], n)

\* An edge is compared with the sample of the previous iteration, which is the
\* previous sample of the stream if the loop never goes back; only the first match
\* evaluated knows that there is none.
Levels(t) ==
  \A s \in 1 .. Len(t) : \A n \in 1 .. Len(t[s]) :
    t[s][n].channel \in Enabled => t[s][n].match \in {"zero", "one"}
EdgeFirst(t) ==
  /\ Len(t) = 1
  /\ \E n \in 1 .. Len(t[1]) :
       /\ t[1][n].channel \in Enabled /\ t[1][n].match \notin {"zero", "one"}
       /\ \A l \in 1 .. n - 1 : t[1][l].channel \notin Enabled
LevelsOrEdge == \A t \in Triggers : Levels(t) \/ EdgeFirst(t)

Within == i <= Len(buf) /\ (pc = "idle" => i = Len(buf))
Matched == cur_stage <= Seen /\ \A s \in 1 .. cur_stage : StageHolds(s, Seen - cur_stage + s)
NoneBefore ==
  \A n \in Begun + Len(stages) .. Seen - cur_stage + Len(stages) - 1 :
    n <= Samples => ~TriggersAt(n)
Remembers ==
  EdgeFirst(stages) =>
    (count <=> Seen >= 1) /\ (Seen >= 1 => prev_sample = StreamSample(Seen))
ScanInv == pc # "fired" => Within /\ Matched /\ NoneBefore /\ Remembers

LEMMA MulLess ==
  ASSUME NEW a \in Nat, NEW b \in Nat, NEW u \in Nat \ {0}, a * u < b * u
  PROVE  a < b
<1>1. ASSUME b <= a PROVE FALSE
  <2>1. (a - b) * u >= 0 /\ (a - b) * u = a * u - b * u
    BY <1>1
  <2>2. a * u \in Int /\ b * u \in Int
    OBVIOUS
  <2> QED BY <2>1, <2>2
<1> QED BY <1>1

LEMMA WholeDiv == ASSUME NEW n \in Nat, Whole(n) PROVE n \div Unit \in Nat /\ n = (n \div Unit) * Unit
BY DivExact, SizeFacts DEF Whole

\* Bytes and samples.
LEMMA Numbers ==
  ASSUME TypeOK, Bounds
  PROVE  /\ Begun \in Nat /\ Seen \in Nat /\ Samples \in Nat /\ i \in Nat
         /\ Len(past) = Begun * Unit /\ Len(past) + i = Seen * Unit
         /\ Len(past) + Len(buf) = Samples * Unit /\ Len(Stream) = Len(past) + Len(buf)
         /\ Begun <= Seen /\ (i < Len(buf) => Seen < Samples) /\ (i = Len(buf) => Seen = Samples)
         /\ (i <= Len(buf) => Seen <= Samples)
<1>1. /\ past \in Seq(Byte) /\ buf \in Seq(Byte) /\ i \in Nat /\ Unit \in Nat \ {0}
      /\ Len(past) \in Nat /\ Len(buf) \in Nat
  BY SizeFacts DEF TypeOK
<1>2. Len(Stream) = Len(past) + Len(buf)
  BY <1>1, CatFacts DEF Stream
<1>3. Whole(Len(past)) /\ Whole(Len(past) + i) /\ Whole(Len(past) + Len(buf))
  BY <1>1, WholeFacts DEF Bounds
<1>4. /\ Begun \in Nat /\ Seen \in Nat /\ Samples \in Nat
      /\ Len(past) = Begun * Unit /\ Len(past) + i = Seen * Unit
      /\ Len(past) + Len(buf) = Samples * Unit
  BY <1>1, <1>2, <1>3, WholeDiv, SMTT(30) DEF Begun, Seen, Samples
<1>5. ASSUME Seen < Begun PROVE FALSE
  <2>1. (Begun - Seen) * Unit >= 1 * Unit
    BY <1>1, <1>4, <1>5
  <2>2. (Begun - Seen) * Unit = Begun * Unit - Seen * Unit
    BY <1>1, <1>4
  <2> QED BY <1>1, <1>4, <2>1, <2>2
<1>6. i < Len(buf) => Seen < Samples
  <2>1. i < Len(buf) => Seen * Unit < Samples * Unit
    BY <1>1, <1>4
  <2> QED BY <1>1, <1>4, <2>1, MulLess
<1>7. i = Len(buf) => Seen = Samples
  BY <1>2 DEF Seen, Samples
<1> QED BY <1>1, <1>2, <1>4, <1>5, <1>6, <1>7

\* The sample at the loop.
LEMMA LoopSample ==
  ASSUME TypeOK, Bounds, i < Len(buf), NEW junk \in Byte
  PROVE  SampleAt(i, junk) = StreamSample(Seen + 1)
<1>1. /\ Seen \in Nat /\ Samples \in Nat /\ i \in Nat /\ Seen < Samples /\ Unit \in Nat \ {0}
      /\ Len(past) + i = Seen * Unit /\ Len(past) + Len(buf) = Samples * Unit
      /\ past \in Seq(Byte) /\ buf \in Seq(Byte) /\ Len(past) \in Nat /\ Len(buf) \in Nat
  BY Numbers, SizeFacts, SMTT(30) DEF TypeOK
<1>2. i + Unit <= Len(buf)
  <2>1. (Samples - Seen) * Unit >= 1 * Unit
    BY <1>1
  <2>2. (Samples - Seen) * Unit = Samples * Unit - Seen * Unit
    BY <1>1
  <2> QED BY <1>1, <2>1, <2>2
<1> DEFINE F(b) == IF i + b < Len(buf) THEN buf[i + b + 1] ELSE junk
           G(n, b) == Stream[(n - 1) * Unit + b + 1]
<1>3. ASSUME NEW b \in 0 .. Unit - 1 PROVE F(b) = G(Seen + 1, b)
  <2>1. i + b < Len(buf) /\ (Seen + 1 - 1) * Unit = Len(past) + i
    BY <1>1, <1>2
  <2>2. Len(past) + i + b + 1 \in 1 .. Len(past) + Len(buf) /\ ~(Len(past) + i + b + 1 <= Len(past))
        /\ (Len(past) + i + b + 1) - Len(past) = i + b + 1
    BY <1>1, <2>1
  <2>3. Stream[Len(past) + i + b + 1] = buf[i + b + 1]
    BY <1>1, <2>2, CatFacts DEF Stream
  <2>4. F(b) = buf[i + b + 1]
    BY <2>1
  <2>5. ((Seen + 1) - 1) * Unit + b + 1 = Len(past) + i + b + 1
    BY <1>1, <2>1
  <2>6. G(Seen + 1, b) = Stream[Len(past) + i + b + 1]
    BY <2>5, Zenon
  <2> QED BY <2>3, <2>4, <2>6, Zenon
<1>4. SampleAt(i, junk) = [b \in 0 .. Unit - 1 |-> F(b)]
  BY DEF SampleAt
<1>5. ASSUME NEW n PROVE StreamSample(n) = [b \in 0 .. Unit - 1 |-> G(n, b)]
  BY DEF StreamSample
<1> HIDE DEF F, G
<1>6. [b \in 0 .. Unit - 1 |-> F(b)] = [b \in 0 .. Unit - 1 |-> G(Seen + 1, b)]
  BY <1>3
<1> QED BY <1>4, <1>5, <1>6

\* What the loop finds on that sample is what the stage means, for a trigger on levels
\* or one that begins with an edge.
LEMMA FoundIsHolds ==
  ASSUME LevelsOrEdge, TypeOK, Bounds, Remembers, i < Len(buf), NEW junk \in Byte
  PROVE  match_found(SampleAt(i, junk)) <=> StageHolds(cur_stage + 1, Seen + 1)
<1> DEFINE sample == SampleAt(i, junk)
           c == cur_stage + 1
<1>1. /\ sample = StreamSample(Seen + 1) /\ Seen \in Nat
      /\ stages \in Triggers /\ cur_stage \in 0 .. Len(stages) - 1
      /\ stages \in Seq(Seq([channel : 0 .. 8 * Unit - 1, match : Kinds]))
  BY LoopSample, Numbers, SoftTriggerAssumption DEF TypeOK
<1>2. c \in 1 .. Len(stages) /\ stages[c] \in Seq([channel : 0 .. 8 * Unit - 1, match : Kinds])
  BY <1>1
<1>3. ASSUME NEW n \in Matches(c)
      PROVE  /\ n \in 1 .. Len(stages[c]) /\ stages[c][n].match \in Kinds
             /\ stages[c][n].channel \in Enabled
  <2>1. n \in 1 .. Len(stages[c]) /\ stages[c][n].channel \in Enabled
    BY DEF Matches
  <2>2. stages[c][n] \in [channel : 0 .. 8 * Unit - 1, match : Kinds]
    <3>1. ASSUME NEW T, NEW q \in Seq(T), NEW x \in 1 .. Len(q) PROVE q[x] \in T
      OBVIOUS
    <3> QED BY <1>2, <2>1, <3>1
  <2> QED BY <2>1, <2>2
<1> HIDE DEF sample, c
<1>4. match_found(sample) <=>
        \A n \in Matches(c) : logic_check_match(sample, stages[c][n],
                                                ~count /\ \A l \in Matches(c) : n <= l)
  BY DEF match_found, c
<1>5. CASE Levels(stages)
  <2>1. ASSUME NEW n \in Matches(c), NEW f
        PROVE  logic_check_match(sample, stages[c][n], f) <=> Holds(stages[c][n], Seen + 1)
    <3>1. stages[c][n].match \in {"zero", "one"}
      BY <1>2, <1>3, <1>5 DEF Levels
    <3> QED BY <1>1, <3>1 DEF logic_check_match, Holds
  <2> QED BY <1>4, <2>1 DEF StageHolds, c, sample
<1>6. CASE EdgeFirst(stages)
  <2>1. PICK e \in Matches(c) : stages[c][e].match \notin {"zero", "one"}
                                /\ \A l \in Matches(c) : e <= l
    <3>1. c = 1
      BY <1>1, <1>6 DEF EdgeFirst, c
    <3>2. PICK e \in 1 .. Len(stages[1]) :
            /\ stages[1][e].channel \in Enabled /\ stages[1][e].match \notin {"zero", "one"}
            /\ \A l \in 1 .. e - 1 : stages[1][l].channel \notin Enabled
      BY <1>6 DEF EdgeFirst
    <3>3. ASSUME NEW l \in Matches(c) PROVE e <= l
      BY <1>2, <3>1, <3>2 DEF Matches
    <3> QED BY <3>1, <3>2, <3>3 DEF Matches
  <2>2. CASE Seen >= 1
    <3>1. count /\ prev_sample = StreamSample(Seen) /\ Seen + 1 > 1 /\ (Seen + 1) - 1 = Seen
      BY <1>1, <1>6, <2>2 DEF Remembers
    <3>2. ASSUME NEW n \in Matches(c)
          PROVE  logic_check_match(sample, stages[c][n], ~count /\ \A l \in Matches(c) : n <= l)
                   <=> Holds(stages[c][n], Seen + 1)
      <4> DEFINE m == stages[c][n]
                 f == ~count /\ \A l \in Matches(c) : n <= l
      <4>1. m.match \in Kinds /\ ~f
        BY <1>3, <3>1
      <4> HIDE DEF m, f
      <4>2. logic_check_match(sample, m, f) <=> Holds(m, Seen + 1)
        <5> DEFINE bit == Bit(sample, m.channel)
                   prev == Bit(prev_sample, m.channel)
        <5>1. bit \in BOOLEAN /\ prev \in BOOLEAN
          BY DEF Bit
        <5>2. Bit(StreamSample(Seen + 1), m.channel) = bit
              /\ Bit(StreamSample((Seen + 1) - 1), m.channel) = prev
          BY <1>1, <3>1
        <5> HIDE DEF bit, prev
        <5>3. logic_check_match(sample, m, f) <=>
                CASE m.match = "zero"    -> ~bit
                  [] m.match = "one"     -> bit
                  [] m.match = "rising"  -> ~f /\ ~prev /\ bit
                  [] m.match = "falling" -> ~f /\ prev /\ ~bit
                  [] m.match = "edge"    -> ~f /\ prev # bit
          BY DEF logic_check_match, bit, prev
        <5>4. Holds(m, Seen + 1) <=>
                CASE m.match = "zero" -> ~bit
                  [] m.match = "one"  -> bit
                  [] OTHER -> /\ Seen + 1 > 1
                              /\ bit # prev
                              /\ m.match = "rising" => bit
                              /\ m.match = "falling" => ~bit
          BY <5>2, Zenon DEF Holds
        <5> QED BY <3>1, <4>1, <5>1, <5>3, <5>4 DEF Kinds
      <4> QED BY <4>2 DEF m, f
    <3> QED BY <1>4, <3>2 DEF StageHolds, c, sample
  <2>3. CASE ~(Seen >= 1)
    <3>1. ~count /\ Seen = 0
      BY <1>1, <1>6, <2>3 DEF Remembers
    <3> DEFINE m == stages[c][e]
               f == ~count /\ \A l \in Matches(c) : e <= l
    <3>2. m.match \in {"rising", "falling", "edge"} /\ f
      BY <1>3, <2>1, <3>1 DEF Kinds
    <3> HIDE DEF m, f
    <3>3. ~logic_check_match(sample, m, f)
      BY <3>2 DEF logic_check_match
    <3>4. ~Holds(m, Seen + 1)
      BY <3>1, <3>2 DEF Holds
    <3>5. ~match_found(sample)
      BY <1>4, <2>1, <3>3 DEF m, f
    <3>6. ~StageHolds(c, Seen + 1)
      BY <2>1, <3>4 DEF StageHolds, m
    <3> QED BY <3>5, <3>6 DEF c, sample
  <2> QED BY <2>2, <2>3
<1> QED BY <1>1, <1>5, <1>6 DEF LevelsOrEdge

\* The trigger as a conjunction of its stages.
LEMMA TriggersByStage ==
  ASSUME NEW n
  PROVE  TriggersAt(n) <=> /\ n >= Len(stages)
                           /\ \A s \in 1 .. Len(stages) : StageHolds(s, n - Len(stages) + s)
BY DEF TriggersAt, StageHolds, Matches

\* An iteration leaves the stream, and so what holds in it.
LEMMA SameStream ==
  ASSUME UNCHANGED <<stages, past, buf>>
  PROVE  /\ Begun' = Begun /\ Samples' = Samples
         /\ \A n : StreamSample(n)' = StreamSample(n)
         /\ \A s, n : StageHolds(s, n)' <=> StageHolds(s, n)
         /\ \A n : TriggersAt(n)' <=> TriggersAt(n)
<1>1. Stream' = Stream /\ Begun' = Begun
  BY DEF Stream, Begun
<1>2. Samples' = Samples
  BY <1>1 DEF Samples
<1>3. ASSUME NEW n PROVE StreamSample(n)' = StreamSample(n)
  BY <1>1 DEF StreamSample
<1>4. ASSUME NEW m, NEW n PROVE Holds(m, n)' <=> Holds(m, n)
  BY <1>3, Zenon DEF Holds
<1>5. ASSUME NEW s, NEW n PROVE StageHolds(s, n)' <=> StageHolds(s, n)
  BY <1>4 DEF StageHolds, Matches
<1>6. ASSUME NEW n PROVE TriggersAt(n)' <=> TriggersAt(n)
  BY <1>4 DEF TriggersAt
<1> QED BY <1>1, <1>2, <1>3, <1>5, <1>6

\* A new buffer leaves what holds in the stream so far.
LEMMA GrownStream ==
  ASSUME TypeOK, Bounds, NEW data \in Seq(Byte), Whole(Len(data)),
         past' = past \o buf, buf' = data, stages' = stages
  PROVE  /\ \A n \in 1 .. Samples : StreamSample(n)' = StreamSample(n)
         /\ \A s : \A n \in 1 .. Samples : StageHolds(s, n)' <=> StageHolds(s, n)
<1>1. /\ past \in Seq(Byte) /\ buf \in Seq(Byte) /\ Unit \in Nat \ {0} /\ Samples \in Nat
      /\ Stream \in Seq(Byte) /\ Len(Stream) = Samples * Unit
  BY Numbers, SizeFacts, CatFacts DEF TypeOK, Stream
<1>2. Stream' = Stream \o data
  BY DEF Stream
<1>3. ASSUME NEW n \in 1 .. Samples PROVE StreamSample(n)' = StreamSample(n)
  <2> DEFINE F(b) == Stream'[(n - 1) * Unit + b + 1]
             G(b) == Stream[(n - 1) * Unit + b + 1]
  <2>1. StreamSample(n)' = [b \in 0 .. Unit - 1 |-> F(b)]
    BY DEF StreamSample
  <2>2. StreamSample(n) = [b \in 0 .. Unit - 1 |-> G(b)]
    BY DEF StreamSample
  <2>3. ASSUME NEW b \in 0 .. Unit - 1 PROVE F(b) = G(b)
    <3> DEFINE x == (n - 1) * Unit + b + 1
               y == (n - 1) * Unit
               z == Samples * Unit
    <3>1. y \in Nat /\ z \in Nat
      BY <1>1
    <3>2. (Samples - n) * Unit >= 0 /\ (Samples - n) * Unit = z - y - Unit
      BY <1>1
    <3>a. x = y + b + 1 /\ Len(Stream) = z
      BY <1>1
    <3> HIDE DEF x, y, z
    <3>b. z - y - Unit >= 0
      BY <3>2
    <3>3. x \in 1 .. Len(Stream)
      BY <1>1, <3>1, <3>a, <3>b
    <3>4. Len(Stream) \in Nat /\ Len(data) \in Nat
      BY <1>1
    <3>5. x \in 1 .. Len(Stream) + Len(data) /\ x <= Len(Stream)
      BY <3>3, <3>4
    <3>6. (Stream \o data)[x] = Stream[x]
      BY <1>1, <3>5, CatFacts
    <3> QED BY <1>2, <3>6 DEF x
  <2> HIDE DEF F, G
  <2> QED BY <2>1, <2>2, <2>3
<1>4. ASSUME NEW m, NEW n \in 1 .. Samples PROVE Holds(m, n)' <=> Holds(m, n)
  <2>1. n > 1 => n - 1 \in 1 .. Samples
    BY <1>1
  <2>2. StreamSample(n)' = StreamSample(n) /\ (n > 1 => StreamSample(n - 1)' = StreamSample(n - 1))
    BY <1>3, <2>1
  <2>3. CASE n > 1
    BY <2>2, <2>3, Zenon DEF Holds
  <2>4. CASE ~(n > 1)
    BY <2>2, <2>4, Zenon DEF Holds
  <2> QED BY <2>3, <2>4
<1>5. ASSUME NEW s, NEW n \in 1 .. Samples PROVE StageHolds(s, n)' <=> StageHolds(s, n)
  BY <1>4 DEF StageHolds, Matches
<1> QED BY <1>3, <1>5

\* The loop goes on with one more sample seen, or goes back.
LEMMA SeenNext ==
  ASSUME TypeOK, Bounds, past' = past, i' = NextSample
  PROVE  Seen' = Seen + 1
<1>1. Seen \in Nat /\ Len(past) + i = Seen * Unit /\ Unit \in Nat \ {0} /\ Len(past) \in Nat /\ i \in Nat
  BY Numbers, SizeFacts DEF TypeOK
<1>2. Len(past) + i' = (Seen + 1) * Unit
  BY <1>1 DEF NextSample
<1> QED BY <1>1, <1>2, DivExact DEF Seen

LEMMA ScanInit == Init => ScanInv
<1> SUFFICES ASSUME Init PROVE ScanInv
  OBVIOUS
<1>1. TypeOK /\ Bounds
  BY TypeInit, BoundsInit
<1>2. i = 0 /\ Len(buf) = 0 /\ Len(past) = 0 /\ cur_stage = 0 /\ count = FALSE
  BY DEF Init
<1>3. Len(past) + i = 0 * Unit /\ Len(past) = 0 * Unit /\ Unit \in Nat \ {0}
  BY <1>2, SizeFacts
<1>4. Seen = 0 /\ Begun = 0
  BY <1>3, DivExact DEF Seen, Begun
<1>5. Len(stages) \in Nat
  BY <1>1, SoftTriggerAssumption DEF TypeOK
<1>6. NoneBefore
  BY <1>2, <1>4, <1>5 DEF NoneBefore
<1> QED BY <1>2, <1>4, <1>6 DEF ScanInv, Within, Matched, Remembers

\* The steps of the loop.
LEMMA ScanStep ==
  ASSUME Steady, LevelsOrEdge
  PROVE  TypeOK /\ Bounds /\ ScanInv /\ [Next]_vars => ScanInv'
<1> SUFFICES ASSUME TypeOK, Bounds, ScanInv, [Next]_vars PROVE ScanInv'
  OBVIOUS
<1>0. /\ Begun \in Nat /\ Seen \in Nat /\ Samples \in Nat /\ i \in Nat /\ Unit \in Nat \ {0}
      /\ past \in Seq(Byte) /\ buf \in Seq(Byte) /\ Len(past) \in Nat /\ Len(buf) \in Nat
      /\ Len(past) = Begun * Unit /\ Len(past) + i = Seen * Unit
      /\ Len(past) + Len(buf) = Samples * Unit
      /\ Begun <= Seen /\ (i < Len(buf) => Seen < Samples) /\ (i = Len(buf) => Seen = Samples)
      /\ stages \in Triggers /\ Len(stages) \in Nat \ {0} /\ cur_stage \in 0 .. Len(stages) - 1
  <2>1. stages \in Triggers /\ cur_stage \in 0 .. Len(stages) - 1
    BY DEF TypeOK
  <2>2. Len(stages) \in Nat \ {0}
    BY <2>1, SoftTriggerAssumption
  <2>3. /\ past \in Seq(Byte) /\ buf \in Seq(Byte) /\ Len(past) \in Nat /\ Len(buf) \in Nat
        /\ Unit \in Nat \ {0}
    BY SizeFacts DEF TypeOK
  <2> QED BY <2>1, <2>2, <2>3, Numbers
<1>1. ASSUME NEW data \in Buffers, Call(data) PROVE ScanInv'
  <2>1. /\ pc = "idle" /\ pc' = "scan" /\ past' = past \o buf /\ buf' = data /\ i' = 0
        /\ UNCHANGED <<stages, cur_stage, prev_sample, count>>
    BY <1>1 DEF Call
  <2>2. data \in Seq(Byte) /\ Whole(Len(data))
    BY BufferTypes
  <2>3. i = Len(buf) /\ Seen = Samples /\ Matched /\ Remembers
    BY <1>0, <2>1 DEF ScanInv, Within
  <2>4. Len(past') = Samples * Unit
    BY <1>0, <2>1, CatFacts
  <2>5. Len(past') + i' = Samples * Unit
    BY <1>0, <2>1, <2>4
  <2>6. Seen' = Seen /\ Begun' = Seen
    BY <1>0, <2>3, <2>4, <2>5, DivExact DEF Seen, Begun
  <2>7. /\ \A n \in 1 .. Samples : StreamSample(n)' = StreamSample(n)
        /\ \A s : \A n \in 1 .. Samples : StageHolds(s, n)' <=> StageHolds(s, n)
    BY <2>1, <2>2, GrownStream
  <2>8. Matched'
    <3>1. ASSUME NEW s \in 1 .. cur_stage PROVE StageHolds(s, Seen - cur_stage + s)'
      <4>1. Seen - cur_stage + s \in 1 .. Samples /\ StageHolds(s, Seen - cur_stage + s)
        BY <1>0, <2>3 DEF Matched
      <4> DEFINE n == Seen - cur_stage + s
      <4>2. n' = n
        BY <2>1, <2>6
      <4> QED BY <2>7, <4>1, <2>1, <2>6
    <3> QED BY <2>1, <2>3, <2>6, <3>1 DEF Matched
  <2>9. NoneBefore'
    BY <1>0, <2>1, <2>6 DEF NoneBefore
  <2>10. Remembers'
    BY <1>0, <2>1, <2>3, <2>6, <2>7 DEF Remembers, EdgeFirst
  <2>11. Within'
    BY <2>1, <2>2 DEF Within
  <2> QED BY <2>8, <2>9, <2>10, <2>11 DEF ScanInv
<1>2. ASSUME NEW junk \in Byte, Iterate(SampleAt(i, junk)), pc' = "scan"
      PROVE  /\ UNCHANGED <<stages, past, buf>> /\ i < Len(buf) /\ Seen < Samples
             /\ Within /\ Matched /\ NoneBefore /\ Remembers
             /\ match_found(SampleAt(i, junk)) <=> StageHolds(cur_stage + 1, Seen + 1)
             /\ i' = NextSample => Within' /\ Remembers'
  <2>1. /\ UNCHANGED <<stages, past, buf>> /\ i < Len(buf) /\ pc = "scan"
        /\ count' = (count \/ Matches(cur_stage + 1) # {}) /\ prev_sample' = SampleAt(i, junk)
    BY <1>2 DEF Iterate
  <2>2. Within /\ Matched /\ NoneBefore /\ Remembers /\ Seen < Samples
    BY <1>0, <2>1 DEF ScanInv
  <2>3. match_found(SampleAt(i, junk)) <=> StageHolds(cur_stage + 1, Seen + 1)
    BY <2>1, <2>2, FoundIsHolds
  <2>4. ASSUME i' = NextSample PROVE Within' /\ Remembers'
    <3>1. Seen' = Seen + 1
      BY <2>1, <2>4, SeenNext
    <3>2. i' <= Len(buf)
      <4>1. (Samples - Seen) * Unit >= 1 * Unit
        BY <1>0, <2>2
      <4>2. (Samples - Seen) * Unit = Samples * Unit - Seen * Unit
        BY <1>0
      <4> QED BY <1>0, <2>4, <4>1, <4>2 DEF NextSample
    <3>3. EdgeFirst(stages) => count'
      <4> SUFFICES ASSUME EdgeFirst(stages) PROVE count'
        OBVIOUS
      <4>1. cur_stage + 1 = 1
        BY <1>0 DEF EdgeFirst
      <4>2. Matches(cur_stage + 1) # {}
        BY <4>1 DEF EdgeFirst, Matches
      <4> QED BY <2>1, <4>2
    <3>4. prev_sample' = StreamSample(Seen + 1)
      BY <2>1, LoopSample
    <3>5. Remembers'
      <4>1. \A n : StreamSample(n)' = StreamSample(n)
        BY <2>1, SameStream
      <4> QED BY <1>0, <2>1, <3>1, <3>3, <3>4, <4>1 DEF Remembers, EdgeFirst
    <3> QED BY <1>2, <2>1, <3>2, <3>5 DEF Within
  <2> QED BY <2>1, <2>2, <2>3, <2>4
<1>3. ASSUME NEW junk \in Byte, Advance(junk) PROVE ScanInv'
  <2>1. /\ Iterate(SampleAt(i, junk)) /\ match_found(SampleAt(i, junk)) /\ i' = NextSample
        /\ cur_stage' = cur_stage + 1 /\ pc' = pc /\ pc = "scan"
    BY <1>3 DEF Advance, Iterate
  <2>2. /\ UNCHANGED <<stages, past, buf>> /\ Matched /\ NoneBefore
        /\ StageHolds(cur_stage + 1, Seen + 1) /\ Within' /\ Remembers'
    BY <1>2, <2>1
  <2>3. Seen' = Seen + 1
    BY <2>1, <2>2, SeenNext
  <2>4. Matched'
    <3>1. cur_stage' <= Seen' /\ Seen' - cur_stage' = Seen - cur_stage
      BY <1>0, <2>1, <2>2, <2>3 DEF Matched
    <3>2. ASSUME NEW s \in 1 .. cur_stage + 1 PROVE StageHolds(s, Seen - cur_stage + s)
      <4>1. CASE s = cur_stage + 1
        <5>1. Seen - cur_stage + s = Seen + 1
          BY <1>0, <4>1
        <5> QED BY <2>2, <4>1, <5>1
      <4>2. CASE s # cur_stage + 1
        BY <1>0, <2>2, <4>2 DEF Matched
      <4> QED BY <4>1, <4>2
    <3>3. \A s, n : StageHolds(s, n)' <=> StageHolds(s, n)
      BY <2>2, SameStream
    <3> QED BY <2>1, <3>1, <3>2, <3>3 DEF Matched
  <2>5. NoneBefore'
    <3>1. Seen' - cur_stage' + Len(stages') - 1 = Seen - cur_stage + Len(stages) - 1
      BY <1>0, <2>1, <2>2, <2>3
    <3>2. /\ Begun' = Begun /\ Samples' = Samples
          /\ \A n : TriggersAt(n)' <=> TriggersAt(n)
      BY <2>2, SameStream
    <3> QED BY <2>2, <3>1, <3>2 DEF NoneBefore
  <2> QED BY <2>2, <2>4, <2>5 DEF ScanInv
<1>4. ASSUME NEW junk \in Byte, Fail(junk) PROVE ScanInv'
  <2>1. /\ Iterate(SampleAt(i, junk)) /\ ~match_found(SampleAt(i, junk))
        /\ i' = (IF cur_stage > 0 THEN RestartAt ELSE NextSample)
        /\ cur_stage' = 0 /\ pc' = pc /\ pc = "scan"
    BY <1>4 DEF Fail, Iterate, StageAfterFailure
  <2>2. /\ UNCHANGED <<stages, past, buf>> /\ Matched /\ NoneBefore /\ Seen < Samples
        /\ ~StageHolds(cur_stage + 1, Seen + 1) /\ i < Len(buf)
        /\ (i' = NextSample => Within' /\ Remembers')
    BY <1>2, <2>1
  <2>3. /\ Begun' = Begun /\ Samples' = Samples /\ \A n : TriggersAt(n)' <=> TriggersAt(n)
    BY <2>2, SameStream
  <2>4. ~TriggersAt(Seen - cur_stage + Len(stages))
    <3> DEFINE n == Seen - cur_stage + Len(stages)
               s == cur_stage + 1
    <3>1. n - Len(stages) + s = Seen + 1 /\ s \in 1 .. Len(stages)
      BY <1>0
    <3> HIDE DEF n, s
    <3>2. ~StageHolds(s, n - Len(stages) + s)
      BY <2>2, <3>1 DEF s
    <3>3. ~TriggersAt(n)
      BY <3>1, <3>2, TriggersByStage
    <3> QED BY <3>3 DEF n
  <2>5. ASSUME NEW n \in Begun + Len(stages) .. Seen - cur_stage + Len(stages), n <= Samples
        PROVE  ~TriggersAt(n)
    <3>1. CASE n = Seen - cur_stage + Len(stages)
      BY <2>4, <3>1
    <3>2. CASE n # Seen - cur_stage + Len(stages)
      <4>1. n \in Begun + Len(stages) .. Seen - cur_stage + Len(stages) - 1
        BY <1>0, <3>2
      <4> QED BY <2>2, <2>5, <4>1 DEF NoneBefore
    <3> QED BY <3>1, <3>2
  <2>6. CASE ~(cur_stage > 0)
    <3>1. i' = NextSample /\ cur_stage = 0 /\ Seen' = Seen + 1
      BY <1>0, <2>1, <2>2, <2>6, SeenNext
    <3>2. Matched'
      BY <1>0, <2>1, <3>1 DEF Matched
    <3>3. NoneBefore'
      <4>1. Seen' - cur_stage' + Len(stages') - 1 = Seen - cur_stage + Len(stages)
        BY <1>0, <2>1, <2>2, <3>1
      <4> QED BY <2>2, <2>3, <2>5, <4>1 DEF NoneBefore
    <3> QED BY <2>2, <3>1, <3>2, <3>3 DEF ScanInv
  <2>7. CASE cur_stage > 0
    <3>1. Len(stages) # 1 /\ Unit = 1
      <4>1. Len(stages) # 1
        <5>1. cur_stage \in 0 .. Len(stages) - 1 /\ Len(stages) \in Nat
          BY <1>0
        <5>2. ASSUME NEW l \in Nat, NEW c \in 0 .. l - 1, c > 0 PROVE l # 1
          BY <5>2
        <5> QED BY <2>7, <5>1, <5>2, Zenon
      <4>2. stages \in Triggers
        BY <1>0
      <4> QED BY <4>1, <4>2 DEF Steady
    <3>2. Seen = Len(past) + i /\ Begun = Len(past) /\ Seen' = Len(past) + i'
          /\ i' = IF i - cur_stage < -1 THEN 0 ELSE i - cur_stage + 1
      <4>1. RestartAt = IF i - cur_stage < -1 THEN 0 ELSE i - cur_stage + 1
        BY <1>0, <3>1 DEF RestartAt
      <4>2. i' \in Nat /\ Len(past') = Len(past)
        BY <1>0, <2>1, <2>2, <2>7, <4>1
      <4>3. Len(past) + i' \in Nat /\ (Len(past) + i') = (Len(past) + i') * Unit
        <5>1. Len(past) \in Nat
          BY <1>0
        <5>2. ASSUME NEW x \in Nat PROVE x = x * 1
          OBVIOUS
        <5>3. Len(past) + i' \in Nat
          BY <4>2, <5>1
        <5> QED BY <3>1, <5>2, <5>3
      <4>4. Seen' = Len(past) + i'
        BY <1>0, <4>2, <4>3, DivExact DEF Seen
      <4> QED BY <1>0, <2>1, <2>7, <3>1, <4>1, <4>4
    <3>3. Within'
      BY <1>0, <2>1, <2>2, <2>7, <3>2 DEF Within
    <3>4. Remembers'
      BY <2>2, <3>1 DEF Remembers, EdgeFirst
    <3>5. Matched'
      BY <1>0, <2>1, <2>7, <3>2 DEF Matched
    <3>6. NoneBefore'
      <4>1. CASE i - cur_stage < -1
        BY <1>0, <2>1, <2>2, <2>3, <3>2, <4>1 DEF NoneBefore
      <4>2. CASE ~(i - cur_stage < -1)
        <5>1. Seen' - cur_stage' + Len(stages') - 1 = Seen - cur_stage + Len(stages)
          <6>1. Len(past) \in Nat /\ i \in Nat /\ Len(stages) \in Nat /\ cur_stage \in Nat
            BY <1>0
          <6>2. i' = i - cur_stage + 1 /\ stages' = stages /\ cur_stage' = 0
            BY <2>1, <2>2, <3>2, <4>2
          <6> QED BY <3>2, <6>1, <6>2
        <5> QED BY <2>2, <2>3, <2>5, <5>1 DEF NoneBefore
      <4> QED BY <4>1, <4>2
    <3> QED BY <3>3, <3>4, <3>5, <3>6 DEF ScanInv
  <2> QED BY <2>6, <2>7
<1>5. ASSUME NEW junk \in Byte, Fire(junk) PROVE ScanInv'
  BY <1>5 DEF Fire, ScanInv
<1>6. CASE Return \/ UNCHANGED vars
  <2>1. UNCHANGED <<stages, past, buf, i, cur_stage, prev_sample, count>>
        /\ (pc' # "fired" => pc # "fired")
    BY <1>6 DEF Return, vars
  <2>2. pc' = "idle" => i >= Len(buf) \/ pc = "idle"
    BY <1>6 DEF Return, vars
  <2>3. /\ Begun' = Begun /\ Samples' = Samples /\ Seen' = Seen
        /\ \A n : StreamSample(n)' = StreamSample(n)
        /\ \A s, n : StageHolds(s, n)' <=> StageHolds(s, n)
        /\ \A n : TriggersAt(n)' <=> TriggersAt(n)
    BY <2>1, SameStream DEF Seen
  <2> SUFFICES ASSUME pc' # "fired" PROVE Within' /\ Matched' /\ NoneBefore' /\ Remembers'
    BY DEF ScanInv
  <2>4. Within /\ Matched /\ NoneBefore /\ Remembers
    BY <2>1 DEF ScanInv
  <2>5. Within'
    BY <1>0, <2>1, <2>2, <2>4 DEF Within
  <2>6. Matched' /\ NoneBefore' /\ Remembers'
    BY <2>1, <2>3, <2>4 DEF Matched, NoneBefore, Remembers, EdgeFirst
  <2> QED BY <2>5, <2>6
<1> QED BY <1>1, <1>3, <1>4, <1>5, <1>6 DEF Next

\* Where it fires.
LEMMA FireSound ==
  ASSUME LevelsOrEdge, TypeOK, Bounds, ScanInv, NEW junk \in Byte, Fire(junk)
  PROVE  Sound' /\ FirstInBuffer'
<1>0. /\ Begun \in Nat /\ Seen \in Nat /\ Samples \in Nat /\ i \in Nat /\ Unit \in Nat \ {0}
      /\ Len(past) = Begun * Unit /\ Len(past) + i = Seen * Unit /\ Begun <= Seen
      /\ Len(past) \in Nat
      /\ stages \in Triggers /\ Len(stages) \in Nat /\ cur_stage \in 0 .. Len(stages) - 1
  <2>1. stages \in Triggers /\ cur_stage \in 0 .. Len(stages) - 1
    BY DEF TypeOK
  <2>2. Len(stages) \in Nat
    BY <2>1, SoftTriggerAssumption
  <2>3. Len(past) \in Nat /\ Unit \in Nat \ {0}
    BY SizeFacts DEF TypeOK
  <2> QED BY <2>1, <2>2, <2>3, Numbers
<1>1. /\ pc = "scan" /\ i < Len(buf) /\ match_found(SampleAt(i, junk))
      /\ cur_stage + 1 = Len(stages) /\ offset' = i \div Unit
      /\ UNCHANGED <<stages, past, buf>>
  BY DEF Fire, Iterate
<1>2. Seen < Samples /\ Matched /\ NoneBefore /\ Remembers
  BY <1>1, Numbers DEF ScanInv
<1>3. StageHolds(Len(stages), Seen + 1)
  BY <1>1, <1>2, FoundIsHolds
<1>4. FiredAt' = Seen + 1
  <2>1. Seen - Begun \in Nat /\ i = (Seen - Begun) * Unit
    BY <1>0
  <2>2. offset' = Seen - Begun
    BY <1>0, <1>1, <2>1, DivExact
  <2>3. Len(past') \div Unit = Begun
    BY <1>1 DEF Begun
  <2> QED BY <1>0, <2>2, <2>3 DEF FiredAt
<1>5. TriggersAt(Seen + 1)
  <2>1. Seen + 1 >= Len(stages)
    BY <1>0, <1>1, <1>2 DEF Matched
  <2>2. ASSUME NEW s \in 1 .. Len(stages) PROVE StageHolds(s, (Seen + 1) - Len(stages) + s)
    <3>1. CASE s = Len(stages)
      <4>1. (Seen + 1) - Len(stages) + s = Seen + 1
        BY <1>0, <3>1
      <4> QED BY <1>3, <3>1, <4>1
    <3>2. CASE s # Len(stages)
      <4>1. s \in 1 .. cur_stage /\ (Seen + 1) - Len(stages) + s = Seen - cur_stage + s
        BY <1>0, <1>1, <3>2
      <4>2. StageHolds(s, Seen - cur_stage + s)
        BY <1>2, <4>1 DEF Matched
      <4> QED BY <4>1, <4>2
    <3> QED BY <3>1, <3>2
  <2> QED BY <2>1, <2>2, TriggersByStage
<1>6. /\ Begun' = Begun /\ Samples' = Samples /\ \A n : TriggersAt(n)' <=> TriggersAt(n)
  BY <1>1, SameStream
<1>7. Sound'
  BY <1>0, <1>2, <1>4, <1>5, <1>6 DEF Sound
<1>8. FirstInBuffer'
  <2>1. ASSUME NEW n \in Begun + Len(stages) .. Samples, TriggersAt(n) PROVE Seen + 1 <= n
    <3>1. ASSUME ~(Seen + 1 <= n) PROVE FALSE
      <4>1. n \in Begun + Len(stages) .. Seen - cur_stage + Len(stages) - 1 /\ n <= Samples
        BY <1>0, <1>1, <3>1
      <4> QED BY <1>2, <2>1, <4>1 DEF NoneBefore
    <3> QED BY <3>1
  <2>2. pc' = "fired" /\ Len(past') \div Unit = Begun
    BY <1>1 DEF Fire, Begun
  <2> QED BY <1>1, <1>4, <1>6, <2>1, <2>2 DEF FirstInBuffer
<1> QED BY <1>7, <1>8

\* Both properties, from the same invariant.
LEMMA SoundAndFirst ==
  ASSUME Steady, LevelsOrEdge
  PROVE  Spec => []Sound /\ []FirstInBuffer
<1>1. /\ TypeOK /\ Bounds /\ ScanInv /\ Sound /\ FirstInBuffer /\ TypeOK' /\ Bounds' /\ ScanInv' /\ [Next]_vars
      => Sound' /\ FirstInBuffer'
  <2> SUFFICES ASSUME TypeOK, Bounds, ScanInv, Sound, FirstInBuffer, ScanInv', [Next]_vars
               PROVE  Sound' /\ FirstInBuffer'
    OBVIOUS
  <2>1. ASSUME NEW junk \in Byte, Fire(junk) PROVE Sound' /\ FirstInBuffer'
    BY <2>1, FireSound
  <2>2. CASE UNCHANGED vars
    <3>1. /\ UNCHANGED <<stages, past, buf, pc, offset>> /\ FiredAt' = FiredAt
      BY <2>2 DEF vars, FiredAt
    <3>2. /\ Samples' = Samples /\ \A n : TriggersAt(n)' <=> TriggersAt(n)
      BY <3>1, SameStream
    <3> QED BY <3>1, <3>2 DEF Sound, FirstInBuffer
  <2>3. ASSUME pc' = "scan" PROVE Sound' /\ FirstInBuffer'
    BY <2>3 DEF Sound, FirstInBuffer
  <2>4. ASSUME NEW data \in Buffers, Call(data) PROVE pc' = "scan"
    BY <2>4 DEF Call
  <2>5. ASSUME NEW junk \in Byte, Advance(junk) \/ Fail(junk) PROVE pc' = "scan"
    BY <2>5 DEF Advance, Fail, Iterate
  <2>6. CASE Return
    <3>1. /\ UNCHANGED <<stages, past, buf, i, cur_stage>> /\ pc = "scan" /\ pc' = "idle"
          /\ i >= Len(buf)
      BY <2>6 DEF Return
    <3>2. Within /\ NoneBefore /\ i = Len(buf)
      <4>1. i \in Nat /\ Len(buf) \in Nat
        BY DEF TypeOK
      <4> QED BY <3>1, <4>1 DEF ScanInv, Within
    <3>3. /\ Seen = Samples /\ Samples \in Nat /\ Begun \in Nat /\ Len(stages) \in Nat
          /\ cur_stage \in 0 .. Len(stages) - 1
      <4>1. stages \in Triggers /\ cur_stage \in 0 .. Len(stages) - 1
        BY DEF TypeOK
      <4>2. Len(stages) \in Nat
        BY <4>1, SoftTriggerAssumption
      <4> QED BY <3>2, <4>1, <4>2, Numbers
    <3>4. ASSUME NEW n \in Begun + Len(stages) .. Samples PROVE ~TriggersAt(n)
      <4>1. n \in Begun + Len(stages) .. Seen - cur_stage + Len(stages) - 1 /\ n <= Samples
        BY <3>3
      <4> QED BY <3>2, <4>1 DEF NoneBefore
    <3>5. /\ Samples' = Samples /\ \A n : TriggersAt(n)' <=> TriggersAt(n)
          /\ Len(past') \div Unit = Begun
      BY <3>1, SameStream DEF Begun
    <3> QED BY <3>1, <3>4, <3>5 DEF Sound, FirstInBuffer
  <2> QED BY <2>1, <2>2, <2>3, <2>4, <2>5, <2>6 DEF Next
<1>2. Init => Sound /\ FirstInBuffer
  <2> SUFFICES ASSUME Init PROVE Sound /\ FirstInBuffer
    OBVIOUS
  <2>1. pc = "idle" /\ past = <<>> /\ buf = <<>> /\ stages \in Triggers
    BY DEF Init
  <2>2. Len(stages) \in Nat \ {0}
    BY <2>1, SoftTriggerAssumption
  <2>3. TypeOK /\ Bounds
    BY TypeInit, BoundsInit
  <2>4. i = 0 /\ Len(buf) = 0 /\ Len(past) = 0
    BY DEF Init
  <2>5. Seen = Samples /\ Seen = Begun /\ Begun \in Nat /\ Begun = Len(past) \div Unit
    <3>1. Len(past) + i = Len(past)
      BY <2>4
    <3>2. Seen = Begun
      BY <3>1 DEF Seen, Begun
    <3> QED BY <2>3, <2>4, <3>2, Numbers DEF Begun
  <2>6. Len(past) \div Unit + Len(stages) .. Samples = {}
    BY <2>2, <2>5
  <2> QED BY <2>1, <2>6 DEF Sound, FirstInBuffer
<1>3. TypeOK /\ Bounds /\ [Next]_vars => Bounds'
  BY BoundsStep
<1>4. TypeOK /\ Bounds /\ ScanInv /\ [Next]_vars => ScanInv'
  BY ScanStep
<1> QED BY <1>1, <1>2, <1>3, <1>4, TypeInit, TypeStep, BoundsInit, ScanInit, PTL DEF Spec

\* A trigger is reported only on a sample on which the stages do match, in the stream
\* of samples however it was cut into buffers: for triggers on levels, of any number of
\* stages if a sample is a byte, and for triggers of one stage, on edges too, for samples
\* of any size.
THEOREM FiresWhereItMatches ==
  ASSUME Steady, LevelsOrEdge
  PROVE  Spec => []Sound
BY SoundAndFirst, PTL

\* Of the matches that begin in a buffer the first is reported, and none is missed:
\* going back after a partial match goes back far enough.
THEOREM NoMatchMissed ==
  ASSUME Steady, LevelsOrEdge
  PROVE  Spec => []FirstInBuffer
BY SoundAndFirst, PTL
=============================================================================
