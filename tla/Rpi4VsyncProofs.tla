--------------------------- MODULE Rpi4VsyncProofs ---------------------------
(***************************************************************************)
(* Proofs about Rpi4Vsync, for every period, jitter, counter width,        *)
(* tolerance and length of time: the types, the period's being positive    *)
(* (vsync_now() divides by it), the counter's never going back, how exact  *)
(* the calibration and its corrections are, and what a wait waits for.     *)
(***************************************************************************)
EXTENDS Rpi4Vsync, SequenceTheorems, FiniteSetTheorems, WellFoundedInduction, TLAPS

-----------------------------------------------------------------------------
(* Division and remainder *)

LEMMA DivMod ==
  ASSUME NEW a \in Int, NEW b \in Nat, b > 0
  PROVE  /\ a \div b \in Int
         /\ (a % b) \in 0 .. b - 1
         /\ a = b * (a \div b) + (a % b)
<1>1. a \div b \in Int
  BY SMT
<1>2. (a % b) \in 0 .. b - 1
  BY SMT
<1>3. a = b * (a \div b) + (a % b)
  BY SMT
<1> QED
  BY <1>1, <1>2, <1>3

LEMMA MulMono ==
  ASSUME NEW x \in Int, NEW y \in Int, NEW b \in Nat, x < y
  PROVE  b * x + b <= b * y
BY SMT

(* The quotient is the only number of whole b's that leaves less than b.   *)
LEMMA DivUnique ==
  ASSUME NEW a \in Int, NEW b \in Nat, b > 0, NEW q \in Int,
         b * q <= a, a < b * q + b
  PROVE  a \div b = q
<1> DEFINE d == a \div b
<1>1. d \in Int /\ b * d <= a /\ a < b * d + b
  BY DivMod
<1> HIDE DEF d
<1>2. ~(d < q)
  BY <1>1, MulMono
<1>3. ~(q < d)
  BY <1>1, MulMono
<1>4. d = q
  BY <1>1, <1>2, <1>3
<1> QED
  BY <1>4 DEF d

LEMMA ModUnique ==
  ASSUME NEW a \in Int, NEW b \in Nat, b > 0, NEW q \in Int, NEW r \in 0 .. b - 1,
         a = b * q + r
  PROVE  (a % b) = r
<1>1. a \div b = q
  BY DivUnique
<1>2. a = b * (a \div b) + (a % b)
  BY DivMod
<1> QED
  BY <1>1, <1>2, DivMod

(* One more cycle is at most one more period. *)
LEMMA DivStep ==
  ASSUME NEW a \in Nat, NEW b \in Nat, b > 0
  PROVE  (a + 1) \div b \in {a \div b, (a \div b) + 1}
<1> DEFINE q == a \div b
           r == a % b
<1>1. q \in Int /\ r \in 0 .. b - 1 /\ a = b * q + r
  BY DivMod
<1> HIDE DEF q, r
<1>2. b * (q + 1) = b * q + b
  BY <1>1
<1>3. CASE r + 1 < b
  <2>1. b * q <= a + 1 /\ a + 1 < b * q + b
    BY <1>1, <1>3
  <2>2. (a + 1) \div b = q
    BY <1>1, <2>1, DivUnique
  <2> QED
    BY <2>2 DEF q
<1>4. CASE ~(r + 1 < b)
  <2>1. b * (q + 1) <= a + 1 /\ a + 1 < b * (q + 1) + b
    BY <1>1, <1>2, <1>4
  <2>2. (a + 1) \div b = q + 1
    BY <1>1, <2>1, DivUnique
  <2> QED
    BY <2>2 DEF q
<1> QED
  BY <1>3, <1>4

LEMMA DivLeq ==
  ASSUME NEW a \in Nat, NEW b \in Nat, b > 0
  PROVE  a \div b \in Nat /\ a \div b <= a
<1> DEFINE q == a \div b
<1>1. q \in Int /\ b * q <= a /\ a < b * q + b
  BY DivMod
<1> HIDE DEF q
<1>2. q >= 0
  BY <1>1, MulMono
<1>3. q <= b * q
  BY <1>1, <1>2
<1> QED
  BY <1>1, <1>2, <1>3 DEF q

(* Truncating division brings a number nearer to zero. *)
LEMMA QuotFacts ==
  ASSUME NEW a \in Int, NEW b \in Nat, b > 0
  PROVE  Quot(a, b) \in Int /\ Magnitude(Quot(a, b)) <= Magnitude(a)
<1>1. CASE a >= 0
  <2>1. a \div b \in Nat /\ a \div b <= a
    BY <1>1, DivLeq
  <2> QED
    BY <1>1, <2>1 DEF Quot, Magnitude
<1>2. CASE ~(a >= 0)
  <2>1. (-a) \div b \in Nat /\ (-a) \div b <= -a
    BY <1>2, DivLeq
  <2> QED
    BY <1>2, <2>1 DEF Quot, Magnitude
<1> QED
  BY <1>1, <1>2

-----------------------------------------------------------------------------
(* The counter *)

LEMMA CountIsNat == Wrap \in Nat /\ Wrap > 0 /\ Wrap >= 4 /\ Count = 0 .. Wrap - 1
BY HalfAssumption, VsyncAssumption DEF Wrap, Count

LEMMA CountInRange ==
  ASSUME NEW c \in Count
  PROVE  (c % Wrap) = c
<1>1. c \in Int /\ c \in 0 .. Wrap - 1 /\ c = Wrap * 0 + c
  BY CountIsNat
<1> QED
  BY <1>1, CountIsNat, ModUnique

LEMMA ModInCount ==
  ASSUME NEW x \in Int
  PROVE  (x % Wrap) \in Count
BY CountIsNat, DivMod

(* A whole turn of the counter more or less changes nothing. *)
LEMMA ModShift ==
  ASSUME NEW x \in Int
  PROVE  /\ ((x + Wrap) % Wrap) = (x % Wrap)
         /\ ((x - Wrap) % Wrap) = (x % Wrap)
<1> DEFINE q == x \div Wrap
           r == x % Wrap
           W == Wrap
<1>1. W \in Nat /\ W > 0 /\ q \in Int /\ r \in 0 .. W - 1 /\ x = W * q + r
  BY CountIsNat, DivMod
<1> HIDE DEF q, r, W
<1>2. x + W = W * (q + 1) + r /\ x - W = W * (q - 1) + r
  BY <1>1
<1>3. ((x + W) % W) = r
  BY <1>1, <1>2, ModUnique
<1>4. ((x - W) % W) = r
  BY <1>1, <1>2, ModUnique
<1> QED
  BY <1>3, <1>4 DEF r, W

(* Counting commutes with reducing to the counter's range. *)
LEMMA ModSucc ==
  ASSUME NEW x \in Int
  PROVE  ((x + 1) % Wrap) = CountSucc(x % Wrap)
<1> DEFINE q == x \div Wrap
           r == x % Wrap
           W == Wrap
<1>1. W \in Nat /\ W > 0 /\ q \in Int /\ r \in 0 .. W - 1 /\ x = W * q + r
  BY CountIsNat, DivMod
<1> HIDE DEF q, r, W
<1>2. CASE r = W - 1
  <2>1. x + 1 = W * (q + 1) + 0 /\ 0 \in 0 .. W - 1
    BY <1>1, <1>2
  <2>2. ((x + 1) % W) = 0
    BY <1>1, <2>1, ModUnique
  <2> QED
    BY <1>2, <2>2 DEF CountSucc, r, W
<1>3. CASE r # W - 1
  <2>1. x + 1 = W * q + (r + 1) /\ r + 1 \in 0 .. W - 1
    BY <1>1, <1>3
  <2>2. ((x + 1) % W) = r + 1
    BY <1>1, <2>1, ModUnique
  <2> QED
    BY <1>3, <2>2 DEF CountSucc, r, W
<1> QED
  BY <1>2, <1>3

LEMMA ReachedFacts ==
  ASSUME NEW c \in Count
  PROVE  Reached(c, c) /\ Reached(CountSucc(c), c)
BY HalfAssumption, VsyncAssumption DEF Reached, CountSucc, Count, Wrap

-----------------------------------------------------------------------------
(* Type correctness *)

LEMMA VsyncNowInCount == TypeOK => VsyncNow \in Count
<1> SUFFICES ASSUME TypeOK, s_period # 0
             PROVE  VsyncNow \in Count
  BY DEF TypeOK, VsyncNow
<1>1. now - s_edge \in Nat /\ s_period \in Nat /\ s_period > 0 /\ s_edge_count \in Int
  BY CountIsNat DEF TypeOK
<1>2. (now - s_edge) \div s_period \in Nat
  BY <1>1, DivLeq
<1> QED
  BY <1>1, <1>2, ModInCount DEF VsyncNow

(* What the numbers of resync() are, before anything is decided on them.   *)
LEMMA ResyncNumbers ==
  ASSUME TypeOK, pc = "resync"
  PROVE  /\ s_period \in Nat /\ s_period > 0
         /\ Ahead \in Count /\ Ahead \in Nat
         /\ Periods \in Int
         /\ Phase \in Int
         /\ Error = Periods * s_period + Phase
<1>1. s_period \in Nat /\ s_period > 0 /\ s_edge \in Nat /\ now \in Nat
  BY DEF TypeOK
<1>2. before + 1 - s_edge_count \in Int
  BY CountIsNat DEF TypeOK
<1>3. Ahead \in Count /\ Ahead \in Nat
  BY <1>2, ModInCount, CountIsNat DEF Ahead
<1>4. Error \in Int
  BY <1>1, <1>3 DEF Error, Predicted
<1>5. s_period \div 2 \in Nat
  BY <1>1, DivLeq
<1>6. Periods \in Int
  BY <1>1, <1>4, <1>5, QuotFacts DEF Periods
<1>7. Phase \in Int /\ Error = Periods * s_period + Phase
  BY <1>1, <1>4, <1>6 DEF Phase
<1> QED
  BY <1>1, <1>3, <1>6, <1>7

(* A small phase error is less than a period. *)
LEMMA SmallFacts ==
  ASSUME TypeOK, pc = "resync", Small
  PROVE  -s_period < Phase /\ Phase < s_period
<1>1. s_period \in Nat /\ Phase \in Int
  BY ResyncNumbers
<1>2. s_period \div Tolerance <= s_period
  BY <1>1, VsyncAssumption, DivLeq
<1>3. s_period \div Tolerance \in Nat
  BY <1>1, VsyncAssumption, DivLeq
<1> QED
  BY <1>1, <1>2, <1>3 DEF Small, Magnitude

(* The correction never makes the period zero or negative.                 *)
LEMMA CorrectedPeriodPositive ==
  ASSUME TypeOK, pc = "resync", Small
  PROVE  CorrectedPeriod \in Nat /\ CorrectedPeriod > 0
<1>1. s_period \in Nat /\ s_period > 0 /\ Phase \in Int /\ Elapsed \in Int
  BY ResyncNumbers DEF Elapsed
<1>2. CASE Elapsed >= EnoughPeriods
  <2>1. Elapsed \in Nat /\ Elapsed > 0
    BY <1>1, <1>2, VsyncAssumption
  <2>2. Quot(Phase, Elapsed) \in Int /\ Magnitude(Quot(Phase, Elapsed)) <= Magnitude(Phase)
    BY <1>1, <2>1, QuotFacts
  <2>3. Magnitude(Phase) < s_period
    BY <1>1, SmallFacts DEF Magnitude
  <2>4. Quot(Phase, Elapsed) > -s_period
    BY <1>1, <2>2, <2>3 DEF Magnitude
  <2> QED
    BY <1>1, <1>2, <2>2, <2>4 DEF CorrectedPeriod
<1>3. CASE ~(Elapsed >= EnoughPeriods)
  BY <1>1, <1>3 DEF CorrectedPeriod
<1> QED
  BY <1>2, <1>3

LEMMA InitTypeOK == Init => TypeOK
<1> SUFFICES ASSUME Init PROVE TypeOK
  OBVIOUS
<1>1. 0 \in Count
  BY CountIsNat
<1>2. /\ now = 0 /\ s_period = 0 /\ s_edge = 0 /\ s_edge_count = 0 /\ s_last_sync = 0
      /\ before = 0 /\ want = 0 /\ iv \in Seq(Nat \ {0}) /\ pc = "init"
  BY DEF Init
<1>3. s_resync_off \in BOOLEAN
  BY DEF Init
<1> QED
  BY <1>1, <1>2, <1>3 DEF TypeOK

LEMMA StepTypeOK == TypeOK /\ [Next]_vars => TypeOK'
<1> SUFFICES ASSUME TypeOK, [Next]_vars PROVE TypeOK'
  OBVIOUS
<1>1. CASE InitFails
  BY <1>1 DEF InitFails, TypeOK, anchor
<1>2. CASE InitReady
  BY <1>2 DEF InitReady, TypeOK, anchor
<1>3. CASE Measure
  <2>1. now - s_edge \in Nat \ {0}
    <3>1. now \div TruePeriod \in Nat /\ now \div TruePeriod > s_edge \div TruePeriod
      BY <1>3, VsyncAssumption, DivLeq DEF Measure, TypeOK
    <3>2. now # s_edge
      BY <3>1
    <3> QED
      BY <3>2 DEF TypeOK
  <2>2. iv' \in Seq(Nat \ {0})
    <3>1. iv \in Seq(Nat \ {0})
      BY DEF TypeOK
    <3>2. Append(iv, now - s_edge) \in Seq(Nat \ {0})
      BY <2>1, <3>1, AppendProperties
    <3>3. iv' = iv \/ iv' = Append(iv, now - s_edge)
      BY <1>3 DEF Measure
    <3> QED
      BY <3>1, <3>2, <3>3
  <2>3. pc' \in {"measure", "measured"}
    BY <1>3 DEF Measure
  <2> QED
    BY <1>3, <2>2, <2>3 DEF Measure, TypeOK
<1>4. CASE MeasureFails
  BY <1>4 DEF MeasureFails, TypeOK, anchor
<1>5. CASE Calibrate
  <2>1. s_period' \in Nat /\ s_period' > 0
    BY <1>5, VsyncAssumption DEF Calibrate, Usable
  <2>2. s_edge' \in 0 .. now /\ s_resync_off' \in BOOLEAN
    <3>1. CASE Usable
      BY <1>5, <3>1 DEF Calibrate, TypeOK
    <3>2. CASE ~Usable
      <4>1. s_edge' = now /\ now \in Nat
        BY <1>5, <3>2 DEF Calibrate, FallbackEdge, TypeOK
      <4>2. s_resync_off' \in BOOLEAN
        BY <1>5, <3>2 DEF Calibrate
      <4> QED
        BY <4>1, <4>2
    <3> QED
      BY <3>1, <3>2
  <2>3. s_last_sync' \in Int
    BY <1>5, VsyncAssumption DEF Calibrate, TypeOK
  <2>4. iv' \in Seq(Nat \ {0})
    BY <1>5 DEF Calibrate
  <2> QED
    BY <1>5, <2>1, <2>2, <2>3, <2>4 DEF Calibrate, TypeOK
<1>6. CASE Wait
  <2>1. VsyncNow \in Count /\ VsyncNow \in Int
    BY VsyncNowInCount, CountIsNat
  <2>2. want' \in Count
    BY <1>6, <2>1, ModInCount DEF Wait
  <2>3. before' \in Count /\ pc' \in {"resync", "wait"}
    BY <1>6, <2>1 DEF Wait, TypeOK
  <2> QED
    BY <1>6, <2>2, <2>3 DEF Wait, TypeOK, anchor
<1>7. CASE ResyncAccepted
  <2>1. s_period' \in Nat /\ s_period' > 0
    BY <1>7, CorrectedPeriodPositive DEF ResyncAccepted
  <2>2. before + 1 + Periods \in Int
    BY <1>7, ResyncNumbers, CountIsNat DEF ResyncAccepted, TypeOK
  <2>3. s_edge_count' \in Count
    BY <1>7, <2>2, ModInCount DEF ResyncAccepted, ResyncedCount
  <2> QED
    BY <1>7, <2>1, <2>3 DEF ResyncAccepted, TypeOK
<1>8. CASE ResyncRejected
  BY <1>8 DEF ResyncRejected, TypeOK, anchor
<1>9. CASE ResyncFails
  BY <1>9 DEF ResyncFails, TypeOK, anchor
<1>10. CASE WaitReturns
  BY <1>10 DEF WaitReturns, TypeOK, anchor
<1>11. CASE Tick
  BY <1>11 DEF Tick, TypeOK, anchor
<1>12. CASE UNCHANGED vars
  BY <1>12 DEF vars, TypeOK, anchor
<1> QED
  BY <1>1, <1>2, <1>3, <1>4, <1>5, <1>6, <1>7, <1>8, <1>9, <1>10, <1>11, <1>12 DEF Next

(* Type correctness: once calibrated the period is positive for ever, so   *)
(* that vsync_now() never divides by zero, and the anchor is never in the  *)
(* future, so that its unsigned subtraction never wraps.                   *)
THEOREM TypeCorrect == Spec => []TypeOK
BY InitTypeOK, StepTypeOK, PTL DEF Spec

-----------------------------------------------------------------------------
(* The counter never goes back *)

(* Moving the anchor to the real edge leaves the counter where it was or   *)
(* one further: the edges counted so far are Ahead + Periods, or one less  *)
(* when the real edge came before the predicted one.                       *)
LEMMA ResyncMonotone ==
  ASSUME TypeOK, ResyncAccepted
  PROVE  VsyncNow' \in {VsyncNow, CountSucc(VsyncNow)}
<1> DEFINE P == s_period
           D == Ahead
           k == Periods
           ph == Phase
<1>1. /\ P \in Nat /\ P > 0 /\ D \in Nat /\ k \in Int /\ ph \in Int
      /\ -P < ph /\ ph < P
      /\ now - s_edge = P * (D + k) + ph
      /\ now - s_edge \in Nat
  <2>1. pc = "resync" /\ Small
    BY DEF ResyncAccepted
  <2>2. /\ P \in Nat /\ P > 0 /\ D \in Nat /\ k \in Int /\ ph \in Int
        /\ Error = k * P + ph
    BY <2>1, ResyncNumbers
  <2>3. -P < ph /\ ph < P
    BY <2>1, SmallFacts
  <2>4. Error = now - (s_edge + D * P) /\ now \in Nat /\ s_edge \in 0 .. now
    BY DEF Error, Predicted, TypeOK
  <2> HIDE DEF P, D, k, ph
  <2>5. now - s_edge = P * (D + k) + ph
    BY <2>2, <2>4
  <2> QED
    BY <2>2, <2>3, <2>4, <2>5
<1> DEFINE n == IF ph >= 0 THEN D + k ELSE D + k - 1
<1>2. n \in Int /\ (now - s_edge) \div P = n
  <2> HIDE DEF P, D, k, ph
  <2>1. n \in Int
    BY <1>1
  <2>2. P * n <= now - s_edge /\ now - s_edge < P * n + P
    BY <1>1
  <2> HIDE DEF n
  <2> QED
    BY <1>1, <2>1, <2>2, DivUnique
<1>3. VsyncNow = ((s_edge_count + n) % Wrap)
  <2> HIDE DEF n
  <2> QED
    BY <1>1, <1>2 DEF VsyncNow
(* The counter before the resync, told by the numbers of the resync. *)
<1>4. /\ s_edge_count \in Count /\ before \in Count /\ s_edge_count \in Int /\ before \in Int
      /\ before + 1 - s_edge_count \in Int
  BY CountIsNat DEF TypeOK
<1>5. /\ D \in {before + 1 - s_edge_count, (before + 1 - s_edge_count) + Wrap,
                (before + 1 - s_edge_count) - Wrap}
  <2>1. D = ((before + 1 - s_edge_count) % Wrap)
    BY DEF Ahead
  <2>2. /\ before + 1 - s_edge_count >= 2 - Wrap
        /\ before + 1 - s_edge_count <= Wrap
    BY <1>4, CountIsNat
  <2>3. CASE before + 1 - s_edge_count < 0
    <3>1. (before + 1 - s_edge_count) + Wrap \in Count
      BY <1>4, <2>2, <2>3, CountIsNat
    <3>2. (((before + 1 - s_edge_count) + Wrap) % Wrap) = D
      BY <1>4, <2>1, ModShift
    <3> QED
      BY <3>1, <3>2, CountInRange
  <2>4. CASE before + 1 - s_edge_count \in Count
    BY <2>1, <2>4, CountInRange
  <2>5. CASE before + 1 - s_edge_count = Wrap
    <3>1. (before + 1 - s_edge_count) - Wrap \in Count
      BY <1>4, <2>5, CountIsNat
    <3>2. (((before + 1 - s_edge_count) - Wrap) % Wrap) = D
      BY <1>4, <2>1, ModShift
    <3> QED
      BY <3>1, <3>2, CountInRange
  <2> QED
    BY <1>4, <2>2, <2>3, <2>4, <2>5, CountIsNat
<1>6. ((s_edge_count + D + k) % Wrap) = ResyncedCount
  <2>1. before + 1 + k \in Int
    BY <1>1, <1>4
  <2>2. s_edge_count + D + k \in {before + 1 + k, (before + 1 + k) + Wrap, (before + 1 + k) - Wrap}
    <3> HIDE DEF D, k
    <3> QED BY <1>1, <1>4, <1>5, CountIsNat
  <2>3. /\ (((before + 1 + k) + Wrap) % Wrap) = ((before + 1 + k) % Wrap)
        /\ (((before + 1 + k) - Wrap) % Wrap) = ((before + 1 + k) % Wrap)
    BY <2>1, ModShift
  <2> QED
    BY <2>2, <2>3 DEF ResyncedCount
<1>7. ResyncedCount \in {VsyncNow, CountSucc(VsyncNow)}
  <2>1. CASE ph >= 0
    <3>1. VsyncNow = ((s_edge_count + (D + k)) % Wrap)
      BY <1>3, <2>1
    <3>2. s_edge_count + (D + k) = s_edge_count + D + k
      BY <1>1, <1>4
    <3> QED
      BY <1>6, <3>1, <3>2
  <2>2. CASE ~(ph >= 0)
    <3>1. VsyncNow = ((s_edge_count + (D + k - 1)) % Wrap)
      BY <1>3, <2>2
    <3>2. s_edge_count + (D + k - 1) \in Int
          /\ s_edge_count + (D + k - 1) + 1 = s_edge_count + D + k
      BY <1>1, <1>4
    <3> QED
      BY <1>6, <3>1, <3>2, ModSucc
  <2> QED
    BY <2>1, <2>2
<1>8. VsyncNow' = ResyncedCount
  <2>1. s_period' \in Nat /\ s_period' > 0
    BY CorrectedPeriodPositive DEF ResyncAccepted
  <2>2. now' - s_edge' = 0
    BY DEF ResyncAccepted, TypeOK
  <2>3. 0 \div s_period' = 0
    <3> DEFINE p == s_period'
    <3> HIDE DEF p
    <3>1. p \in Nat /\ p > 0
      BY <2>1 DEF p
    <3>2. p * 0 <= 0 /\ 0 < p * 0 + p
      BY <3>1
    <3>3. 0 \div p = 0
      BY <3>1, <3>2, DivUnique
    <3> QED
      BY <3>3 DEF p
  <2>4. ResyncedCount \in Count
    BY <1>1, <1>4, ModInCount DEF ResyncedCount
  <2>5. VsyncNow' = ((ResyncedCount + 0) % Wrap)
    BY <2>1, <2>2, <2>3 DEF VsyncNow, ResyncAccepted
  <2>6. ResyncedCount + 0 = ResyncedCount
    BY <2>4, CountIsNat
  <2> QED
    BY <2>4, <2>5, <2>6, CountInRange
<1> QED
  BY <1>7, <1>8

(* Time adds at most one edge. *)
LEMMA TickMonotone ==
  ASSUME TypeOK, Tick, s_period # 0
  PROVE  VsyncNow' \in {VsyncNow, CountSucc(VsyncNow)}
<1> DEFINE q == (now - s_edge) \div s_period
<1>1. now - s_edge \in Nat /\ s_period \in Nat /\ s_period > 0 /\ s_edge_count \in Int
  BY CountIsNat DEF TypeOK
<1>2. q \in Nat
  BY <1>1, DivLeq
<1>3. now' - s_edge' = (now - s_edge) + 1 /\ s_period' = s_period /\ s_edge_count' = s_edge_count
  BY DEF Tick, TypeOK, anchor
<1>4. (now' - s_edge') \div s_period' \in {q, q + 1}
  BY <1>1, <1>3, DivStep
<1> HIDE DEF q
<1>5. VsyncNow = ((s_edge_count + q) % Wrap)
  BY <1>1 DEF VsyncNow, q
<1>6. VsyncNow' \in {((s_edge_count + q) % Wrap), ((s_edge_count + (q + 1)) % Wrap)}
  BY <1>1, <1>3, <1>4 DEF VsyncNow
<1>7. ((s_edge_count + (q + 1)) % Wrap) = CountSucc((s_edge_count + q) % Wrap)
  <2>1. s_edge_count + q \in Int /\ s_edge_count + (q + 1) = (s_edge_count + q) + 1
    BY <1>1, <1>2
  <2> QED
    BY <2>1, ModSucc
<1> QED
  BY <1>5, <1>6, <1>7

LEMMA StepMonotone ==
  ASSUME TypeOK, [Next]_vars, s_period # 0
  PROVE  Reached(VsyncNow', VsyncNow)
<1>1. VsyncNow' \in {VsyncNow, CountSucc(VsyncNow)}
  <2>1. CASE ResyncAccepted
    BY <2>1, ResyncMonotone
  <2>2. CASE Tick
    BY <2>2, TickMonotone
  <2>3. CASE UNCHANGED <<now, anchor>>
    BY <2>3 DEF VsyncNow, anchor
  <2>4. ~InitFails /\ ~InitReady /\ ~Measure /\ ~MeasureFails /\ ~Calibrate
    BY DEF TypeOK, InitFails, InitReady, Measure, MeasureFails, Calibrate
  <2> QED
    BY <2>1, <2>2, <2>3, <2>4
       DEF Next, vars, Wait, ResyncRejected, ResyncFails, WaitReturns
<1> QED
  BY <1>1, VsyncNowInCount, ReachedFacts

(* Once calibrated, the counter that qzephyr_gl_vsync_count returns never  *)
(* goes back, whatever SET_VSYNC answers and whenever it answers.          *)
THEOREM CounterMonotone == Spec => CounterNeverGoesBack
<1>1. TypeOK /\ [Next]_vars => (s_period # 0 => Reached(VsyncNow', VsyncNow))
  BY StepMonotone
<1> QED
  BY <1>1, TypeCorrect, PTL DEF Spec, CounterNeverGoesBack

-----------------------------------------------------------------------------
(* The median: what it is for any intervals, and how exact.                *)

Less == {ss \in Nat \X Nat : ss[1] < ss[2]}

LEMMA LeastNat ==
  ASSUME NEW T, T \subseteq Nat, T # {}
  PROVE  \E m \in T : \A k \in T : m <= k
<1>1. IsWellFoundedOn(Less, Nat)
  BY NatLessThanWellFounded, Zenon DEF OpToRel, Less
<1>2. PICK m \in T : \A k \in T : ~(<<k, m>> \in Less)
  BY <1>1, WFMin
<1>3. ASSUME NEW k \in T PROVE m <= k
  <2>1. m \in Nat /\ k \in Nat /\ ~(<<k, m>> \in Less)
    BY <1>2
  <2> QED
    BY <2>1 DEF Less
<1> QED
  BY <1>3

LEMMA IntervalCard ==
  ASSUME NEW n \in Nat
  PROVE  IsFiniteSet(1..n) /\ Cardinality(1..n) = n
<1>1. 1 \in Int /\ n \in Int
  OBVIOUS
<1>2. IsFiniteSet(1..n) /\ Cardinality(1..n) = IF 1 > n THEN 0 ELSE n - 1 + 1
  BY <1>1, FS_Interval
<1> QED
  BY <1>2

AtMost(s, m) == {i \in DOMAIN s : s[i] <= m}
Below(s, m)  == {i \in DOMAIN s : s[i] < m}
Values(s)    == {s[i] : i \in DOMAIN s}

LEMMA IndicesFinite ==
  ASSUME NEW s \in Seq(Nat \ {0}), NEW T, T \subseteq DOMAIN s
  PROVE  IsFiniteSet(T) /\ Cardinality(T) \in 0..Len(s)
<1>1. DOMAIN s = 1..Len(s) /\ Len(s) \in Nat
  BY LenProperties
<1>2. IsFiniteSet(1..Len(s)) /\ Cardinality(1..Len(s)) = Len(s)
  BY <1>1, IntervalCard
<1>3. IsFiniteSet(T) /\ Cardinality(T) <= Cardinality(1..Len(s))
  BY <1>1, <1>2, FS_Subset
<1>4. Cardinality(T) \in Nat
  BY <1>3, FS_CardinalityType
<1> QED
  BY <1>1, <1>2, <1>3, <1>4

(* The largest of some of the intervals. *)
LEMMA LargestInterval ==
  ASSUME NEW s \in Seq(Nat \ {0}), NEW T, T \subseteq DOMAIN s, T # {}
  PROVE  \E i \in T : \A k \in T : s[k] <= s[i]
<1>1. DOMAIN s = 1..Len(s) /\ Len(s) \in Nat /\ \A i \in DOMAIN s : s[i] \in Nat
  BY LenProperties, ElementOfSeq
(* The one below which most of them are. *)
<1> DEFINE C(i) == {k \in T : s[k] <= s[i]}
           Rest == {Len(s) - Cardinality(C(i)) : i \in T}
<1>2. ASSUME NEW i \in T
      PROVE  IsFiniteSet(C(i)) /\ Cardinality(C(i)) \in 0..Len(s)
  BY IndicesFinite
<1>3. Rest \subseteq Nat /\ Rest # {}
  <2> HIDE DEF C
  <2>1. ASSUME NEW i \in T PROVE Len(s) - Cardinality(C(i)) \in Nat
    <3>1. Cardinality(C(i)) \in 0..Len(s)
      BY <1>2
    <3> QED
      BY <1>1, <3>1
  <2> QED
    BY <2>1
<1>4. PICK r \in Rest : \A q \in Rest : r <= q
  <2> HIDE DEF Rest
  <2> QED
    BY <1>3, LeastNat
<1>5. PICK i \in T : r = Len(s) - Cardinality(C(i))
  BY <1>4
<1>6. ASSUME NEW k \in T PROVE s[k] <= s[i]
  <2> SUFFICES ASSUME s[i] < s[k] PROVE FALSE
    BY <1>1
  <2>1. C(i) \subseteq C(k)
    BY <1>1
  <2>2. k \in C(k) /\ k \notin C(i)
    BY <1>1
  <2>3. IsFiniteSet(C(k)) /\ Cardinality(C(k)) \in 0..Len(s)
        /\ Cardinality(C(i)) \in 0..Len(s)
    BY <1>2
  <2>4. Len(s) - Cardinality(C(i)) <= Len(s) - Cardinality(C(k))
    BY <1>4, <1>5
  <2> HIDE DEF C
  <2>5. Cardinality(C(i)) <= Cardinality(C(k))
        /\ (Cardinality(C(k)) = Cardinality(C(i)) => C(k) = C(i))
    BY <2>1, <2>3, FS_Subset
  <2>6. Cardinality(C(i)) = Cardinality(C(k))
    BY <1>1, <2>3, <2>4, <2>5
  <2> QED
    BY <2>2, <2>5, <2>6
<1> QED
  BY <1>6

(* There is an element in the middle, however many intervals there are and *)
(* however many of them are equal.                                         *)
LEMMA MedianExists ==
  ASSUME NEW s \in Seq(Nat \ {0}), Len(s) > 0
  PROVE  \E m \in Values(s) :
           /\ Cardinality(Below(s, m)) <= Len(s) \div 2
           /\ Len(s) \div 2 < Cardinality(AtMost(s, m))
<1> DEFINE h == Len(s) \div 2
           Good == {m \in Values(s) : h < Cardinality(AtMost(s, m))}
<1>1. /\ DOMAIN s = 1..Len(s) /\ Len(s) \in Nat
      /\ \A i \in DOMAIN s : s[i] \in Nat
      /\ Values(s) \subseteq Nat
  BY LenProperties, ElementOfSeq DEF Values
<1>2. h \in Nat /\ h < Len(s)
  <2>1. \A n \in Nat : n > 0 => n \div 2 \in Nat /\ n \div 2 < n
    BY SMT
  <2> QED
    BY <1>1, <2>1
<1> HIDE DEF h
<1>3. Good # {}
  <2>1. DOMAIN s # {}
    BY <1>1
  <2>2. PICK i \in DOMAIN s : \A k \in DOMAIN s : s[k] <= s[i]
    BY <2>1, LargestInterval
  <2>3. AtMost(s, s[i]) = 1..Len(s)
    BY <1>1, <2>2 DEF AtMost
  <2>4. Cardinality(1..Len(s)) = Len(s)
    BY <1>1, IntervalCard
  <2>5. s[i] \in Values(s)
    BY DEF Values
  <2>6. s[i] \in Good
    BY <1>2, <2>3, <2>4, <2>5
  <2> QED
    BY <2>6
<1>4. PICK m \in Good : \A k \in Good : m <= k
  <2>1. Good \subseteq Nat
    BY <1>1
  <2> HIDE DEF Good
  <2> QED
    BY <1>3, <2>1, LeastNat
<1>5. Cardinality(Below(s, m)) <= h
  <2> SUFFICES ASSUME ~(Cardinality(Below(s, m)) <= h) PROVE FALSE
    OBVIOUS
  <2>1. Below(s, m) \subseteq DOMAIN s
    BY DEF Below
  <2>2. ASSUME Below(s, m) = {} PROVE FALSE
    <3>1. Cardinality(Below(s, m)) = 0
      BY <2>2, FS_EmptySet
    <3>2. 0 <= h
      BY <1>2
    <3> QED
      BY <3>1, <3>2
  <2>3. PICK i \in Below(s, m) : \A k \in Below(s, m) : s[k] <= s[i]
    BY <2>1, <2>2, LargestInterval
  <2>4. AtMost(s, s[i]) = Below(s, m)
    BY <1>1, <2>3 DEF AtMost, Below
  <2>5. Cardinality(Below(s, m)) \in Nat
    BY <1>1, <2>1, IndicesFinite
  <2>6. s[i] \in Values(s) /\ s[i] < m
    BY <2>1, <2>3 DEF Below, Values
  <2>7. s[i] \in Good
    BY <1>2, <2>4, <2>5, <2>6
  <2> QED
    BY <1>1, <1>4, <2>6, <2>7
<1> QED
  BY <1>4, <1>5 DEF h

LEMMA MedianFacts ==
  ASSUME NEW s \in Seq(Nat \ {0}), Len(s) > 0
  PROVE  /\ Median(s) \in Values(s)
         /\ Cardinality(Below(s, Median(s))) <= Len(s) \div 2
         /\ Len(s) \div 2 < Cardinality(AtMost(s, Median(s)))
<1>1. Median(s) = CHOOSE m \in Values(s) :
        /\ Cardinality(Below(s, m)) <= Len(s) \div 2
        /\ Len(s) \div 2 < Cardinality(AtMost(s, m))
  BY DEF Median, Values, Below, AtMost
<1> QED
  BY <1>1, MedianExists

-----------------------------------------------------------------------------
(* While the calibration runs: the last return was at an edge, and each    *)
(* interval is a period or more, up to the jitter of its two ends.         *)
Calibrating ==
  /\ pc \in {"init", "measure"} => (s_edge % TruePeriod) <= Jitter
  /\ \A i \in DOMAIN iv : iv[i] >= TruePeriod - Jitter
  /\ Cardinality(Skipped) <= MaxSkips

LEMMA IntervalLength ==
  ASSUME NEW a \in Nat, NEW b \in Nat,
         (a % TruePeriod) <= Jitter, (b % TruePeriod) <= Jitter,
         a \div TruePeriod > b \div TruePeriod
  PROVE  a - b >= TruePeriod - Jitter
<1> DEFINE T == TruePeriod
           qa == a \div T
           ra == a % T
           qb == b \div T
           rb == b % T
<1>1. T \in Nat /\ T > 0 /\ Jitter \in Nat
  BY VsyncAssumption
<1>2. /\ qa \in Int /\ ra \in 0..(T - 1) /\ a = T * qa + ra
      /\ qb \in Int /\ rb \in 0..(T - 1) /\ b = T * qb + rb
  BY <1>1, DivMod
<1>3. ra <= Jitter /\ rb <= Jitter /\ qb < qa
  OBVIOUS
<1> HIDE DEF T, qa, ra, qb, rb
<1>4. T * qb + T <= T * qa
  BY <1>1, <1>2, <1>3, MulMono
<1>5. a - b >= T - Jitter
  <2> DEFINE x == T * qa
             y == T * qb
  <2>1. x \in Int /\ y \in Int /\ a = x + ra /\ b = y + rb /\ y + T <= x
    BY <1>1, <1>2, <1>4
  <2> HIDE DEF x, y
  <2> QED
    BY <1>1, <1>2, <1>3, <2>1
<1> QED
  BY <1>5 DEF T

LEMMA SkippedFinite ==
  ASSUME TypeOK
  PROVE  IsFiniteSet(Skipped) /\ Cardinality(Skipped) \in Nat
<1>1. Skipped \subseteq DOMAIN iv /\ iv \in Seq(Nat \ {0})
  BY DEF Skipped, TypeOK
<1>2. Len(iv) \in Nat
  BY <1>1, LenProperties
<1> QED
  BY <1>1, <1>2, IndicesFinite

LEMMA MeasureCalibrating ==
  ASSUME TypeOK, Calibrating, Measure
  PROVE  Calibrating'
<1> DEFINE first == s_edge = 0
           d == now - s_edge
           n == Len(iv)
<1>1. /\ iv \in Seq(Nat \ {0}) /\ n \in Nat /\ DOMAIN iv = 1..n
      /\ now \in Nat /\ s_edge \in Nat /\ s_edge <= now
      /\ s_edge' = now /\ (now % TruePeriod) <= Jitter
  BY LenProperties DEF TypeOK, Measure, AtEdge
<1>2. d >= TruePeriod - Jitter
  BY <1>1, IntervalLength DEF Measure, Calibrating
<1>3. d \in Nat \ {0}
  BY <1>1, <1>2, VsyncAssumption
<1>4. ~first /\ d > TruePeriod + Jitter => Cardinality(Skipped) < MaxSkips
  BY DEF Measure
<1>5. CASE first
  <2>1. iv' = iv
    BY <1>5 DEF Measure
  <2> QED
    BY <1>1, <2>1 DEF Calibrating, Skipped
<1>6. CASE ~first
  <2>1. iv' = Append(iv, d)
    BY <1>6 DEF Measure
  <2> HIDE DEF d
  <2>2. /\ iv' \in Seq(Nat \ {0}) /\ Len(iv') = n + 1
        /\ \A i \in 1..n : iv'[i] = iv[i]
        /\ iv'[n + 1] = d
    BY <1>1, <1>3, <2>1, AppendProperties
  <2>3. DOMAIN iv' = 1..(n + 1)
    BY <2>2, LenProperties
  <2>4. \A i \in DOMAIN iv' : iv'[i] >= TruePeriod - Jitter
    <3>1. \A i \in 1..n : iv[i] >= TruePeriod - Jitter
      BY <1>1 DEF Calibrating
    <3>2. ASSUME NEW i \in 1..(n + 1) PROVE iv'[i] >= TruePeriod - Jitter
      <4>1. CASE i \in 1..n
        BY <2>2, <3>1, <4>1
      <4>2. CASE i = n + 1
        BY <1>2, <2>2, <4>2
      <4> QED
        BY <1>1, <4>1, <4>2
    <3> QED
      BY <2>3, <3>2
  <2>5. Cardinality(Skipped') <= MaxSkips
    <3>1. IsFiniteSet(Skipped) /\ Cardinality(Skipped) \in Nat /\ Cardinality(Skipped) <= MaxSkips
      BY SkippedFinite DEF Calibrating
    <3>2. CASE d > TruePeriod + Jitter
      <4>1. Skipped' = Skipped \cup {n + 1}
        BY <1>1, <2>2, <2>3, <3>2 DEF Skipped
      <4>2. n + 1 \notin Skipped
        BY <1>1 DEF Skipped
      <4>3. Cardinality(Skipped') = Cardinality(Skipped) + 1
        BY <3>1, <4>1, <4>2, FS_AddElement
      <4>4. Cardinality(Skipped) < MaxSkips
        BY <1>4, <1>6, <3>2
      <4> QED
        BY <3>1, <4>3, <4>4, VsyncAssumption
    <3>3. CASE ~(d > TruePeriod + Jitter)
      <4>1. Skipped' = Skipped
        BY <1>1, <2>2, <2>3, <3>3 DEF Skipped
      <4> QED
        BY <3>1, <4>1
    <3> QED
      BY <3>2, <3>3
  <2> QED
    BY <1>1, <2>4, <2>5 DEF Calibrating
<1> QED
  BY <1>5, <1>6

LEMMA CalibratingInit == Init => Calibrating
<1> SUFFICES ASSUME Init PROVE Calibrating
  OBVIOUS
<1>1. DOMAIN iv = {} /\ Skipped = {}
  BY DEF Init, Skipped
<1>2. Cardinality(Skipped) = 0
  BY <1>1, FS_EmptySet
<1>3. (0 % TruePeriod) = 0
  <2>1. 0 = TruePeriod * 0 + 0
    BY VsyncAssumption
  <2> QED
    BY <2>1, VsyncAssumption, ModUnique
<1> QED
  BY <1>1, <1>2, <1>3, VsyncAssumption DEF Init, Calibrating

LEMMA CalibratingStep == TypeOK /\ Calibrating /\ [Next]_vars => Calibrating'
<1> SUFFICES ASSUME TypeOK, Calibrating, [Next]_vars PROVE Calibrating'
  OBVIOUS
<1> USE DEF anchor
<1>1. CASE Measure
  BY <1>1, MeasureCalibrating
<1>2. CASE Calibrate
  <2>1. iv' = <<>> /\ pc' = "idle"
    BY <1>2 DEF Calibrate
  <2>2. DOMAIN iv' = {} /\ Skipped' = {}
    BY <2>1 DEF Skipped
  <2>3. Cardinality(Skipped') = 0
    BY <2>2, FS_EmptySet
  <2> QED
    BY <2>1, <2>2, <2>3, VsyncAssumption DEF Calibrating
<1>3. CASE UNCHANGED iv /\ (pc' \in {"init", "measure"} => pc \in {"init", "measure"} /\ UNCHANGED s_edge)
  BY <1>3 DEF Calibrating, Skipped
<1>4. CASE ~Measure /\ ~Calibrate
  BY <1>3, <1>4
     DEF Next, vars, InitFails, InitReady, MeasureFails, Wait, ResyncAccepted, ResyncRejected,
         ResyncFails, WaitReturns, Tick
<1> QED
  BY <1>1, <1>2, <1>4

(* A calibration that is usable takes an interval nothing was skipped in:  *)
(* the ones with a skipped edge are too few to reach the middle.           *)
LEMMA MedianExact ==
  ASSUME TypeOK, Calibrating, Len(iv) >= Needed, MaxSkips < Needed - (Needed \div 2)
  PROVE  Magnitude(Median(iv) - TruePeriod) <= Jitter
<1> DEFINE m == Median(iv)
           n == Len(iv)
<1>1. /\ iv \in Seq(Nat \ {0}) /\ n \in Nat /\ n > 0 /\ n >= Needed /\ DOMAIN iv = 1..n
      /\ \A i \in 1..n : iv[i] \in Nat
  <2>1. iv \in Seq(Nat \ {0})
    BY DEF TypeOK
  <2> QED
    BY <2>1, LenProperties, ElementOfSeq, VsyncAssumption
<1>2. /\ m \in Values(iv)
      /\ Cardinality(Below(iv, m)) <= n \div 2
  BY <1>1, MedianFacts
<1>3. PICK k \in 1..n : m = iv[k]
  BY <1>1, <1>2 DEF Values
<1>4. m \in Nat /\ m >= TruePeriod - Jitter
  BY <1>1, <1>3 DEF Calibrating
<1> HIDE DEF m
<1>5. m <= TruePeriod + Jitter
  <2> SUFFICES ASSUME m > TruePeriod + Jitter PROVE FALSE
    BY <1>4, VsyncAssumption
  <2> DEFINE Rest == (1..n) \ Skipped
  <2>1. Rest \subseteq Below(iv, m)
    BY <1>1, <1>4, VsyncAssumption DEF Skipped, Below
  <2>2. IsFiniteSet(Below(iv, m)) /\ Cardinality(Below(iv, m)) \in Nat
    <3>1. Below(iv, m) \subseteq DOMAIN iv
      BY DEF Below
    <3> QED
      BY <1>1, <3>1, IndicesFinite
  <2>3. Cardinality(Rest) <= Cardinality(Below(iv, m))
    <3> HIDE DEF Rest
    <3> QED
      BY <2>1, <2>2, FS_Subset
  <2>4. Cardinality(Rest) = n - Cardinality(Skipped)
    <3>1. Skipped \subseteq 1..n
      BY <1>1 DEF Skipped
    <3>2. IsFiniteSet(1..n) /\ Cardinality(1..n) = n
      BY <1>1, IntervalCard
    <3>3. (1..n) \cap Skipped = Skipped
      BY <3>1
    <3>4. Cardinality((1..n) \ Skipped) = Cardinality(1..n) - Cardinality((1..n) \cap Skipped)
      <4> HIDE DEF n
      <4> QED
        BY <3>2, FS_Difference
    <3> QED
      BY <3>2, <3>3, <3>4
  <2>5. n - Cardinality(Skipped) > n \div 2
    <3>1. Cardinality(Skipped) \in Nat /\ Cardinality(Skipped) <= MaxSkips
      BY SkippedFinite DEF Calibrating
    <3>2. n - (n \div 2) >= Needed - (Needed \div 2)
      <4>1. \A x, y \in Nat : x >= y => x - (x \div 2) >= y - (y \div 2)
        BY SMT
      <4> QED
        BY <1>1, <4>1, VsyncAssumption
    <3>3. n \div 2 \in Int /\ Needed \div 2 \in Int
      BY <1>1, VsyncAssumption
    <3> QED
      BY <1>1, <3>1, <3>2, <3>3, VsyncAssumption
  <2>6. Cardinality(Rest) \in Int /\ n \div 2 \in Int
    BY <1>1, <2>4, SkippedFinite
  <2> HIDE DEF Rest, n
  <2> QED
    BY <1>2, <2>2, <2>3, <2>4, <2>5, <2>6
<1>6. Magnitude(m - TruePeriod) <= Jitter
  BY <1>4, <1>5, VsyncAssumption DEF Magnitude
<1> QED
  BY <1>6 DEF m

(* However many SET_VSYNC calls the calibration makes and whatever the     *)
(* period: as long as fewer than half of the intervals it needs had an     *)
(* edge skipped in them, a usable calibration is as exact as two readings  *)
(* of an edge are.                                                         *)
THEOREM CalibrationExact ==
  ASSUME MaxSkips < Needed - (Needed \div 2)
  PROVE  Spec => CalibratedPeriod
<1>1. Spec => []Calibrating
  BY CalibratingInit, CalibratingStep, TypeCorrect, PTL DEF Spec
<1>2. TypeOK /\ Calibrating /\ [Next]_vars =>
        (s_period = 0 /\ s_period' # 0 /\ ~s_resync_off' =>
           Magnitude(s_period' - TruePeriod) <= Jitter)
  <2> SUFFICES ASSUME TypeOK, Calibrating, [Next]_vars,
                      s_period = 0, s_period' # 0, ~s_resync_off'
               PROVE  Magnitude(s_period' - TruePeriod) <= Jitter
    OBVIOUS
  <2>1. Calibrate
    BY DEF TypeOK, Next, vars, anchor, InitFails, InitReady, Measure, MeasureFails, Wait,
           ResyncAccepted, ResyncRejected, ResyncFails, WaitReturns, Tick
  <2>2. Usable /\ s_period' = Median(iv)
    BY <2>1 DEF Calibrate
  <2> QED
    BY <2>2, MedianExact DEF Usable
<1> QED
  BY <1>1, <1>2, TypeCorrect, PTL DEF Spec, CalibratedPeriod

-----------------------------------------------------------------------------
(* The wait: its two ways out are one, within half a range of the anchor.  *)

(* A number that is less than a turn outside the range is brought into it  *)
(* by one turn.                                                            *)
LEMMA ModNear ==
  ASSUME NEW x \in Int, -Wrap <= x, x < 2 * Wrap
  PROVE  /\ x < 0 => (x % Wrap) = x + Wrap
         /\ x >= 0 /\ x < Wrap => (x % Wrap) = x
         /\ x >= Wrap => (x % Wrap) = x - Wrap
<1>1. CASE x < 0
  <2>1. x + Wrap \in Count /\ ((x + Wrap) % Wrap) = (x % Wrap)
    BY <1>1, CountIsNat, ModShift
  <2> QED
    BY <1>1, <2>1, CountIsNat, CountInRange
<1>2. CASE x >= 0 /\ x < Wrap
  <2>1. x \in Count
    BY <1>2, CountIsNat
  <2> QED
    BY <1>2, <2>1, CountIsNat, CountInRange
<1>3. CASE x >= Wrap
  <2>1. x - Wrap \in Count /\ ((x - Wrap) % Wrap) = (x % Wrap)
    BY <1>3, CountIsNat, ModShift
  <2> QED
    BY <1>3, <2>1, CountIsNat, CountInRange
<1> QED
  BY <1>1, <1>2, <1>3, CountIsNat

(* The difference of two remainders is that of the numbers, up to turns. *)
LEMMA ModDiff ==
  ASSUME NEW a \in Int, NEW b \in Int
  PROVE  (((a % Wrap) - (b % Wrap)) % Wrap) = ((a - b) % Wrap)
<1> DEFINE W == Wrap
           qa == a \div W
           qb == b \div W
           q  == (a - b) \div W
           ra == a % W
           rb == b % W
           r  == (a - b) % W
<1>1. W \in Nat /\ W > 0
  BY CountIsNat
<1>2. /\ qa \in Int /\ ra \in Int /\ a = W * qa + ra
      /\ qb \in Int /\ rb \in Int /\ b = W * qb + rb
  BY <1>1, DivMod
<1>3. a - b \in Int
  OBVIOUS
<1>4. q \in Int /\ r \in 0 .. W - 1 /\ a - b = W * q + r
  BY <1>1, <1>3, DivMod
<1> HIDE DEF W, qa, qb, q, ra, rb, r
<1>5. ra - rb = W * (q - qa + qb) + r
  BY <1>1, <1>2, <1>4
<1>6. ((ra - rb) % W) = r
  BY <1>1, <1>2, <1>4, <1>5, ModUnique
<1> QED
  BY <1>6 DEF W, ra, rb, r

(* The comparison all the glues make of two counts, int(now - count) >= 0, *)
(* tells which of two numbers of edges is the greater, and not only which  *)
(* of their counts: exactly so for numbers less than half a range apart,   *)
(* however often the counter has come round since it started.  A plain     *)
(* comparison of the counts does not.                                      *)
THEOREM ComparisonIsRight ==
  ASSUME NEW a \in Int, NEW b \in Int, -Half <= a - b, a - b < Half
  PROVE  Reached(a % Wrap, b % Wrap) <=> a >= b
<1> DEFINE x == a % Wrap
           y == b % Wrap
<1>1. x \in Count /\ y \in Count
  BY ModInCount
<1>2. ((x - y) % Wrap) = ((a - b) % Wrap)
  BY ModDiff
<1> HIDE DEF x, y
<1>3. Wrap = 2 * Half /\ Half \in Nat /\ Half > 0 /\ Wrap \in Nat /\ Count = 0 .. Wrap - 1
  BY HalfAssumption, CountIsNat DEF Wrap
<1>4. Reached(x, y) <=> ((x - y) % Wrap) < Half
  <2>1. /\ x - y \in Int /\ -Wrap <= x - y /\ x - y < 2 * Wrap /\ x - y < Wrap
        /\ x >= y <=> x - y >= 0
    BY <1>1, <1>3
  <2>2. /\ x - y < 0 => ((x - y) % Wrap) = x - y + Wrap
        /\ x - y >= 0 => ((x - y) % Wrap) = x - y
    BY <2>1, ModNear
  <2> QED
    BY <1>1, <1>3, <2>1, <2>2 DEF Reached
<1>5. /\ a - b < 0 => ((a - b) % Wrap) = a - b + Wrap
      /\ a - b >= 0 => ((a - b) % Wrap) = a - b
  <2>1. a - b \in Int /\ -Wrap <= a - b /\ a - b < 2 * Wrap /\ a - b < Wrap
    BY <1>3
  <2> QED
    BY <2>1, ModNear
<1>6. Reached(x, y) <=> a >= b
  BY <1>2, <1>3, <1>4, <1>5
<1> QED
  BY <1>6 DEF x, y

LEMMA DueIsReached ==
  ASSUME TypeOK, s_period # 0, now >= Due, (now - s_edge) \div s_period < Half
  PROVE  Reached(VsyncNow, want)
<1> DEFINE P == s_period
           c == s_edge_count
           D == (want - c) % Wrap
           n == (now - s_edge) \div P
<1>1. /\ now - s_edge \in Nat /\ P \in Nat /\ P > 0
      /\ c \in Count /\ c \in Int /\ want \in Count /\ want \in Int
  BY CountIsNat DEF TypeOK
<1>2. D \in 0 .. Wrap - 1 /\ n \in Nat /\ n < Half
  BY <1>1, CountIsNat, ModInCount, DivLeq
<1>3. P * n <= now - s_edge /\ now - s_edge < P * n + P
  BY <1>1, DivMod
<1>4. P * D <= now - s_edge
  <2>1. now >= s_edge + D * P
    BY DEF Due
  <2>2. now \in Int /\ s_edge \in Int
    BY DEF TypeOK
  <2> HIDE DEF D, P
  <2> QED
    BY <1>1, <1>2, <2>1, <2>2, CountIsNat
<1>5. VsyncNow = ((c + n) % Wrap)
  BY <1>1 DEF VsyncNow
<1>6. /\ want - c < 0 => D = want - c + Wrap
      /\ want - c >= 0 => D = want - c
  BY <1>1, CountIsNat, ModNear
<1> HIDE DEF n, D, P
<1>7. D <= n
  <2> SUFFICES ASSUME n < D PROVE FALSE
    BY <1>2, CountIsNat
  <2>1. P * n + P <= P * D
    BY <1>1, <1>2, MulMono
  <2> QED
    BY <1>1, <1>2, <1>3, <1>4, <2>1
<1> HIDE DEF c
<1>8. /\ c + n < Wrap => VsyncNow = c + n
      /\ c + n >= Wrap => VsyncNow = c + n - Wrap
  <2>1. PICK x \in Int : x = c + n
    BY <1>1, <1>2
  <2>2. x >= 0 /\ -Wrap <= x /\ x < 2 * Wrap
    BY <1>1, <1>2, <2>1, CountIsNat, HalfAssumption DEF Wrap
  <2>3. VsyncNow = (x % Wrap)
    BY <1>5, <2>1
  <2>4. (x < Wrap => VsyncNow = x) /\ (x >= Wrap => VsyncNow = x - Wrap)
    BY <2>2, <2>3, ModNear
  <2> QED
    BY <1>1, <1>2, <2>1, <2>4, CountIsNat
<1>9. VsyncNow \in Count /\ Wrap = 2 * Half /\ Half \in Nat
  BY VsyncNowInCount, HalfAssumption DEF Wrap
<1> QED
  BY <1>1, <1>2, <1>6, <1>7, <1>8, <1>9 DEF Reached, Count

(* qzephyr_gl_wait_vsync returns once the counter has come or the time of  *)
(* the edge has, and the second implies the first, across wraps of the     *)
(* counter and whatever a resync between did to anchor and period, while   *)
(* the anchor is less than half a range of edges old.                      *)
THEOREM WaitsForCount == Spec => BlocksUntilCount
<1>1. TypeOK /\ [Next]_vars =>
        (pc = "wait" /\ pc' = "idle" /\ (now - s_edge) \div s_period < Half
           => Reached(VsyncNow, want))
  <2> SUFFICES ASSUME TypeOK, [Next]_vars, pc = "wait", pc' = "idle",
                      (now - s_edge) \div s_period < Half
               PROVE  Reached(VsyncNow, want)
    OBVIOUS
  <2>1. WaitReturns
    BY DEF Next, vars, InitFails, InitReady, Measure, MeasureFails, Calibrate, Wait,
           ResyncAccepted, ResyncRejected, ResyncFails, Tick
  <2>2. s_period # 0
    BY DEF TypeOK
  <2> QED
    BY <2>1, <2>2, DueIsReached DEF WaitReturns
<1> QED
  BY <1>1, TypeCorrect, PTL DEF Spec, BlocksUntilCount

-----------------------------------------------------------------------------
(* What a resync does to the period                                        *)

(* Truncating division leaves less than the divisor. *)
LEMMA QuotRest ==
  ASSUME NEW a \in Int, NEW b \in Nat, b > 0
  PROVE  \E r \in Int : a = b * Quot(a, b) + r /\ -b < r /\ r < b
<1>1. CASE a >= 0
  <2>1. a = b * (a \div b) + (a % b) /\ (a % b) \in 0 .. b - 1
    BY DivMod
  <2> QED
    BY <1>1, <2>1 DEF Quot
<1>2. CASE ~(a >= 0)
  <2> DEFINE q == (-a) \div b
             r == (-a) % b
  <2>1. q \in Int /\ r \in 0 .. b - 1 /\ -a = b * q + r
    BY DivMod
  <2>2. Quot(a, b) = -q
    BY <1>2 DEF Quot
  <2> HIDE DEF q, r
  <2>3. a = b * (-q) + (-r)
    BY <2>1
  <2>4. -r \in Int /\ -b < -r /\ -r < b
    BY <2>1
  <2> QED
    BY <2>2, <2>3, <2>4
<1> QED
  BY <1>1, <1>2

(* Until it is given up on, the anchor is at an edge of the display.       *)
Anchored ==
  /\ ~s_resync_off => (s_edge % TruePeriod) <= Jitter
  /\ pc = "resync" => ~s_resync_off

LEMMA AnchoredInit == Init => Anchored
<1>1. (0 % TruePeriod) = 0
  <2>1. 0 = TruePeriod * 0 + 0
    BY VsyncAssumption
  <2> QED
    BY <2>1, VsyncAssumption, ModUnique
<1> QED
  BY <1>1, VsyncAssumption DEF Init, Anchored

LEMMA AnchoredStep == TypeOK /\ Anchored /\ [Next]_vars => Anchored'
<1> SUFFICES ASSUME TypeOK, Anchored, [Next]_vars PROVE Anchored'
  OBVIOUS
<1> USE DEF anchor
<1>1. CASE Measure \/ ResyncAccepted
  BY <1>1 DEF Measure, ResyncAccepted, AtEdge, Anchored
<1>2. CASE Calibrate
  BY <1>2 DEF Calibrate, Anchored
<1>3. CASE Wait
  BY <1>3 DEF Wait, Anchored
<1>4. CASE UNCHANGED <<s_edge, pc>> /\ UNCHANGED s_resync_off
  BY <1>4 DEF Anchored
<1>5. CASE InitFails \/ InitReady \/ MeasureFails \/ ResyncRejected \/ WaitReturns
  BY <1>5 DEF InitFails, InitReady, MeasureFails, ResyncRejected, WaitReturns, Anchored
<1>6. CASE ResyncFails
  BY <1>6 DEF ResyncFails, Anchored
<1> QED
  BY <1>1, <1>2, <1>3, <1>4, <1>5, <1>6 DEF Next, vars, Tick

(* The number of edges a resync settles on is the number there were: the   *)
(* error to the next number is more than the tolerance lets through.       *)
LEMMA JudgedRight ==
  ASSUME TypeOK, pc = "resync", Small,
         Magnitude(Drift) <= s_period - s_period \div Tolerance
  PROVE  Elapsed = Edges /\ Phase = Drift
<1> DEFINE P == s_period
           small == s_period \div Tolerance
           x == now - s_edge
           N == Elapsed
           M == Edges
           ph == Phase
           dr == Drift
<1>1. P \in Nat /\ P > 0 /\ x \in Int /\ N \in Int /\ ph \in Int /\ x = P * N + ph
  <2>1. P \in Nat /\ P > 0 /\ Ahead \in Nat /\ Periods \in Int /\ ph \in Int
        /\ Error = Periods * P + ph
    BY ResyncNumbers
  <2>2. now \in Nat /\ s_edge \in Nat /\ Error = now - (s_edge + Ahead * P)
    BY DEF TypeOK, Error, Predicted
  <2>3. N = Ahead + Periods
    BY DEF Elapsed
  <2> HIDE DEF P, N, ph
  <2>4. x = P * (Ahead + Periods) + ph
    BY <2>1, <2>2
  <2> QED
    BY <2>1, <2>2, <2>3, <2>4
<1>2. M \in Int /\ dr \in Int /\ x = P * M + dr
  <2>1. now \in Int /\ s_edge \in Int /\ P \in Int
    BY DEF TypeOK
  <2>2. M \in Int
    BY <2>1, VsyncAssumption DEF Edges
  <2> QED
    BY <2>1, <2>2 DEF Drift
<1>3. small \in Nat
  BY <1>1, VsyncAssumption, DivLeq
<1>4. -small < ph /\ ph < small /\ -(P - small) <= dr /\ dr <= P - small
  BY <1>1, <1>2, <1>3 DEF Small, Magnitude
<1> HIDE DEF P, small, x, N, M, ph, dr
<1>5. ~(N < M)
  <2> SUFFICES ASSUME N < M PROVE FALSE
    OBVIOUS
  <2>1. P * N + P <= P * M
    BY <1>1, <1>2, MulMono
  <2> DEFINE a == P * N
             b == P * M
  <2>2. a \in Int /\ b \in Int /\ a + P <= b /\ x = a + ph /\ x = b + dr
    BY <1>1, <1>2, <2>1
  <2> HIDE DEF a, b
  <2> QED
    BY <1>1, <1>2, <1>3, <1>4, <2>2
<1>6. ~(M < N)
  <2> SUFFICES ASSUME M < N PROVE FALSE
    OBVIOUS
  <2>1. P * M + P <= P * N
    BY <1>1, <1>2, MulMono
  <2> DEFINE a == P * N
             b == P * M
  <2>2. a \in Int /\ b \in Int /\ b + P <= a /\ x = a + ph /\ x = b + dr
    BY <1>1, <1>2, <2>1
  <2> HIDE DEF a, b
  <2> QED
    BY <1>1, <1>2, <1>3, <1>4, <2>2
<1>7. N = M
  BY <1>1, <1>2, <1>5, <1>6
<1>8. ph = dr
  BY <1>1, <1>2, <1>7
<1> QED
  BY <1>7, <1>8 DEF N, M, ph, dr

(* The time between two readings of an edge. *)
LEMMA EdgeInterval ==
  ASSUME NEW a \in Nat, NEW b \in Nat,
         (a % TruePeriod) <= Jitter, (b % TruePeriod) <= Jitter
  PROVE  \E w \in Int : /\ a - b = TruePeriod * (a \div TruePeriod - b \div TruePeriod) + w
                        /\ -Jitter <= w /\ w <= Jitter
<1> DEFINE T == TruePeriod
           qa == a \div T
           ra == a % T
           qb == b \div T
           rb == b % T
<1>1. T \in Nat /\ T > 0 /\ Jitter \in Nat
  BY VsyncAssumption
<1>2. /\ qa \in Int /\ ra \in 0..(T - 1) /\ a = T * qa + ra
      /\ qb \in Int /\ rb \in 0..(T - 1) /\ b = T * qb + rb
  BY <1>1, DivMod
<1>3. ra <= Jitter /\ rb <= Jitter
  OBVIOUS
<1> HIDE DEF T, qa, ra, qb, rb
<1>4. a - b = T * (qa - qb) + (ra - rb)
  BY <1>1, <1>2
<1>5. ra - rb \in Int /\ -Jitter <= ra - rb /\ ra - rb <= Jitter
  BY <1>1, <1>2, <1>3
<1>6. \E w \in Int : a - b = T * (qa - qb) + w /\ -Jitter <= w /\ w <= Jitter
  BY <1>4, <1>5
<1> QED
  BY <1>6 DEF T, qa, qb

LEMMA PrecisionFacts ==
  /\ Precision \in Nat
  /\ \A n \in Nat : n >= EnoughPeriods => Jitter <= n * Precision
<1> DEFINE E == EnoughPeriods
           q == Precision
<1>1. E \in Nat /\ E > 0 /\ Jitter \in Nat
  BY VsyncAssumption
<1>2. Jitter + E - 1 \in Nat
  BY <1>1
<1>3. q \in Nat
  BY <1>1, <1>2, DivLeq DEF Precision
<1>4. Jitter <= E * q
  <2>1. /\ Jitter + E - 1 = E * q + ((Jitter + E - 1) % E)
        /\ ((Jitter + E - 1) % E) \in 0 .. E - 1
    BY <1>1, <1>2, DivMod DEF Precision
  <2> HIDE DEF E, q
  <2> QED
    BY <1>1, <1>3, <2>1
<1> HIDE DEF E, q
<1>5. \A n \in Nat : n >= E => Jitter <= n * q
  <2> TAKE n \in Nat
  <2> HAVE n >= E
  <2>1. E * q <= n * q
    BY <1>1, <1>3
  <2> QED
    BY <1>1, <1>3, <1>4, <2>1
<1> QED
  BY <1>3, <1>5 DEF E, q

(* Dividing by the number of periods, the correction misses by the jitter  *)
(* over that number, rounded up.                                           *)
LEMMA CorrectionExact ==
  ASSUME NEW n \in Nat, n >= EnoughPeriods, NEW d \in Int, NEW w \in Int,
         -Jitter <= w, w <= Jitter
  PROVE  /\ Quot(n * d + w, n) \in Int
         /\ Magnitude(Quot(n * d + w, n) - d) <= Precision
<1> DEFINE c == Quot(n * d + w, n)
           q == Precision
<1>1. n > 0 /\ Jitter \in Nat /\ n * d + w \in Int
  BY VsyncAssumption
<1>2. c \in Int
  BY <1>1, QuotFacts
<1>3. PICK r \in Int : n * d + w = n * c + r /\ -n < r /\ r < n
  BY <1>1, QuotRest
<1>4. q \in Nat /\ Jitter <= n * q
  BY PrecisionFacts
<1> HIDE DEF c, q
<1>5. ~(q < c - d)
  <2> SUFFICES ASSUME q < c - d PROVE FALSE
    OBVIOUS
  <2>1. n * q + n <= n * (c - d)
    BY <1>2, <1>4, MulMono
  <2>2. n * (c - d) = w - r
    BY <1>1, <1>2, <1>3
  <2> DEFINE a == n * q
  <2>3. a \in Int /\ a + n <= w - r /\ Jitter <= a
    BY <1>4, <2>1, <2>2
  <2> HIDE DEF a
  <2> QED
    BY <1>1, <1>3, <2>3
<1>6. ~(c - d < -q)
  <2> SUFFICES ASSUME c - d < -q PROVE FALSE
    OBVIOUS
  <2>1. n * (c - d) + n <= n * (-q)
    BY <1>2, <1>4, MulMono
  <2>2. n * (c - d) = w - r /\ n * (-q) = -(n * q)
    BY <1>1, <1>2, <1>3, <1>4
  <2> DEFINE a == n * q
  <2>3. a \in Int /\ w - r + n <= -a /\ Jitter <= a
    BY <1>4, <2>1, <2>2
  <2> HIDE DEF a
  <2> QED
    BY <1>1, <1>3, <2>3
<1>7. c \in Int /\ Magnitude(c - d) <= q
  BY <1>2, <1>4, <1>5, <1>6 DEF Magnitude
<1> QED
  BY <1>7 DEF c, q

LEMMA ResyncExact ==
  ASSUME TypeOK, Anchored, ResyncAccepted,
         Magnitude(Drift) <= s_period - s_period \div Tolerance
  PROVE  s_period' = s_period \/ Magnitude(s_period' - TruePeriod) <= Precision
<1> DEFINE T == TruePeriod
           P == s_period
           N == Edges
           p == Precision
<1>1. pc = "resync" /\ Small /\ AtEdge /\ s_period' = CorrectedPeriod
  BY DEF ResyncAccepted
<1>2. Elapsed = N /\ Phase = Drift
  BY <1>1, JudgedRight
<1>3. now \in Nat /\ s_edge \in Nat /\ P \in Nat /\ T \in Nat
  BY VsyncAssumption DEF TypeOK
<1>4. (now % T) <= Jitter /\ (s_edge % T) <= Jitter
  BY <1>1 DEF AtEdge, Anchored
<1>5. PICK w \in Int : now - s_edge = T * N + w /\ -Jitter <= w /\ w <= Jitter
  BY <1>3, <1>4, EdgeInterval DEF Edges
<1>6. N \in Int
  BY <1>3, VsyncAssumption DEF Edges
<1>7. Drift = N * (T - P) + w
  <2>1. Drift = (T * N + w) - N * P
    BY <1>5 DEF Drift
  <2> HIDE DEF T, P, N
  <2> QED
    BY <1>3, <1>6, <2>1
<1>8. CASE N >= EnoughPeriods
  <2>1. N \in Nat
    BY <1>6, <1>8, VsyncAssumption
  <2>2. s_period' = P + Quot(N * (T - P) + w, N)
    BY <1>1, <1>2, <1>7, <1>8 DEF CorrectedPeriod
  <2>3. T - P \in Int
    BY <1>3
  <2> HIDE DEF T, P, N, p
  <2>4. /\ Quot(N * (T - P) + w, N) \in Int
        /\ Magnitude(Quot(N * (T - P) + w, N) - (T - P)) <= p
    BY <1>5, <1>8, <2>1, <2>3, CorrectionExact DEF p
  <2>5. s_period' - T = Quot(N * (T - P) + w, N) - (T - P)
    BY <1>3, <2>2, <2>4
  <2>6. Magnitude(s_period' - T) <= p
    BY <2>4, <2>5
  <2> QED
    BY <2>6 DEF T, p
<1>9. CASE ~(N >= EnoughPeriods)
  BY <1>1, <1>2, <1>9 DEF CorrectedPeriod
<1> QED
  BY <1>8, <1>9

(* However often the period is corrected, and whatever it is, a correction *)
(* never makes it worse than the jitter spread over EnoughPeriods, as long *)
(* as the prediction has come away from the display by less than makes the *)
(* next edge look right.                                                   *)
THEOREM PeriodStaysExact == Spec => PeriodNeverWorsens
<1>1. Spec => []Anchored
  BY AnchoredInit, AnchoredStep, TypeCorrect, PTL DEF Spec
<1>2. TypeOK /\ Anchored /\ [Next]_vars =>
        (s_period # 0 /\ Magnitude(Drift) <= s_period - s_period \div Tolerance =>
           \/ Magnitude(s_period' - TruePeriod) <= Precision
           \/ Magnitude(s_period' - TruePeriod) <= Magnitude(s_period - TruePeriod))
  <2> SUFFICES ASSUME TypeOK, Anchored, [Next]_vars, s_period # 0,
                      Magnitude(Drift) <= s_period - s_period \div Tolerance
               PROVE  \/ Magnitude(s_period' - TruePeriod) <= Precision
                      \/ Magnitude(s_period' - TruePeriod) <= Magnitude(s_period - TruePeriod)
    OBVIOUS
  <2>0. Magnitude(s_period - TruePeriod) \in Int
    <3>1. s_period - TruePeriod \in Int
      BY VsyncAssumption DEF TypeOK
    <3> QED
      BY <3>1 DEF Magnitude
  <2> SUFFICES s_period' = s_period \/ Magnitude(s_period' - TruePeriod) <= Precision
    BY <2>0
  <2>1. CASE ResyncAccepted
    BY <2>1, ResyncExact
  <2>2. CASE Calibrate
    BY <2>2 DEF Calibrate, TypeOK
  <2>3. CASE ~ResyncAccepted /\ ~Calibrate
    BY <2>3 DEF Next, vars, anchor, InitFails, InitReady, Measure, MeasureFails, Wait,
                ResyncRejected, ResyncFails, WaitReturns, Tick
  <2> QED
    BY <2>1, <2>2, <2>3
<1> QED
  BY <1>1, <1>2, TypeCorrect, PTL DEF Spec, PeriodNeverWorsens

-----------------------------------------------------------------------------
(* How far the counter is from the display                                 *)

(* The edges predicted since the anchor, and by how much their period is   *)
(* wrong.                                                                  *)
Counted == (now - s_edge) \div s_period
Wrong   == s_period - TruePeriod

LEMMA CountedAgainstEdges ==
  ASSUME TypeOK, s_period # 0, (s_edge % TruePeriod) <= Jitter
  PROVE  /\ TruePeriod * (Counted - Edges) < TruePeriod - Counted * Wrong
         /\ TruePeriod * (Edges - Counted) < s_period + Jitter + Counted * Wrong
<1> DEFINE T == TruePeriod
           P == s_period
           q == s_edge \div T
           r == s_edge % T
           Q == now \div T
           R == now % T
           n == (now - s_edge) \div P
<1>1. /\ T \in Nat /\ T > 0 /\ Jitter \in Nat /\ P \in Nat /\ P > 0
      /\ now \in Int /\ s_edge \in Int /\ now - s_edge \in Nat
  BY VsyncAssumption DEF TypeOK
<1>2. /\ q \in Int /\ r \in 0 .. T - 1 /\ s_edge = T * q + r
      /\ Q \in Int /\ R \in 0 .. T - 1 /\ now = T * Q + R
  BY <1>1, DivMod
<1>3. n \in Int /\ P * n <= now - s_edge /\ now - s_edge < P * n + P
  BY <1>1, DivMod
<1>4. r <= Jitter
  OBVIOUS
<1>5. Edges = Q - q /\ Counted = n /\ Wrong = P - T
  BY DEF Edges, Counted, Wrong
<1> HIDE DEF T, P, q, r, Q, R, n
<1> DEFINE a == T * n
           b == P * n
           c == T * Q
           d == T * q
<1>6. a \in Int /\ b \in Int /\ c \in Int /\ d \in Int
  BY <1>1, <1>2, <1>3
<1>7. /\ T * (n - (Q - q)) = a - c + d
      /\ T * ((Q - q) - n) = c - d - a
      /\ n * (P - T) = b - a
  BY <1>1, <1>2, <1>3
<1>8. /\ s_edge = d + r /\ now = c + R
      /\ b <= now - s_edge /\ now - s_edge < b + P
  BY <1>2, <1>3
<1> HIDE DEF a, b, c, d
<1>9. a - c + d < T - (b - a) /\ c - d - a < P + Jitter + (b - a)
  BY <1>1, <1>2, <1>4, <1>6, <1>8
<1>10. /\ T * (n - (Q - q)) < T - n * (P - T)
       /\ T * ((Q - q) - n) < P + Jitter + n * (P - T)
  BY <1>7, <1>9
<1> QED
  BY <1>5, <1>10 DEF T, P

(* As long as the calibration is trusted, the counter is as far from the   *)
(* edges the display has made since the anchor as the error of the period, *)
(* once for every edge counted, makes it: with an exact period it is never *)
(* ahead of them, and behind by the edge being measured at most; a period  *)
(* too short by one part in a thousand may put it an edge ahead after a    *)
(* thousand.  The measures are multiplied by the true period, in cycles.   *)
THEOREM CounterTracksDisplay ==
  Spec => [](s_period # 0 /\ ~s_resync_off =>
               /\ TruePeriod * (Counted - Edges) < TruePeriod - Counted * Wrong
               /\ TruePeriod * (Edges - Counted) < s_period + Jitter + Counted * Wrong)
<1>1. TypeOK /\ Anchored =>
        (s_period # 0 /\ ~s_resync_off =>
           /\ TruePeriod * (Counted - Edges) < TruePeriod - Counted * Wrong
           /\ TruePeriod * (Edges - Counted) < s_period + Jitter + Counted * Wrong)
  BY CountedAgainstEdges DEF Anchored
<1> QED
  BY <1>1, AnchoredInit, AnchoredStep, TypeCorrect, PTL DEF Spec

=============================================================================
