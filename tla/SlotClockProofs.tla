--------------------------- MODULE SlotClockProofs ---------------------------
(***************************************************************************)
(* What SlotClock promises for every slot duration, guard, gain, clamp,    *)
(* drift and delay; and, when these keep TimingBudget, that receiver and   *)
(* transmitter stay in step (InStep), so that no SYNC meets a closed       *)
(* channel and every next slot can be planned.                             *)
(***************************************************************************)
EXTENDS SlotClock, TLAPS

\* Dividing a natural number does not enlarge it.
LEMMA Quotient ==
  ASSUME NEW m \in Nat, NEW k \in Nat \ {0}
  PROVE  m \div k \in Nat /\ m \div k <= m
<1> DEFINE q == m \div k
<1>1. /\ q \in Int /\ m % k \in 0 .. k - 1 /\ m = k * q + (m % k)
  OBVIOUS
<1>2. q >= 0
  BY <1>1
<1>3. q <= k * q
  BY <1>1, <1>2
<1> QED
  BY <1>1, <1>2, <1>3

\* The quotient is the one multiple that fits.
LEMMA QuotientOf ==
  ASSUME NEW x \in Nat, NEW k \in Nat \ {0}, NEW n \in Nat,
         n * k <= x, x < n * k + k
  PROVE  x \div k = n
<1> DEFINE q == x \div k
<1>1. /\ q \in Int /\ x % k \in 0 .. k - 1 /\ x = k * q + (x % k)
  OBVIOUS
<1> HIDE DEF q
<1>2. k * q <= x /\ x < k * q + k /\ k * q \in Int /\ n * k \in Int
  BY <1>1
<1>3. ~(q >= n + 1)
  <2>1. q >= n + 1 => k * q >= k * (n + 1)
    BY <1>1
  <2>2. k * (n + 1) = n * k + k
    OBVIOUS
  <2> QED
    BY <1>2, <2>1, <2>2
<1>4. ~(n >= q + 1)
  <2>1. n >= q + 1 => k * n >= k * (q + 1)
    BY <1>1
  <2>2. k * (q + 1) = k * q + k /\ k * n = n * k
    BY <1>1
  <2> QED
    BY <1>2, <2>1, <2>2
<1>5. q = n
  BY <1>1, <1>3, <1>4
<1> QED
  BY <1>5 DEF q

\* The two gains together never exceed the part of the error beyond the
\* deadband.
LEMMA StepsBounded ==
  ASSUME NEW m \in Nat, m > Deadband
  PROVE  Steps(m) \in Nat /\ Steps(m) <= m - Deadband
<1> USE CorrectionAssumption
<1> DEFINE slow == Lesser(m, Fast) - Deadband
<1>1. slow \in Nat /\ slow <= m - Deadband
  BY DEF Lesser
<1>2. slow \div SlowDivisor \in Nat /\ slow \div SlowDivisor <= slow
  BY <1>1, Quotient
<1>3. CASE m > Fast
  <2>1. (m - Fast) \div FastDivisor \in Nat /\ (m - Fast) \div FastDivisor <= m - Fast
    BY <1>3, Quotient
  <2>2. slow = Fast - Deadband
    BY <1>3 DEF Lesser
  <2>3. Steps(m) = slow \div SlowDivisor + (m - Fast) \div FastDivisor
    BY <1>3 DEF Steps
  <2> QED
    BY <1>2, <2>1, <2>2, <2>3
<1>4. CASE ~(m > Fast)
  <2>1. Steps(m) = slow \div SlowDivisor + 0
    BY <1>4 DEF Steps
  <2> QED
    BY <1>1, <1>2, <2>1
<1> QED
  BY <1>3, <1>4

\* calculate_phase_correction: a correction has the sign of the error, is no
\* larger than what exceeds the deadband, and moves the reference by at most
\* one clamp.
LEMMA CorrectionBounded ==
  ASSUME NEW e \in Int
  PROVE  /\ Correction(e) \in -MaxStep .. MaxStep
         /\ e >= 0 => 0 <= Correction(e) /\ Correction(e) <= e
         /\ e < 0 => e <= Correction(e) /\ Correction(e) <= 0
         /\ Magnitude(e) <= Deadband <=> Correction(e) = 0
<1> USE CorrectionAssumption
<1> DEFINE m    == Magnitude(e)
           size == IF m <= Deadband THEN 0
                   ELSE IF Steps(m) = 0 THEN 1
                   ELSE Lesser(Steps(m), MaxStep)
<1>1. m \in Nat /\ (e >= 0 => m = e) /\ (e < 0 => m = -e)
  BY DEF Magnitude
<1>2. /\ size \in 0 .. MaxStep /\ size <= m
      /\ m <= Deadband <=> size = 0
  <2>1. CASE m <= Deadband
    BY <1>1, <2>1
  <2>2. CASE m > Deadband
    <3>1. Steps(m) \in Nat /\ Steps(m) <= m - Deadband
      BY <1>1, <2>2, StepsBounded
    <3> QED
      BY <1>1, <2>2, <3>1 DEF Lesser
  <2> QED
    BY <1>1, <2>1, <2>2
<1>3. Correction(e) = IF e < 0 THEN -size ELSE size
  BY DEF Correction
<1> HIDE DEF m, size
<1>4. Magnitude(e) <= Deadband <=> m <= Deadband
  BY DEF m
<1> QED
  BY <1>1, <1>2, <1>3, <1>4

\* The scheduler's two functions agree: the slot at the moment a slot begins,
\* and at every moment until the next one begins, is that slot.
THEOREM SlotOfItsTime ==
  ASSUME NEW r \in [slot : 0 .. SlotMax, time : 0 .. TimeMax, synchronized : BOOLEAN],
         NEW s \in 0 .. SlotMax, NEW t \in Nat,
         StartTime(r, s) # Failed,
         StartTime(r, s) <= t, t < StartTime(r, s) + SlotDuration
  PROVE  GetSlot(r, t) = s
<1> USE SchedulerAssumption, WidthAssumption
<1> DEFINE n == s - r.slot
           x == t - r.time
           q == x \div SlotDuration
<1>1. /\ r.slot \in 0 .. SlotMax /\ r.time \in 0 .. TimeMax
      /\ r.synchronized /\ s >= r.slot
      /\ StartTime(r, s) = r.time + n * SlotDuration
  BY DEF StartTime, Failed
<1>2. n \in Nat /\ n * SlotDuration \in Nat
  BY <1>1
<1>3. x \in Nat /\ n * SlotDuration <= x /\ x < n * SlotDuration + SlotDuration
  BY <1>1, <1>2
<1>4. q = n
  BY <1>2, <1>3, QuotientOf
<1>5. t >= r.time
  BY <1>1, <1>2
<1> QED
  BY <1>1, <1>4, <1>5 DEF GetSlot

----------------------------------------------------------------------------

\* What the scheduler answers is a failure or lies in its ranges.
LEMMA SchedulerTypes ==
  ASSUME NEW r \in [slot : 0 .. SlotMax, time : 0 .. TimeMax, synchronized : BOOLEAN],
         NEW s \in 0 .. SlotMax, NEW t \in Nat
  PROVE  /\ StartTime(r, s) \in Int
         /\ GetSlot(r, t) \in Int
         /\ NextSlot(r, t) # Failed => NextSlot(r, t) \in 0 .. SlotMax
<1> USE SchedulerAssumption, WidthAssumption DEF Failed
<1> DEFINE q == (t - r.time) \div SlotDuration
<1>1. r.slot \in 0 .. SlotMax /\ r.time \in 0 .. TimeMax
  OBVIOUS
<1>2. StartTime(r, s) \in Int
  <2>1. s >= r.slot => (s - r.slot) * SlotDuration \in Int
    BY <1>1
  <2> QED
    BY <1>1, <2>1 DEF StartTime
<1>3. GetSlot(r, t) = -1 \/ GetSlot(r, t) \in 0 .. SlotMax
  <2>1. t >= r.time => q \in Nat
    BY <1>1, Quotient
  <2> QED
    BY <1>1, <2>1 DEF GetSlot
<1>4. NextSlot(r, t) # -1 => NextSlot(r, t) \in 0 .. SlotMax
  BY <1>3 DEF NextSlot
<1> QED
  BY <1>2, <1>3, <1>4

\* A cleared reference has the type of one.
LEMMA NoReferenceType ==
  NoReference \in [slot : 0 .. SlotMax, time : 0 .. TimeMax, synchronized : BOOLEAN]
  BY WidthAssumption DEF NoReference

\* A corrected reference stays a reference.
LEMMA CorrectedType ==
  ASSUME NEW r \in [slot : 0 .. SlotMax, time : 0 .. TimeMax, synchronized : BOOLEAN],
         NEW s \in 0 .. SlotMax, NEW e \in Int
  PROVE  Corrected(r, s, e) \in
           [slot : 0 .. SlotMax, time : 0 .. TimeMax, synchronized : BOOLEAN]
  BY DEF Corrected, SetReference

\* When a slot begins and when its SYNC arrives.
LEMMA ArrivalTypes ==
  ASSUME TypeOK, NEW t \in NextStarts, NEW a \in Arrivals(t)
  PROVE  t \in Nat /\ a \in Nat /\ a - Offset \in Nat
  BY ClockAssumption, ServiceAssumption, SchedulerAssumption
     DEF TypeOK, NextStarts, Arrivals

\* Every step keeps the types.
LEMMA TypeStep == TypeOK /\ [Next]_vars => TypeOK'
<1> USE ClockAssumption, ServiceAssumption, SchedulerAssumption, WidthAssumption
<1> SUFFICES ASSUME TypeOK, [Next]_vars PROVE TypeOK'
  OBVIOUS
<1>1. CASE Anchor
  <2> DEFINE Anchored(t, a) ==
          /\ a <= TimeMax /\ Begins(t)
          /\ ref' = SetReference(txSlot + 1, a - Offset)
          /\ slot' = txSlot + 1 /\ pc' = "plan" /\ now' = a + Airtime
          /\ misses' = 0 /\ error' = 0 /\ left' = 0
  <2>0. PICK t \in NextStarts : \E a \in Arrivals(t) : Anchored(t, a)
    BY <1>1 DEF Anchor
  <2>1. PICK a \in Arrivals(t) : Anchored(t, a)
    BY <2>0
  <2>2. t \in Nat /\ a \in Nat /\ a - Offset \in Nat
    BY <2>1, ArrivalTypes
  <2> QED
    BY <2>1, <2>2 DEF TypeOK, Begins, SetReference
<1>2. CASE GoesBy
  <2>0. PICK t \in NextStarts : \E a \in Arrivals(t) : Begins(t)
    BY <1>2 DEF GoesBy
  <2>1. PICK a \in Arrivals(t) : Begins(t)
    BY <2>0
  <2>2. t \in Nat
    BY <2>1, ArrivalTypes
  <2> QED
    BY <1>2, <2>1, <2>2 DEF TypeOK, Begins, GoesBy
<1>3. CASE Plan
  <2> DEFINE next == NextSlot(ref, now)
  <2>1. next # Failed => next \in 0 .. SlotMax
    BY SchedulerTypes DEF TypeOK
  <2>2. CASE next = Failed
    BY <1>3, <2>2, NoReferenceType DEF Plan, TypeOK
  <2>3. CASE next # Failed
    <3>1. SwitchTime(ref, next) \in Int
      BY <2>1, <2>3, SchedulerTypes DEF TypeOK, SwitchTime
    <3>2. now' \in Nat
      BY <1>3, <2>3, <3>1 DEF Plan, Greater, TypeOK
    <3> QED
      BY <1>3, <2>1, <2>3, <3>2 DEF Plan, TypeOK
  <2> QED
    BY <2>2, <2>3
<1>4. CASE Hear
  <2> DEFINE e(a) == a - (StartTime(ref, slot) + Offset)
             Taken(t, a) ==
               /\ Begins(t)
               /\ error' = e(a)
               /\ ref' = IF Inside(e(a)) THEN Corrected(ref, slot, e(a)) ELSE ref
               /\ left' = IF Inside(e(a)) THEN e(a) - Correction(e(a)) ELSE e(a)
               /\ pc' = "plan" /\ now' = a + Airtime /\ misses' = 0 /\ slot' = slot
  <2>0. PICK t \in NextStarts : \E a \in Arrivals(t) : Taken(t, a)
    BY <1>4 DEF Hear, Heard
  <2>1. PICK a \in Arrivals(t) : Taken(t, a)
    BY <2>0
  <2>2. t \in Nat /\ a \in Nat
    BY <2>1, ArrivalTypes
  <2>3. e(a) \in Int
    BY <2>2, SchedulerTypes DEF TypeOK
  <2>4. Correction(e(a)) \in Int
    BY <2>3, CorrectionBounded, CorrectionAssumption
  <2>5. Corrected(ref, slot, e(a)) \in
          [slot : 0 .. SlotMax, time : 0 .. TimeMax, synchronized : BOOLEAN]
    BY <2>3, CorrectedType DEF TypeOK
  <2> HIDE DEF e
  <2> QED
    BY <2>1, <2>2, <2>3, <2>4, <2>5 DEF TypeOK, Begins
<1>5. ASSUME NEW t \in Nat, Miss(t), txSlot' \in 0 .. SlotMax, txStart' \in Nat
      PROVE  TypeOK'
  <2>1. CASE ref' = ref /\ pc' = "plan"
    BY <1>5, <2>1 DEF Miss, TypeOK
  <2>2. CASE ref' = NoReference /\ pc' = "search"
    BY <1>5, <2>2, NoReferenceType DEF Miss, TypeOK
  <2> QED
    BY <1>5, <2>1, <2>2 DEF Miss
<1>6. CASE Garbled
  <2>0. PICK t \in NextStarts : \E a \in Arrivals(t) : Begins(t) /\ Miss(a + Airtime)
    BY <1>6 DEF Garbled, Heard
  <2>1. PICK a \in Arrivals(t) : Begins(t) /\ Miss(a + Airtime)
    BY <2>0
  <2>2. t \in Nat /\ a + Airtime \in Nat
    BY <2>1, ArrivalTypes
  <2>3. txSlot' \in 0 .. SlotMax /\ txStart' \in Nat
    BY <2>1, <2>2 DEF Begins, TypeOK
  <2> QED
    BY <1>5, <2>1, <2>2, <2>3
<1>7. CASE Drowned
  <2>0. PICK t \in NextStarts : \E a \in Arrivals(t) : Begins(t)
    BY <1>7 DEF Drowned, Heard
  <2>1. PICK a \in Arrivals(t) : Begins(t)
    BY <2>0
  <2>2. t \in Nat
    BY <2>1, ArrivalTypes
  <2> QED
    BY <1>7, <2>1, <2>2 DEF TypeOK, Begins, Drowned
<1>8. CASE TimedOut
  <2>1. now + Window \in Nat
    BY DEF TypeOK
  <2>2. txSlot' \in 0 .. SlotMax /\ txStart' \in Nat
    BY <1>8 DEF TimedOut, TypeOK
  <2> QED
    BY <1>5, <1>8, <2>1, <2>2 DEF TimedOut
<1>9. CASE UNCHANGED vars
  BY <1>9 DEF TypeOK, vars
<1> QED
  BY <1>1, <1>2, <1>3, <1>4, <1>6, <1>7, <1>8, <1>9 DEF Next

\* The receive loop and the scheduler keep to their types, slot numbers to
\* their width included: the next slot is refused at the last one.
THEOREM TypeCorrect == Spec => []TypeOK
<1>1. Init => TypeOK
  BY ServiceAssumption, WidthAssumption DEF Init, TypeOK, NoReference
<1> QED
  BY <1>1, TypeStep, PTL DEF Spec

\* Whatever the gains, the clamp and the deadband that the init functions
\* accept, a correction never overshoots the error it answers
\* (calculate_phase_correction).
THEOREM NoOvershootSafety == Spec => []NoOvershoot
<1>1. Init => NoOvershoot
  BY DEF Init, NoOvershoot
<1>2. TypeOK /\ NoOvershoot /\ [Next]_vars => NoOvershoot'
  <2> SUFFICES ASSUME TypeOK, NoOvershoot, [Next]_vars PROVE NoOvershoot'
    OBVIOUS
  <2>1. CASE Hear
    <3> DEFINE e(a) == a - (StartTime(ref, slot) + Offset)
    <3>0. PICK t \in NextStarts : \E a \in Arrivals(t) :
            /\ error' = e(a)
            /\ left' = IF Inside(e(a)) THEN e(a) - Correction(e(a)) ELSE e(a)
      BY <2>1 DEF Hear
    <3>1. PICK a \in Arrivals(t) :
            /\ error' = e(a)
            /\ left' = IF Inside(e(a)) THEN e(a) - Correction(e(a)) ELSE e(a)
      BY <3>0
    <3>2. e(a) \in Int
      BY <3>1, ArrivalTypes, SchedulerTypes, ServiceAssumption DEF TypeOK
    <3>3. /\ Correction(e(a)) \in Int
          /\ e(a) >= 0 => 0 <= Correction(e(a)) /\ Correction(e(a)) <= e(a)
          /\ e(a) < 0 => e(a) <= Correction(e(a)) /\ Correction(e(a)) <= 0
      BY <3>2, CorrectionBounded, CorrectionAssumption
    <3> HIDE DEF e
    <3> QED
      BY <3>1, <3>2, <3>3 DEF NoOvershoot
  <2>2. CASE Anchor
    BY <2>2 DEF Anchor, NoOvershoot
  <2>3. CASE UNCHANGED << error, left >>
    BY <2>3 DEF NoOvershoot
  <2> QED
    BY <2>1, <2>2, <2>3
       DEF Next, GoesBy, Plan, Garbled, Drowned, TimedOut, Miss, vars
<1> QED
  BY <1>1, <1>2, TypeCorrect, PTL DEF Spec

----------------------------------------------------------------------------
(* Staying in step.  Within the timing budget the start the scheduler      *)
(* computes for a slot keeps close to the start of the transmitter's slot; *)
(* n counts the slots since a SYNC was heard.                              *)

Held(delay, swing, n, phase) ==
  -(swing + n * Drift) <= phase /\ phase <= delay + swing + n * Drift

Start == StartTime(ref, slot)

\* The transmitter's clock, drift included.
Paced == txStart <= txSlot * (SlotDuration + Drift)

\* The slot is over, the switch to the next one still ahead.
Planning(delay, swing) ==
  pc = "plan" =>
    /\ slot = txSlot /\ 0 <= Start
    /\ Start <= now /\ now < Start + SlotDuration - Guard
    /\ Held(delay, swing, misses, Start - txStart)

\* The channel is open; the slot's SYNC is to come or has drowned.
Listening(delay, swing) ==
  pc = "listen" =>
    /\ 0 <= Start /\ Start - Guard <= now /\ now <= Start - Guard + Late
    /\ \/ slot = txSlot /\ Held(delay, swing, misses + 1, Start - txStart)
       \/ slot = txSlot + 1 /\ Held(delay, swing, misses, Start - SlotDuration - txStart)

InStep(delay, swing) ==
  TypeOK /\ Paced /\ Planning(delay, swing) /\ Listening(delay, swing)

\* What the clocks drift apart in n slots grows with n, up to Strays.
LEMMA DriftGrows ==
  ASSUME NEW n \in Nat, n < RecoveryEntry
  PROVE  /\ n * Drift \in Nat /\ (n + 1) * Drift = n * Drift + Drift
         /\ (n + 1) * Drift <= Strays
         /\ Strays \in Nat
<1> USE ClockAssumption, ServiceAssumption
<1>1. n * Drift \in Nat /\ (n + 1) * Drift = n * Drift + Drift
  OBVIOUS
<1>2. RecoveryEntry = n + 1 + (RecoveryEntry - n - 1) /\ RecoveryEntry - n - 1 \in Nat
  OBVIOUS
<1> DEFINE k == RecoveryEntry - n - 1
<1>3. RecoveryEntry * Drift = (n + 1) * Drift + k * Drift
  <2>1. (n + 1 + k) * Drift = (n + 1) * Drift + k * Drift
    BY <1>2
  <2> QED
    BY <1>2, <2>1
<1>4. k * Drift \in Nat
  BY <1>2
<1> QED
  BY <1>1, <1>3, <1>4 DEF Strays

\* What the slot counts to is what the transmitter's clock has counted.
LEMMA SlotsTake ==
  ASSUME NEW s \in 0 .. SlotMax, NEW d \in Nat
  PROVE  /\ s * (SlotDuration + d) \in Nat
         /\ (s + 1) * (SlotDuration + d) = s * (SlotDuration + d) + SlotDuration + d
         /\ s * (SlotDuration + d) <= SlotMax * (SlotDuration + d)
<1> USE SchedulerAssumption, WidthAssumption
<1> DEFINE x == SlotDuration + d
           k == SlotMax - s
<1>1. x \in Nat /\ k \in Nat /\ s \in Nat
  OBVIOUS
<1> HIDE DEF x
<1>2. s * x \in Nat /\ (s + 1) * x = s * x + x
  BY <1>1
<1>3. (s + k) * x = s * x + k * x /\ k * x \in Nat
  BY <1>1
<1>4. SlotMax = s + k
  OBVIOUS
<1>5. s * x <= SlotMax * x
  BY <1>2, <1>3, <1>4
<1> QED
  BY <1>2, <1>5 DEF x

\* A start that is not a failure, and that of the slot after it.
LEMMA NextStart ==
  ASSUME NEW r \in [slot : 0 .. SlotMax, time : 0 .. TimeMax, synchronized : BOOLEAN],
         NEW s \in 0 .. SlotMax, 0 <= StartTime(r, s),
         StartTime(r, s) + SlotDuration <= TimeMax
  PROVE  StartTime(r, s + 1) = StartTime(r, s) + SlotDuration
<1> USE SchedulerAssumption, WidthAssumption
<1> DEFINE n == s - r.slot
<1>1. /\ r.slot \in 0 .. SlotMax /\ r.time \in 0 .. TimeMax
      /\ r.synchronized /\ s >= r.slot
      /\ StartTime(r, s) = r.time + n * SlotDuration
  BY DEF StartTime, Failed
<1>2. n \in Nat /\ n * SlotDuration \in Nat /\ (n + 1) * SlotDuration = n * SlotDuration + SlotDuration
  BY <1>1
<1>3. s + 1 - r.slot = n + 1
  BY <1>1
<1>4. (s + 1 - r.slot) * SlotDuration = n * SlotDuration + SlotDuration
  BY <1>2, <1>3
<1> HIDE DEF n
<1> QED
  BY <1>1, <1>2, <1>4 DEF StartTime

\* The slot a reference is set to starts at the reference.
LEMMA ReferenceStart ==
  ASSUME NEW s \in 0 .. SlotMax, NEW t \in 0 .. TimeMax
  PROVE  StartTime(SetReference(s, t), s) = t
<1>1. (s - s) * SlotDuration = 0
  BY SchedulerAssumption, WidthAssumption
<1> QED
  BY <1>1, WidthAssumption DEF StartTime, SetReference

\* The plan of a receiver in step: the next slot, unless there is none.
LEMMA PlanInStep ==
  ASSUME NEW r \in [slot : 0 .. SlotMax, time : 0 .. TimeMax, synchronized : BOOLEAN],
         NEW s \in 0 .. SlotMax, NEW t \in Nat,
         0 <= StartTime(r, s), StartTime(r, s) <= t,
         t < StartTime(r, s) + SlotDuration,
         s < SlotMax => StartTime(r, s) + SlotDuration <= TimeMax
  PROVE  NextSlot(r, t) = IF s < SlotMax THEN s + 1 ELSE Failed
<1> USE SchedulerAssumption, WidthAssumption
<1>1. StartTime(r, s) \in Int
  BY SchedulerTypes
<1>2. GetSlot(r, t) = s
  BY <1>1, SlotOfItsTime DEF Failed
<1>3. s < SlotMax => StartTime(r, s + 1) = StartTime(r, s) + SlotDuration
  BY <1>1, NextStart
<1> QED
  BY <1>1, <1>2, <1>3 DEF NextSlot, Failed

\* calculate_phase_correction answers both signs alike.
LEMMA CorrectionIsOdd ==
  ASSUME NEW m \in Nat \ {0}
  PROVE  Correction(-m) = -Correction(m)
<1> DEFINE size(k) == IF k <= Deadband THEN 0
                      ELSE IF Steps(k) = 0 THEN 1
                      ELSE Lesser(Steps(k), MaxStep)
<1>1. Magnitude(m) = m /\ Magnitude(-m) = m
  BY DEF Magnitude
<1>2. Correction(m) = size(m) /\ Correction(-m) = -size(m)
  BY <1>1 DEF Correction
<1> QED
  BY <1>2

\* A SYNC that is heard brings the reference back into its swing, wherever the
\* drift of the missed slots has taken it.
LEMMA CorrectionHolds ==
  ASSUME NEW delay \in Nat, NEW swing \in Nat, WithinBudget(delay, swing),
         NEW n \in Nat, n < RecoveryEntry,
         NEW phase \in Int, Held(delay, swing, n + 1, phase),
         NEW j \in Delays
  PROVE  /\ Inside(j - phase)
         /\ phase + Correction(j - phase) \in Int
         /\ Held(delay, swing, 0, phase + Correction(j - phase))
<1> USE ClockAssumption
<1> DEFINE e == j - phase
           c == Correction(e)
           reach == Reach(delay, swing)
<1>1. j \in 0 .. delay
  BY DEF WithinBudget
<1>2. Strays \in Nat /\ (n + 1) * Drift \in Nat /\ (n + 1) * Drift <= Strays
  BY DriftGrows
<1>3. reach \in Nat /\ reach = delay + swing + Strays
  BY <1>2 DEF Reach
<1>4. /\ -(swing + Strays) <= phase /\ phase <= delay + swing + Strays
      /\ e \in Int /\ -reach <= e /\ e <= reach
  BY <1>1, <1>2, <1>3 DEF Held
<1>5. Inside(e)
  BY <1>3, <1>4, ServiceAssumption DEF WithinBudget, Inside
<1>6. /\ c \in Int
      /\ e >= 0 => 0 <= c /\ c <= e
      /\ e < 0 => e <= c /\ c <= 0
  BY <1>4, CorrectionBounded, CorrectionAssumption
<1>7. \A m \in swing + 1 .. reach : Correction(m) >= Strays
  BY DEF WithinBudget
<1> HIDE DEF c, reach
<1>8. 0 * Drift = 0
  OBVIOUS
<1>9. CASE e >= 0
  <2>1. e > swing => c >= Strays
    BY <1>3, <1>4, <1>7, <1>9 DEF c
  <2>2. -swing <= phase + c /\ phase + c <= delay + swing
    BY <1>1, <1>2, <1>4, <1>6, <1>9, <2>1
  <2> QED
    BY <1>5, <1>6, <1>8, <2>2 DEF Held, c
<1>10. CASE e < 0
  <2>1. -e > swing => -c >= Strays
    <3> DEFINE m == -e
    <3>1. m \in Nat \ {0} /\ -m = e /\ m <= reach
      BY <1>3, <1>4, <1>10
    <3> HIDE DEF m
    <3>2. Correction(m) \in Int
      BY <3>1, CorrectionBounded, CorrectionAssumption
    <3>3. c = -Correction(m)
      BY <3>1, CorrectionIsOdd DEF c
    <3>4. m > swing => Correction(m) >= Strays
      BY <1>3, <1>7, <3>1
    <3> QED
      BY <3>2, <3>3, <3>4 DEF m
  <2>2. -swing <= phase + c /\ phase + c <= delay + swing
    BY <1>1, <1>2, <1>4, <1>6, <1>10, <2>1
  <2> QED
    BY <1>5, <1>6, <1>8, <2>2 DEF Held, c
<1> QED
  BY <1>4, <1>9, <1>10

\* A phase held is within reach, also after one more slot without a SYNC.
LEMMA HeldWithinReach ==
  ASSUME NEW delay \in Nat, NEW swing \in Nat,
         NEW n \in Nat, n < RecoveryEntry, NEW phase \in Int
  PROVE  /\ Reach(delay, swing) \in Nat
         /\ delay + swing <= Reach(delay, swing)
         /\ Drift <= Reach(delay, swing) - delay - swing
         /\ Held(delay, swing, n, phase) \/ Held(delay, swing, n + 1, phase) =>
              /\ delay - Reach(delay, swing) <= phase
              /\ phase <= Reach(delay, swing)
         /\ Held(delay, swing, 0, phase) =>
              -swing <= phase /\ phase <= delay + swing
         /\ Held(delay, swing, n, phase) =>
              \A d \in {-Drift, 0, Drift} : Held(delay, swing, n + 1, phase - d)
<1> USE ClockAssumption
<1>1. /\ n * Drift \in Nat /\ (n + 1) * Drift = n * Drift + Drift
      /\ (n + 1) * Drift <= Strays /\ Strays \in Nat
  BY DriftGrows
<1>2. 0 * Drift = 0
  OBVIOUS
<1>3. Reach(delay, swing) = delay + swing + Strays
  BY DEF Reach
<1>4. Held(delay, swing, n, phase) =>
        \A d \in {-Drift, 0, Drift} : Held(delay, swing, n + 1, phase - d)
  BY <1>1 DEF Held
<1>5. Held(delay, swing, n, phase) \/ Held(delay, swing, n + 1, phase) =>
        delay - Reach(delay, swing) <= phase /\ phase <= Reach(delay, swing)
  BY <1>1, <1>3 DEF Held
<1>6. Held(delay, swing, 0, phase) => -swing <= phase /\ phase <= delay + swing
  BY <1>2 DEF Held
<1> QED
  BY <1>1, <1>3, <1>4, <1>5, <1>6

\* The transmitter begins a slot while the receiver of the slot before it, or
\* of this one, is in step.
LEMMA SlotBegins ==
  ASSUME NEW delay \in Nat, NEW swing \in Nat, WithinBudget(delay, swing),
         InStep(delay, swing), txSlot < SlotMax,
         NEW t \in NextStarts, NEW a \in Arrivals(t)
  PROVE  /\ t \in Nat /\ a \in Nat /\ SlotDuration - Drift <= t
         /\ t <= (txSlot + 1) * (SlotDuration + Drift)
         /\ t <= SlotMax * (SlotDuration + Drift)
         /\ t + Offset <= a /\ a <= t + Offset + delay
         /\ pc = "listen" =>
              /\ slot = txSlot => a > now + Window
              /\ slot = txSlot + 1 =>
                   /\ Held(delay, swing, misses + 1, Start - t)
                   /\ now <= t + Offset /\ a <= now + Window
<1> USE ClockAssumption, SchedulerAssumption, ServiceAssumption
<1>1. /\ txSlot \in 0 .. SlotMax /\ txStart \in Nat /\ now \in Nat
      /\ misses \in Nat /\ misses < RecoveryEntry /\ slot \in 0 .. SlotMax
  BY DEF InStep, TypeOK
<1>2. PICK d \in {-Drift, 0, Drift} : t = txStart + SlotDuration + d
  BY DEF NextStarts
<1>3. PICK j \in Delays : a = t + Offset + j
  BY DEF Arrivals
<1>4. j \in 0 .. delay
  BY DEF WithinBudget
<1>5. t \in Nat /\ SlotDuration - Drift <= t
  BY <1>1, <1>2
<1>6. /\ t <= (txSlot + 1) * (SlotDuration + Drift)
      /\ t <= SlotMax * (SlotDuration + Drift)
  <2>1. (txSlot + 1) * (SlotDuration + Drift)
          = txSlot * (SlotDuration + Drift) + SlotDuration + Drift
    BY <1>1, SlotsTake
  <2>2. txSlot * (SlotDuration + Drift) \in Nat
    BY <1>1, SlotsTake
  <2>3. txSlot + 1 \in 0 .. SlotMax
    BY <1>1, WidthAssumption
  <2>4. (txSlot + 1) * (SlotDuration + Drift) <= SlotMax * (SlotDuration + Drift)
    BY <2>3, SlotsTake
  <2>5. SlotMax * (SlotDuration + Drift) \in Int
    BY WidthAssumption
  <2>6. txStart <= txSlot * (SlotDuration + Drift)
    BY DEF InStep, Paced
  <2> QED
    BY <1>1, <1>2, <2>1, <2>2, <2>4, <2>5, <2>6
<1>7. ASSUME pc = "listen"
      PROVE  /\ slot = txSlot => a > now + Window
             /\ slot = txSlot + 1 =>
                  /\ Held(delay, swing, misses + 1, Start - t)
                  /\ now <= t + Offset /\ a <= now + Window
  <2> DEFINE r == Reach(delay, swing)
  <2>1. Start \in Int
    BY SchedulerTypes DEF InStep, TypeOK, Start
  <2>2. /\ Start - Guard <= now /\ now <= Start - Guard + Late
        /\ \/ slot = txSlot /\ Held(delay, swing, misses + 1, Start - txStart)
           \/ slot = txSlot + 1 /\ Held(delay, swing, misses, Start - SlotDuration - txStart)
    BY <1>7 DEF InStep, Listening
  <2>3. /\ r \in Nat /\ r + Late <= Guard
        /\ Offset + r + Guard <= Window
        /\ Window + Late + Drift < SlotDuration
    BY <1>1, HeldWithinReach DEF WithinBudget
  <2>4. CASE slot = txSlot
    <3> DEFINE p == Start - txStart
    <3>0. p \in Int /\ Held(delay, swing, misses + 1, p)
      BY <1>1, <2>1, <2>2, <2>4
    <3> HIDE DEF p
    <3>1. p <= r
      BY <1>1, <3>0, HeldWithinReach
    <3> HIDE DEF r
    <3> QED
      BY <1>1, <1>2, <1>3, <1>4, <2>1, <2>2, <2>3, <2>4, <3>1 DEF p
  <2>5. CASE slot = txSlot + 1
    <3> DEFINE p == Start - SlotDuration - txStart
    <3>1. Held(delay, swing, misses, p) /\ p \in Int
      BY <1>1, <2>1, <2>2, <2>5
    <3>2. Held(delay, swing, misses + 1, p - d)
      BY <1>1, <3>1, HeldWithinReach
    <3>3. p - d = Start - t
      BY <1>1, <1>2, <2>1
    <3> DEFINE q == p - d
    <3>4. delay - r <= q /\ q <= r
      <4>1. q \in Int /\ Held(delay, swing, misses + 1, q)
        BY <1>2, <3>1, <3>2, ClockAssumption
      <4> HIDE DEF q
      <4> QED
        BY <1>1, <4>1, HeldWithinReach
    <3> HIDE DEF p, r
    <3>5. now <= t + Offset /\ a <= now + Window
      BY <1>1, <1>3, <1>4, <1>5, <2>1, <2>2, <2>3, <2>5, <3>3, <3>4
    <3> QED
      BY <1>1, <2>5, <3>2, <3>3, <3>5
  <2> QED
    BY <2>4, <2>5
<1> QED
  BY <1>3, <1>4, <1>5, <1>6, <1>7

\* A SYNC that is heard leaves a reference in step.
LEMMA HearInStep ==
  ASSUME NEW delay \in Nat, NEW swing \in Nat, WithinBudget(delay, swing),
         InStep(delay, swing), Hear
  PROVE  Paced' /\ Planning(delay, swing)' /\ Listening(delay, swing)'
<1> USE ClockAssumption, SchedulerAssumption, ServiceAssumption, WidthAssumption
<1> DEFINE e(a) == a - (Start + Offset)
           Taken(t, a) ==
             /\ pc = "listen" /\ slot = txSlot + 1 /\ Begins(t)
             /\ ref' = IF Inside(e(a)) THEN Corrected(ref, slot, e(a)) ELSE ref
             /\ pc' = "plan" /\ now' = a + Airtime /\ misses' = 0 /\ slot' = slot
<1>0. PICK t \in NextStarts : \E a \in Arrivals(t) : Taken(t, a)
  BY DEF Hear, Heard, Start
<1>1. PICK a \in Arrivals(t) : Taken(t, a)
  BY <1>0
<1>2. txSlot < SlotMax /\ txSlot' = txSlot + 1 /\ txStart' = t /\ slot \in 0 .. SlotMax
  BY <1>1 DEF Begins, InStep, TypeOK
<1>3. /\ t \in Nat /\ a \in Nat /\ SlotDuration - Drift <= t
      /\ t <= (txSlot + 1) * (SlotDuration + Drift)
      /\ t <= SlotMax * (SlotDuration + Drift)
      /\ t + Offset <= a /\ a <= t + Offset + delay
      /\ Held(delay, swing, misses + 1, Start - t)
  BY <1>1, <1>2, SlotBegins
<1>4. PICK j \in Delays : a = t + Offset + j
  BY DEF Arrivals
<1>5. Start \in Int /\ misses \in Nat /\ misses < RecoveryEntry
  BY SchedulerTypes DEF InStep, TypeOK, Start
<1> DEFINE p == Start - t
           c == Correction(e(a))
           r == Reach(delay, swing)
<1>6. p \in Int /\ Held(delay, swing, misses + 1, p)
  BY <1>3, <1>5
<1>7. e(a) = j - p /\ e(a) \in Int
  BY <1>3, <1>4, <1>5
<1>8. c \in Int
  BY <1>7, CorrectionBounded, CorrectionAssumption
<1> HIDE DEF p, e
<1>9. Inside(e(a)) /\ Held(delay, swing, 0, p + c)
  BY <1>5, <1>6, <1>7, CorrectionHolds
<1> HIDE DEF c
<1>10. -swing <= p + c /\ p + c <= delay + swing
  <2> DEFINE q == p + c
  <2>1. q \in Int /\ Held(delay, swing, 0, q)
    BY <1>6, <1>8, <1>9
  <2> HIDE DEF q
  <2>2. -swing <= q /\ q <= delay + swing
    BY <1>5, <2>1, HeldWithinReach
  <2> QED
    BY <2>2 DEF q
<1>11. r \in Nat /\ delay + swing <= r /\ Drift <= r - delay - swing
  BY <1>5, HeldWithinReach
<1>12. /\ r + Late <= Guard /\ r <= Offset + Airtime
       /\ Offset + Airtime + r + Guard < SlotDuration
       /\ SlotMax * (SlotDuration + Drift) + r <= TimeMax
  BY DEF WithinBudget
<1>13. Start + c = t + (p + c)
  BY <1>3, <1>5, <1>8 DEF p
<1>14. SlotMax * (SlotDuration + Drift) \in Int
  OBVIOUS
<1> HIDE DEF r
<1>15. Start + c \in 0 .. TimeMax
  BY <1>3, <1>5, <1>6, <1>8, <1>10, <1>11, <1>12, <1>13, <1>14
<1>16. Start' = Start + c
  <2>1. CASE c = 0
    <3>1. ref' = ref
      BY <1>1, <1>9, <2>1 DEF Corrected, c
    <3> QED
      BY <1>1, <1>5, <2>1, <3>1 DEF Start
  <2>2. CASE c # 0
    <3>1. ref' = SetReference(slot, Start + c)
      BY <1>1, <1>9, <1>15, <2>2 DEF Corrected, c, Start
    <3> QED
      BY <1>1, <1>2, <1>15, <3>1, ReferenceStart DEF Start
  <2> QED
    BY <2>1, <2>2
<1>17. Start' - txStart' = p + c
  BY <1>2, <1>3, <1>6, <1>8, <1>13, <1>16
<1>18. Planning(delay, swing)'
  <2>1. 0 <= Start' /\ Start' <= now' /\ now' < Start' + SlotDuration - Guard
    BY <1>1, <1>3, <1>6, <1>8, <1>10, <1>11, <1>12, <1>13, <1>15, <1>16
  <2> QED
    BY <1>1, <1>2, <1>9, <1>17, <2>1 DEF Planning
<1>19. Paced'
  BY <1>2, <1>3 DEF Paced
<1> QED
  BY <1>1, <1>18, <1>19 DEF Listening

\* A slot that is missed leaves the reference in step by one slot's drift.
LEMMA MissInStep ==
  ASSUME NEW delay \in Nat, NEW swing \in Nat, TypeOK,
         NEW t \in Nat, Miss(t),
         slot = txSlot', 0 <= Start,
         Start <= t, t < Start + SlotDuration - Guard,
         Held(delay, swing, misses + 1, Start - txStart')
  PROVE  Planning(delay, swing)' /\ Listening(delay, swing)'
<1>1. CASE pc' = "search"
  BY <1>1 DEF Planning, Listening
<1>2. CASE pc' = "plan" /\ misses' = misses + 1 /\ ref' = ref
  <2>1. Start' = Start
    BY <1>2 DEF Start, Miss
  <2> QED
    BY <1>2, <2>1 DEF Planning, Listening, Miss
<1> QED
  BY <1>1, <1>2 DEF Miss

\* The next slot is planned ahead of its switch.
LEMMA PlanStep ==
  ASSUME NEW delay \in Nat, NEW swing \in Nat, WithinBudget(delay, swing),
         InStep(delay, swing), Plan
  PROVE  /\ pc' = "listen" \/ slot = SlotMax
         /\ Planning(delay, swing)' /\ Listening(delay, swing)'
<1> USE ClockAssumption, SchedulerAssumption, ServiceAssumption, WidthAssumption
<1> DEFINE r == Reach(delay, swing)
           p == Start - txStart
<1>1. /\ ref \in [slot : 0 .. SlotMax, time : 0 .. TimeMax, synchronized : BOOLEAN]
      /\ slot \in 0 .. SlotMax /\ now \in Nat /\ txStart \in Nat
      /\ misses \in Nat /\ misses < RecoveryEntry
  BY DEF InStep, TypeOK
<1>2. Start \in Int
  BY <1>1, SchedulerTypes DEF Start
<1>3. /\ slot = txSlot /\ 0 <= Start
      /\ Start <= now /\ now < Start + SlotDuration - Guard
      /\ Held(delay, swing, misses, p)
  BY DEF InStep, Planning, Plan
<1>4. p \in Int
  BY <1>1, <1>2
<1> HIDE DEF p
<1>5. p <= r /\ r \in Nat /\ Held(delay, swing, misses, p)
  BY <1>1, <1>3, <1>4, HeldWithinReach
<1> HIDE DEF r
<1>6. slot < SlotMax => Start + SlotDuration <= TimeMax
  <2> SUFFICES ASSUME slot < SlotMax PROVE Start + SlotDuration <= TimeMax
    OBVIOUS
  <2>1. /\ slot * (SlotDuration + Drift) \in Nat
        /\ (slot + 1) * (SlotDuration + Drift)
             = slot * (SlotDuration + Drift) + SlotDuration + Drift
    BY <1>1, SlotsTake
  <2>2. slot + 1 \in 0 .. SlotMax
    BY <1>1
  <2>3. (slot + 1) * (SlotDuration + Drift) <= SlotMax * (SlotDuration + Drift)
    BY <2>2, SlotsTake
  <2>4. txStart <= slot * (SlotDuration + Drift)
    BY <1>3 DEF InStep, Paced
  <2>5. SlotMax * (SlotDuration + Drift) + r <= TimeMax
    BY DEF WithinBudget, r
  <2>6. SlotMax * (SlotDuration + Drift) \in Int
    OBVIOUS
  <2> QED
    BY <1>1, <1>2, <1>5, <2>1, <2>3, <2>4, <2>5, <2>6 DEF p
<1>7. NextSlot(ref, now) = IF slot < SlotMax THEN slot + 1 ELSE Failed
  <2>1. now < Start + SlotDuration
    BY <1>1, <1>2, <1>3
  <2> QED
    BY <1>1, <1>3, <1>6, <2>1, PlanInStep DEF Start
<1>8. CASE slot < SlotMax
  <2>1. NextSlot(ref, now) = slot + 1 /\ slot + 1 # Failed
    BY <1>1, <1>7, <1>8 DEF Failed
  <2>2. StartTime(ref, slot + 1) = Start + SlotDuration
    BY <1>1, <1>3, <1>6, <1>8, NextStart DEF Start
  <2>3. /\ pc' = "listen" /\ slot' = slot + 1 /\ ref' = ref
        /\ misses' = misses /\ txSlot' = txSlot /\ txStart' = txStart
        /\ \E late \in {0, Late} :
             now' = Start + SlotDuration - Guard + late
    <3>1. /\ pc' = "listen" /\ slot' = NextSlot(ref, now) /\ ref' = ref
          /\ misses' = misses /\ txSlot' = txSlot /\ txStart' = txStart
          /\ \E late \in {0, Late} :
               now' = Greater(now, SwitchTime(ref, NextSlot(ref, now))) + late
      BY <2>1 DEF Plan
    <3>2. SwitchTime(ref, NextSlot(ref, now)) = Start + SlotDuration - Guard
      BY <1>1, <1>2, <2>1, <2>2 DEF SwitchTime
    <3>3. Greater(now, Start + SlotDuration - Guard) = Start + SlotDuration - Guard
      BY <1>1, <1>2, <1>3 DEF Greater
    <3> QED
      BY <2>1, <3>1, <3>2, <3>3
  <2>4. Start' = Start + SlotDuration
    BY <2>2, <2>3 DEF Start
  <2>6. 0 <= Start' /\ Start' - Guard <= now' /\ now' <= Start' - Guard + Late
    BY <1>2, <1>3, <2>3, <2>4
  <2>7. Start' - SlotDuration - txStart' = p
    BY <1>1, <1>2, <2>3, <2>4 DEF p
  <2>8. slot' = txSlot' + 1 /\ Held(delay, swing, misses', Start' - SlotDuration - txStart')
    BY <1>3, <2>3, <2>7
  <2>9. Listening(delay, swing)'
    BY <2>6, <2>8 DEF Listening
  <2> QED
    BY <2>3, <2>9 DEF Planning
<1>9. CASE slot = SlotMax
  BY <1>7, <1>9 DEF Plan, Planning, Listening
<1> QED
  BY <1>1, <1>8, <1>9

\* The first SYNC after a search sets a reference in step, late as it may be.
LEMMA AnchorStep ==
  ASSUME NEW delay \in Nat, NEW swing \in Nat, WithinBudget(delay, swing),
         InStep(delay, swing), Anchor
  PROVE  Paced' /\ Planning(delay, swing)' /\ Listening(delay, swing)'
<1> USE ClockAssumption, SchedulerAssumption, ServiceAssumption, WidthAssumption
<1> DEFINE Anchored(t, a) ==
      /\ a <= TimeMax /\ Begins(t)
      /\ ref' = SetReference(txSlot + 1, a - Offset)
      /\ slot' = txSlot + 1 /\ pc' = "plan" /\ now' = a + Airtime /\ misses' = 0
<1>0. PICK t \in NextStarts : \E a \in Arrivals(t) : Anchored(t, a)
  BY DEF Anchor
<1>1. PICK a \in Arrivals(t) : Anchored(t, a)
  BY <1>0
<1>2. txSlot \in 0 .. SlotMax /\ txSlot < SlotMax /\ txSlot' = txSlot + 1 /\ txStart' = t
  BY <1>1 DEF Begins, InStep, TypeOK
<1>3. /\ t \in Nat /\ a \in Nat
      /\ t <= (txSlot + 1) * (SlotDuration + Drift)
      /\ t + Offset <= a /\ a <= t + Offset + delay
  BY <1>2, SlotBegins
<1>4. Start' = a - Offset
  <2>1. txSlot + 1 \in 0 .. SlotMax /\ a - Offset \in 0 .. TimeMax
    BY <1>1, <1>2, <1>3
  <2> QED
    BY <1>1, <2>1, ReferenceStart DEF Start
<1>5. Held(delay, swing, 0, Start' - txStart')
  BY <1>2, <1>3, <1>4 DEF Held
<1>6. Reach(delay, swing) \in Nat /\ Offset + Airtime + Reach(delay, swing) + Guard < SlotDuration
  <2>1. Strays \in Nat
    BY DriftGrows
  <2> QED
    BY <2>1 DEF Reach, WithinBudget
<1>7. 0 <= Start' /\ Start' <= now' /\ now' < Start' + SlotDuration - Guard
  BY <1>1, <1>3, <1>4, <1>6
<1> QED
  BY <1>1, <1>2, <1>3, <1>5, <1>7 DEF Paced, Planning, Listening

\* A packet whose CRC is wrong ends a slot like one that is missed.
LEMMA GarbledStep ==
  ASSUME NEW delay \in Nat, NEW swing \in Nat, WithinBudget(delay, swing),
         InStep(delay, swing), Garbled
  PROVE  Paced' /\ Planning(delay, swing)' /\ Listening(delay, swing)'
<1> USE ClockAssumption, SchedulerAssumption, ServiceAssumption
<1> DEFINE Lost(t, a) ==
      pc = "listen" /\ slot = txSlot + 1 /\ Begins(t) /\ Miss(a + Airtime)
<1>0. PICK t \in NextStarts : \E a \in Arrivals(t) : Lost(t, a)
  BY DEF Garbled, Heard
<1>1. PICK a \in Arrivals(t) : Lost(t, a)
  BY <1>0
<1>2. txSlot < SlotMax /\ txSlot' = txSlot + 1 /\ txStart' = t
  BY <1>1 DEF Begins
<1>3. /\ t \in Nat /\ a \in Nat
      /\ t <= (txSlot + 1) * (SlotDuration + Drift)
      /\ t + Offset <= a /\ a <= t + Offset + delay
      /\ Held(delay, swing, misses + 1, Start - t)
  BY <1>1, <1>2, SlotBegins
<1>4. Start \in Int /\ misses \in Nat /\ misses < RecoveryEntry /\ 0 <= Start
  BY <1>1, SchedulerTypes DEF InStep, TypeOK, Listening, Start
<1> DEFINE r == Reach(delay, swing)
           p == Start - t
<1>5. r \in Nat /\ delay - r <= p /\ p <= r
  <2>1. p \in Int /\ Held(delay, swing, misses + 1, p)
    BY <1>3, <1>4
  <2> HIDE DEF p
  <2> QED
    BY <1>4, <2>1, HeldWithinReach
<1>6. r <= Offset + Airtime /\ Offset + Airtime + r + Guard < SlotDuration
  BY DEF WithinBudget
<1> HIDE DEF r
<1>7. a + Airtime \in Nat /\ Start <= a + Airtime
      /\ a + Airtime < Start + SlotDuration - Guard
  BY <1>3, <1>4, <1>5, <1>6
<1> QED
  BY <1>1, <1>2, <1>3, <1>4, <1>7, MissInStep DEF InStep, Paced

\* The window closes only after the transmitter has begun the slot.
LEMMA TimedOutStep ==
  ASSUME NEW delay \in Nat, NEW swing \in Nat, WithinBudget(delay, swing),
         InStep(delay, swing), TimedOut
  PROVE  Paced' /\ Planning(delay, swing)' /\ Listening(delay, swing)'
<1> USE ClockAssumption, SchedulerAssumption, ServiceAssumption
<1>1. /\ slot \in 0 .. SlotMax /\ txSlot \in 0 .. SlotMax /\ now \in Nat
      /\ misses \in Nat /\ misses < RecoveryEntry /\ Start \in Int
  BY SchedulerTypes DEF InStep, TypeOK, Start
<1>2. /\ 0 <= Start /\ Start - Guard <= now /\ now <= Start - Guard + Late
      /\ \/ slot = txSlot /\ Held(delay, swing, misses + 1, Start - txStart)
         \/ slot = txSlot + 1
  BY DEF InStep, Listening, TimedOut
<1>3. slot # txSlot + 1
  <2> SUFFICES ASSUME slot = txSlot + 1 PROVE FALSE
    OBVIOUS
  <2>1. txSlot < SlotMax
    BY <1>1, WidthAssumption
  <2>2. PICK t \in NextStarts : \E a \in Arrivals(t) : a > now + Window
    BY <2>1 DEF TimedOut
  <2>3. PICK a \in Arrivals(t) : a > now + Window
    BY <2>2
  <2>4. a \in Nat /\ a <= now + Window
    BY <2>1, <2>3, SlotBegins DEF TimedOut
  <2> QED
    BY <1>1, <2>3, <2>4
<1>4. Reach(delay, swing) \in Nat
  BY <1>1, HeldWithinReach
<1>5. now + Window \in Nat /\ Start <= now + Window
      /\ now + Window < Start + SlotDuration - Guard
  BY <1>1, <1>2, <1>4 DEF WithinBudget
<1>6. txSlot' = txSlot /\ txStart' = txStart /\ Miss(now + Window)
  BY DEF TimedOut
<1> QED
  BY <1>2, <1>3, <1>5, <1>6, MissInStep DEF InStep, Paced

\* What goes by without the receiver taking notice.
LEMMA UnheardStep ==
  ASSUME NEW delay \in Nat, NEW swing \in Nat, WithinBudget(delay, swing),
         InStep(delay, swing), GoesBy \/ Drowned
  PROVE  Paced' /\ Planning(delay, swing)' /\ Listening(delay, swing)'
<1> DEFINE Unheard(t, a) ==
      /\ pc # "plan" /\ Begins(t)
      /\ pc = "listen" =>
           a <= now + Window /\ (slot # txSlot + 1 \/ a < now \/ now <= a)
      /\ UNCHANGED << ref, pc, slot, now, misses >>
<1>0. PICK t \in NextStarts : \E a \in Arrivals(t) : Unheard(t, a)
  BY DEF GoesBy, Drowned, Heard
<1>1. PICK a \in Arrivals(t) : Unheard(t, a)
  BY <1>0
<1>2. txSlot < SlotMax /\ txSlot' = txSlot + 1 /\ txStart' = t /\ Start' = Start
  BY <1>1 DEF Begins, Start
<1>3. /\ t <= (txSlot + 1) * (SlotDuration + Drift) /\ a \in Nat
      /\ pc = "listen" =>
           /\ slot = txSlot => a > now + Window
           /\ slot = txSlot + 1 => Held(delay, swing, misses + 1, Start - t)
  BY <1>2, SlotBegins
<1>4. CASE pc = "listen"
  <2>1. slot = txSlot + 1
    BY <1>1, <1>3, <1>4, ServiceAssumption DEF InStep, Listening, TypeOK
  <2> QED
    BY <1>1, <1>2, <1>3, <1>4, <2>1 DEF InStep, Paced, Planning, Listening
<1>5. CASE pc # "listen"
  BY <1>1, <1>2, <1>3, <1>5 DEF Paced, Planning, Listening
<1> QED
  BY <1>4, <1>5

\* Every step keeps the receiver in step.
LEMMA InStepStep ==
  ASSUME NEW delay \in Nat, NEW swing \in Nat, WithinBudget(delay, swing),
         InStep(delay, swing), [Next]_vars
  PROVE  InStep(delay, swing)'
<1>1. TypeOK'
  BY TypeStep DEF InStep
<1>2. CASE Plan
  BY <1>1, <1>2, PlanStep DEF InStep, Paced, Plan
<1>3. CASE UNCHANGED vars
  BY <1>1, <1>3 DEF vars, InStep, Paced, Planning, Listening, Start
<1> QED
  BY <1>1, <1>2, <1>3, AnchorStep, HearInStep, GarbledStep, TimedOutStep, UnheardStep
     DEF Next, InStep

\* Nothing is planned before the first reference.
LEMMA InitInStep ==
  ASSUME NEW delay \in Nat, NEW swing \in Nat, Init
  PROVE  InStep(delay, swing)
<1>1. TypeOK
  BY ServiceAssumption, WidthAssumption DEF Init, TypeOK, NoReference
<1>2. 0 * (SlotDuration + Drift) = 0
  BY SchedulerAssumption, ClockAssumption
<1> QED
  BY <1>1, <1>2 DEF Init, InStep, Paced, Planning, Listening

\* A receiver in step has its channel open for every SYNC.
LEMMA OpenForEverySync ==
  ASSUME NEW delay \in Nat, NEW swing \in Nat, WithinBudget(delay, swing),
         InStep(delay, swing), [Next]_vars, pc = "listen", txSlot' # txSlot
  PROVE  slot = txSlot' /\ now <= txStart' + Offset
<1> DEFINE Begun(t, a) ==
      Begins(t) /\ a <= now + Window
<1>1. \E t \in NextStarts : \E a \in Arrivals(t) : Begun(t, a)
  BY DEF Next, Anchor, GoesBy, Plan, Hear, Garbled, Drowned, TimedOut, Heard, vars
<1>2. PICK t \in NextStarts : \E a \in Arrivals(t) : Begun(t, a)
  BY <1>1
<1>3. PICK a \in Arrivals(t) : Begun(t, a)
  BY <1>2
<1>4. txSlot < SlotMax /\ txSlot' = txSlot + 1 /\ txStart' = t
  BY <1>3 DEF Begins
<1>5. /\ a \in Nat
      /\ slot = txSlot => a > now + Window
      /\ slot = txSlot + 1 => now <= t + Offset
  BY <1>4, SlotBegins
<1>6. slot = txSlot \/ slot = txSlot + 1
  BY DEF InStep, Listening
<1> QED
  BY <1>3, <1>4, <1>5, <1>6, ServiceAssumption DEF InStep, TypeOK

\* Within the timing budget a receiver that follows its peer is never deaf to
\* it: whatever is missed, corrected and drifted away, the channel of the slot
\* is open when its SYNC comes, for as long as the slot counter counts
\* (get_next_switch_time, calculate_phase_correction, rx_task).
THEOREM NeverDeafSafety ==
  ASSUME TimingBudget
  PROVE  Spec => NeverDeaf
<1>1. PICK delay, swing \in 0 .. Guard : WithinBudget(delay, swing)
  BY DEF TimingBudget
<1>2. delay \in Nat /\ swing \in Nat
  BY SchedulerAssumption
<1>3. Init => InStep(delay, swing)
  BY <1>2, InitInStep
<1>4. InStep(delay, swing) /\ [Next]_vars => InStep(delay, swing)'
  BY <1>1, <1>2, InStepStep
<1>5. InStep(delay, swing) /\ [Next]_vars =>
        [pc = "listen" /\ txSlot' # txSlot
           => slot = txSlot' /\ now <= txStart' + Offset]_vars
  BY <1>1, <1>2, OpenForEverySync
<1> QED
  BY <1>3, <1>4, <1>5, PTL DEF Spec, NeverDeaf

\* Within the timing budget the next switch can always be planned, as long as
\* there is a next slot: following ends by misses alone, and the slot counter
\* overflows long before the clock does (get_next_switch_time).
THEOREM PlanSafety ==
  ASSUME TimingBudget
  PROVE  Spec => OnlyMissesEndIt
<1>1. PICK delay, swing \in 0 .. Guard : WithinBudget(delay, swing)
  BY DEF TimingBudget
<1>2. delay \in Nat /\ swing \in Nat
  BY SchedulerAssumption
<1>3. Init => InStep(delay, swing)
  BY <1>2, InitInStep
<1>4. InStep(delay, swing) /\ [Next]_vars => InStep(delay, swing)'
  BY <1>1, <1>2, InStepStep
<1>5. InStep(delay, swing) /\ [Next]_vars =>
        [Plan => pc' = "listen" \/ slot = SlotMax]_vars
  BY <1>1, <1>2, PlanStep
<1> QED
  BY <1>3, <1>4, <1>5, PTL DEF Spec, OnlyMissesEndIt
=============================================================================
