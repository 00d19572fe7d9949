------------------------------ MODULE SlotClock ------------------------------
(***************************************************************************)
(* How a receiver keeps hopping with its peer: the slot scheduler          *)
(* (fhss_slot_scheduler.c), the timing window and the phase correction     *)
(* (fhss_timing_window.c, fhss_sync_controller.c) driven by the receive    *)
(* loop of fhss_service.c, against a transmitter whose clock drifts and    *)
(* whose SYNC reaches the receiver with a jitter.                          *)
(*                                                                         *)
(* FhssReceiver.tla takes the outcome of this arithmetic as a choice; here *)
(* it is computed, and the radio states are reduced to whether a reference *)
(* is being sought or followed.  Times count one unit of the receiver's    *)
(* clock; in the code it is a microsecond.                                 *)
(***************************************************************************)
EXTENDS Integers

CONSTANTS
  SlotDuration,     \* slot_duration_us
  Guard,            \* channel_switch_guard_us
  Offset,           \* sync_offset_us
  Margin,           \* timing_window_margin_us, both ways
  Deadband, Fast,   \* correction_deadband_us, correction_fast_threshold_us
  SlowDivisor, FastDivisor,  \* correction_slow_divisor, correction_fast_divisor
  MaxStep,          \* correction_max_step_us
  Window,           \* receive_timeout_ms
  RecoveryEntry,    \* recovery_entry_miss_count
  SlotMax, TimeMax, \* UINT32_MAX and INT64_MAX; a behaviour ends at SlotMax
  Drift,            \* the clocks drift apart by at most this in a slot
  Delays,           \* a SYNC is sent late by one of these
  Airtime,          \* from the timestamp to the end of its processing
  Late              \* the channel is switched late by at most this

\* What fhss_slot_scheduler_init, fhss_sync_controller_init and
\* fhss_service_init accept.
ASSUME SchedulerAssumption ==
  SlotDuration \in Nat \ {0} /\ Guard \in Nat /\ Guard < SlotDuration
ASSUME CorrectionAssumption ==
  /\ Deadband \in Nat /\ Fast \in Nat /\ Deadband <= Fast
  /\ SlowDivisor \in Nat \ {0} /\ FastDivisor \in Nat \ {0}
  /\ MaxStep \in Nat \ {0}
ASSUME ServiceAssumption ==
  /\ Offset \in Nat /\ Margin \in Nat /\ Window \in Nat \ {0}
  /\ RecoveryEntry \in Nat \ {0}
ASSUME WidthAssumption ==
  /\ SlotMax \in Nat \ {0} /\ TimeMax \in Nat /\ SlotDuration <= TimeMax
ASSUME ClockAssumption ==
  /\ Drift \in Nat /\ Drift < SlotDuration
  /\ Delays \subseteq Nat /\ Airtime \in Nat /\ Late \in Nat

VARIABLES
  ref,        \* the scheduler's reference: slot, time, synchronized
  pc,         \* the receive loop: seeking a SYNC, planning, listening
  slot,       \* the slot listened for, or heard last
  now,        \* esp_timer_get_time()
  misses,     \* consecutive_sync_misses
  error,      \* timing_error_us of the SYNC heard last
  left,       \* history: what its correction has left of that error
  txSlot, txStart   \* the slot the transmitter has begun last, and when

vars == << ref, pc, slot, now, misses, error, left, txSlot, txStart >>

NoReference == [slot |-> 0, time |-> 0, synchronized |-> FALSE]
Failed == -1      \* a status other than OK

TypeOK ==
  /\ ref \in [slot : 0 .. SlotMax, time : 0 .. TimeMax, synchronized : BOOLEAN]
  /\ pc \in { "search", "plan", "listen" }
  /\ slot \in 0 .. SlotMax /\ now \in Nat /\ misses \in 0 .. RecoveryEntry - 1
  /\ error \in Int /\ left \in Int
  /\ txSlot \in 0 .. SlotMax /\ txStart \in Nat

----------------------------------------------------------------------------
(* The scheduler. *)

\* fhss_slot_scheduler_get_slot
GetSlot(r, t) ==
  IF r.synchronized /\ t >= r.time
       /\ (t - r.time) \div SlotDuration <= SlotMax - r.slot
  THEN r.slot + (t - r.time) \div SlotDuration
  ELSE Failed

\* fhss_slot_scheduler_get_slot_start_time
StartTime(r, s) ==
  IF r.synchronized /\ s >= r.slot
       /\ (s - r.slot) * SlotDuration <= TimeMax - r.time
  THEN r.time + (s - r.slot) * SlotDuration
  ELSE Failed

\* Faulty: the slot counter wraps unnoticed.
NextSlotUnbounded(r, t) == GetSlot(r, t) + 1

\* fhss_slot_scheduler_get_next_switch_time: the slot
NextSlot(r, t) ==
  LET current == GetSlot(r, t)
  IN  IF current # Failed /\ current < SlotMax /\ StartTime(r, current + 1) # Failed
      THEN current + 1
      ELSE Failed

\* Faulty: the channel is switched when the slot begins.
SwitchAtStart(r, s) == StartTime(r, s)

\* fhss_slot_scheduler_get_next_switch_time: its switch time
SwitchTime(r, s) == StartTime(r, s) - Guard

\* fhss_slot_scheduler_set_reference
SetReference(s, t) == [slot |-> s, time |-> t, synchronized |-> TRUE]

----------------------------------------------------------------------------
(* The correction. *)

Magnitude(e) == IF e < 0 THEN -e ELSE e
Lesser(a, b) == IF a < b THEN a ELSE b
Greater(a, b) == IF a < b THEN b ELSE a

\* The two gains of calculate_phase_correction, before the limits.
Steps(m) ==
  (Lesser(m, Fast) - Deadband) \div SlowDivisor
    + (IF m > Fast THEN (m - Fast) \div FastDivisor ELSE 0)

\* Faulty: the sign of the error is lost.
UnsignedCorrection(e) ==
  LET m == Magnitude(e)
  IN  IF m <= Deadband THEN 0 ELSE Lesser(Steps(m), MaxStep)

\* calculate_phase_correction
Correction(e) ==
  LET m    == Magnitude(e)
      size == IF m <= Deadband THEN 0
              ELSE IF Steps(m) = 0 THEN 1
              ELSE Lesser(Steps(m), MaxStep)
  IN  IF e < 0 THEN -size ELSE size

\* fhss_timing_window_evaluate
Inside(e) == -Margin <= e /\ e <= Margin

\* Faulty: the slot to come is made the reference.
ReferenceAhead(r, s, e) ==
  SetReference(s + 1, StartTime(r, s) + SlotDuration + Correction(e))

\* fhss_sync_controller_process_rx, for a SYNC inside the window.
Corrected(r, s, e) ==
  LET start == StartTime(r, s) + Correction(e)
  IN  IF Correction(e) = 0 \/ start \notin 0 .. TimeMax THEN r
      ELSE SetReference(s, start)

----------------------------------------------------------------------------
(* The transmitter: tx_task begins its slots one after the other, by a     *)
(* clock that drifts, and sends the SYNC after some delay of its task.     *)

NextStarts == { txStart + SlotDuration + d : d \in {-Drift, 0, Drift} }

Begins(t) ==
  /\ txSlot < SlotMax /\ t \in NextStarts
  /\ txSlot' = txSlot + 1
  /\ txStart' = t

Arrivals(t) == { t + Offset + j : j \in Delays }

----------------------------------------------------------------------------
(* The receiver. *)

\* A SYNC without a reference, or one of RECOVERY, sets it.
Anchor ==
  \E t \in NextStarts : \E a \in Arrivals(t) :
    /\ pc = "search" /\ now <= a /\ a <= TimeMax
    /\ Begins(t)
    /\ ref' = SetReference(txSlot + 1, a - Offset)
    /\ slot' = txSlot + 1
    /\ pc' = "plan" /\ now' = a + Airtime
    /\ misses' = 0 /\ error' = 0 /\ left' = 0

\* The radio listens elsewhere, or its channel is not open yet.
GoesBy ==
  \E t \in NextStarts : \E a \in Arrivals(t) :
    /\ pc # "plan" /\ Begins(t)
    /\ pc = "listen" => a <= now + Window /\ (slot # txSlot + 1 \/ a < now)
    /\ UNCHANGED << ref, pc, slot, now, misses, error, left >>

\* Data is drained and the task sleeps until the switch to the next slot.
Plan ==
  /\ pc = "plan"
  /\ LET next == NextSlot(ref, now)
     IN  \/ /\ next = Failed
            /\ pc' = "search" /\ ref' = NoReference
            /\ UNCHANGED << slot, now >>
         \/ /\ next # Failed
            /\ pc' = "listen" /\ slot' = next /\ ref' = ref
            /\ \E late \in {0, Late} :
                 now' = Greater(now, SwitchTime(ref, next)) + late
  /\ UNCHANGED << misses, error, left, txSlot, txStart >>

\* handle_miss; while SYNCHRONIZING the first miss already ends it, which is
\* a choice here.  Probing in RECOVERY is a search of its own.
Miss(t) ==
  /\ now' = t
  /\ UNCHANGED << slot, error, left >>
  /\ \/ /\ misses + 1 < RecoveryEntry
        /\ misses' = misses + 1 /\ pc' = "plan" /\ ref' = ref
     \/ /\ misses' = 0 /\ pc' = "search" /\ ref' = NoReference

\* The SYNC of the slot listened for, in time.
Heard(t, a) ==
  /\ pc = "listen" /\ slot = txSlot + 1
  /\ now <= a /\ a <= now + Window
  /\ Begins(t)

Hear ==
  \E t \in NextStarts : \E a \in Arrivals(t) :
    /\ Heard(t, a)
    /\ LET e == a - (StartTime(ref, slot) + Offset)
       IN  /\ error' = e
           /\ ref' = IF Inside(e) THEN Corrected(ref, slot, e) ELSE ref
           /\ left' = IF Inside(e) THEN e - Correction(e) ELSE e
    /\ pc' = "plan" /\ now' = a + Airtime /\ misses' = 0
    /\ UNCHANGED slot

\* The CRC is wrong.
Garbled ==
  \E t \in NextStarts : \E a \in Arrivals(t) : Heard(t, a) /\ Miss(a + Airtime)

\* The sync word is not recognized: the receiver goes on listening.
Drowned ==
  \E t \in NextStarts : \E a \in Arrivals(t) :
    /\ Heard(t, a)
    /\ UNCHANGED << ref, pc, slot, now, misses, error, left >>

\* The next SYNC comes after the window has closed, or never.
TimedOut ==
  /\ pc = "listen"
  /\ txSlot < SlotMax => \E t \in NextStarts : \E a \in Arrivals(t) : a > now + Window
  /\ Miss(now + Window)
  /\ UNCHANGED << txSlot, txStart >>

Init ==
  /\ ref = NoReference /\ pc = "search" /\ slot = 0 /\ now = 0
  /\ misses = 0 /\ error = 0 /\ left = 0
  /\ txSlot = 0 /\ txStart = 0

Next == Anchor \/ GoesBy \/ Plan \/ Hear \/ Garbled \/ Drowned \/ TimedOut

Spec == Init /\ [][Next]_vars

----------------------------------------------------------------------------
(* The timing budget.  A SYNC that is heard comes late by at most `delay`, *)
(* and the reference is allowed to swing by `swing` around where that puts *)
(* it.  Between two SYNCs heard the clocks drift apart for RecoveryEntry   *)
(* slots at most; an error beyond the swing is corrected by at least that. *)

Strays == RecoveryEntry * Drift

\* The farthest the reference gets from the transmitter's slot.
Reach(delay, swing) == delay + swing + Strays

WithinBudget(delay, swing) ==
  /\ Delays \subseteq 0 .. delay
  /\ \A m \in swing + 1 .. Reach(delay, swing) : Correction(m) >= Strays
  /\ Reach(delay, swing) + Late <= Guard
  /\ Reach(delay, swing) <= Margin
  /\ Reach(delay, swing) <= Offset + Airtime
  /\ Offset + Reach(delay, swing) + Guard <= Window
  /\ Offset + Airtime + Reach(delay, swing) + Guard < SlotDuration
  /\ Window + Late + Drift < SlotDuration
  /\ SlotMax * (SlotDuration + Drift) + Reach(delay, swing) <= TimeMax

TimingBudget == \E delay, swing \in 0 .. Guard : WithinBudget(delay, swing)

----------------------------------------------------------------------------
(* Properties *)

\* A correction never turns an error into one of the other sign or a larger
\* one: calculate_phase_correction cannot make the scheduler oscillate, as its
\* comment at the piecewise gain claims.
NoOvershoot ==
  IF error < 0 THEN error <= left /\ left <= 0
  ELSE 0 <= left /\ left <= error

\* However the clocks drift within their budget and whatever is missed, a
\* following receiver has its channel open when the SYNC of its transmitter
\* arrives: it misses by noise only (the switch guard of rx_task).
NeverDeaf ==
  [][ pc = "listen" /\ txSlot' # txSlot
      => slot = txSlot' /\ now <= txStart' + Offset ]_vars

\* Following ends with misses, never with the plan: a SYNC that is heard
\* leaves a reference that the clock has passed (get_next_switch_time fails
\* before the reference, and rx_task then gives up synchronization).
OnlyMissesEndIt == [][ Plan => pc' = "listen" \/ slot = SlotMax ]_vars
=============================================================================
