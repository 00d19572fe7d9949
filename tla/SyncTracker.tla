---------------------------- MODULE SyncTracker ----------------------------
(***************************************************************************)
(* The hysteresis counter of components/fhss_core/fhss_sync_state.c.  A    *)
(* tracker is LOCKED after AcquireCount consecutive valid SYNCs and falls  *)
(* back to SEARCHING after LossCount consecutive misses.  The operators    *)
(* are pure; FhssReceiver keeps a tracker as a variable.                   *)
(***************************************************************************)
EXTENDS Naturals

CONSTANTS
  AcquireCount,   \* config.sync.acquire_count (3 in the product)
  LossCount       \* config.sync.loss_count    (5 in the product)

\* fhss_sync_state_init() refuses a zero threshold.
ASSUME ThresholdAssumption ==
  /\ AcquireCount \in Nat \ {0}
  /\ LossCount \in Nat \ {0}

\* fhss_sync_state_tracker_t.  Both counters are reset when they reach their
\* threshold, so neither is ever seen at it.
Tracker == [ state  : {"SEARCHING", "LOCKED"},
             valid  : 0 .. AcquireCount - 1,
             misses : 0 .. LossCount - 1 ]

InitTracker == [ state |-> "SEARCHING", valid |-> 0, misses |-> 0 ]

\* The next valid SYNC, respectively the next miss, changes the state.
Acquires(t) == t.state = "SEARCHING" /\ t.valid + 1 >= AcquireCount
Loses(t)    == t.state = "LOCKED" /\ t.misses + 1 >= LossCount

\* Faulty: a valid SYNC does not pay back the misses before it.
OnValidKeepsMisses(t) ==
  CASE Acquires(t)           -> [ state |-> "LOCKED", valid |-> 0, misses |-> 0 ]
    [] t.state = "LOCKED"    -> t
    [] OTHER                 -> [ t EXCEPT !.misses = 0, !.valid = @ + 1 ]

\* fhss_sync_state_on_valid()
OnValid(t) ==
  CASE Acquires(t)           -> [ state |-> "LOCKED", valid |-> 0, misses |-> 0 ]
    [] t.state = "LOCKED"    -> [ t EXCEPT !.misses = 0 ]
    [] OTHER                 -> [ t EXCEPT !.misses = 0, !.valid = @ + 1 ]

ValidEvent(t) == IF Acquires(t) THEN "ACQUIRED" ELSE "NONE"

\* fhss_sync_state_on_miss()
OnMiss(t) ==
  IF Loses(t)
  THEN InitTracker
  ELSE [ t EXCEPT !.valid = 0, !.misses = IF t.state = "LOCKED" THEN @ + 1 ELSE @ ]

MissEvent(t) == IF Loses(t) THEN "LOST" ELSE "NONE"
=============================================================================
