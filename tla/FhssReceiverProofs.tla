------------------------- MODULE FhssReceiverProofs -------------------------
(***************************************************************************)
(* Invariance proofs for FhssReceiver, for every acquire_count, loss_count *)
(* and recovery_entry_miss_count that fhss_service_init() accepts.         *)
(*                                                                         *)
(* Inv is the inductive invariant.  The four safety invariants of the      *)
(* receiver depend on each other (MissBudget needs the lock of             *)
(* TrackingIsLocked to know that the tracker counts the miss too), so they *)
(* are proved together; CountsMatchTracker ties the tracker's counters to  *)
(* what was heard and carries the two action properties.                   *)
(***************************************************************************)
EXTENDS FhssReceiver, Integers, TLAPS

-----------------------------------------------------------------------------
(* The operators the handlers are built from.                              *)

\* FIRST_SYNC and SYNC_ACQUIRED each leave exactly one state (fhss_fsm_handle).
LEMMA AcquisitionEvents ==
  /\ FsmHandle("SEARCHING", "FIRST_SYNC") = "SYNCHRONIZING"
  /\ FsmHandle("SYNCHRONIZING", "SYNC_ACQUIRED") = "TRACKING"
  /\ \A s \in FsmStates \ { "SEARCHING" } : FsmHandle(s, "FIRST_SYNC") = s
  /\ \A s \in FsmStates \ { "SYNCHRONIZING" } : FsmHandle(s, "SYNC_ACQUIRED") = s
  BY DEF FsmHandle, FsmStates

\* SYNC_LOST returns every state that follows a peer to SEARCHING, and no other.
LEMMA LossEvent ==
  /\ \A s \in Following : FsmHandle(s, "SYNC_LOST") = "SEARCHING"
  /\ \A s \in FsmStates \ Following : FsmHandle(s, "SYNC_LOST") = s
  BY DEF FsmHandle, FsmStates, Following

\* SYNC_DEGRADED enters RECOVERY and SYNC_RECOVERED leaves it again.
LEMMA RecoveryEvents ==
  /\ FsmHandle("RECOVERY", "SYNC_RECOVERED") = "TRACKING"
  /\ FsmHandle("TRACKING", "SYNC_DEGRADED") = "RECOVERY"
  /\ \A s \in FsmStates \ { "RECOVERY" } : FsmHandle(s, "SYNC_RECOVERED") = s
  BY DEF FsmHandle, FsmStates

\* START_RX starts a stopped receiver in SEARCHING.
LEMMA StartEvent == FsmHandle("STOPPED", "START_RX") = "SEARCHING"
  BY DEF FsmHandle

\* What fhss_sync_state_on_valid() leaves behind: both counters stay below their
\* thresholds, the misses are forgiven, and only reaching the threshold locks.
LEMMA OnValidStep ==
  ASSUME NEW t \in Tracker
  PROVE  /\ OnValid(t) \in Tracker
         /\ OnValid(t).misses = 0
         /\ OnValid(t).state = "LOCKED" <=> t.state = "LOCKED" \/ Acquires(t)
         /\ OnValid(t).state = "SEARCHING" => OnValid(t).valid = t.valid + 1
<1>1. /\ t.state \in { "SEARCHING", "LOCKED" }
      /\ t.valid \in 0 .. AcquireCount - 1
      /\ t.misses \in 0 .. LossCount - 1
      /\ t = [ state |-> t.state, valid |-> t.valid, misses |-> t.misses ]
  BY DEF Tracker
<1>2. AcquireCount \in Nat \ {0} /\ LossCount \in Nat \ {0}
  BY ThresholdAssumption
<1>3. CASE Acquires(t)
  BY <1>1, <1>2, <1>3 DEF OnValid, Acquires, Tracker
<1>4. CASE t.state = "LOCKED"
  <2>1. OnValid(t) = [ state |-> "LOCKED", valid |-> t.valid, misses |-> 0 ]
    BY <1>1, <1>4 DEF OnValid, Acquires
  <2> QED BY <1>1, <1>2, <1>4, <2>1 DEF Acquires, Tracker
<1>5. CASE t.state = "SEARCHING" /\ ~Acquires(t)
  <2>1. OnValid(t) = [ state |-> "SEARCHING", valid |-> t.valid + 1, misses |-> 0 ]
    BY <1>1, <1>5 DEF OnValid, Acquires
  <2>2. t.valid + 1 \in 0 .. AcquireCount - 1
    BY <1>1, <1>2, <1>5 DEF Acquires
  <2> QED BY <1>1, <1>2, <1>5, <2>1, <2>2 DEF Acquires, Tracker
<1> QED BY <1>1, <1>3, <1>4, <1>5

\* What fhss_sync_state_on_miss() leaves behind: the run of valid SYNCs is broken,
\* and the lock is kept exactly until the loss threshold.
LEMMA OnMissStep ==
  ASSUME NEW t \in Tracker
  PROVE  /\ OnMiss(t) \in Tracker
         /\ OnMiss(t).valid = 0
         /\ OnMiss(t).state = "LOCKED" <=> t.state = "LOCKED" /\ ~Loses(t)
         /\ OnMiss(t).state = "LOCKED" => OnMiss(t).misses = t.misses + 1
<1>1. /\ t.state \in { "SEARCHING", "LOCKED" }
      /\ t.valid \in 0 .. AcquireCount - 1
      /\ t.misses \in 0 .. LossCount - 1
      /\ t = [ state |-> t.state, valid |-> t.valid, misses |-> t.misses ]
  BY DEF Tracker
<1>2. AcquireCount \in Nat \ {0} /\ LossCount \in Nat \ {0}
  BY ThresholdAssumption
<1>3. CASE Loses(t)
  <2>1. OnMiss(t) = [ state |-> "SEARCHING", valid |-> 0, misses |-> 0 ]
    BY <1>3 DEF OnMiss, InitTracker
  <2>2. 0 \in 0 .. AcquireCount - 1 /\ 0 \in 0 .. LossCount - 1
    BY <1>2
  <2> QED BY <1>3, <2>1, <2>2 DEF Loses, Tracker
<1>4. CASE t.state = "LOCKED" /\ ~Loses(t)
  <2>1. OnMiss(t) = [ state |-> "LOCKED", valid |-> 0, misses |-> t.misses + 1 ]
    BY <1>1, <1>4 DEF OnMiss, Loses
  <2>2. t.misses + 1 \in 0 .. LossCount - 1
    BY <1>1, <1>2, <1>4 DEF Loses
  <2> QED BY <1>1, <1>2, <1>4, <2>1, <2>2 DEF Tracker
<1>5. CASE t.state = "SEARCHING"
  <2>1. OnMiss(t) = [ state |-> "SEARCHING", valid |-> 0, misses |-> t.misses ]
    BY <1>1, <1>5 DEF OnMiss, Loses
  <2> QED BY <1>1, <1>2, <1>5, <2>1 DEF Loses, Tracker
<1> QED BY <1>1, <1>3, <1>4, <1>5

\* fhss_sync_state_reset() leaves a well-formed tracker.
LEMMA InitTrackerType == InitTracker \in Tracker
<1>1. 0 \in 0 .. AcquireCount - 1 /\ 0 \in 0 .. LossCount - 1
  BY ThresholdAssumption
<1> QED BY <1>1 DEF InitTracker, Tracker

-----------------------------------------------------------------------------

\* The type of what the packet handlers write.
SyncType ==
  /\ fsm \in FsmStates
  /\ tracker \in Tracker
  /\ anchor \in { "none", "past", "ahead" }
  /\ syncMisses \in Nat
  /\ told \in { "nothing", "ACQUIRED", "LOST" }
  /\ run \in 0 .. AcquireCount
  /\ missed \in 0 .. LossCount

\* The counters of the tracker, in terms of what was heard.
CountsMatchTracker ==
  /\ tracker.state = "SEARCHING" => run = tracker.valid
  /\ tracker.state = "LOCKED" => missed = tracker.misses

LockInv ==
  /\ SyncType
  /\ FollowingIsAnchored
  /\ TrackingIsLocked
  /\ MissBudget
  /\ ToldMatchesLock
  /\ CountsMatchTracker

\* A capped counter stays within its cap, and is exact below it.
LEMMA AtMostType ==
  ASSUME NEW n \in Nat, NEW b \in Nat
  PROVE  AtMost(n, b) \in 0 .. b /\ (n <= b => AtMost(n, b) = n)
  BY DEF AtMost

\* handle_sync_result() for a SYNC inside the window, in any state.
LEMMA InsideSteps ==
  ASSUME NEW timing, LockInv, HearSync(timing), InsideWindow(timing)
  PROVE  LockInv'
<1> DEFINE event == ValidEvent(tracker)
<1>1. /\ tracker' = OnValid(tracker)
      /\ fsm' = FsmAfterSync(TRUE, event)
      /\ anchor' = AnchorAfter(timing, event)
      /\ syncMisses' = 0
      /\ told' = IF event = "NONE" THEN told ELSE event
      /\ run' = AtMost(run + 1, AcquireCount)
      /\ missed' = 0
  BY DEF HearSync
<1>2. /\ event = IF Acquires(tracker) THEN "ACQUIRED" ELSE "NONE"
      /\ Acquires(tracker) => tracker.state = "SEARCHING"
  BY DEF ValidEvent, Acquires
<1>3. anchor' \in { "past", "ahead" }
  BY <1>1, <1>2 DEF AnchorAfter, LockInv, SyncType
<1>4. /\ fsm' \in FsmStates
      /\ fsm = "STOPPED" <=> fsm' = "STOPPED"
      /\ fsm' # "STOPPED" => fsm' \in { "SYNCHRONIZING", "TRACKING" }
      /\ fsm' = "TRACKING" => event = "ACQUIRED" \/ fsm \in { "TRACKING", "RECOVERY" }
  <2>1. fsm \in FsmStates /\ event \in { "NONE", "ACQUIRED" }
    BY <1>2 DEF LockInv, SyncType
  <2> DEFINE recovered == FsmHandle(fsm, "SYNC_RECOVERED")
             first     == FsmHandle(recovered, "FIRST_SYNC")
  <2>2. /\ recovered \in FsmStates \ { "RECOVERY" }
        /\ recovered = IF fsm = "RECOVERY" THEN "TRACKING" ELSE fsm
    BY <2>1, RecoveryEvents DEF FsmStates
  <2>3. /\ first \in { "STOPPED", "SYNCHRONIZING", "TRACKING" }
        /\ first = IF recovered = "SEARCHING" THEN "SYNCHRONIZING" ELSE recovered
    BY <2>2, AcquisitionEvents DEF FsmStates
  <2>4. fsm' = IF event = "ACQUIRED" THEN FsmHandle(first, "SYNC_ACQUIRED") ELSE first
    BY <1>1, <2>1 DEF FsmAfterSync
  <2>5. fsm' = IF event = "ACQUIRED" /\ first = "SYNCHRONIZING" THEN "TRACKING" ELSE first
    BY <2>3, <2>4, AcquisitionEvents DEF FsmStates
  <2> HIDE DEF event, recovered, first
  <2> QED BY <2>1, <2>2, <2>3, <2>5 DEF FsmStates
<1>5. /\ tracker' \in Tracker
      /\ tracker'.misses = 0
      /\ tracker'.state = "LOCKED" <=> tracker.state = "LOCKED" \/ Acquires(tracker)
      /\ tracker'.state = "SEARCHING" => tracker'.valid = tracker.valid + 1
  BY <1>1, OnValidStep DEF LockInv, SyncType
<1>6. SyncType'
  <2>1. run' \in 0 .. AcquireCount
    <3>1. run + 1 \in Nat /\ AcquireCount \in Nat
      BY ThresholdAssumption DEF LockInv, SyncType
    <3>2. AtMost(run + 1, AcquireCount) \in 0 .. AcquireCount
      BY <3>1, AtMostType
    <3> QED BY <1>1, <3>2
  <2>2. told' \in { "nothing", "ACQUIRED", "LOST" }
    BY <1>1, <1>2 DEF LockInv, SyncType
  <2>3. syncMisses' \in Nat /\ missed' \in 0 .. LossCount
    BY <1>1, ThresholdAssumption
  <2> QED BY <1>3, <1>4, <1>5, <2>1, <2>2, <2>3 DEF SyncType
<1>7. FollowingIsAnchored'
  BY <1>3, <1>4 DEF FollowingIsAnchored, Following
<1>8. TrackingIsLocked'
  BY <1>2, <1>4, <1>5 DEF TrackingIsLocked, LockInv
<1>9. MissBudget'
  <2>1. syncMisses' = 0 /\ tracker'.misses = 0 /\ fsm' # "RECOVERY"
    BY <1>1, <1>4, <1>5
  <2> QED BY <2>1, RecoveryAssumption DEF MissBudget
<1>10. ToldMatchesLock'
  BY <1>1, <1>2, <1>5 DEF ToldMatchesLock, LockInv
<1>11. CountsMatchTracker'
  <2>1. ASSUME tracker'.state = "SEARCHING"
        PROVE  run' = tracker'.valid
    <3>1. tracker.state = "SEARCHING" /\ tracker'.valid = run + 1
      BY <1>5, <2>1 DEF LockInv, SyncType, CountsMatchTracker, Tracker
    <3>2. run + 1 <= AcquireCount
      BY <1>5, <3>1, ThresholdAssumption DEF Tracker
    <3> QED BY <1>1, <3>1, <3>2, AtMostType, ThresholdAssumption DEF LockInv, SyncType
  <2> QED BY <1>1, <1>5, <2>1 DEF CountsMatchTracker, Tracker
<1> QED BY <1>6, <1>7, <1>8, <1>9, <1>10, <1>11 DEF LockInv

\* handle_sync_result() for a SYNC outside the window: the tracker counts a miss,
\* the service forgives its own.
LEMMA OutsideSteps ==
  ASSUME NEW timing, LockInv, HearSync(timing), ~InsideWindow(timing)
  PROVE  LockInv'
<1> DEFINE event == MissEvent(tracker)
<1>1. /\ tracker' = OnMiss(tracker)
      /\ fsm' = FsmAfterSync(FALSE, event)
      /\ anchor' = AnchorAfter(timing, event)
      /\ syncMisses' = 0
      /\ told' = IF event = "NONE" THEN told ELSE event
      /\ run' = 0
     
      /\ missed' = AtMost(missed + 1, LossCount)
  BY DEF HearSync, InsideWindow, FsmAfterSync
<1>2. /\ event = IF Loses(tracker) THEN "LOST" ELSE "NONE"
      /\ Loses(tracker) => tracker.state = "LOCKED"
  BY DEF MissEvent, Loses
<1>3. anchor # "none" /\ fsm # "RECOVERY" /\ timing = "outside"
  BY DEF InsideWindow
<1>4. anchor' = IF event = "LOST" THEN "none" ELSE anchor
  BY <1>1, <1>2, <1>3 DEF AnchorAfter
<1>5. fsm' = IF event = "LOST" /\ fsm \in Following THEN "SEARCHING" ELSE fsm
  <2>1. fsm \in FsmStates /\ event \in { "NONE", "LOST" }
    BY <1>2 DEF LockInv, SyncType
  <2>2. FsmHandle(fsm, "SYNC_RECOVERED") = fsm
    BY <1>3, <2>1, RecoveryEvents
  <2>3. fsm' = IF event = "LOST" THEN FsmHandle(fsm, "SYNC_LOST") ELSE fsm
    BY <1>1, <2>1, <2>2 DEF FsmAfterSync
  <2> QED BY <2>1, <2>3, LossEvent DEF FsmStates
<1>6. /\ tracker' \in Tracker
      /\ tracker'.valid = 0
      /\ tracker'.state = "LOCKED" <=> tracker.state = "LOCKED" /\ ~Loses(tracker)
      /\ tracker'.state = "LOCKED" => tracker'.misses = tracker.misses + 1
  BY <1>1, OnMissStep DEF LockInv, SyncType
<1>7. SyncType'
  <2>1. run' \in 0 .. AcquireCount /\ syncMisses' \in Nat
    BY <1>1, ThresholdAssumption
  <2>2. told' \in { "nothing", "ACQUIRED", "LOST" }
    BY <1>1, <1>2 DEF LockInv, SyncType
  <2>3. missed' \in 0 .. LossCount
    BY <1>1, AtMostType, ThresholdAssumption DEF LockInv, SyncType
  <2>4. fsm' \in FsmStates /\ anchor' \in { "none", "past", "ahead" }
    BY <1>4, <1>5 DEF LockInv, SyncType, FsmStates
  <2> QED BY <1>6, <2>1, <2>2, <2>3, <2>4 DEF SyncType
<1>8. FollowingIsAnchored'
  BY <1>3, <1>4, <1>5 DEF FollowingIsAnchored, LockInv, SyncType, Following, FsmStates
<1>9. TrackingIsLocked'
  BY <1>2, <1>5, <1>6 DEF TrackingIsLocked, LockInv, Following
<1>10. MissBudget'
  <2>1. syncMisses' = 0 /\ fsm' # "RECOVERY"
    BY <1>1, <1>3, <1>5
  <2>2. tracker'.misses \in Nat
    BY <1>6, ThresholdAssumption DEF Tracker
  <2>3. 0 <= tracker'.misses /\ 0 < RecoveryEntry
    BY <2>2, RecoveryAssumption
  <2> QED BY <2>1, <2>3 DEF MissBudget
<1>11. ToldMatchesLock'
  BY <1>1, <1>2, <1>6 DEF ToldMatchesLock, LockInv
<1>12. CountsMatchTracker'
  <2>1. ASSUME tracker'.state = "LOCKED"
        PROVE  missed' = tracker'.misses
    <3>1. tracker'.misses = missed + 1
      BY <1>6, <2>1 DEF LockInv, CountsMatchTracker
    <3>2. missed + 1 <= LossCount
      BY <1>6, <3>1, ThresholdAssumption DEF Tracker
    <3> QED BY <1>1, <3>1, <3>2, AtMostType, ThresholdAssumption DEF LockInv, SyncType
  <2> QED BY <1>1, <1>6, <2>1 DEF CountsMatchTracker, Tracker
<1> QED BY <1>7, <1>8, <1>9, <1>10, <1>11, <1>12 DEF LockInv

\* handle_miss(), on each of its three branches and on none.
LEMMA MissSteps ==
  ASSUME LockInv, Miss
  PROVE  LockInv'
<1> DEFINE lost     == Loses(tracker)
           dropped  == ~lost /\ fsm = "SYNCHRONIZING"
           degraded == ~lost /\ fsm = "TRACKING" /\ syncMisses + 1 >= RecoveryEntry
<1>1. /\ tracker' = OnMiss(tracker)
      /\ anchor' = IF lost \/ dropped THEN "none"
                   ELSE IF anchor = "ahead" THEN "past" ELSE anchor
      /\ syncMisses' = IF lost \/ dropped THEN 0 ELSE syncMisses + 1
      /\ told' = IF lost THEN "LOST" ELSE told
      /\ run' = 0
     
      /\ missed' = AtMost(missed + 1, LossCount)
  BY DEF Miss
<1>2. fsm' = IF lost \/ dropped
             THEN IF fsm \in Following THEN "SEARCHING" ELSE fsm
             ELSE IF degraded THEN "RECOVERY" ELSE fsm
  <2>1. fsm \in FsmStates
    BY DEF LockInv, SyncType
  <2>2. FsmHandle(fsm, "SYNC_LOST") = IF fsm \in Following THEN "SEARCHING" ELSE fsm
    BY <2>1, LossEvent
  <2>3. degraded => FsmHandle(fsm, "SYNC_DEGRADED") = "RECOVERY"
    BY RecoveryEvents
  <2> QED BY <2>2, <2>3 DEF Miss
<1>3. /\ tracker' \in Tracker
      /\ tracker'.valid = 0
      /\ tracker'.state = "LOCKED" <=> tracker.state = "LOCKED" /\ ~lost
      /\ tracker'.state = "LOCKED" => tracker'.misses = tracker.misses + 1
  BY <1>1, OnMissStep DEF LockInv, SyncType
<1>4. lost => tracker.state = "LOCKED"
  BY DEF Loses
<1>5. SyncType'
  <2>1. run' \in 0 .. AcquireCount
    BY <1>1, ThresholdAssumption
  <2>2. syncMisses' \in Nat /\ told' \in { "nothing", "ACQUIRED", "LOST" }
    BY <1>1 DEF LockInv, SyncType
  <2>3. missed' \in 0 .. LossCount
    BY <1>1, AtMostType, ThresholdAssumption DEF LockInv, SyncType
  <2>4. fsm' \in FsmStates /\ anchor' \in { "none", "past", "ahead" }
    BY <1>1, <1>2 DEF LockInv, SyncType, FsmStates
  <2> QED BY <1>3, <2>1, <2>2, <2>3, <2>4 DEF SyncType
<1>6. FollowingIsAnchored'
  BY <1>1, <1>2 DEF FollowingIsAnchored, LockInv, SyncType, Following, FsmStates
<1>7. TrackingIsLocked'
  BY <1>2, <1>3 DEF TrackingIsLocked, LockInv, Following
<1>8. MissBudget'
  <2>1. CASE lost \/ dropped
    BY <1>2, <2>1 DEF MissBudget, Following, LockInv, SyncType, FsmStates
  <2>2. CASE ~(lost \/ dropped)
    <3>1. syncMisses' = syncMisses + 1 /\ fsm' = IF degraded THEN "RECOVERY" ELSE fsm
      BY <1>1, <1>2, <2>2
    <3>2. fsm' \in { "TRACKING", "RECOVERY" } => /\ fsm \in { "TRACKING", "RECOVERY" }
                                                /\ tracker'.misses = tracker.misses + 1
      BY <1>3, <2>2, <3>1 DEF LockInv, TrackingIsLocked
    <3>3. /\ syncMisses \in Nat /\ tracker.misses \in Nat /\ RecoveryEntry \in Nat
          /\ fsm \in { "TRACKING", "RECOVERY" } => syncMisses <= tracker.misses
          /\ fsm = "TRACKING" => syncMisses < RecoveryEntry
          /\ fsm = "RECOVERY" => syncMisses >= RecoveryEntry
      BY RecoveryAssumption, ThresholdAssumption DEF LockInv, SyncType, MissBudget, Tracker
    <3>4. fsm' \in { "TRACKING", "RECOVERY" } => syncMisses' <= tracker'.misses
      BY <3>1, <3>2, <3>3
    <3>5. fsm' = "TRACKING" => syncMisses' < RecoveryEntry
      BY <2>2, <3>1, <3>3
    <3>6. fsm' = "RECOVERY" => syncMisses' >= RecoveryEntry
      BY <2>2, <3>1, <3>2, <3>3
    <3> QED BY <3>4, <3>5, <3>6 DEF MissBudget
  <2> QED BY <2>1, <2>2
<1>9. ToldMatchesLock'
  BY <1>1, <1>3, <1>4 DEF ToldMatchesLock, LockInv
<1>10. CountsMatchTracker'
  <2>1. ASSUME tracker'.state = "LOCKED"
        PROVE  missed' = tracker'.misses
    <3>1. tracker'.misses = missed + 1
      BY <1>3, <2>1 DEF LockInv, CountsMatchTracker
    <3>2. missed + 1 <= LossCount
      BY <1>3, <3>1, ThresholdAssumption DEF Tracker
    <3> QED BY <1>1, <3>1, <3>2, AtMostType, ThresholdAssumption DEF LockInv, SyncType
  <2> QED BY <1>1, <1>3, <2>1 DEF CountsMatchTracker, Tracker
<1> QED BY <1>5, <1>6, <1>7, <1>8, <1>9, <1>10 DEF LockInv

\* reset_controller() and START_RX establish the invariant from any state.
LEMMA ResetSteps ==
  ASSUME ResetSession
  PROVE  LockInv'
<1>1. /\ tracker' = InitTracker
      /\ fsm' = "SEARCHING"
      /\ anchor' = "none"
      /\ syncMisses' = 0
      /\ told' = "nothing"
      /\ run' = 0 /\ missed' = 0
  BY StartEvent DEF ResetSession
<1>2. SyncType'
  BY <1>1, InitTrackerType, ThresholdAssumption DEF SyncType, FsmStates
<1>3. FollowingIsAnchored' /\ TrackingIsLocked' /\ MissBudget'
  BY <1>1 DEF FollowingIsAnchored, TrackingIsLocked, MissBudget, Following
<1>4. ToldMatchesLock' /\ CountsMatchTracker'
  BY <1>1 DEF ToldMatchesLock, CountsMatchTracker, InitTracker
<1> QED BY <1>2, <1>3, <1>4 DEF LockInv

\* A step that leaves the synchronisation state alone.
LEMMA UnchangedSteps ==
  ASSUME LockInv, UNCHANGED sync
  PROVE  LockInv'
  BY DEF sync, LockInv, SyncType, FollowingIsAnchored, TrackingIsLocked, MissBudget,
         ToldMatchesLock, CountsMatchTracker

-----------------------------------------------------------------------------

\* What the steps around the packet handlers write.
PcType     == pc \in { "loop", "search", "drain", "hop", "listen", "exited", "stopped" }
SearchType == probed \subseteq Channels /\ barred \subseteq Channels
ScalarType ==
  /\ probe \in 0 .. 2
  /\ chan \in Channels
  /\ shouldStop \in BOOLEAN
  /\ report \in { "none", "ACQUIRED", "LOST", "ERROR" }
RadioType == ScalarType /\ SearchType

Inv == LockInv /\ RadioType /\ PcType

\* A started receiver satisfies the invariant.
LEMMA InitInv == Init => Inv
<1> SUFFICES ASSUME Init PROVE Inv
  OBVIOUS
<1>1. SyncType
  BY InitTrackerType, ThresholdAssumption DEF Init, SyncType, FsmStates
<1>2. FollowingIsAnchored /\ TrackingIsLocked /\ MissBudget
  BY DEF Init, FollowingIsAnchored, TrackingIsLocked, MissBudget, Following
<1>3. ToldMatchesLock /\ CountsMatchTracker
  BY DEF Init, ToldMatchesLock, CountsMatchTracker, InitTracker
<1>4. ScalarType /\ PcType
  <2>1. shouldStop \in BOOLEAN
    BY Zenon DEF Init
  <2> QED BY <2>1 DEF Init, Channels, ScalarType, PcType
<1>5. SearchType
  BY Zenon DEF Init, SearchType
<1> QED BY <1>1, <1>2, <1>3, <1>4, <1>5 DEF Inv, LockInv, RadioType

\* Every step that writes a variable of sync keeps LockInv: the packet handlers by the
\* lemmas above, rx_task() dropping its reference and fhss_service_pause() directly.
LEMMA NextLockInv ==
  ASSUME LockInv, Next
  PROVE  LockInv'
<1>1. ASSUME NEW timing, HearSync(timing)
      PROVE  LockInv'
  BY <1>1, InsideSteps, OutsideSteps
<1>2. ASSUME NEW selected, SessionEnd(selected)
      PROVE  LockInv'
  BY <1>2, ResetSteps DEF SessionEnd
<1>3. CASE ExitLoop
  BY <1>3, UnchangedSteps DEF ExitLoop
<1>4. CASE SelectRendezvous
  BY <1>4, UnchangedSteps DEF SelectRendezvous
<1>5. CASE SearchReceive
  BY <1>5, <1>1, UnchangedSteps DEF SearchReceive
<1>6. CASE LoseReference
  <2>1. /\ fsm' = IF fsm \in Following THEN "SEARCHING" ELSE fsm
        /\ fsm # "SEARCHING" /\ anchor' = "none"
        /\ UNCHANGED << tracker, syncMisses, told, run, missed >>
    BY <1>6, LossEvent DEF LoseReference, LockInv, SyncType
  <2>2. SyncType' /\ ToldMatchesLock' /\ CountsMatchTracker'
    BY <2>1, ThresholdAssumption
       DEF LockInv, SyncType, ToldMatchesLock, CountsMatchTracker, FsmStates
  <2>3. FollowingIsAnchored' /\ TrackingIsLocked' /\ MissBudget'
    BY <2>1 DEF LockInv, SyncType, FsmStates, Following, FollowingIsAnchored, TrackingIsLocked, MissBudget
  <2> QED BY <2>2, <2>3 DEF LockInv
<1>7. CASE PlanNextSlot
  <2>1. anchor # "none" /\ anchor' = "past"
        /\ UNCHANGED << fsm, tracker, syncMisses, told, run, missed >>
    BY <1>7 DEF PlanNextSlot
  <2> QED
    BY <2>1 DEF LockInv, SyncType, FollowingIsAnchored, TrackingIsLocked, MissBudget,
                ToldMatchesLock, CountsMatchTracker
<1>8. CASE DrainReceive
  BY <1>8, <1>1, <1>2 DEF DrainReceive
<1>9. CASE DrainEnds
  BY <1>9, UnchangedSteps DEF DrainEnds
<1>10. CASE Hop
  BY <1>10, UnchangedSteps DEF Hop
<1>11. CASE SlotReceive
  BY <1>11, <1>1, <1>2, UnchangedSteps DEF SlotReceive
<1>12. CASE SlotTimeout
  BY <1>12, MissSteps DEF SlotTimeout
<1>13. CASE SlotInvalidSync
  BY <1>13, MissSteps DEF SlotInvalidSync
<1>14. CASE RequestStop
  BY <1>14, UnchangedSteps DEF RequestStop
<1>15. CASE Pause
  <2>1. fsm' = "STOPPED" /\ UNCHANGED << tracker, anchor, syncMisses, told, run, missed >>
    BY <1>15 DEF Pause, FsmHandle
  <2> QED
    BY <2>1 DEF LockInv, SyncType, FsmStates, FollowingIsAnchored, TrackingIsLocked, MissBudget,
                ToldMatchesLock, CountsMatchTracker
<1>16. CASE SetRole
  BY <1>16, ResetSteps, UnchangedSteps DEF SetRole
<1> QED BY <1>3, <1>4, <1>5, <1>6, <1>7, <1>8, <1>9, <1>10, <1>11, <1>12, <1>13, <1>14,
           <1>15, <1>16 DEF Next, Task

\* A step that leaves the radio and the stop request alone.
LEMMA UnchangedRadio ==
  ASSUME RadioType, UNCHANGED << radio, shouldStop >>,
         report' \in { "none", "ACQUIRED", "LOST", "ERROR" }
  PROVE  RadioType'
<1>1. UNCHANGED << chan, probe, probed, barred, shouldStop >>
  BY DEF radio, search
<1>2. ScalarType'
  BY <1>1 DEF RadioType, ScalarType
<1>3. SearchType'
  BY <1>1, Zenon DEF RadioType, SearchType
<1> QED BY <1>2, <1>3 DEF RadioType

\* No step leaves the types of the radio, the report and the program counter.
LEMMA NextControlType ==
  ASSUME Inv, Next
  PROVE  RadioType' /\ PcType'
<1> USE DEF Inv
<1>1. ASSUME NEW timing, HearSync(timing)
      PROVE  RadioType'
  <2>1. ScalarType'
    BY <1>1 DEF HearSync, ValidEvent, MissEvent, RadioType, ScalarType
  <2>2. SearchType'
    <3>1. probed' = probed /\ barred' = barred
      BY <1>1 DEF HearSync, search
    <3> QED BY <3>1, Zenon DEF RadioType, SearchType
  <2> QED BY <2>1, <2>2 DEF RadioType
<1>2. ASSUME NEW selected, SessionEnd(selected)
      PROVE  RadioType'
  <2>1. ScalarType'
    BY <1>2 DEF SessionEnd, ResetSession, Channels, RadioType, ScalarType
  <2>2. SearchType'
    <3>1. probed' = probed /\ barred' = barred
      BY <1>2 DEF SessionEnd, search
    <3> QED BY <3>1, Zenon DEF RadioType, SearchType
  <2> QED BY <2>1, <2>2 DEF RadioType
<1>3. ASSUME Miss
      PROVE  RadioType'
  <2>1. ScalarType'
    BY <1>3 DEF Miss, RadioType, ScalarType
  <2>2. SearchType'
    <3>1. /\ probed' \in { probed, {}, probed \cup { chan } }
          /\ barred' \in { barred, {} }
      BY <1>3 DEF Miss, Tried
    <3> QED BY <3>1, Zenon DEF RadioType, ScalarType, SearchType
  <2> QED BY <2>1, <2>2 DEF RadioType
<1>4. CASE ExitLoop
  BY <1>4, UnchangedRadio DEF ExitLoop, PcType
<1>5. CASE SelectRendezvous
  <2>1. ScalarType' /\ PcType'
    BY <1>5 DEF SelectRendezvous, Channels, RadioType, ScalarType, PcType
  <2>2. probed' = probed /\ barred' = barred
    BY <1>5 DEF SelectRendezvous, search
  <2>3. SearchType'
    BY <2>2, Zenon DEF RadioType, SearchType
  <2> QED BY <2>1, <2>3 DEF RadioType
<1>6. CASE SearchReceive
  BY <1>6, <1>1, UnchangedRadio DEF SearchReceive, PcType
<1>7. CASE LoseReference
  BY <1>7, UnchangedRadio DEF LoseReference, PcType
<1>8. CASE PlanNextSlot
  BY <1>8, UnchangedRadio DEF PlanNextSlot, PcType
<1>9. CASE DrainReceive
  BY <1>9, <1>1, <1>2 DEF DrainReceive, PcType
<1>10. CASE DrainEnds
  BY <1>10, UnchangedRadio DEF DrainEnds, PcType
<1>11. CASE Hop
  <2> DEFINE target == IF fsm = "RECOVERY" THEN Candidates[probe + 1] ELSE "N"
  <2>1. probe \in 0 .. 2
    BY DEF RadioType, ScalarType
  <2>2. target \in Channels
    BY <2>1 DEF Candidates, Channels
  <2>3. probe' \in 0 .. 2
    BY <1>11, <2>1 DEF Hop, NextProbe
  <2>4. /\ probed' = probed /\ barred' \in { barred, barred \cup { target } }
        /\ chan' \in { target, chan }
        /\ pc' \in { "listen", "loop" }
        /\ report' \in { "none", "ERROR" }
        /\ shouldStop' = shouldStop
    BY <1>11 DEF Hop, Failed
  <2> HIDE DEF target
  <2>5. ScalarType' /\ PcType'
    BY <2>2, <2>3, <2>4 DEF RadioType, ScalarType, PcType
  <2>6. SearchType'
    BY <2>2, <2>4, Zenon DEF RadioType, SearchType
  <2> QED BY <2>5, <2>6 DEF RadioType
<1>12. CASE SlotReceive
  <2>1. ASSUME UNCHANGED << chan, probe, shouldStop >>, report' \in { "none", "ERROR" },
               probed' \in { probed, probed \cup { chan } },
               barred' \in { barred, barred \cup { chan } }
        PROVE  RadioType'
    <3>1. ScalarType'
      BY <2>1 DEF RadioType, ScalarType
    <3>2. SearchType'
      BY <2>1, Zenon DEF RadioType, ScalarType, SearchType
    <3> QED BY <3>1, <3>2 DEF RadioType
  <2> QED BY <1>12, <1>1, <1>2, <2>1 DEF SlotReceive, Tried, Failed, PcType
<1>13. CASE SlotTimeout
  BY <1>13, <1>3 DEF SlotTimeout, PcType
<1>14. CASE SlotInvalidSync
  BY <1>14, <1>3 DEF SlotInvalidSync, PcType
<1>15. CASE RequestStop
  <2>1. ScalarType' /\ PcType'
    BY <1>15 DEF RequestStop, radio, RadioType, ScalarType, PcType
  <2>2. probed' = probed /\ barred' = barred
    BY <1>15 DEF RequestStop, radio, search
  <2>3. SearchType'
    BY <2>2, Zenon DEF RadioType, SearchType
  <2> QED BY <2>1, <2>3 DEF RadioType
<1>16. CASE Pause
  <2>1. ScalarType' /\ PcType'
    BY <1>16 DEF Pause, radio, RadioType, ScalarType, PcType
  <2>2. probed' = probed /\ barred' = barred
    BY <1>16 DEF Pause, radio, search
  <2>3. SearchType'
    BY <2>2, Zenon DEF RadioType, SearchType
  <2> QED BY <2>1, <2>3 DEF RadioType
<1>17. CASE SetRole
  <2>1. ScalarType' /\ PcType'
    <3>1. shouldStop' \in BOOLEAN
      BY <1>17, Zenon DEF SetRole
    <3> QED BY <1>17, <3>1 DEF SetRole, ResetSession, RadioType, ScalarType, PcType
  <2>2. probed' = probed /\ barred' = barred
    BY <1>17 DEF SetRole, search
  <2>3. SearchType'
    BY <2>2, Zenon DEF RadioType, SearchType
  <2> QED BY <2>1, <2>3 DEF RadioType
<1> QED BY <1>4, <1>5, <1>6, <1>7, <1>8, <1>9, <1>10, <1>11, <1>12, <1>13, <1>14, <1>15, <1>16,
           <1>17 DEF Next, Task

-----------------------------------------------------------------------------

\* The inductive invariant holds in every reachable state of the receiver.
THEOREM Invariance == Spec => []Inv
<1>1. Inv /\ [Next]_vars => Inv'
  <2> SUFFICES ASSUME Inv, [Next]_vars PROVE Inv'
    OBVIOUS
  <2>1. CASE Next
    BY <2>1, NextLockInv, NextControlType DEF Inv
  <2>2. CASE UNCHANGED vars
    <3>1. UNCHANGED sync /\ UNCHANGED << radio, shouldStop >> /\ UNCHANGED << pc, report >>
      BY <2>2 DEF vars
    <3>2. RadioType'
      BY <3>1, UnchangedRadio DEF Inv, RadioType, ScalarType
    <3> QED BY <3>1, <3>2, UnchangedSteps DEF Inv, PcType
  <2> QED BY <2>1, <2>2
<1> QED BY InitInv, <1>1, PTL DEF Spec

\* Every variable of the receiver keeps its type: in particular neither counter of
\* the tracker is ever seen at its threshold.
THEOREM TypeCorrect == Spec => []TypeOK
<1>1. Inv => TypeOK
  BY DEF Inv, LockInv, SyncType, RadioType, ScalarType, SearchType, PcType, TypeOK
<1> QED BY Invariance, <1>1, PTL

\* The scheduler has a reference exactly while the radio FSM follows a peer.
THEOREM FollowingSafety == Spec => []FollowingIsAnchored
<1>1. Inv => FollowingIsAnchored
  BY DEF Inv, LockInv
<1> QED BY Invariance, <1>1, PTL

\* TRACKING and RECOVERY are never shown over a tracker that has lost its lock.
THEOREM TrackingSafety == Spec => []TrackingIsLocked
<1>1. Inv => TrackingIsLocked
  BY DEF Inv, LockInv
<1> QED BY Invariance, <1>1, PTL

\* The service's miss count stays within the tracker's, and RECOVERY holds exactly
\* while that count has reached its threshold.
THEOREM MissSafety == Spec => []MissBudget
<1>1. Inv => MissBudget
  BY DEF Inv, LockInv
<1> QED BY Invariance, <1>1, PTL

\* The last of ACQUIRED and LOST that the application was told is what the tracker holds.
THEOREM ReportSafety == Spec => []ToldMatchesLock
<1>1. Inv => ToldMatchesLock
  BY DEF Inv, LockInv
<1> QED BY Invariance, <1>1, PTL

\* A SYNC is reported as ACQUIRED or LOST only when the tracker's threshold is met.
LEMMA ReportedEvents ==
  ASSUME NEW timing, HearSync(timing)
  PROVE  /\ report' = "ACQUIRED" => InsideWindow(timing) /\ Acquires(tracker)
         /\ report' = "LOST" => ~InsideWindow(timing) /\ Loses(tracker)
  BY DEF HearSync, ValidEvent, MissEvent

\* SYNC_ACQUIRED is reported only by the AcquireCount-th valid SYNC in a row.
THEOREM AcquisitionSafety == Spec => AcquisitionNeedsRun
<1>1. ASSUME LockInv, Next, report' = "ACQUIRED"
      PROVE  run' = AcquireCount
  <2>1. PICK timing \in Timings : HearSync(timing)
    BY <1>1 DEF Next, Task, ExitLoop, SelectRendezvous, SearchReceive, LoseReference, PlanNextSlot,
                DrainReceive, DrainEnds, Hop, SlotReceive, SlotTimeout, SlotInvalidSync, Miss,
                SessionEnd, RequestStop, Pause, SetRole
  <2>2. InsideWindow(timing) /\ Acquires(tracker)
    BY <1>1, <2>1, ReportedEvents
  <2>3. run' = AtMost(run + 1, AcquireCount)
    BY <2>1, <2>2 DEF HearSync
  <2>4. run + 1 = AcquireCount
    BY <1>1, <2>2, ThresholdAssumption
       DEF Acquires, LockInv, SyncType, CountsMatchTracker, Tracker
  <2> QED BY <2>3, <2>4, ThresholdAssumption DEF AtMost
<1>2. Inv /\ [Next]_vars => [report' = "ACQUIRED" => run' = AcquireCount]_vars
  BY <1>1 DEF Inv
<1> QED BY Invariance, <1>2, PTL DEF Spec, AcquisitionNeedsRun

\* SYNC_LOST is reported only to an application that was told ACQUIRED, and only by
\* the LossCount-th miss since the last valid SYNC.
THEOREM LossSafety == Spec => LossNeedsMisses
<1>1. ASSUME LockInv, Next, report' = "LOST"
      PROVE  missed' = LossCount /\ told = "ACQUIRED"
  <2>1. \/ \E timing \in Timings : HearSync(timing)
        \/ Miss
    BY <1>1 DEF Next, Task, ExitLoop, SelectRendezvous, SearchReceive, LoseReference, PlanNextSlot,
                DrainReceive, DrainEnds, Hop, SlotReceive, SlotTimeout, SlotInvalidSync,
                SessionEnd, RequestStop, Pause, SetRole
  <2>2. Loses(tracker) /\ missed' = AtMost(missed + 1, LossCount)
    <3>1. CASE Miss
      BY <1>1, <3>1 DEF Miss
    <3>2. ASSUME NEW timing \in Timings, HearSync(timing)
          PROVE  Loses(tracker) /\ missed' = AtMost(missed + 1, LossCount)
      BY <1>1, <3>2, ReportedEvents DEF HearSync
    <3> QED BY <2>1, <3>1, <3>2
  <2>3. missed + 1 = LossCount /\ told = "ACQUIRED"
    BY <1>1, <2>2, ThresholdAssumption
       DEF Loses, LockInv, SyncType, CountsMatchTracker, ToldMatchesLock, Tracker
  <2> QED BY <2>2, <2>3, ThresholdAssumption DEF AtMost
<1>2. Inv /\ [Next]_vars => [report' = "LOST" => missed' = LossCount /\ told = "ACQUIRED"]_vars
  BY <1>1 DEF Inv
<1> QED BY Invariance, <1>2, PTL DEF Spec, LossNeedsMisses

-----------------------------------------------------------------------------
(* The candidates of RECOVERY.  Each miss in RECOVERY was preceded by a    *)
(* hop of its own, and the hops go through the candidates in their order.  *)

First(n) == { Candidates[i] : i \in 1 .. n }
Listening == IF pc = "listen" THEN 1 ELSE 0

\* Candidates whose slot is over, and with them the one listened for.
Over == probed \cup barred
Begun == Over \cup (IF pc = "listen" THEN { chan } ELSE {})

\* The slots of the first n candidates have begun; n covers the misses since
\* RECOVERY was entered, the one of the slot listened for included.
ProbesInOrder ==
  fsm = "RECOVERY" =>
    \E n \in 0 .. 3 :
      /\ Begun = First(n)
      /\ n < 3 => probe = n
      /\ n < 3 => syncMisses + Listening <= RecoveryEntry + n

ProbeInv == Inv /\ ProbesInOrder

\* The first candidates, one by one.
LEMMA FirstCandidates ==
  /\ First(0) = {}
  /\ First(1) = { "N" }
  /\ First(2) = { "N", "N-1" }
  /\ First(3) = { "N", "N-1", "N+1" }
<1>1. Candidates[1] = "N" /\ Candidates[2] = "N-1" /\ Candidates[3] = "N+1"
  BY DEF Candidates
<1>2. 1 .. 0 = {} /\ 1 .. 1 = {1} /\ 1 .. 2 = {1, 2} /\ 1 .. 3 = {1, 2, 3}
  OBVIOUS
<1>3. First(0) = {}
  BY <1>2 DEF First
<1>4. First(1) = { "N" }
  BY <1>1, <1>2 DEF First
<1>5. First(2) = { "N", "N-1" }
  BY <1>1, <1>2 DEF First
<1>6. First(3) = { "N", "N-1", "N+1" }
  BY <1>1, <1>2 DEF First
<1> QED
  BY <1>3, <1>4, <1>5, <1>6

\* A SYNC never leads into RECOVERY, and out of it always.
LEMMA SyncEndsRecovery ==
  ASSUME NEW timing, LockInv, HearSync(timing)
  PROVE  fsm' # "RECOVERY"
<1>1. fsm \in FsmStates
  BY DEF LockInv, SyncType
<1>2. \A s \in FsmStates \ { "RECOVERY" } :
        \A e \in { "FIRST_SYNC", "SYNC_ACQUIRED", "SYNC_LOST" } :
          FsmHandle(s, e) \in FsmStates \ { "RECOVERY" }
  BY DEF FsmHandle, FsmStates, Following
<1>3. FsmHandle(fsm, "SYNC_RECOVERED") \in FsmStates \ { "RECOVERY" }
  BY <1>1, RecoveryEvents DEF FsmStates
<1>4. \A inside \in BOOLEAN : \A event : FsmAfterSync(inside, event) # "RECOVERY"
  BY <1>2, <1>3 DEF FsmAfterSync
<1> QED
  BY <1>4 DEF HearSync, InsideWindow

\* A bound on misses counted and coming holds when fewer are coming.
LEMMA NoLater ==
  ASSUME NEW misses \in Nat, NEW coming \in {0, 1}, NEW bound \in Nat,
         NEW n \in Int, NEW next \in {0, 1}, next <= coming,
         misses + coming <= bound + n
  PROVE  misses + next <= bound + n
OBVIOUS

\* One candidate more allows for one miss more.
LEMMA OneMore ==
  ASSUME NEW misses \in Nat, NEW bound \in Nat, NEW n \in Int, NEW next \in {0, 1},
         misses + 0 <= bound + n
  PROVE  misses + next <= bound + (n + 1)
OBVIOUS

\* A step that begins no candidate's slot and counts no miss.
LEMMA ProbesKept ==
  ASSUME Inv, ProbesInOrder, UNCHANGED << fsm, syncMisses, probe >>, Begun' = Begun,
         pc' = pc \/ pc' # "listen"
  PROVE  ProbesInOrder'
<1>1. syncMisses \in Nat /\ RecoveryEntry \in Nat
  BY RecoveryAssumption DEF Inv, LockInv, SyncType
<1>2. Listening' <= Listening /\ Listening \in {0, 1} /\ Listening' \in {0, 1}
  BY DEF Listening
<1>3. ASSUME NEW n \in 0 .. 3, syncMisses + Listening <= RecoveryEntry + n
      PROVE  syncMisses' + Listening' <= RecoveryEntry + n
  <2>1. syncMisses' = syncMisses
    OBVIOUS
  <2>2. n \in Int
    OBVIOUS
  <2> QED
    BY ONLY <1>1, <1>2, <1>3, <2>1, <2>2, NoLater
<1> QED
  BY <1>3 DEF ProbesInOrder

\* handle_miss(): RECOVERY begins with no candidate tried, or goes on.
LEMMA ProbesMiss ==
  ASSUME Inv, ProbesInOrder, pc = "listen", pc' = "loop", Miss
  PROVE  ProbesInOrder'
<1>1. syncMisses \in Nat /\ RecoveryEntry \in Nat /\ fsm \in FsmStates
  BY RecoveryAssumption DEF Inv, LockInv, SyncType
<1>2. Listening = 1 /\ Listening' = 0
  BY DEF Listening
<1>3. CASE fsm' = "RECOVERY" /\ fsm = "TRACKING"
  <2>1. ~Loses(tracker) /\ syncMisses + 1 >= RecoveryEntry
    BY <1>3, LossEvent DEF Miss, Following
  <2>2. syncMisses < RecoveryEntry
    BY <1>3 DEF Inv, LockInv, MissBudget
  <2>3. probed' = {} /\ probe' = 0 /\ syncMisses' = syncMisses + 1
    BY <1>3, <2>1 DEF Miss
  <2>4. syncMisses' + Listening' <= RecoveryEntry + 0
    BY <1>1, <1>2, <2>1, <2>2, <2>3
  <2>5. 0 \in 0 .. 3 /\ Begun' = First(0)
    <3>1. barred' = {}
      BY <1>3, <2>1 DEF Miss
    <3> QED BY <2>3, <3>1, FirstCandidates DEF Begun, Over
  <2> QED
    BY <2>3, <2>4, <2>5 DEF ProbesInOrder
<1>4. CASE fsm' = "RECOVERY" /\ fsm = "RECOVERY"
  <2>1. ~Loses(tracker)
    BY <1>4, LossEvent DEF Miss, Following
  <2>2. probe' = probe /\ syncMisses' = syncMisses + 1
    BY <1>4, <2>1 DEF Miss
  <2>3. syncMisses' + Listening' = syncMisses + Listening
    BY <1>1, <1>2, <2>2
  <2>4. Begun' = Begun
    <3>1. probed' = probed \cup { chan } /\ barred' = barred
      BY <1>4 DEF Miss, Tried
    <3> QED BY <3>1 DEF Begun, Over
  <2> HIDE DEF Listening
  <2> QED
    BY <1>4, <2>2, <2>3, <2>4 DEF ProbesInOrder
<1>5. fsm' = "RECOVERY" => fsm \in { "TRACKING", "RECOVERY" }
  BY <1>1, LossEvent DEF Miss, FsmStates, Following
<1> QED
  BY <1>3, <1>4, <1>5 DEF ProbesInOrder

\* get_recovery_probe_slot(): the next candidate in their order.
LEMMA ProbesHop ==
  ASSUME Inv, ProbesInOrder, Hop
  PROVE  ProbesInOrder'
<1> SUFFICES ASSUME fsm' = "RECOVERY"
             PROVE  \E n \in 0 .. 3 :
                      /\ Begun' = First(n)
                      /\ n < 3 => probe' = n
                      /\ n < 3 => syncMisses' + Listening' <= RecoveryEntry + n
  BY DEF ProbesInOrder
<1>1. syncMisses \in Nat /\ RecoveryEntry \in Nat /\ probe \in 0 .. 2
  BY RecoveryAssumption DEF Inv, LockInv, SyncType, RadioType, ScalarType
<1>2. /\ fsm = "RECOVERY" /\ syncMisses' = syncMisses
      /\ probe' = (probe + 1) % 3
      /\ Begun' = Begun \cup { Candidates[probe + 1] }
  <2>1. /\ fsm = "RECOVERY" /\ syncMisses' = syncMisses
        /\ probe' = (probe + 1) % 3 /\ pc = "hop" /\ probed' = probed
        /\ \/ pc' = "listen" /\ chan' = Candidates[probe + 1] /\ barred' = barred
           \/ pc' = "loop" /\ barred' = barred \cup { Candidates[probe + 1] }
    BY DEF Hop, sync, NextProbe, Failed
  <2> QED BY <2>1 DEF Begun, Over
<1>3. Listening = 0 /\ Listening' \in {0, 1}
  BY DEF Listening, Hop
<1>4. PICK n \in 0 .. 3 :
        /\ Begun = First(n)
        /\ n < 3 => probe = n
        /\ n < 3 => syncMisses + Listening <= RecoveryEntry + n
  BY <1>2 DEF ProbesInOrder
<1>5. Candidates[1] = "N" /\ Candidates[2] = "N-1" /\ Candidates[3] = "N+1"
  BY DEF Candidates
<1>6. CASE n < 3
  <2>1. n + 1 \in 0 .. 3 /\ probe = n
    BY <1>4, <1>6
  <2>2. Begun' = First(n + 1)
    <3>1. n = 0 \/ n = 1 \/ n = 2
      BY <1>6
    <3> QED
      BY <1>2, <1>4, <1>5, <2>1, <3>1, FirstCandidates
  <2>3. n + 1 < 3 => probe' = n + 1
    BY <1>2, <2>1
  <2>4. syncMisses' + Listening' <= RecoveryEntry + (n + 1)
    <3>1. syncMisses + 0 <= RecoveryEntry + n /\ n \in Int
      BY <1>3, <1>4, <1>6
    <3>2. syncMisses' = syncMisses
      BY <1>2
    <3>3. syncMisses \in Nat /\ RecoveryEntry \in Nat /\ Listening' \in {0, 1}
      BY <1>1, <1>3
    <3> QED
      BY ONLY <3>1, <3>2, <3>3, OneMore
  <2> QED
    BY <2>1, <2>2, <2>3, <2>4
<1>7. CASE n = 3
  <2>1. probe = 0 \/ probe = 1 \/ probe = 2
    BY <1>1
  <2>2. Begun' = First(3)
    BY <1>2, <1>4, <1>5, <1>7, <2>1, FirstCandidates
  <2> QED
    BY <2>2
<1> QED
  BY <1>6, <1>7

\* Every step keeps to the order of the candidates.
LEMMA ProbeStep ==
  ASSUME ProbeInv, Inv', [Next]_vars
  PROVE  ProbeInv'
<1> USE DEF ProbeInv
<1>1. ASSUME NEW timing, HearSync(timing)
      PROVE  ProbesInOrder'
  BY <1>1, SyncEndsRecovery DEF Inv, ProbesInOrder
<1>2. ASSUME ResetSession
      PROVE  ProbesInOrder'
  BY <1>2, StartEvent DEF ResetSession, ProbesInOrder
<1>3. CASE ExitLoop
  BY <1>3, ProbesKept DEF ExitLoop, sync, radio, search, Begun, Over
<1>4. CASE SelectRendezvous
  BY <1>4 DEF SelectRendezvous, sync, ProbesInOrder
<1>5. CASE SearchReceive
  BY <1>5, <1>1, ProbesKept DEF SearchReceive, sync, radio, search, Begun, Over
<1>6. CASE LoseReference
  <2>1. fsm' # "RECOVERY"
    BY <1>6, LossEvent DEF LoseReference, Inv, LockInv, SyncType, FsmStates, Following
  <2> QED
    BY <2>1 DEF ProbesInOrder
<1>7. CASE PlanNextSlot
  BY <1>7, ProbesKept DEF PlanNextSlot, Running, radio, search, Begun, Over
<1>8. CASE DrainReceive
  BY <1>8, <1>1, <1>2 DEF DrainReceive, SessionEnd
<1>9. CASE DrainEnds
  BY <1>9, ProbesKept DEF DrainEnds, sync, radio, search, Begun, Over
<1>10. CASE Hop
  BY <1>10, ProbesHop
<1>11. CASE SlotReceive
  <2>1. ASSUME UNCHANGED << sync, chan, probe >>, pc = "listen", pc' = "loop",
               fsm = "RECOVERY" => Over' = Over \cup { chan }
        PROVE  ProbesInOrder'
    <3>1. CASE fsm = "RECOVERY"
      <4>1. Begun' = Begun
        BY <2>1, <3>1 DEF Begun
      <4> QED BY <2>1, <4>1, ProbesKept DEF sync
    <3>2. CASE fsm # "RECOVERY"
      BY <2>1, <3>2 DEF sync, ProbesInOrder
    <3> QED BY <3>1, <3>2
  <2>2. ASSUME fsm = "RECOVERY",
               \/ probed' = Tried(chan) /\ barred' = barred
               \/ probed' = probed /\ barred' = Failed(chan)
        PROVE  Over' = Over \cup { chan }
    BY <2>2 DEF Over, Tried, Failed
  <2> QED BY <1>11, <1>1, <1>2, <2>1, <2>2 DEF SlotReceive, SessionEnd
<1>12. CASE SlotTimeout
  BY <1>12, ProbesMiss DEF SlotTimeout
<1>13. CASE SlotInvalidSync
  BY <1>13, ProbesMiss DEF SlotInvalidSync
<1>14. CASE RequestStop
  BY <1>14, ProbesKept DEF RequestStop, sync, radio, search, Begun, Over
<1>15. CASE Pause
  BY <1>15 DEF Pause, FsmHandle, ProbesInOrder
<1>16. CASE SetRole
  <2>1. CASE ResetSession
    BY <2>1, <1>2
  <2>2. CASE pc' = "stopped" /\ UNCHANGED << sync, probe >>
    <3>1. Begun' = Begun
      BY <1>16, <2>2 DEF SetRole, search, Begun, Over
    <3> QED BY <1>16, <2>2, <3>1, ProbesKept DEF SetRole, sync
  <2> QED
    BY <1>16, <2>1, <2>2 DEF SetRole
<1>17. CASE UNCHANGED vars
  BY <1>17, ProbesKept DEF vars, sync, radio, search, Begun, Over
<1> QED
  BY <1>3, <1>4, <1>5, <1>6, <1>7, <1>8, <1>9, <1>10, <1>11, <1>12, <1>13, <1>14,
     <1>15, <1>16, <1>17 DEF Next, Task

\* A lock lost in RECOVERY by timeouts alone was searched for, through a whole
\* slot, with every candidate the miss budget leaves room for, but for those the
\* radio failed in when it was their turn, whatever the thresholds are
\* (get_recovery_probe_slot, select_channel, handle_miss).
THEOREM CandidateSafety == Spec => CandidatesTriedBeforeLoss
<1> DEFINE Searched == report' = "LOST" /\ fsm = "RECOVERY" /\ syncMisses = tracker.misses
                         => \A i \in 1 .. AtMost(LossCount - RecoveryEntry, 3) :
                              Candidates[i] \in probed' \cup barred'
<1>1. ASSUME ProbeInv, Next, report' = "LOST", fsm = "RECOVERY",
             syncMisses = tracker.misses,
             NEW i \in 1 .. AtMost(LossCount - RecoveryEntry, 3)
      PROVE  Candidates[i] \in probed' \cup barred'
  <2>1. Miss /\ pc = "listen"
    <3>1. \A timing : ~HearSync(timing)
      BY <1>1, ReportedEvents DEF InsideWindow
    <3> QED
      BY <1>1, <3>1
         DEF Next, Task, ExitLoop, SelectRendezvous, SearchReceive, LoseReference,
             PlanNextSlot, DrainReceive, DrainEnds, Hop, SlotReceive, SlotTimeout,
             SlotInvalidSync, SessionEnd, RequestStop, Pause, SetRole
  <2>2. Loses(tracker) /\ Listening = 1
    BY <1>1, <2>1 DEF Miss, Listening
  <2>3. /\ tracker.misses \in 0 .. LossCount - 1 /\ syncMisses + 1 = LossCount
        /\ LossCount \in Nat /\ RecoveryEntry \in Nat /\ RecoveryEntry < LossCount
    BY <1>1, <2>2, ThresholdAssumption, RecoveryAssumption
       DEF ProbeInv, Inv, LockInv, SyncType, Tracker, Loses
  <2>4. PICK n \in 0 .. 3 :
          Begun = First(n) /\ (n < 3 => syncMisses + Listening <= RecoveryEntry + n)
    BY <1>1 DEF ProbeInv, ProbesInOrder
  <2>5. n < 3 => LossCount - RecoveryEntry <= n
    BY <2>2, <2>3, <2>4
  <2>6. i \in 1 .. n
    BY <2>3, <2>5 DEF AtMost
  <2>7. Candidates[i] \in Begun
    BY <2>4, <2>6 DEF First
  <2>8. Begun = probed' \cup barred'
    <3>1. probed' = probed \cup { chan } /\ barred' = barred
      BY <1>1, <2>1 DEF Miss, Tried
    <3> QED BY <2>1, <3>1 DEF Begun, Over
  <2> QED
    BY <2>7, <2>8
<1>2. Init => ProbeInv
  BY InitInv DEF Init, ProbeInv, ProbesInOrder
<1>3. Inv /\ Inv' /\ ProbeInv /\ [Next]_vars => ProbeInv'
  BY ProbeStep
<1>4. ProbeInv /\ [Next]_vars => [Searched]_vars
  BY <1>1
<1> QED
  BY Invariance, <1>2, <1>3, <1>4, PTL DEF Spec, CandidatesTriedBeforeLoss
=============================================================================
