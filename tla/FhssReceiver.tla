---------------------------- MODULE FhssReceiver ----------------------------
(***************************************************************************)
(* The receiving half of components/fhss_service/fhss_service.c: rx_task() *)
(* with the tracker (fhss_sync_state.c), the slot scheduler's reference    *)
(* (fhss_slot_scheduler.c), the controller that joins them                 *)
(* (fhss_sync_controller.c) and the radio state machine (fhss_fsm.c).      *)
(*                                                                         *)
(* Time is abstracted to what the control flow tells apart: whether the    *)
(* scheduler has a reference, and whether the reference time may still lie *)
(* in the future.  What the air delivers is chosen by the environment: in  *)
(* every receive window anything may be heard, or nothing.                 *)
(***************************************************************************)
EXTENDS SyncTracker

CONSTANT RecoveryEntry   \* config.recovery_entry_miss_count (2 in the product)

\* fhss_service_init() refuses any other value.
ASSUME RecoveryAssumption == RecoveryEntry \in Nat /\ 0 < RecoveryEntry /\ RecoveryEntry < LossCount

VARIABLES
  fsm,          \* service->fsm.state
  tracker,      \* controller.core.sync_tracker
  anchor,       \* controller.scheduler: "none" is not synchronized; "past" and
                \* "ahead" compare reference_time_us with the clock
  syncMisses,   \* service->consecutive_sync_misses
  probe,        \* service->recovery_probe_index, modulo the three offsets
  chan,         \* the slot whose channel was selected last
  pc,           \* where rx_task() is
  shouldStop,   \* service->should_stop
  report,       \* the event the step handed to config.event_callback
  told,         \* history: the last of ACQUIRED and LOST the callback was given,
                \* forgotten when the session ends or the role is set again
  run,          \* history: valid SYNCs in a row, capped at AcquireCount
  missed,       \* history: misses since the last valid SYNC, capped at LossCount
  probed,       \* history: candidates listened for since RECOVERY was entered
  barred        \* history: candidates the radio failed in, since then

search == << probed, barred >>
radio  == << chan, probe, search >>
sync  == << fsm, tracker, anchor, syncMisses, told, run, missed >>
vars  == << sync, radio, pc, shouldStop, report >>

FsmStates  == { "STOPPED", "SEARCHING", "SYNCHRONIZING", "TRACKING", "RECOVERY" }
Following  == { "SYNCHRONIZING", "TRACKING", "RECOVERY" }
Candidates == << "N", "N-1", "N+1" >>
Channels   == { "rendezvous", "N", "N-1", "N+1" }
Timings    == { "ontime", "early", "late", "outside" }

TypeOK ==
  /\ fsm \in FsmStates
  /\ tracker \in Tracker
  /\ anchor \in { "none", "past", "ahead" }
  /\ syncMisses \in Nat
  /\ probe \in 0 .. 2
  /\ chan \in Channels
  /\ pc \in { "loop", "search", "drain", "hop", "listen", "exited", "stopped" }
  /\ shouldStop \in BOOLEAN
  /\ report \in { "none", "ACQUIRED", "LOST", "ERROR" }
  /\ told \in { "nothing", "ACQUIRED", "LOST" }
  /\ run \in 0 .. AcquireCount
  /\ missed \in 0 .. LossCount
  /\ probed \subseteq Channels /\ barred \subseteq Channels

-----------------------------------------------------------------------------
(* fhss_fsm_handle(): an event the state does not name is ignored.         *)

FsmHandle(state, event) ==
  CASE event = "STOP"                                           -> "STOPPED"
    [] state = "STOPPED" /\ event = "START_RX"                  -> "SEARCHING"
    [] state = "STOPPED" /\ event = "START_TX"                  -> "TRANSMITTING"
    [] state = "SEARCHING" /\ event = "FIRST_SYNC"              -> "SYNCHRONIZING"
    [] state = "SYNCHRONIZING" /\ event = "SYNC_ACQUIRED"       -> "TRACKING"
    [] state = "TRACKING" /\ event = "SYNC_DEGRADED"            -> "RECOVERY"
    [] state = "RECOVERY" /\ event = "SYNC_RECOVERED"           -> "TRACKING"
    [] state \in Following /\ event = "SYNC_LOST"               -> "SEARCHING"
    [] OTHER                                                    -> state

AtMost(n, bound) == IF n < bound THEN n ELSE bound

-----------------------------------------------------------------------------
(* A valid SYNC packet: receive_one() has decoded it, generation and hop   *)
(* index agree, and its slot does not precede the reference slot.          *)

\* fhss_sync_controller_process_rx() and _recover_rx(): without a reference, and
\* in RECOVERY, the observed time is its own expectation.
InsideWindow(timing) == anchor = "none" \/ fsm = "RECOVERY" \/ timing # "outside"

\* Faulty: a LOST out of a SYNC outside the window leaves the scheduler running.
AnchorAfterKeepsClock(timing, event) ==
  IF anchor = "none" \/ fsm = "RECOVERY" THEN "past" ELSE anchor

\* The reference after the packet.  A correction is smaller than the error, so
\* the corrected start of a slot heard early has not come yet.
AnchorAfter(timing, event) ==
  IF event = "LOST" THEN "none"
  ELSE IF anchor = "none" \/ fsm = "RECOVERY" THEN "past"
  ELSE CASE timing = "early" -> "ahead"
         [] timing = "late"  -> "past"
         [] OTHER            -> anchor

\* Faulty: the loss is reported to the application but not to the radio FSM.
FsmAfterSyncIgnoresLoss(inside, event) ==
  LET recovered == FsmHandle(fsm, "SYNC_RECOVERED")
      first     == IF inside THEN FsmHandle(recovered, "FIRST_SYNC") ELSE recovered
  IN IF event = "ACQUIRED" THEN FsmHandle(first, "SYNC_ACQUIRED") ELSE first

\* Faulty: a SYNC heard while probing does not end RECOVERY.
FsmAfterSyncStaysInRecovery(inside, event) ==
  LET first == IF inside THEN FsmHandle(fsm, "FIRST_SYNC") ELSE fsm
  IN CASE event = "ACQUIRED" -> FsmHandle(first, "SYNC_ACQUIRED")
       [] event = "LOST"     -> FsmHandle(first, "SYNC_LOST")
       [] OTHER              -> first

\* fhss_fsm_handle() calls of handle_sync_result(), in order.
FsmAfterSync(inside, event) ==
  LET recovered == FsmHandle(fsm, "SYNC_RECOVERED")
      first     == IF inside THEN FsmHandle(recovered, "FIRST_SYNC") ELSE recovered
  IN CASE event = "ACQUIRED" -> FsmHandle(first, "SYNC_ACQUIRED")
       [] event = "LOST"     -> FsmHandle(first, "SYNC_LOST")
       [] OTHER              -> first

\* The controller call of receive_one() and handle_sync_result().
HearSync(timing) ==
  LET inside == InsideWindow(timing)
      event  == IF inside THEN ValidEvent(tracker) ELSE MissEvent(tracker)
  IN /\ tracker' = IF inside THEN OnValid(tracker) ELSE OnMiss(tracker)
     /\ fsm' = FsmAfterSync(inside, event)
     /\ anchor' = AnchorAfter(timing, event)
     /\ syncMisses' = 0
     /\ probe' = 0
     /\ report' = IF event = "NONE" THEN "none" ELSE event
     /\ told' = IF event = "NONE" THEN told ELSE event
     /\ run' = IF inside THEN AtMost(run + 1, AcquireCount) ELSE 0
     /\ missed' = IF inside THEN 0 ELSE AtMost(missed + 1, LossCount)
     /\ UNCHANGED << chan, search, shouldStop >>

\* What a slot of RECOVERY adds to the histories once it is over.
Tried(slot)  == IF fsm = "RECOVERY" THEN probed \cup { slot } ELSE probed
Failed(slot) == IF fsm = "RECOVERY" THEN barred \cup { slot } ELSE barred

(* handle_miss(): the slot passed without a usable packet.  lost, dropped  *)
(* and degraded are the three branches of its last if.                     *)
Miss ==
  LET lost     == Loses(tracker)
      dropped  == ~lost /\ fsm = "SYNCHRONIZING"
      degraded == ~lost /\ fsm = "TRACKING" /\ syncMisses + 1 >= RecoveryEntry
  IN /\ tracker' = OnMiss(tracker)
     /\ fsm' = CASE lost \/ dropped -> FsmHandle(fsm, "SYNC_LOST")
                 [] degraded        -> FsmHandle(fsm, "SYNC_DEGRADED")
                 [] OTHER           -> fsm
     /\ anchor' = IF lost \/ dropped THEN "none"
                  ELSE IF anchor = "ahead" THEN "past"   \* receive_timeout_ms has passed
                  ELSE anchor
     /\ syncMisses' = IF lost \/ dropped THEN 0 ELSE syncMisses + 1
     /\ probe' = IF lost \/ degraded THEN 0 ELSE probe
     /\ probed' = IF degraded THEN {} ELSE Tried(chan)
     /\ barred' = IF degraded THEN {} ELSE barred
     /\ report' = IF lost THEN "LOST" ELSE "none"
     /\ told' = IF lost THEN "LOST" ELSE told
     /\ run' = 0
     /\ missed' = AtMost(missed + 1, LossCount)
     /\ UNCHANGED << chan, shouldStop >>

\* Faulty: the FSM starts over, the tracker does not.
ResetSessionKeepsTracker ==
  /\ fsm' = FsmHandle("STOPPED", "START_RX")
  /\ anchor' = "none"
  /\ syncMisses' = 0
  /\ probe' = 0
  /\ told' = "nothing"
  /\ run' = 0
  /\ missed' = 0
  /\ UNCHANGED tracker

\* reset_controller() and the counters handle_session_end() and
\* fhss_service_set_role() clear beside it, and the START_RX that follows.
ResetSession ==
  /\ tracker' = InitTracker
  /\ fsm' = FsmHandle("STOPPED", "START_RX")
  /\ anchor' = "none"
  /\ syncMisses' = 0
  /\ probe' = 0
  /\ told' = "nothing"
  /\ run' = 0
  /\ missed' = 0

\* handle_session_end(): the peer's END packet; select_channel(0) may fail.
SessionEnd(selected) ==
  /\ fsm # "SEARCHING"            \* data_callback is not called while SEARCHING
  /\ ResetSession
  /\ chan' = IF selected THEN "rendezvous" ELSE chan
  /\ report' = IF selected THEN "none" ELSE "ERROR"
  /\ UNCHANGED << search, shouldStop >>

-----------------------------------------------------------------------------
(* rx_task().  Running is the check at the head of the loop.               *)

\* Faulty: the loop does not look at should_stop.
RunningAlways == pc = "loop"

Running == pc = "loop" /\ ~shouldStop

ExitLoop ==
  /\ pc = "loop" /\ shouldStop
  /\ pc' = "exited"
  /\ report' = "none"
  /\ UNCHANGED << sync, radio, shouldStop >>

\* SEARCHING: tune to slot 0's channel, the rendezvous.
SelectRendezvous ==
  /\ Running /\ fsm = "SEARCHING"
  /\ \/ chan' = "rendezvous" /\ pc' = "search" /\ report' = "none"
     \/ UNCHANGED << chan, pc >> /\ report' = "ERROR"
  /\ UNCHANGED << sync, probe, search, shouldStop >>

\* Only a SYNC matters here: timeouts and errors are not counted.
SearchReceive ==
  /\ pc = "search"
  /\ pc' = "loop"
  /\ \/ \E timing \in Timings : HearSync(timing)
     \/ report' = "none" /\ UNCHANGED << sync, radio, shouldStop >>

\* fhss_slot_scheduler_get_next_switch_time() fails: there is no reference, or
\* the clock has not reached it.
LoseReference ==
  /\ Running /\ fsm # "SEARCHING"
  /\ anchor \in { "none", "ahead" }
  /\ fsm' = FsmHandle(fsm, "SYNC_LOST")
  /\ anchor' = "none"
  /\ report' = "none"
  /\ UNCHANGED << tracker, syncMisses, told, run, missed, radio, pc, shouldStop >>

\* It succeeds: the reference is in the past and the switch time is known.
PlanNextSlot ==
  /\ Running /\ fsm # "SEARCHING"
  /\ anchor # "none"
  /\ anchor' = "past"
  /\ pc' = "drain"
  /\ report' = "none"
  /\ UNCHANGED << fsm, tracker, syncMisses, told, run, missed, radio, shouldStop >>

\* drain_rx_data_until(): DATA, timeouts and CRC failures keep the loop going
\* and change nothing here; a SYNC is taken, END leaves the loop.
DrainReceive ==
  /\ pc = "drain"
  /\ \/ \E timing \in Timings : HearSync(timing) /\ UNCHANGED pc
     \/ SessionEnd(TRUE) /\ pc' = "loop"
     \/ SessionEnd(FALSE) /\ pc' = "hop"

\* The switch time comes, or an error makes the drain stop early.
DrainEnds ==
  /\ pc = "drain"
  /\ pc' = "hop"
  /\ report' = "none"
  /\ UNCHANGED << sync, radio, shouldStop >>

\* Faulty: every probe listens on the expected slot's channel.
NextProbeStuck == probe

\* get_recovery_probe_slot() steps through the offsets 0, -1 and +1.
NextProbe == IF fsm = "RECOVERY" THEN (probe + 1) % 3 ELSE probe

\* get_recovery_probe_slot() and select_channel(); next_slot was computed before
\* the drain, the state is read after it.  A channel that cannot be selected
\* uses the candidate up.
Hop ==
  LET target == IF fsm = "RECOVERY" THEN Candidates[probe + 1] ELSE "N"
  IN /\ pc = "hop"
     /\ probe' = NextProbe
     /\ \/ chan' = target /\ pc' = "listen" /\ report' = "none" /\ UNCHANGED barred
        \/ chan' = chan /\ pc' = "loop" /\ report' = "ERROR" /\ barred' = Failed(target)
     /\ UNCHANGED << sync, probed, shouldStop >>

\* The slot's SYNC is expected.  DATA does not advance the miss counter and a
\* radio failure is only reported; an invalid SYNC is a miss once locked on.
SlotReceive ==
  /\ pc = "listen"
  /\ pc' = "loop"
  /\ \/ \E timing \in Timings : HearSync(timing)
     \/ \E selected \in BOOLEAN : SessionEnd(selected)
     \/ /\ report' = "none" /\ probed' = Tried(chan)
        /\ UNCHANGED << sync, chan, probe, barred, shouldStop >>
     \/ /\ report' = "ERROR" /\ barred' = Failed(chan)
        /\ UNCHANGED << sync, chan, probe, probed, shouldStop >>

SlotTimeout == pc = "listen" /\ pc' = "loop" /\ Miss

\* handle_invalid_sync()
SlotInvalidSync ==
  /\ pc = "listen"
  /\ pc' = "loop"
  /\ fsm \in { "TRACKING", "RECOVERY" }
  /\ Miss

-----------------------------------------------------------------------------
(* The owner's calls: fhss_service_pause() and fhss_service_set_role(RX).  *)

RequestStop ==
  /\ ~shouldStop /\ pc \notin { "exited", "stopped" }
  /\ shouldStop' = TRUE
  /\ report' = "none"
  /\ UNCHANGED << sync, radio, pc >>

\* fhss_service_pause() once the task is gone; the controller is left as it is.
Pause ==
  /\ pc = "exited" /\ pc' = "stopped"
  /\ shouldStop' = FALSE
  /\ fsm' = FsmHandle(fsm, "STOP")
  /\ report' = "none"
  /\ UNCHANGED << tracker, anchor, syncMisses, told, run, missed, radio >>

\* fhss_service_set_role(RX) without a task: recover the radio, reset, start.
SetRole ==
  /\ pc \in { "exited", "stopped" }
  /\ shouldStop' = FALSE
  /\ report' = "none"
  /\ UNCHANGED << chan, search >>
  /\ \/ ResetSession /\ pc' = "loop"
     \/ pc' = "stopped" /\ UNCHANGED << sync, probe >>   \* the radio does not recover

Init ==
  /\ fsm = "SEARCHING"
  /\ tracker = InitTracker
  /\ anchor = "none"
  /\ syncMisses = 0
  /\ probe = 0
  /\ chan = "rendezvous"
  /\ pc = "loop"
  /\ shouldStop = FALSE
  /\ report = "none"
  /\ told = "nothing"
  /\ run = 0
  /\ missed = 0
  /\ probed = {} /\ barred = {}

Task ==
  \/ ExitLoop
  \/ SelectRendezvous
  \/ SearchReceive
  \/ LoseReference
  \/ PlanNextSlot
  \/ DrainReceive
  \/ DrainEnds
  \/ Hop
  \/ SlotReceive
  \/ SlotTimeout
  \/ SlotInvalidSync

Next == Task \/ RequestStop \/ Pause \/ SetRole

\* rx_task() is a FreeRTOS task above the priority of its clients, each of its
\* blocking calls has a timeout, and the drain ends at the switch time whatever
\* is received before it.
Fairness ==
  /\ WF_vars(ExitLoop)
  /\ WF_vars(SelectRendezvous)
  /\ WF_vars(SearchReceive)
  /\ WF_vars(LoseReference \/ PlanNextSlot)
  /\ WF_vars(DrainEnds)
  /\ WF_vars(Hop)
  /\ WF_vars(SlotReceive \/ SlotTimeout)

Spec     == Init /\ [][Next]_vars
FairSpec == Spec /\ Fairness

-----------------------------------------------------------------------------
(* Safety.                                                                 *)

\* The scheduler has a reference exactly while the service follows a peer: no
\* handler may leave a hopping state with the clock it hops by, or keep hopping
\* without one (handle_sync_result, handle_miss, the failed lookup of rx_task).
FollowingIsAnchored == fsm # "STOPPED" => (fsm \in Following <=> anchor # "none")

\* The radio FSM and the tracker are advanced by separate calls; TRACKING and
\* RECOVERY are never shown over a tracker that has already lost its lock.
TrackingIsLocked == fsm \in { "TRACKING", "RECOVERY" } => tracker.state = "LOCKED"

\* The service counts misses beside the tracker.  Its count never runs ahead, so
\* RECOVERY is entered before the tracker's budget is used up by timeouts, it is
\* entered as soon as it is due, and it holds only while it is due.
MissBudget ==
  /\ fsm \in { "TRACKING", "RECOVERY" } => syncMisses <= tracker.misses
  /\ fsm = "TRACKING" => syncMisses < RecoveryEntry
  /\ fsm = "RECOVERY" => syncMisses >= RecoveryEntry

\* What the application was told last is what the tracker holds: every lock and
\* every loss is reported once, and an END or a new role takes both back together.
ToldMatchesLock == told = "ACQUIRED" <=> tracker.state = "LOCKED"

\* SYNC_ACQUIRED is reported only after AcquireCount valid SYNCs in a row: a miss
\* or a SYNC outside the window between them starts the count again.
AcquisitionNeedsRun == [][report' = "ACQUIRED" => run' = AcquireCount]_vars

\* SYNC_LOST is reported only to an application that holds a lock, after LossCount
\* misses with no valid SYNC between them; never because a session ended.
LossNeedsMisses ==
  [][report' = "LOST" => missed' = LossCount /\ told = "ACQUIRED"]_vars

\* When RECOVERY ends in SYNC_LOST and timeouts alone led there, the receiver
\* has listened for each of the candidates N, N-1 and N+1 the miss budget leaves
\* room for, through a whole slot; it has left one out only when the radio failed
\* in a slot that was its own (get_recovery_probe_slot, select_channel).
CandidatesTriedBeforeLoss ==
  [][ report' = "LOST" /\ fsm = "RECOVERY" /\ syncMisses = tracker.misses
        => \A i \in 1 .. AtMost(LossCount - RecoveryEntry, 3) :
             Candidates[i] \in probed' \cup barred' ]_vars

(* Liveness.                                                               *)

\* pause() and set_role() poll for the end of the task: once should_stop is set
\* the task leaves its loop, whatever it was receiving.
StopHonoured == shouldStop ~> pc \in { "exited", "stopped" }
=============================================================================
