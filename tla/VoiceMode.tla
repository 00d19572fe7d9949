------------------------------ MODULE VoiceMode ------------------------------
(***************************************************************************)
(* One device in voice mode: the talk button, the event queue, the product *)
(* state machine with its entry actions, the capture and playback tasks    *)
(* and the role of the hopping service.  A step of a task ends where it    *)
(* touches what another task uses:                                         *)
(*                                                                         *)
(*   ptt            posts an event for every edge of the button            *)
(*   fsm_task       takes one event, then runs the entry action of the new *)
(*                  state to its end, blocking (main/fsm.c)                *)
(*   tx_audio_task  captures frames until told to stop                     *)
(*   rx_audio_task  plays what was received, ends after a second of        *)
(*                  silence                                                *)
(*   fhss_service   as receiver: hands frames, END and the loss of         *)
(*                  synchronization up (its detail is FhssReceiver.tla);   *)
(*                  as transmitter: may fail, and may end for it (the      *)
(*                  packets it sends are the subject of Talkspurt.tla)     *)
(*                                                                         *)
(* The stop flags of the service and of the two audio tasks are TRUE       *)
(* exactly while fsm_task polls for the task to end: the step of fsm_task  *)
(* stands for them.                                                        *)
(***************************************************************************)
EXTENDS Naturals, Sequences, ProductFsm

CONSTANTS
  EventDepth,       \* places of s_event_queue
  RxDepth,          \* places of s_rx_audio_queue
  Faults            \* whether the radio and the creation of a task may fail

ASSUME EventDepthAssumption == EventDepth \in Nat \ {0}
ASSUME RxDepthAssumption == RxDepth \in Nat \ {0}
ASSUME FaultsAssumption == Faults \in BOOLEAN

VARIABLES
  state, events,    \* s_state, s_event_queue
  fsm,              \* the step of fsm_task: ready, or inside an entry action
  pressed,          \* the talk button
  capture,          \* s_tx_audio_task exists
  player,           \* s_rx_audio_task exists
  expired,          \* a playback task gave its handle up and has RX_DONE to post
  rxq,              \* frames in s_rx_audio_queue
  active,           \* tx_active of the adapter
  role, task,       \* config.role, where the service task is
  lost,             \* history: events a full queue dropped and somebody awaits
  refused           \* history: a role change failed since the last return to RX

fsmVars == << state, fsm >>
queues == << events, lost >>
audioVars == << capture, player, expired, rxq >>
serviceVars == << role, task, refused >>
vars == << fsmVars, queues, pressed, audioVars, active, serviceVars >>

VoiceStates == { "BOOT_INIT", "MENU_COMM", "TX_AUDIO", "RX_AUDIO", "ERROR" }
VoiceEvents == { "PTT_PRESS", "PTT_RELEASE", "RX_FRAME", "RX_DONE", "SYNC_LOST",
                 "ERROR", "RETRY", "INIT_DONE" }
EntrySteps == { "beep", "begin_tx", "to_tx", "start_capture", "start_player",
                "stop_capture", "end_tx", "to_rx", "stop_player", "rearm" }

\* The events whose loss leaves somebody waiting.
Awaited == { "PTT_RELEASE", "RX_DONE", "ERROR", "INIT_DONE" }

TypeOK ==
  /\ state \in VoiceStates
  /\ events \in Seq(VoiceEvents) /\ Len(events) <= EventDepth
  /\ fsm \in EntrySteps \cup { "ready" }
  /\ pressed \in BOOLEAN
  /\ capture \in BOOLEAN /\ player \in BOOLEAN /\ expired \in BOOLEAN
  /\ rxq \in 0..RxDepth
  /\ active \in BOOLEAN
  /\ role \in { "TX", "RX" } /\ task \in { "none", "head", "slot" }
  /\ lost \subseteq Awaited /\ refused \in BOOLEAN

----------------------------------------------------------------------------
(* What the tasks call. *)

Outcome == IF Faults THEN BOOLEAN ELSE { TRUE }

\* fsm_post_event, from any task: a full queue drops the event, unseen.  What
\* is settled by the call is waited for no longer.
PostSettling(e, settled) ==
  IF Len(events) < EventDepth
  THEN events' = Append(events, e) /\ lost' = lost \ settled
  ELSE events' = events /\ lost' = (lost \ settled) \cup ({ e } \cap Awaited)
Post(e) == PostSettling(e, {})

\* The first step of the entry action of a state.
FirstStep(s) ==
  CASE s \in { "MENU_COMM", "ERROR" } -> "stop_capture"
    [] s = "TX_AUDIO" -> "beep"
    [] s = "RX_AUDIO" -> "start_player"
    [] OTHER -> "rearm"

\* Faulty: tx_task never looks at should_stop.
StopAskedOfReceiver == fsm = "to_tx" /\ role = "RX"

\* fhss_service_set_role asked a running task of the other role to stop.
StopAsked == (fsm = "to_tx" /\ role = "RX") \/ (fsm = "to_rx" /\ role = "TX")

\* How the recovery of the radio and the creation of the task may end.
Results == IF Faults THEN { "ok", "radio", "memory" } ELSE { "ok" }

\* fhss_service_set_role: nothing to do for a live task of that role, otherwise
\* the old task is waited for, the radio recovered and a task created.
SetRole(r, result) ==
  IF role = r /\ task # "none"
  THEN result = "ok" /\ UNCHANGED serviceVars
  ELSE /\ task = "none"
       /\ role' = IF result = "radio" THEN role ELSE r
       /\ task' = IF result = "ok" THEN "head" ELSE "none"
       /\ refused' = IF result = "ok" THEN r = "TX" /\ refused ELSE TRUE

----------------------------------------------------------------------------
(* The talk button and the click on the rotary encoder. *)

outside == << fsmVars, audioVars, active, serviceVars >>

\* A new press takes an earlier lost release along: its own release ends the
\* transmission.
Press ==
  /\ ~pressed
  /\ pressed' = TRUE
  /\ PostSettling("PTT_PRESS", { "PTT_RELEASE" })
  /\ UNCHANGED outside

\* Faulty: an edge is reported only in the state that waits for it.
ReleaseIfTransmitting ==
  /\ pressed
  /\ pressed' = FALSE
  /\ IF state = "TX_AUDIO" THEN Post("PTT_RELEASE") ELSE UNCHANGED queues
  /\ UNCHANGED outside

Release ==
  /\ pressed
  /\ pressed' = FALSE
  /\ Post("PTT_RELEASE")
  /\ UNCHANGED outside

ClickRetry ==
  /\ state = "ERROR"
  /\ Post("RETRY")
  /\ UNCHANGED << outside, pressed >>

----------------------------------------------------------------------------
(* fsm_task: one event, then every step of the entry action. *)

Dispatch ==
  /\ fsm = "ready" /\ events # << >>
  /\ events' = Tail(events)
  /\ state' = Destination(state, Head(events))
  /\ fsm' = IF state' = state THEN "ready" ELSE FirstStep(state')
  /\ UNCHANGED << pressed, lost, audioVars, active, serviceVars >>

\* on_enter_tx_audio.
Beep ==
  /\ fsm = "beep"
  /\ fsm' = "begin_tx"
  /\ UNCHANGED << state, queues, pressed, audioVars, active, serviceVars >>

BeginTx ==
  /\ fsm = "begin_tx"
  /\ IF active
     THEN fsm' = "ready" /\ Post("ERROR")
     ELSE fsm' = "to_tx" /\ UNCHANGED queues
  /\ UNCHANGED << state, pressed, audioVars, active, serviceVars >>

ToTx ==
  /\ fsm = "to_tx"
  /\ \E result \in Results :
       /\ SetRole("TX", result)
       /\ active' = (result = "ok")
       /\ IF result = "ok"
          THEN fsm' = "start_capture" /\ lost' = lost \ { "ERROR" } /\ UNCHANGED events
          ELSE fsm' = "ready" /\ Post("ERROR")
  /\ UNCHANGED << state, pressed, audioVars >>

StartCapture ==
  /\ fsm = "start_capture"
  /\ capture' \in Outcome      \* the code does not look at the result
  /\ fsm' = "ready"
  /\ UNCHANGED << state, queues, pressed, player, expired, rxq, active, serviceVars >>

\* on_enter_rx_audio.
StartPlayer ==
  /\ fsm = "start_player"
  /\ player' \in Outcome
  /\ IF player'
     THEN lost' = lost \ { "RX_DONE" } /\ UNCHANGED events
     ELSE Post("ERROR")
  /\ fsm' = "ready"
  /\ UNCHANGED << state, pressed, capture, expired, rxq, active, serviceVars >>

\* on_enter_boot_init after an error.
Rearm ==
  /\ fsm = "rearm"
  /\ PostSettling("INIT_DONE", { "INIT_DONE" })
  /\ fsm' = "ready"
  /\ UNCHANGED << state, pressed, audioVars, active, serviceVars >>

\* Faulty: raises the stop flag without waiting for the task.
StopCaptureLater ==
  /\ fsm = "stop_capture"
  /\ fsm' = "end_tx"
  /\ UNCHANGED << state, queues, pressed, audioVars, active, serviceVars >>

\* on_enter_menu_comm and on_enter_error: stop_tx_audio_task,
\* fhss_audio_adapter_end_tx, stop_rx_audio_task.
StopCapture ==
  /\ fsm = "stop_capture" /\ ~capture
  /\ fsm' = "end_tx"
  /\ UNCHANGED << state, queues, pressed, audioVars, active, serviceVars >>

\* Faulty: returns early when the transmitter has ended for an error.
EndTxOfLiveTask ==
  /\ fsm = "end_tx"
  /\ fsm' = IF active /\ task # "none" THEN "to_rx" ELSE "stop_player"
  /\ UNCHANGED << state, queues, pressed, audioVars, active, serviceVars >>

\* Flushing and draining take up to 600 ms; Talkspurt.tla has their steps.
EndTx ==
  /\ fsm = "end_tx"
  /\ fsm' = IF active THEN "to_rx" ELSE "stop_player"
  /\ UNCHANGED << state, queues, pressed, audioVars, active, serviceVars >>

ToRx ==
  /\ fsm = "to_rx"
  /\ \E result \in Results : SetRole("RX", result)
  /\ active' = FALSE
  /\ fsm' = "stop_player"
  /\ UNCHANGED << state, queues, pressed, audioVars >>

StopPlayer ==
  /\ fsm = "stop_player" /\ ~player
  /\ fsm' = "ready"
  /\ rxq' = IF state = "MENU_COMM" THEN 0 ELSE rxq    \* xQueueReset
  /\ UNCHANGED << state, queues, pressed, capture, player, expired, active, serviceVars >>

FsmStep ==
  \/ Dispatch \/ Beep \/ BeginTx \/ ToTx \/ StartCapture \/ StartPlayer
  \/ Rearm \/ StopCapture \/ EndTx \/ ToRx \/ StopPlayer

----------------------------------------------------------------------------
(* tx_audio_task and rx_audio_task. *)

CaptureStops ==
  /\ capture /\ fsm = "stop_capture"
  /\ capture' = FALSE
  /\ UNCHANGED << fsmVars, queues, pressed, player, expired, rxq, active, serviceVars >>

\* One frame out of the queue; a turn of silence changes nothing.
Play ==
  /\ player /\ rxq > 0
  /\ rxq' = rxq - 1
  /\ UNCHANGED << fsmVars, queues, pressed, capture, player, expired, active, serviceVars >>

PlayerStops ==
  /\ player /\ fsm = "stop_player"
  /\ player' = FALSE
  /\ UNCHANGED << fsmVars, queues, pressed, capture, expired, rxq, active, serviceVars >>

\* A second of silence: the handle is given up first, then RX_DONE is posted
\* unless the stop flag is seen.
PlayerExpires ==
  /\ player /\ rxq = 0
  /\ player' = FALSE
  /\ \E posts \in BOOLEAN :
       /\ fsm # "stop_player" => posts
       /\ expired' = (expired \/ posts)
  /\ UNCHANGED << fsmVars, queues, pressed, capture, rxq, active, serviceVars >>

ReportDone ==
  /\ expired
  /\ expired' = FALSE
  /\ Post("RX_DONE")
  /\ UNCHANGED << fsmVars, pressed, capture, player, rxq, active, serviceVars >>

PlayerStep == Play \/ PlayerStops \/ PlayerExpires

----------------------------------------------------------------------------
(* fhss_service. *)

besideService == << fsmVars, pressed, capture, player, expired, active, role, refused >>

\* The head of both loops is where should_stop is seen.
TaskHead ==
  /\ task = "head"
  /\ task' = IF StopAsked THEN "none" ELSE "slot"
  /\ UNCHANGED << besideService, queues, rxq >>

SlotOver ==
  /\ task = "slot"
  /\ task' = "head"
  /\ UNCHANGED << besideService, queues, rxq >>

\* A packet or a hop failed and the task goes on, or, as transmitter, the SYNC
\* failed and the task ends.
SlotFails ==
  /\ Faults /\ task = "slot"
  /\ \/ task' = "head"
     \/ role = "TX" /\ task' = "none"
  /\ Post("ERROR")
  /\ UNCHANGED << besideService, rxq >>

\* fsm_post_rx_audio_frame, on the stack of rx_task.
HearFrame ==
  /\ role = "RX" /\ task = "slot" /\ rxq < RxDepth
  /\ rxq' = rxq + 1
  /\ Post("RX_FRAME")
  /\ UNCHANGED << besideService, task >>

\* on_fhss_audio_event: the peer's END, or the synchronization is lost.
HearEvent ==
  /\ role = "RX" /\ task = "slot"
  /\ \E e \in { "RX_DONE", "SYNC_LOST" } : Post(e)
  /\ UNCHANGED << besideService, task, rxq >>

ServiceStep == TaskHead \/ SlotOver \/ SlotFails

----------------------------------------------------------------------------
Init ==
  /\ state = "MENU_COMM" /\ events = << >> /\ fsm = "ready"
  /\ pressed = FALSE
  /\ capture = FALSE /\ player = FALSE /\ expired = FALSE /\ rxq = 0
  /\ active = FALSE
  /\ role = "RX" /\ task = "head"
  /\ lost = {} /\ refused = FALSE

Outside == Press \/ Release \/ ClickRetry \/ HearFrame \/ HearEvent

Next == FsmStep \/ CaptureStops \/ PlayerStep \/ ReportDone \/ ServiceStep \/ Outside

\* Every task runs when it can: the scheduler is preemptive with time slices
\* and every wait in the loops has a timeout.  Nothing is assumed of the button,
\* of the user or of the peer.
Fairness ==
  /\ WF_vars(FsmStep) /\ WF_vars(CaptureStops) /\ WF_vars(PlayerStops)
  /\ WF_vars(PlayerExpires) /\ WF_vars(ReportDone) /\ WF_vars(ServiceStep)

Spec == Init /\ [][Next]_vars /\ Fairness

----------------------------------------------------------------------------
(* Properties. *)

Queued(e) == \E i \in 1..Len(events) : events[i] = e
Coming(e) == Queued(e) \/ e \in lost

\* PTT_RELEASE is the only row of s_transitions that leaves TX_AUDIO at the end
\* of a talkspurt, and on_ptt_event posts it once.
ReleaseComes ==
  state = "TX_AUDIO" /\ ~pressed => Coming("PTT_RELEASE")

\* tx_task ends for good on a failed SYNC and begin_tx may be refused: TX_AUDIO
\* over a service without a task is followed by the ERROR that says so.
FailureComes ==
  state = "TX_AUDIO" /\ fsm = "ready" /\ task = "none" => Coming("ERROR")

\* RX_AUDIO is left by RX_DONE: the playback task lives, has yet to report, or
\* its report or the error of its creation is on its way.
DoneComes ==
  state = "RX_AUDIO" /\ fsm = "ready" =>
    player \/ expired \/ Coming("RX_DONE") \/ Coming("ERROR")

\* Recovery leaves BOOT_INIT by INIT_DONE, which fsm_task posts to itself.
InitDoneComes ==
  state = "BOOT_INIT" /\ fsm = "ready" => Coming("INIT_DONE")

\* The state machine moves by events alone and fsm_post_event drops what does
\* not fit: in each state that only an event ends, that event is on its way or
\* the queue was full when it was posted.
AwaitedEventComes == ReleaseComes /\ FailureComes /\ DoneComes /\ InitDoneComes

\* The microphone and the loudspeaker share the I2S clocks and the radio is
\* half duplex: capture runs only over an open transmit session and never
\* beside playback (the stop loops of on_enter_menu_comm and on_enter_error).
HalfDuplex ==
  capture => active /\ role = "TX" /\ ~player

\* When the entry action of MENU_COMM or ERROR is over the service listens,
\* unless a role change failed: end_tx does nothing when begin_tx did not get
\* as far as tx_active (fhss_service_set_role, fhss_audio_adapter_end_tx).
ListensUnlessRefused ==
  state \in { "MENU_COMM", "ERROR", "RX_AUDIO" } /\ fsm \in { "ready", "start_player" }
    => refused \/ (role = "RX" /\ task # "none")

\* Letting the button go brings the device back to listening, unless it is
\* pressed again, the release was dropped or the radio refused: no loop that
\* waits for a task to give its handle up waits for one that waits for fsm_task
\* (stop_tx_audio_task, fhss_service_set_role).
ReleaseReturnsToReception ==
  state = "TX_AUDIO" /\ ~pressed ~>
    \/ (role = "RX" /\ task # "none")
    \/ pressed \/ "PTT_RELEASE" \in lost \/ refused

=============================================================================
