------------------------------- MODULE OtaMode -------------------------------
(***************************************************************************)
(* Who owns the one CC1101 while the device is provisioned for an update.  *)
(* Four tasks share the radio, two flags of the audio adapter and the      *)
(* hopping configuration kept in flash:                                    *)
(*                                                                         *)
(*   fsm_task         runs the product state machine; its entry actions    *)
(*                    stop and start the OTA radio task (main/fsm.c)       *)
(*   ota_radio_task   listens on fixed channel 0, or empties the queue the *)
(*                    hopping service fills (main/fsm.c)                   *)
(*   ota_consumer     answers FHSS_CONFIG, FHSS_ACTIVATE, START, DATA, END *)
(*   fhss_service     the receiver of FhssReceiver.tla, here only running  *)
(*                    or not and synchronized or not; its SYNC_ACQUIRED    *)
(*                    callback promotes the pending configuration          *)
(*                                                                         *)
(* A packet is its kind and the generation it names; the bytes of an image *)
(* are the subject of OtaClient.tla.  A step of a task runs up to the next *)
(* point where another task can change what it uses: the radio mutex, the  *)
(* event queue, the flags ota_active and ota_fhss_active, the flash.       *)
(***************************************************************************)
EXTENDS Naturals, Sequences, ProductFsm

CONSTANTS
  Generations,      \* generations a gateway provisions, none of them 0
  Bootstrap,        \* kinds of packet the gateway sends on channel 0
  Hopping,          \* kinds of packet it sends while hopping
  Clicks,           \* menu entries the user confirms on the rotary encoder
  Faults,           \* whether SPI transactions with the radio may fail
  EventBound        \* events queued at most when the outside world acts

Kinds == { "CONFIG", "ACTIVATE", "START", "DATA", "END" }

ASSUME GenerationsAssumption == 0 \notin Generations
ASSUME KindsAssumption == Bootstrap \subseteq Kinds /\ Hopping \subseteq Kinds
ASSUME ClicksAssumption ==
  Clicks \subseteq { "MENU_SELECT_COMM", "MENU_SELECT_IDLE", "MENU_SELECT_OTA" }
ASSUME FaultsAssumption == Faults \in BOOLEAN
ASSUME EventBoundAssumption == EventBound \in Nat \ {0}

None == 0            \* an empty flash key, or the factory configuration

VARIABLES
  state,      \* s_state
  events,     \* s_event_queue
  fsm,        \* where fsm_task is: waiting for an event or in an entry action
  timers,     \* the armed timers: SYNC timeout, resync grace
  otaTask,    \* where ota_radio_task is
  mutex,      \* the task holding radio_mutex
  ota_active, ota_fhss_active,   \* flags of the adapter
  ram,        \* generation of service.config
  controller, \* generation the sync controller was last built from
  service,    \* where the service task is
  synced,     \* the service holds synchronization
  candidate,  \* generation the SYNC_ACQUIRED callback is promoting
  pending, active,   \* the two keys in flash
  inbox,      \* the consumer's packet queue
  cons, pkt, answer, \* where the consumer is, its packet and its response
  client,     \* state of the OTA client
  acked,      \* history: the generation acknowledged since pending was written
  overtaken,  \* history: a promotion erased what was saved while it ran
  stale       \* history: a session was aborted before its OTA_START was taken,
              \* and neither the event nor the screen it leads to is gone yet

fsmVars == << state, events, fsm, timers >>
adapterVars == << ota_active, ota_fhss_active, ram >>
serviceVars == << controller, service, synced, candidate >>
handlerVars == << cons, pkt, answer >>
consVars == << inbox, handlerVars >>
flash == << pending, active >>
promises == << acked, overtaken >>
history == << promises, stale >>
vars == << fsmVars, otaTask, mutex, adapterVars, serviceVars, flash, consVars,
           client, history >>

NoPacket == [kind |-> "NONE", generation |-> None]
Provisions == { "CONFIG", "ACTIVATE" }
Packets == [kind : Provisions, generation : Generations] \cup
           [kind : Kinds \ Provisions, generation : { None }]
Stored == Generations \cup { None }

TypeOK ==
  /\ state \in States
  /\ events \in Seq(Events)
  /\ fsm \in { "ready", "stop", "end", "begin", "pause", "restore" }
  /\ timers \subseteq { "sync", "resync" }
  /\ otaTask \in { "none", "loop", "want", "receive" }
  /\ mutex \in { "free", "fsm", "ota_radio", "consumer" }
  /\ ota_active \in BOOLEAN /\ ota_fhss_active \in BOOLEAN
  /\ ram \in Stored /\ controller \in Stored /\ candidate \in Stored
  /\ service \in { "stopped", "running", "promote", "erase" }
  /\ synced \in BOOLEAN
  /\ pending \in Stored /\ active \in Stored
  /\ inbox \in Packets \cup { NoPacket } /\ pkt \in Packets \cup { NoPacket }
  /\ cons \in { "idle", "handle", "verify", "report", "late_report", "reply",
                "lock", "send", "activate", "switch" }
  /\ answer \in { "NONE", "ACK", "NACK" }
  /\ client \in { "IDLE", "RECEIVING", "VERIFYING", "READY_TO_REBOOT", "ERROR" }
  /\ acked \in Stored /\ overtaken \in BOOLEAN /\ stale \in BOOLEAN

----------------------------------------------------------------------------
(* What the tasks call. *)

Outcome == IF Faults THEN BOOLEAN ELSE { TRUE }

\* fsm_post_event, from any task.
Post(e) == events' = Append(events, e)

\* The outside world acts only while the queue is short.
Quiet == Len(events) < EventBound

\* Faulty: a receiver is taken to be alive because its role is the one asked.
RoleIsRx(g, ok) == ok /\ UNCHANGED serviceVars

\* fhss_service_set_role(RX) under the generation g.  A live receiver is left
\* as it is; otherwise the radio is recovered, the controller rebuilt, the
\* task started.
SetRoleRx(g, ok) ==
  IF service # "stopped"
  THEN ok /\ UNCHANGED serviceVars
  ELSE /\ service' = IF ok THEN "running" ELSE "stopped"
       /\ controller' = IF ok THEN g ELSE controller
       /\ UNCHANGED << synced, candidate >>

----------------------------------------------------------------------------
(* fsm_task. *)

\* Faulty: the SYNC timeout is never armed.
NeverArmed(next) == {}

\* Faulty: a timer is armed for every state.
ArmedForAll(next) == timers \cup { next }

\* What fsm_transition_to does with the timers: those of the state left are
\* stopped, the SYNC timeout is armed on entry to OTA_FHSS_SYNCING.
TimersAfter(next) ==
  LET stopped == CASE state = "OTA_FHSS_SYNCING" -> { "sync" }
                   [] state = "OTA_RECEIVING" -> { "resync" }
                   [] OTHER -> {}
      armed == IF next = "OTA_FHSS_SYNCING" THEN { "sync" } ELSE {}
  IN  (timers \ stopped) \cup armed

\* Faulty: ERROR leaves the OTA radio running.
OnlyMenusStopRadio(next) == next \in Menus

\* on_enter_*: the states whose entry action stops the OTA radio.
EntryStopsRadio(next) == next \in Menus \cup { "ERROR" }

\* ota_client_abort, when due: only a session under way or a failed one.
Abort(due) ==
  IF due /\ client \in { "RECEIVING", "ERROR" }
  THEN client' = "IDLE" /\ inbox' = NoPacket
  ELSE UNCHANGED << client, inbox >>

SessionScreens == { "OTA_RECEIVING", "OTA_APPLYING" }
Waits(queue) == \E i \in 1 .. Len(queue) : queue[i] = "OTA_START"

\* After a step of fsm_task that may take an OTA_START or abort a session.
Outdate ==
  stale' = /\ stale \/ client' # client
           /\ Waits(events') \/ state' \in SessionScreens

\* An event that leads to another state.
Transition ==
  /\ fsm = "ready" /\ events # << >>
  /\ LET e == Head(events)
         next == Destination(state, e)
     IN  /\ next # state
         /\ state' = next
         /\ timers' = TimersAfter(next)
         /\ events' = IF next = "BOOT_INIT"
                      THEN Append(Tail(events), "INIT_DONE")
                      ELSE Tail(events)
         /\ fsm' = IF EntryStopsRadio(next) THEN "stop" ELSE "ready"
         /\ Abort(e = "OTA_FHSS_RESYNC_TIMEOUT")
  /\ Outdate
  /\ UNCHANGED << otaTask, mutex, adapterVars, serviceVars, flash, handlerVars,
                  promises >>

\* An event that keeps the state: in OTA_RECEIVING, lost synchronization arms
\* the resync grace and synchronization regained stops it.
Stay ==
  /\ fsm = "ready" /\ events # << >>
  /\ Destination(state, Head(events)) = state
  /\ events' = Tail(events)
  /\ timers' = CASE state = "OTA_RECEIVING" /\ Head(events) = "SYNC_LOST" ->
                      timers \cup { "resync" }
                 [] state = "OTA_RECEIVING" /\ Head(events) = "SYNC_ACQUIRED" ->
                      timers \ { "resync" }
                 [] OTHER -> timers
  /\ UNCHANGED << state, fsm, otaTask, mutex, adapterVars, serviceVars, flash,
                  consVars, client, promises >>
  /\ Outdate

\* Faulty: stop_ota_radio raises the flag and does not wait.
DoNotWait ==
  /\ fsm = "stop"
  /\ fsm' = CASE ota_active -> "end"
              [] ~ ota_active /\ state = "MENU_OTA" -> "begin"
              [] ~ ota_active /\ state # "MENU_OTA" -> "ready"
  /\ Abort(state = "ERROR" /\ ~ ota_active)
  /\ UNCHANGED << state, events, timers, otaTask, mutex, adapterVars,
                  serviceVars, flash, handlerVars, promises >>
  /\ Outdate

\* stop_ota_radio has seen the radio task gone; end_ota returns at once when
\* the adapter is not in OTA mode.
RadioTaskGone ==
  /\ fsm = "stop" /\ otaTask = "none"
  /\ fsm' = CASE ota_active -> "end"
              [] ~ ota_active /\ state = "MENU_OTA" -> "begin"
              [] ~ ota_active /\ state # "MENU_OTA" -> "ready"
  /\ Abort(state = "ERROR" /\ ~ ota_active)
  /\ UNCHANGED << state, events, timers, otaTask, mutex, adapterVars,
                  serviceVars, flash, handlerVars, promises >>
  /\ Outdate

\* fhss_audio_adapter_end_ota, and the rest of the entry action: ERROR aborts
\* the session, MENU_OTA goes on to start the radio task anew.
EndOta(ok) ==
  /\ fsm = "end" /\ mutex = "free"
  /\ ota_active' = FALSE /\ ota_fhss_active' = FALSE
  /\ SetRoleRx(ram, ok)
  /\ fsm' = IF state = "MENU_OTA" THEN "begin" ELSE "ready"
  /\ Abort(state = "ERROR")
  /\ UNCHANGED << state, events, timers, otaTask, mutex, ram, flash,
                  handlerVars, promises >>
  /\ Outdate

\* fhss_audio_adapter_begin_ota takes the mutex and asks the service to stop.
BeginOta ==
  /\ fsm = "begin" /\ mutex = "free"
  /\ mutex' = "fsm" /\ fsm' = "pause"
  /\ UNCHANGED << state, events, timers, otaTask, adapterVars, serviceVars,
                  flash, consVars, client, history >>

\* fhss_service_pause has seen the service task gone; the radio is put on
\* channel 0, or cannot be, and the mutex is given back.
Paused(ok) ==
  /\ fsm = "pause" /\ service = "stopped"
  /\ mutex' = "free" /\ fsm' = IF ok THEN "ready" ELSE "restore"
  /\ ota_active' = ok /\ ota_fhss_active' = FALSE
  /\ otaTask' = IF ok THEN "loop" ELSE "none"
  /\ UNCHANGED << state, events, timers, ram, serviceVars, flash, consVars,
                  client, history >>

\* Without the mutex the service is started again, and the entry action posts
\* ERROR.
Restore(again) ==
  /\ fsm = "restore" /\ fsm' = "ready"
  /\ SetRoleRx(ram, again) /\ Post("ERROR")
  /\ UNCHANGED << state, timers, otaTask, mutex, adapterVars, flash, consVars,
                  client, history >>

\* The one-shot timers post their event from the timer task.  Five seconds are
\* longer than an activation takes: it waits for one receive window at most.
TimerFires ==
  \E t \in timers :
    /\ t = "sync" => cons \notin { "activate", "switch" }
    /\ timers' = timers \ { t }
    /\ Post(IF t = "sync" THEN "FHSS_SYNC_TIMEOUT" ELSE "OTA_FHSS_RESYNC_TIMEOUT")
    /\ UNCHANGED << state, fsm, otaTask, mutex, adapterVars, serviceVars, flash,
                    consVars, client, history >>

\* on_menu_select: a click chooses a menu, in ERROR it asks for a retry.
MenuSelect ==
  /\ Quiet
  /\ \E e \in Clicks :
       Post(IF state = "ERROR" THEN "RETRY" ELSE e)
  /\ UNCHANGED << state, fsm, timers, otaTask, mutex, adapterVars, serviceVars,
                  flash, consVars, client, history >>

FsmTask ==
  \/ Transition \/ Stay \/ RadioTaskGone \/ BeginOta
  \/ \E ok \in Outcome : EndOta(ok) \/ Paused(ok) \/ Restore(ok)

----------------------------------------------------------------------------
(* ota_radio_task. *)

\* A packet of a kind in kinds reaches the consumer's queue.
Deliver(kinds) ==
  /\ Quiet /\ inbox = NoPacket
  /\ inbox' \in { p \in Packets : p.kind \in kinds }

\* The loop ends once stop_ota_radio has raised the flag.
RadioTaskStops ==
  /\ otaTask = "loop" /\ fsm = "stop"
  /\ otaTask' = "none"
  /\ UNCHANGED << fsmVars, mutex, adapterVars, serviceVars, flash, consVars,
                  client, history >>

\* ota_receive while hopping: the next packet the service has queued.
ReceiveHopping ==
  /\ otaTask = "loop" /\ fsm # "stop" /\ ota_fhss_active
  /\ service # "stopped" /\ synced
  /\ Deliver(Hopping)
  /\ UNCHANGED << fsmVars, otaTask, mutex, adapterVars, serviceVars, flash,
                  handlerVars, client, history >>

\* ota_receive on channel 0: the flag is read before the mutex is taken.
ChooseFixed ==
  /\ otaTask = "loop" /\ fsm # "stop" /\ ~ ota_fhss_active
  /\ otaTask' = "want"
  /\ UNCHANGED << fsmVars, mutex, adapterVars, serviceVars, flash, consVars,
                  client, history >>

BeginReceive ==
  /\ otaTask = "want" /\ mutex = "free"
  /\ otaTask' = "receive" /\ mutex' = "ota_radio"
  /\ UNCHANGED << fsmVars, adapterVars, serviceVars, flash, consVars, client,
                  history >>

\* The receive window closes with a packet, with nothing, or on a radio error.
EndReceive ==
  /\ otaTask = "receive" /\ mutex' = "free"
  /\ \/ /\ otaTask' = "loop" /\ Deliver(Bootstrap)
        /\ UNCHANGED events
     \/ /\ otaTask' = "loop" /\ UNCHANGED << inbox, events >>
     \/ /\ Faults /\ fsm # "stop"
        /\ otaTask' = "none" /\ Post("ERROR") /\ UNCHANGED inbox
  /\ UNCHANGED << state, fsm, timers, adapterVars, serviceVars, flash,
                  handlerVars, client, history >>

RadioTask ==
  RadioTaskStops \/ ReceiveHopping \/ ChooseFixed \/ BeginReceive \/ EndReceive

----------------------------------------------------------------------------
(* fhss_service. *)

\* Faulty: a receiver that tracks its peer does not look at should_stop.
StopsWhileSearching ==
  /\ service = "running" /\ fsm = "pause" /\ ~ synced
  /\ service' = "stopped"
  /\ UNCHANGED << fsmVars, otaTask, mutex, adapterVars, controller, synced,
                  candidate, flash, consVars, client, history >>

\* fhss_service_pause has raised should_stop: the task ends between rounds.
ServiceStops ==
  /\ service = "running" /\ fsm = "pause"
  /\ service' = "stopped" /\ synced' = FALSE
  /\ UNCHANGED << fsmVars, otaTask, mutex, adapterVars, controller, candidate,
                  flash, consVars, client, history >>

\* Synchronization is acquired; on_fhss_audio_event promotes the generation
\* when the adapter is hopping for an update.
Acquire ==
  /\ service = "running" /\ ~ synced /\ Quiet
  /\ synced' = TRUE
  /\ service' = IF ota_fhss_active THEN "promote" ELSE "running"
  /\ candidate' = IF ota_fhss_active THEN ram ELSE candidate
  /\ UNCHANGED << fsmVars, otaTask, mutex, adapterVars, controller, flash,
                  consVars, client, history >>

\* Faulty: the pending key is erased before the active one is written.
EraseFirst ==
  /\ service = "promote" /\ pending # None /\ pending = candidate
  /\ service' = "erase" /\ pending' = None
  /\ UNCHANGED << fsmVars, otaTask, mutex, adapterVars, controller, synced,
                  candidate, active, consVars, client, history >>

\* fhss_config_store_activate: the pending configuration must be of the
\* generation in use; it is written as the active one.
Promote ==
  /\ service = "promote"
  /\ IF pending # None /\ pending = candidate
     THEN service' = "erase" /\ active' = pending /\ UNCHANGED << candidate, events >>
     ELSE service' = "running" /\ candidate' = None /\ Post("ERROR") /\ UNCHANGED active
  /\ UNCHANGED << state, fsm, timers, otaTask, mutex, adapterVars, controller,
                  synced, pending, consVars, client, history >>

\* The pending key is erased and the state machine told.
ErasePending ==
  /\ service = "erase"
  /\ service' = "running" /\ pending' = None /\ candidate' = None
  /\ overtaken' = (overtaken \/ pending \notin { None, active })
  /\ Post("SYNC_ACQUIRED")
  /\ UNCHANGED << state, fsm, timers, otaTask, mutex, adapterVars, controller,
                  synced, active, consVars, client, acked, stale >>

\* SYNC_LOST, after loss_count misses.
Lose ==
  /\ service = "running" /\ synced /\ Quiet
  /\ synced' = FALSE
  /\ Post("SYNC_LOST")
  /\ UNCHANGED << state, fsm, timers, otaTask, mutex, adapterVars, controller,
                  candidate, service, flash, consVars, client, history >>

\* A channel that cannot be selected or a packet that cannot be read is an
\* ERROR event; the receiver goes on.
RadioFails ==
  /\ Faults /\ service = "running" /\ Quiet
  /\ Post("ERROR")
  /\ UNCHANGED << state, fsm, timers, otaTask, mutex, adapterVars, serviceVars,
                  flash, consVars, client, history >>

ServiceTask ==
  ServiceStops \/ Acquire \/ Promote \/ ErasePending \/ Lose \/ RadioFails

----------------------------------------------------------------------------
(* ota_consumer, without the image: see OtaClient.tla for what START, DATA  *)
(* and END do to it.                                                       *)

\* fsm_ota_mode_callback, as another task reads the state of fsm_task.
AcceptsOta == state \in { "MENU_OTA" } \cup Provisioning

GoTo(step) == cons' = step /\ UNCHANGED << inbox, pkt, answer >>
Done ==
  cons' = "idle" /\ pkt' = NoPacket /\ answer' = "NONE" /\ UNCHANGED inbox
Answer(response) ==
  cons' = "reply" /\ answer' = response /\ UNCHANGED << inbox, pkt >>
Handling(kind) == cons = "handle" /\ pkt.kind = kind

Take ==
  /\ cons = "idle" /\ inbox # NoPacket
  /\ cons' = "handle" /\ pkt' = inbox /\ inbox' = NoPacket
  /\ UNCHANGED << answer, fsmVars, otaTask, mutex, adapterVars, serviceVars,
                  flash, client, history >>

\* The configuration is in flash, read back, before it is acknowledged.
HandleConfig ==
  /\ Handling("CONFIG")
  /\ IF AcceptsOta
     THEN /\ pending' = pkt.generation /\ acked' = None /\ overtaken' = FALSE
          /\ Answer("ACK")
     ELSE UNCHANGED << pending, acked, overtaken >> /\ Answer("NACK")
  /\ UNCHANGED << fsmVars, otaTask, mutex, adapterVars, serviceVars, active,
                  client, stale >>

\* FHSS_ACTIVATE asks nothing of the state machine, only of the flash.
HandleActivate ==
  /\ Handling("ACTIVATE")
  /\ Answer(IF pending = pkt.generation THEN "ACK" ELSE "NACK")
  /\ UNCHANGED << fsmVars, otaTask, mutex, adapterVars, serviceVars, flash,
                  client, history >>

\* START begins a session when there is none, unless the flash fails, and is
\* acknowledged again while the session lasts.
HandleStart ==
  /\ Handling("START")
  /\ IF AcceptsOta /\ client = "IDLE"
     THEN \/ client' = "RECEIVING" /\ Post("OTA_START") /\ Answer("ACK")
          \/ client' = "ERROR" /\ UNCHANGED events /\ GoTo("report")
     ELSE /\ UNCHANGED << client, events >>
          /\ Answer(IF client = "RECEIVING" THEN "ACK" ELSE "NACK")
  /\ UNCHANGED << state, fsm, timers, otaTask, mutex, adapterVars, serviceVars,
                  flash, history >>

\* DATA of the session is stored, or its write fails and the session with it.
HandleData ==
  /\ Handling("DATA")
  /\ \/ UNCHANGED client /\ Answer(IF client = "RECEIVING" THEN "ACK" ELSE "NACK")
     \/ client = "RECEIVING" /\ client' = "ERROR" /\ GoTo("report")
  /\ UNCHANGED << fsmVars, otaTask, mutex, adapterVars, serviceVars, flash,
                  history >>

\* END of the last chunk starts the verification.
HandleEnd ==
  /\ Handling("END")
  /\ IF client = "RECEIVING"
     THEN client' = "VERIFYING" /\ Post("OTA_COMPLETE") /\ GoTo("verify")
     ELSE /\ UNCHANGED << client, events >>
          /\ Answer(IF client = "READY_TO_REBOOT" THEN "ACK" ELSE "NACK")
  /\ UNCHANGED << state, fsm, timers, otaTask, mutex, adapterVars, serviceVars,
                  flash, history >>

Verify ==
  /\ cons = "verify"
  /\ \/ client' = "READY_TO_REBOOT" /\ Answer("ACK")
     \/ client' = "ERROR" /\ GoTo("report")
  /\ UNCHANGED << fsmVars, otaTask, mutex, adapterVars, serviceVars, flash,
                  history >>

\* Faulty: a failed verification is shown and never reported.
ShownOnly ==
  /\ cons = "report"
  /\ IF state = "OTA_APPLYING" THEN UNCHANGED events ELSE Post("ERROR")
  /\ Answer("NACK")
  /\ UNCHANGED << state, fsm, timers, otaTask, mutex, adapterVars, serviceVars,
                  flash, client, history >>

\* OTA_CLIENT_EVENT_FAILED: in OTA_APPLYING the screen shows it for three
\* seconds before the state machine learns of it.
Report ==
  /\ cons = "report"
  /\ IF state = "OTA_APPLYING"
     THEN GoTo("late_report") /\ UNCHANGED events
     ELSE Post("ERROR") /\ Answer("NACK")
  /\ UNCHANGED << state, fsm, timers, otaTask, mutex, adapterVars, serviceVars,
                  flash, client, history >>

LateReport ==
  /\ cons = "late_report"
  /\ Post("OTA_VERIFY_FAIL") /\ Answer("NACK")
  /\ UNCHANGED << state, fsm, timers, otaTask, mutex, adapterVars, serviceVars,
                  flash, client, history >>

\* What the consumer does once fhss_audio_adapter_ota_send has returned.
AfterSending(sent) ==
  LET acknowledged(kind) == sent /\ answer = "ACK" /\ pkt.kind = kind
  IN  /\ IF acknowledged("ACTIVATE") THEN GoTo("activate") ELSE Done
      /\ acked' = IF acknowledged("CONFIG") THEN pkt.generation ELSE acked
      /\ CASE acknowledged("CONFIG") -> Post("FHSS_CONFIG_READY")
           [] acknowledged("ACTIVATE") -> Post("FHSS_ACTIVATE")
           [] OTHER -> UNCHANGED events

\* ota_send fails outside OTA mode, queues for the service while hopping, and
\* waits for the radio on channel 0.
Reply ==
  /\ cons = "reply"
  /\ CASE ~ ota_active -> AfterSending(FALSE)
       [] ota_active /\ ota_fhss_active -> AfterSending(service # "stopped")
       [] ota_active /\ ~ ota_fhss_active ->
            GoTo("lock") /\ UNCHANGED << events, acked >>
  /\ UNCHANGED << state, fsm, timers, otaTask, mutex, adapterVars, serviceVars,
                  flash, client, overtaken, stale >>

BeginSend ==
  /\ cons = "lock" /\ mutex = "free"
  /\ mutex' = "consumer" /\ GoTo("send")
  /\ UNCHANGED << fsmVars, otaTask, adapterVars, serviceVars, flash, client,
                  history >>

EndSend(sent) ==
  /\ cons = "send" /\ mutex' = "free"
  /\ AfterSending(sent)
  /\ UNCHANGED << state, fsm, timers, otaTask, adapterVars, serviceVars, flash,
                  client, overtaken, stale >>

\* fhss_audio_adapter_activate_ota_fhss looks at ota_active before it waits
\* for the mutex.
Activate ==
  /\ cons = "activate"
  /\ IF ota_active THEN GoTo("switch") /\ UNCHANGED events
                   ELSE Done /\ Post("FHSS_SYNC_TIMEOUT")
  /\ UNCHANGED << state, fsm, timers, otaTask, mutex, adapterVars, serviceVars,
                  flash, client, history >>

\* With the mutex held the adapter takes over the configuration and turns the
\* service into a hopping receiver.
Switch(ok) ==
  /\ cons = "switch" /\ mutex = "free"
  /\ ram' = pkt.generation
  /\ ota_fhss_active' = ok
  /\ SetRoleRx(pkt.generation, ok)
  /\ Done
  /\ IF ok THEN UNCHANGED events ELSE Post("FHSS_SYNC_TIMEOUT")
  /\ UNCHANGED << state, fsm, timers, otaTask, mutex, ota_active, flash, client,
                  history >>

Consumer ==
  \/ Take \/ HandleConfig \/ HandleActivate \/ HandleStart \/ HandleData
  \/ HandleEnd \/ Verify \/ Report \/ LateReport \/ Reply \/ BeginSend
  \/ Activate
  \/ \E ok \in Outcome : EndSend(ok) \/ Switch(ok)

----------------------------------------------------------------------------
\* fhss_audio_adapter_init reads the active configuration and starts the
\* service; app_main posts INIT_DONE.
Init ==
  /\ state = "BOOT_INIT" /\ events = << "INIT_DONE" >>
  /\ fsm = "ready" /\ timers = {}
  /\ otaTask = "none" /\ mutex = "free"
  /\ ota_active = FALSE /\ ota_fhss_active = FALSE
  /\ pending = None /\ active = None
  /\ ram = active /\ controller = active
  /\ service = "running" /\ synced = FALSE /\ candidate = None
  /\ inbox = NoPacket /\ cons = "idle" /\ pkt = NoPacket /\ answer = "NONE"
  /\ client = "IDLE"
  /\ acked = None /\ overtaken = FALSE /\ stale = FALSE

\* Power is lost, or the device restarts into an image: only flash survives.
Restart ==
  /\ state' = "BOOT_INIT" /\ events' = << "INIT_DONE" >>
  /\ fsm' = "ready" /\ timers' = {}
  /\ otaTask' = "none" /\ mutex' = "free"
  /\ ota_active' = FALSE /\ ota_fhss_active' = FALSE
  /\ ram' = active /\ controller' = active
  /\ service' = "running" /\ synced' = FALSE /\ candidate' = None
  /\ inbox' = NoPacket /\ cons' = "idle" /\ pkt' = NoPacket /\ answer' = "NONE"
  /\ client' = "IDLE" /\ stale' = FALSE
  /\ UNCHANGED << flash, promises >>

Next ==
  \/ FsmTask \/ TimerFires \/ MenuSelect
  \/ RadioTask \/ ServiceTask \/ Consumer \/ Restart

Spec == Init /\ [][Next]_vars
\* The tasks are scheduled and the timers run.  Only the radio task competes
\* for the mutex over and over: it sleeps a tick after an empty window and
\* waits for the answer after a packet, so that the consumer gets its turn.
\* Nothing makes the outside world act, nor the device restart.
Fairness ==
  /\ WF_vars(FsmTask) /\ WF_vars(TimerFires)
  /\ WF_vars(RadioTask) /\ WF_vars(Consumer)
  /\ SF_vars(BeginSend) /\ SF_vars(\E ok \in Outcome : Switch(ok))
  /\ WF_vars(ServiceStops \/ Promote \/ ErasePending)
FairSpec == Spec /\ Fairness

----------------------------------------------------------------------------
(* What the code keeps. *)

\* fsm_task has handled every event and finished the entry action.
Settled == fsm = "ready" /\ events = << >>

\* A configuration the gateway has seen acknowledged survives a loss of power
\* at any point of its promotion: until a newer one is saved it is in one of
\* the two keys.  Only the end of an older promotion takes it away, when it was
\* saved between the two writes of that one (fhss_config_store_save_pending,
\* fhss_config_store_activate).
AckedIsKept == acked # None => acked \in { pending, active } \/ overtaken

\* The product state and the OTA client, run by two tasks, agree when both are
\* at rest: a session is under way in OTA_RECEIVING, a verified image waits for
\* its restart in OTA_APPLYING.  Only an OTA_START that fsm_task takes after its
\* session was aborted leads elsewhere, for as long as it is shown: it may wait
\* behind an ERROR, a RETRY and the events of a new provisioning (on_enter_error
\* aborts the session, the queue keeps its events).
ScreenMatchesSession ==
  Settled /\ cons = "idle" /\ ~ stale =>
    /\ state = "OTA_RECEIVING" => client = "RECEIVING"
    /\ state = "OTA_APPLYING" => client = "READY_TO_REBOOT"

\* With a radio that works, the voice menus always end up with a receiver
\* running and nobody left listening on channel 0.
MenuHasReceiver ==
  state \in { "MENU_COMM", "MENU_IDLE" } /\ fsm = "ready" =>
    service # "stopped" /\ otaTask = "none"

\* ERROR is a safe state even when the radio failed on the way there: the OTA
\* radio task is gone, the adapter has left OTA mode, no session is under way.
ErrorIsQuiet ==
  state = "ERROR" /\ fsm = "ready" =>
    /\ otaTask = "none" /\ ~ ota_active
    /\ client # "RECEIVING"

\* OTA mode is never left under the feet of the radio task: ota_receive would
\* report an error the state machine takes for a broken radio.
RadioTaskInOta == otaTask # "none" => ota_active

\* stop_ota_radio and fhss_service_pause poll for another task's end without a
\* timeout, the latter holding the mutex the other tasks wait for: no entry
\* action hangs in them.
EntryEnds == fsm # "ready" ~> fsm = "ready"

\* A gateway that never sends SYNC does not hold the device: OTA_FHSS_SYNCING
\* is left, by the timeout if by nothing else.
SyncingEnds == state = "OTA_FHSS_SYNCING" ~> state # "OTA_FHSS_SYNCING"

----------------------------------------------------------------------------
(* What the documents and comments say and the code does not keep. *)

\* ota_consumer.c:376 "Keep it pending until the radio service proves this
\* generation by acquiring valid SYNC packets".
ActiveIsProven == service = "erase" => active = controller

=============================================================================
