---------------------------- MODULE OtaModeProofs ----------------------------
(***************************************************************************)
(* What OtaMode keeps for any generations, any bound of the event queue    *)
(* and a radio that fails at will.                                         *)
(*                                                                         *)
(* The four tasks know of each other only what the place of fsm_task says. *)
(* EntryInv is that knowledge: from the moment stop_ota_radio has seen the *)
(* radio task gone until begin_ota has succeeded there is none, and the    *)
(* menus are entered with the adapter out of OTA mode.  ErrorInv and       *)
(* ServiceInv hold because of it; OwnerInv ties the mutex to the places of *)
(* its three users; ConfigInv follows a configuration from the flash over  *)
(* its acknowledgement to its promotion.  ScreenInv is the only one about  *)
(* the contents of the event queue: which events still wait when the OTA   *)
(* client has gone on without fsm_task.                                    *)
(***************************************************************************)
EXTENDS OtaMode, TLAPS

\* Where fsm_task is, what that says of the radio task and of OTA mode.
EntryInv ==
  /\ fsm \in { "end", "begin", "pause", "restore" } => otaTask = "none"
  /\ fsm \in { "begin", "pause", "restore" } => state = "MENU_OTA" /\ ~ ota_active
  /\ fsm # "ready" => EntryStopsRadio(state)
  /\ state \in { "MENU_COMM", "MENU_IDLE", "ERROR" } /\ fsm = "ready" => ~ ota_active
  /\ RadioTaskInOta
ErrorInv == state = "ERROR" /\ fsm = "ready" => client # "RECEIVING"

\* The mutex is held exactly by the task that is where it needs it.
OwnerInv ==
  /\ mutex = "fsm" <=> fsm = "pause"
  /\ mutex = "ota_radio" <=> otaTask = "receive"
  /\ mutex = "consumer" <=> cons = "send"

\* A radio that works never leaves the service stopped outside OTA mode.
ServiceInv == ~ Faults /\ service = "stopped" => ota_active \/ fsm = "pause"

\* A configuration g that waits for its promotion, or has had it.
Stands(g) == pending = g \/ (pending = None /\ active = g)
ConfigInv ==
  /\ ~ overtaken /\ acked # None => Stands(acked)
  /\ ~ overtaken /\ cons \in { "reply", "lock", "send" } /\ pkt.kind = "CONFIG" /\ answer = "ACK"
       => Stands(pkt.generation)
  /\ cons = "verify" => pkt.kind # "CONFIG"

Inv == TypeOK /\ EntryInv /\ ErrorInv /\ OwnerInv /\ ServiceInv /\ ConfigInv

----------------------------------------------------------------------------
(* The data. *)

FsmType ==
  /\ state \in States /\ events \in Seq(Events)
  /\ fsm \in { "ready", "stop", "end", "begin", "pause", "restore" }
  /\ timers \subseteq { "sync", "resync" }
RadioType ==
  /\ otaTask \in { "none", "loop", "want", "receive" }
  /\ mutex \in { "free", "fsm", "ota_radio", "consumer" }
  /\ ram \in Stored /\ controller \in Stored /\ candidate \in Stored
  /\ service \in { "stopped", "running", "promote", "erase" }
FlagType ==
  /\ ota_active \in BOOLEAN /\ ota_fhss_active \in BOOLEAN
  /\ synced \in BOOLEAN /\ overtaken \in BOOLEAN /\ stale \in BOOLEAN
FlashType == pending \in Stored /\ active \in Stored /\ acked \in Stored
ConsType ==
  /\ inbox \in Packets \cup { NoPacket } /\ pkt \in Packets \cup { NoPacket }
  /\ cons \in { "idle", "handle", "verify", "report", "late_report", "reply",
                "lock", "send", "activate", "switch" }
  /\ answer \in { "NONE", "ACK", "NACK" }
  /\ client \in { "IDLE", "RECEIVING", "VERIFYING", "READY_TO_REBOOT", "ERROR" }

\* TypeOK by the tasks' shares, which the steps change one at a time.
LEMMA TypeParts == TypeOK <=> FsmType /\ RadioType /\ FlagType /\ FlashType /\ ConsType
  BY DEF TypeOK, FsmType, RadioType, FlagType, FlashType, ConsType

LEMMA Rows == \A t \in Transitions : t[3] \in States
  BY DEF Transitions, States, Menus, Provisioning

\* fsm_task never leaves the table (ProductFsm.tla).
LEMMA Destinations == \A s \in States : \A e : Destination(s, e) \in States
<1> SUFFICES ASSUME NEW s \in States, NEW e PROVE Destination(s, e) \in States
  OBVIOUS
<1> DEFINE row == { t \in Transitions : t[1] = s /\ t[2] = e }
<1>1. row = {} \/ (CHOOSE t \in row : TRUE) \in Transitions
  OBVIOUS
<1>2. row = {} \/ (CHOOSE t \in row : TRUE)[3] \in States
  BY <1>1, Rows
<1>3. { "ERROR", "MENU_OTA", "MENU_COMM" } \subseteq States
  BY DEF States, Menus
<1> HIDE DEF row
<1>4. Destination(s, e) =
        CASE e = "ERROR" -> "ERROR"
          [] e = "OTA_FHSS_RESYNC_TIMEOUT" -> IF s = "OTA_RECEIVING" THEN "MENU_OTA" ELSE s
          [] e = "SYNC_LOST" /\ s \in Provisioning -> "MENU_OTA"
          [] e = "SYNC_LOST" /\ s \notin Provisioning ->
               IF s \in { "BOOT_INIT", "ERROR", "OTA_RECEIVING" } THEN s ELSE "MENU_COMM"
          [] OTHER -> IF row = {} THEN s ELSE (CHOOSE t \in row : TRUE)[3]
  BY Zenon DEF Destination, row
<1> QED BY <1>2, <1>3, <1>4

LEMMA Queueing ==
  ASSUME events \in Seq(Events)
  PROVE  /\ \A e \in Events : Append(events, e) \in Seq(Events)
         /\ events # << >> => Head(events) \in Events /\ Tail(events) \in Seq(Events)
                              /\ \A e \in Events : Append(Tail(events), e) \in Seq(Events)
  OBVIOUS

LEMMA Posted == { "INIT_DONE", "ERROR", "RETRY", "SYNC_LOST", "SYNC_ACQUIRED", "OTA_START",
                  "OTA_COMPLETE", "OTA_VERIFY_FAIL", "FHSS_CONFIG_READY", "FHSS_ACTIVATE",
                  "FHSS_SYNC_TIMEOUT", "OTA_FHSS_RESYNC_TIMEOUT" } \cup Clicks \subseteq Events
  BY ClicksAssumption DEF Events

LEMMA Outcomes == Outcome \subseteq BOOLEAN
  BY DEF Outcome

LEMMA Fields ==
  /\ \A p \in Packets \cup { NoPacket } : p.generation \in Stored
  /\ None \in Stored /\ Generations \subseteq Stored
<1>1. NoPacket.generation = None
  BY DEF NoPacket
<1>2. \A p \in Packets : p.generation \in Generations \cup { None }
  BY DEF Packets
<1> QED BY <1>1, <1>2 DEF Stored

----------------------------------------------------------------------------
(* Types, task by task. *)

LEMMA FlagsKept ==
  ASSUME FlagType, ota_active' = ota_active, ota_fhss_active' = ota_fhss_active,
         synced' = synced, overtaken' = overtaken, stale' = stale \/ Outdate
  PROVE  FlagType'
<1>1. stale' \in BOOLEAN
  BY Zenon DEF FlagType, Outdate
<1> QED BY <1>1, Zenon DEF FlagType

LEMMA SetRoleType ==
  ASSUME RadioType, FlagType, NEW g \in Stored, NEW ok \in BOOLEAN, SetRoleRx(g, ok)
  PROVE  /\ controller' \in Stored /\ candidate' \in Stored /\ synced' \in BOOLEAN
         /\ service' \in { "stopped", "running", "promote", "erase" }
<1>1. CASE service # "stopped"
  BY <1>1 DEF SetRoleRx, RadioType, FlagType, serviceVars
<1>2. CASE service = "stopped"
  BY <1>2 DEF SetRoleRx, RadioType, FlagType, serviceVars
<1> QED BY <1>1, <1>2

LEMMA AbortType ==
  ASSUME ConsType, NEW due, Abort(due), UNCHANGED handlerVars
  PROVE  ConsType'
BY DEF Abort, ConsType, handlerVars

LEMMA TypedAgain == FsmType' /\ RadioType' /\ FlagType' /\ FlashType' /\ ConsType' => TypeOK'
  BY TypeParts, PTL

LEMMA FsmTaskType == TypeOK /\ (FsmTask \/ TimerFires \/ MenuSelect) => TypeOK'
<1> SUFFICES ASSUME TypeOK, FsmTask \/ TimerFires \/ MenuSelect PROVE TypeOK'
  OBVIOUS
<1>1. FsmType /\ RadioType /\ FlagType /\ FlashType /\ ConsType
  BY TypeParts
<1>2. CASE Transition
  <2>1. PICK next : /\ next = Destination(state, Head(events)) /\ state' = next
                    /\ events # << >> /\ timers' = TimersAfter(next)
                    /\ events' = IF next = "BOOT_INIT" THEN Append(Tail(events), "INIT_DONE")
                                 ELSE Tail(events)
                    /\ fsm' = IF EntryStopsRadio(next) THEN "stop" ELSE "ready"
                    /\ Abort(Head(events) = "OTA_FHSS_RESYNC_TIMEOUT")
    BY <1>2 DEF Transition
  <2>2. FsmType'
    BY <1>1, <2>1, Destinations, Queueing, Posted DEF FsmType, TimersAfter
  <2>3. UNCHANGED << otaTask, mutex, adapterVars, serviceVars, flash, handlerVars, promises >> /\ Outdate
    BY <1>2 DEF Transition
  <2>4. ConsType'
    BY <1>1, <2>1, <2>3, AbortType
  <2>5. RadioType' /\ FlashType'
    BY <1>1, <2>3 DEF RadioType, FlashType, adapterVars, serviceVars, flash, history, promises
  <2>6. FlagType'
    <3>1. /\ ota_active' = ota_active /\ ota_fhss_active' = ota_fhss_active
          /\ synced' = synced /\ overtaken' = overtaken /\ (stale' = stale \/ Outdate)
      BY <2>3 DEF adapterVars, serviceVars, history, promises
    <3> QED BY <1>1, <3>1, FlagsKept
  <2> QED BY <2>2, <2>4, <2>5, <2>6, TypedAgain
<1>3. CASE Stay
  <2>1. FsmType'
    BY <1>1, <1>3, Queueing DEF Stay, FsmType
  <2>2. RadioType' /\ FlashType' /\ ConsType'
    BY <1>1, <1>3 DEF Stay, RadioType, FlashType, ConsType, adapterVars, serviceVars, flash,
                      history, promises, consVars, handlerVars
  <2>3. FlagType'
    <3>1. /\ ota_active' = ota_active /\ ota_fhss_active' = ota_fhss_active
          /\ synced' = synced /\ overtaken' = overtaken /\ (stale' = stale \/ Outdate)
      BY <1>3 DEF Stay, adapterVars, serviceVars, history, promises
    <3> QED BY <1>1, <3>1, FlagsKept
  <2> QED BY <2>1, <2>2, <2>3, TypedAgain
<1>4. CASE RadioTaskGone
  <2>1. FsmType'
    BY <1>1, <1>4 DEF RadioTaskGone, FsmType
  <2>2. RadioType' /\ FlashType'
    BY <1>1, <1>4 DEF RadioTaskGone, RadioType, FlashType, adapterVars, serviceVars, flash, history, promises
  <2>3. FlagType'
    <3>1. /\ ota_active' = ota_active /\ ota_fhss_active' = ota_fhss_active
          /\ synced' = synced /\ overtaken' = overtaken /\ (stale' = stale \/ Outdate)
      BY <1>4 DEF RadioTaskGone, adapterVars, serviceVars, history, promises
    <3> QED BY <1>1, <3>1, FlagsKept
  <2>4. ConsType'
    BY <1>1, <1>4, AbortType DEF RadioTaskGone
  <2> QED BY <2>1, <2>2, <2>3, <2>4, TypedAgain
<1>5. ASSUME NEW ok \in Outcome, EndOta(ok) PROVE TypeOK'
  <2>1. FsmType' /\ FlashType'
    BY <1>1, <1>5 DEF EndOta, FsmType, FlashType, flash, history, promises
  <2>2. /\ controller' \in Stored /\ candidate' \in Stored /\ synced' \in BOOLEAN
        /\ service' \in { "stopped", "running", "promote", "erase" }
    BY <1>1, <1>5, SetRoleType, Outcomes DEF EndOta, RadioType
  <2>3. RadioType'
    BY <1>1, <1>5, <2>2 DEF EndOta, RadioType
  <2>4. FlagType'
    <3>1. ota_active' = FALSE /\ ota_fhss_active' = FALSE /\ overtaken' = overtaken /\ Outdate
      BY <1>5, Zenon DEF EndOta, promises
    <3> QED BY <1>1, <2>2, <3>1, Zenon DEF FlagType, Outdate
  <2>5. ConsType'
    BY <1>1, <1>5, AbortType DEF EndOta
  <2> QED BY <2>1, <2>3, <2>4, <2>5, TypedAgain
<1>6. CASE BeginOta
  <2>1. FsmType' /\ RadioType' /\ FlashType' /\ ConsType'
    BY <1>1, <1>6 DEF BeginOta, FsmType, RadioType, FlashType, ConsType, adapterVars, serviceVars,
                      flash, history, promises, consVars, handlerVars
  <2>2. FlagType'
    <3>1. /\ ota_active' = ota_active /\ ota_fhss_active' = ota_fhss_active
          /\ synced' = synced /\ overtaken' = overtaken /\ (stale' = stale \/ Outdate)
      BY <1>6 DEF BeginOta, adapterVars, serviceVars, history, promises
    <3> QED BY <1>1, <3>1, FlagsKept
  <2> QED BY <2>1, <2>2, TypedAgain
<1>7. ASSUME NEW ok \in Outcome, Paused(ok) PROVE TypeOK'
  <2>1. /\ UNCHANGED << state, events, timers, ram, serviceVars, flash, consVars, client, history >>
        /\ fsm' = IF ok THEN "ready" ELSE "restore"
        /\ mutex' = "free" /\ otaTask' = IF ok THEN "loop" ELSE "none"
    BY <1>7 DEF Paused
  <2>2. FsmType' /\ RadioType' /\ FlashType' /\ ConsType'
    BY <1>1, <2>1 DEF FsmType, RadioType, FlashType, ConsType, serviceVars, flash, history, promises,
                      consVars, handlerVars
  <2>3. /\ ota_active' = ok /\ ota_fhss_active' = FALSE /\ synced' = synced
        /\ overtaken' = overtaken /\ stale' = stale
    BY <1>7, <2>1, Zenon DEF Paused, serviceVars, history, promises
  <2>4. FlagType'
    BY <1>1, <2>3, Outcomes, Zenon DEF FlagType
  <2> QED BY <2>2, <2>4, TypedAgain
<1>8. CASE TimerFires \/ MenuSelect
  <2>1. \E e \in Events : events' = Append(events, e)
    BY <1>8, Posted DEF TimerFires, MenuSelect, Post
  <2>2. timers' \subseteq timers
    BY <1>8 DEF TimerFires, MenuSelect
  <2>3. UNCHANGED << state, fsm, otaTask, mutex, adapterVars, serviceVars, flash, consVars,
                     client, history >>
    BY <1>8 DEF TimerFires, MenuSelect
  <2>4. FsmType'
    BY <1>1, <2>1, <2>2, <2>3, Queueing DEF FsmType
  <2>5. RadioType' /\ FlashType' /\ ConsType'
    BY <1>1, <2>3 DEF RadioType, FlashType, ConsType, adapterVars, serviceVars, flash, history, promises,
                      consVars, handlerVars
  <2>6. FlagType'
    <3>1. /\ ota_active' = ota_active /\ ota_fhss_active' = ota_fhss_active
          /\ synced' = synced /\ overtaken' = overtaken /\ (stale' = stale \/ Outdate)
      BY <2>3 DEF adapterVars, serviceVars, history, promises
    <3> QED BY <1>1, <3>1, FlagsKept
  <2> QED BY <2>4, <2>5, <2>6, TypedAgain
<1>9. ASSUME NEW again \in Outcome, Restore(again) PROVE TypeOK'
  <2>1. /\ UNCHANGED << state, timers, otaTask, mutex, adapterVars, flash, consVars, client, history >>
        /\ fsm' = "ready" /\ events' = Append(events, "ERROR") /\ SetRoleRx(ram, again)
    BY <1>9 DEF Restore, Post
  <2>2. /\ controller' \in Stored /\ candidate' \in Stored /\ synced' \in BOOLEAN
        /\ service' \in { "stopped", "running", "promote", "erase" }
    BY <1>1, <2>1, SetRoleType, Outcomes DEF RadioType
  <2>3. FsmType'
    BY <1>1, <2>1, Queueing, Posted DEF FsmType
  <2>4. RadioType' /\ FlashType' /\ ConsType'
    BY <1>1, <2>1, <2>2 DEF RadioType, FlashType, ConsType, adapterVars, flash, history, promises,
                            consVars, handlerVars
  <2>5. /\ ota_active' = ota_active /\ ota_fhss_active' = ota_fhss_active
        /\ overtaken' = overtaken /\ stale' = stale
    BY <2>1 DEF adapterVars, history, promises
  <2>6. FlagType'
    BY <1>1, <2>2, <2>5, Zenon DEF FlagType
  <2> QED BY <2>3, <2>4, <2>6, TypedAgain
<1> QED BY <1>2, <1>3, <1>4, <1>5, <1>6, <1>7, <1>8, <1>9 DEF FsmTask

LEMMA RadioTaskType == TypeOK /\ RadioTask => TypeOK'
<1> SUFFICES ASSUME TypeOK, RadioTask PROVE TypeOK'
  OBVIOUS
<1>1. FsmType /\ RadioType /\ FlagType /\ FlashType /\ ConsType
  BY TypeParts
<1>2. /\ UNCHANGED << state, fsm, timers, flash, handlerVars, client, adapterVars, serviceVars, history >>
      /\ otaTask' \in { "none", "loop", "want", "receive" }
      /\ mutex' \in { "free", "fsm", "ota_radio", "consumer" }
  BY <1>1 DEF RadioTask, RadioTaskStops, ReceiveHopping, ChooseFixed, BeginReceive, EndReceive,
              fsmVars, consVars, RadioType
<1>3. events' = events \/ events' = Append(events, "ERROR")
  BY DEF RadioTask, RadioTaskStops, ReceiveHopping, ChooseFixed, BeginReceive, EndReceive,
         fsmVars, consVars, Post
<1>4. inbox' = inbox \/ inbox' \in Packets
  BY DEF RadioTask, RadioTaskStops, ReceiveHopping, ChooseFixed, BeginReceive, EndReceive,
         fsmVars, consVars, Deliver
<1>5. FsmType'
  BY <1>1, <1>2, <1>3, Queueing, Posted DEF FsmType
<1>6. RadioType' /\ FlashType' /\ ConsType'
  BY <1>1, <1>2, <1>4 DEF RadioType, FlashType, ConsType, adapterVars, serviceVars, flash,
                          handlerVars, history, promises
<1>7. FlagType'
  <2>1. /\ ota_active' = ota_active /\ ota_fhss_active' = ota_fhss_active
        /\ synced' = synced /\ overtaken' = overtaken /\ (stale' = stale \/ Outdate)
    BY <1>2 DEF adapterVars, serviceVars, history, promises
  <2> QED BY <1>1, <2>1, FlagsKept
<1> QED BY <1>5, <1>6, <1>7, TypedAgain

LEMMA ServiceTaskType == TypeOK /\ ServiceTask => TypeOK'
<1> SUFFICES ASSUME TypeOK, ServiceTask PROVE TypeOK'
  OBVIOUS
<1>1. FsmType /\ RadioType /\ FlagType /\ FlashType /\ ConsType
  BY TypeParts
<1>2. /\ UNCHANGED << state, fsm, timers, otaTask, mutex, adapterVars, controller, consVars, client,
                      acked >>
      /\ service' \in { "stopped", "running", "promote", "erase" }
  BY <1>1 DEF ServiceTask, ServiceStops, Acquire, Promote, ErasePending, Lose, RadioFails,
              fsmVars, serviceVars, history, promises, RadioType
<1>3. events' = events \/ \E e \in Events : events' = Append(events, e)
  BY Posted DEF ServiceTask, ServiceStops, Acquire, Promote, ErasePending, Lose, RadioFails,
                fsmVars, Post
<1>4. candidate' \in Stored /\ pending' \in Stored /\ active' \in Stored
  BY <1>1, Fields DEF ServiceTask, ServiceStops, Acquire, Promote, ErasePending, Lose, RadioFails,
                serviceVars, flash, RadioType, FlashType
<1>5. synced' = synced \/ synced' = TRUE \/ synced' = FALSE
  BY DEF ServiceTask, ServiceStops, Acquire, Promote, ErasePending, Lose, RadioFails, serviceVars
<1>6. overtaken' = overtaken \/ overtaken' = (overtaken \/ pending \notin { None, active })
  BY DEF ServiceTask, ServiceStops, Acquire, Promote, ErasePending, Lose, RadioFails, history, promises
<1>10. stale' = stale
  BY DEF ServiceTask, ServiceStops, Acquire, Promote, ErasePending, Lose, RadioFails, history
<1>7. FsmType'
  BY <1>1, <1>2, <1>3, Queueing DEF FsmType
<1>8. RadioType' /\ FlashType' /\ ConsType'
  BY <1>1, <1>2, <1>4 DEF RadioType, FlashType, ConsType, adapterVars, consVars, handlerVars
<1>9. FlagType'
  <2>1. ota_active' = ota_active /\ ota_fhss_active' = ota_fhss_active
    BY <1>2 DEF adapterVars
  <2> QED BY <1>1, <1>5, <1>6, <1>10, <2>1, Zenon DEF FlagType
<1> QED BY <1>7, <1>8, <1>9, TypedAgain

\* The steps of the consumer that leave the radio and the flash alone.
LEMMA ConsumerQuietType ==
  TypeOK /\ (Take \/ HandleActivate \/ HandleStart \/ HandleData \/ HandleEnd \/ Verify \/ Report
             \/ LateReport \/ BeginSend \/ Activate) => TypeOK'
<1> SUFFICES ASSUME TypeOK,
                    Take \/ HandleActivate \/ HandleStart \/ HandleData \/ HandleEnd \/ Verify
                    \/ Report \/ LateReport \/ BeginSend \/ Activate
             PROVE  TypeOK'
  OBVIOUS
<1>1. FsmType /\ RadioType /\ FlagType /\ FlashType /\ ConsType
  BY TypeParts
<1>2. UNCHANGED << state, fsm, timers, otaTask, adapterVars, serviceVars, flash, history >>
  BY DEF Take, HandleActivate, HandleStart, HandleData, HandleEnd, Verify, Report, LateReport,
         BeginSend, Activate, fsmVars
<1>3. events' = events \/ \E e \in Events : events' = Append(events, e)
  BY Posted DEF Take, HandleActivate, HandleStart, HandleData, HandleEnd, Verify, Report, LateReport,
                BeginSend, Activate, fsmVars, Post
<1>4. mutex' = mutex \/ mutex' = "consumer"
  BY DEF Take, HandleActivate, HandleStart, HandleData, HandleEnd, Verify, Report, LateReport,
         BeginSend, Activate
<1>5. ConsType'
  BY <1>1 DEF Take, HandleActivate, HandleStart, HandleData, HandleEnd, Verify, Report, LateReport,
              BeginSend, Activate, ConsType, GoTo, Answer, Done
<1>6. FsmType'
  BY <1>1, <1>2, <1>3, Queueing DEF FsmType
<1>7. RadioType' /\ FlashType'
  BY <1>1, <1>2, <1>4 DEF RadioType, FlashType, adapterVars, serviceVars, flash, history, promises
<1>8. FlagType'
  <2>1. /\ ota_active' = ota_active /\ ota_fhss_active' = ota_fhss_active
        /\ synced' = synced /\ overtaken' = overtaken /\ (stale' = stale \/ Outdate)
    BY <1>2 DEF adapterVars, serviceVars, history, promises
  <2> QED BY <1>1, <2>1, FlagsKept
<1> QED BY <1>5, <1>6, <1>7, <1>8, TypedAgain

LEMMA AfterSendingType ==
  ASSUME FsmType, FlashType, ConsType, NEW sent, AfterSending(sent), client' = client
  PROVE  events' \in Seq(Events) /\ acked' \in Stored /\ ConsType'
<1>1. acked' \in Stored
  BY Fields DEF AfterSending, FlashType, ConsType
<1>2. events' = events \/ \E e \in Events : events' = Append(events, e)
  BY Posted DEF AfterSending, Post
<1>3. ConsType'
  BY DEF AfterSending, GoTo, Done, ConsType
<1> QED BY <1>1, <1>2, <1>3, Queueing DEF FsmType

LEMMA ConsumerRadioType ==
  TypeOK /\ (HandleConfig \/ Reply \/ \E ok \in Outcome : EndSend(ok) \/ Switch(ok)) => TypeOK'
<1> SUFFICES ASSUME TypeOK, HandleConfig \/ Reply \/ \E ok \in Outcome : EndSend(ok) \/ Switch(ok)
             PROVE  TypeOK'
  OBVIOUS
<1>1. FsmType /\ RadioType /\ FlagType /\ FlashType /\ ConsType
  BY TypeParts
<1>2. CASE HandleConfig
  <2>1. FsmType' /\ RadioType' /\ FlashType' /\ ConsType'
    BY <1>1, <1>2, Fields DEF HandleConfig, Answer, FsmType, RadioType, FlashType, ConsType, fsmVars,
                      adapterVars, serviceVars
  <2>2. /\ ota_active' = ota_active /\ ota_fhss_active' = ota_fhss_active
        /\ synced' = synced /\ (overtaken' = overtaken \/ overtaken' = FALSE) /\ stale' = stale
    BY <1>2 DEF HandleConfig, adapterVars, serviceVars
  <2>3. FlagType'
    BY <1>1, <2>2, Zenon DEF FlagType
  <2> QED BY <2>1, <2>3, TypedAgain
<1>3. CASE Reply \/ \E ok \in Outcome : EndSend(ok)
  <2>1. UNCHANGED << state, fsm, timers, otaTask, adapterVars, serviceVars, flash, client, overtaken,
                     stale >>
    BY <1>3 DEF Reply, EndSend
  <2>2. events' \in Seq(Events) /\ acked' \in Stored /\ ConsType'
    <3>1. CASE \E sent : AfterSending(sent)
      BY <1>1, <2>1, <3>1, AfterSendingType
    <3>2. CASE GoTo("lock") /\ UNCHANGED << events, acked >>
      BY <1>1, <2>1, <3>2 DEF GoTo, ConsType, FsmType, FlashType
    <3> QED BY <1>3, <3>1, <3>2 DEF Reply, EndSend
  <2>3. mutex' = mutex \/ mutex' = "free"
    BY <1>3 DEF Reply, EndSend
  <2>4. FsmType' /\ RadioType' /\ FlashType'
    BY <1>1, <2>1, <2>2, <2>3 DEF FsmType, RadioType, FlashType, adapterVars, serviceVars, flash
  <2>5. /\ ota_active' = ota_active /\ ota_fhss_active' = ota_fhss_active
        /\ synced' = synced /\ overtaken' = overtaken /\ (stale' = stale \/ Outdate)
    BY <2>1 DEF adapterVars, serviceVars
  <2> QED BY <1>1, <2>2, <2>4, <2>5, FlagsKept, TypedAgain
<1>4. ASSUME NEW ok \in Outcome, Switch(ok) PROVE TypeOK'
  <2>1. UNCHANGED << state, fsm, timers, otaTask, mutex, ota_active, flash, client, history >>
    BY <1>4 DEF Switch
  <2>2. ConsType' /\ ram' \in Stored
    BY <1>1, <1>4, <2>1, Fields DEF Switch, Done, ConsType
  <2>3. /\ controller' \in Stored /\ candidate' \in Stored /\ synced' \in BOOLEAN
        /\ service' \in { "stopped", "running", "promote", "erase" }
    <3>1. pkt.generation \in Stored /\ SetRoleRx(pkt.generation, ok)
      BY <1>1, <1>4, Fields DEF Switch, ConsType
    <3> QED BY <1>1, <3>1, SetRoleType, Outcomes
  <2>4. events' = events \/ events' = Append(events, "FHSS_SYNC_TIMEOUT")
    BY <1>4 DEF Switch, Post
  <2>5. FsmType' /\ RadioType' /\ FlashType'
    BY <1>1, <2>1, <2>2, <2>3, <2>4, Queueing, Posted DEF FsmType, RadioType, FlashType, flash, history, promises
  <2>6. /\ ota_active' = ota_active /\ overtaken' = overtaken /\ ota_fhss_active' = ok
        /\ stale' = stale
    BY <1>4, <2>1, Zenon DEF Switch, history, promises
  <2>7. FlagType'
    BY <1>1, <2>3, <2>6, Outcomes, Zenon DEF FlagType
  <2> QED BY <2>2, <2>5, <2>7, TypedAgain
<1> QED BY <1>2, <1>3, <1>4

LEMMA RestartType == (Init => TypeOK) /\ (TypeOK /\ Restart => TypeOK')
<1>1. Init => TypeOK
  <2> SUFFICES ASSUME Init PROVE FsmType /\ RadioType /\ FlagType /\ FlashType /\ ConsType
    BY TypeParts
  <2>1. "BOOT_INIT" \in States /\ "INIT_DONE" \in Events /\ None \in Stored
    BY Fields DEF States, Events
  <2>2. << "INIT_DONE" >> \in Seq(Events)
    BY <2>1
  <2>3. FsmType
    BY <2>1, <2>2 DEF Init, FsmType
  <2>4. RadioType
    BY <2>1 DEF Init, RadioType
  <2>5. FlashType /\ ConsType
    BY <2>1 DEF Init, FlashType, ConsType
  <2>6. FlagType
    BY Zenon DEF Init, FlagType
  <2> QED BY <2>3, <2>4, <2>5, <2>6
<1>2. ASSUME TypeOK, Restart PROVE TypeOK'
  <2>1. FsmType /\ RadioType /\ FlagType /\ FlashType /\ ConsType
    BY <1>2, TypeParts
  <2>2. FsmType' /\ RadioType' /\ FlashType' /\ ConsType'
    <3>1. "BOOT_INIT" \in States /\ "INIT_DONE" \in Events /\ None \in Stored
      BY Fields DEF States, Events
    <3>2. << "INIT_DONE" >> \in Seq(Events)
      BY <3>1
    <3>3. FsmType'
      BY <1>2, <3>1, <3>2 DEF Restart, FsmType
    <3> QED BY <1>2, <2>1, <3>1, <3>3 DEF Restart, RadioType, FlashType, ConsType, flash, history, promises
  <2>3. /\ ota_active' = FALSE /\ ota_fhss_active' = FALSE /\ synced' = FALSE
        /\ overtaken' = overtaken /\ stale' = FALSE
    BY <1>2 DEF Restart, history, promises
  <2>4. FlagType'
    BY <2>1, <2>3, Zenon DEF FlagType
  <2> QED BY <2>2, <2>4, TypedAgain
<1> QED BY <1>1, <1>2

----------------------------------------------------------------------------
(* The invariants. *)

\* Only Paused starts the radio task, only Transition and the entry actions move
\* fsm_task.
LEMMA EntrySteps == TypeOK /\ EntryInv /\ Next => EntryInv'
<1> SUFFICES ASSUME TypeOK, EntryInv, Next PROVE EntryInv'
  OBVIOUS
<1>1. CASE Transition
  <2>1. /\ fsm = "ready" /\ fsm' = IF EntryStopsRadio(state') THEN "stop" ELSE "ready"
        /\ otaTask' = otaTask /\ ota_active' = ota_active
    BY <1>1 DEF Transition, adapterVars
  <2> QED BY <2>1 DEF EntryInv, RadioTaskInOta, EntryStopsRadio, Menus
<1>2. CASE RadioTaskGone
  <2>1. /\ otaTask = "none" /\ otaTask' = "none" /\ state' = state /\ ota_active' = ota_active
        /\ fsm = "stop"
        /\ \/ ota_active /\ fsm' = "end"
           \/ ~ota_active /\ fsm' = IF state = "MENU_OTA" THEN "begin" ELSE "ready"
    BY <1>2 DEF RadioTaskGone, adapterVars
  <2> QED BY <2>1 DEF EntryInv, RadioTaskInOta
<1>3. ASSUME NEW ok \in Outcome, EndOta(ok) PROVE EntryInv'
  BY <1>3 DEF EndOta, EntryInv, RadioTaskInOta
<1>4. CASE BeginOta
  BY <1>4 DEF BeginOta, EntryInv, RadioTaskInOta, adapterVars
<1>5. ASSUME NEW ok \in Outcome, Paused(ok) PROVE EntryInv'
  <2>1. /\ fsm = "pause" /\ fsm' = IF ok THEN "ready" ELSE "restore"
        /\ state' = state /\ ota_active' = ok
        /\ otaTask' = IF ok THEN "loop" ELSE "none"
    BY <1>5 DEF Paused
  <2> QED BY <2>1 DEF EntryInv, RadioTaskInOta, Menus
<1>10. ASSUME NEW again \in Outcome, Restore(again) PROVE EntryInv'
  BY <1>10 DEF Restore, EntryInv, RadioTaskInOta, adapterVars
<1>6. CASE Stay \/ TimerFires \/ MenuSelect \/ ServiceTask
  <2>1. UNCHANGED << state, fsm, otaTask, ota_active >>
    BY <1>6 DEF Stay, TimerFires, MenuSelect, ServiceTask, ServiceStops, Acquire, Promote, ErasePending,
                Lose, RadioFails, adapterVars, fsmVars
  <2> QED BY <2>1 DEF EntryInv, RadioTaskInOta
<1>7. CASE RadioTask
  <2>1. /\ UNCHANGED << state, fsm, ota_active >>
        /\ otaTask # "none"
    BY <1>7 DEF RadioTask, RadioTaskStops, ReceiveHopping, ChooseFixed, BeginReceive, EndReceive,
                fsmVars, adapterVars
  <2> QED BY <2>1 DEF EntryInv, RadioTaskInOta
<1>8. CASE Consumer
  <2>1. UNCHANGED << state, fsm, otaTask, ota_active >>
    BY <1>8 DEF Consumer, Take, HandleConfig, HandleActivate, HandleStart, HandleData, HandleEnd,
                Verify, Report, LateReport, Reply, BeginSend, EndSend, Activate, Switch, fsmVars,
                adapterVars
  <2> QED BY <2>1 DEF EntryInv, RadioTaskInOta
<1>9. CASE Restart
  BY <1>9 DEF Restart, EntryInv, RadioTaskInOta
<1> QED BY <1>1, <1>2, <1>3, <1>4, <1>5, <1>6, <1>7, <1>8, <1>9, <1>10 DEF Next, FsmTask

\* Entering ERROR ends with Abort, and nothing but START makes a session.
LEMMA ErrorSteps == EntryInv /\ ErrorInv /\ Next => ErrorInv'
<1> SUFFICES ASSUME EntryInv, ErrorInv, Next PROVE ErrorInv'
  OBVIOUS
<1>1. CASE Transition
  <2>1. state' = "ERROR" => fsm' = "stop"
    BY <1>1 DEF Transition, EntryStopsRadio
  <2> QED BY <2>1 DEF ErrorInv
<1>2. CASE RadioTaskGone
  BY <1>2 DEF RadioTaskGone, Abort, ErrorInv
<1>3. ASSUME NEW ok \in Outcome, EndOta(ok) PROVE ErrorInv'
  BY <1>3 DEF EndOta, Abort, ErrorInv
<1>4. CASE BeginOta
  BY <1>4 DEF BeginOta, ErrorInv
<1>5. ASSUME NEW ok \in Outcome, Paused(ok) PROVE ErrorInv'
  BY <1>5 DEF Paused, EntryInv, ErrorInv
<1>9. ASSUME NEW again \in Outcome, Restore(again) PROVE ErrorInv'
  BY <1>9 DEF Restore, EntryInv, ErrorInv
<1>6. CASE Stay \/ TimerFires \/ MenuSelect \/ ServiceTask \/ RadioTask
  <2>1. UNCHANGED << state, fsm, client >>
    BY <1>6 DEF Stay, TimerFires, MenuSelect, ServiceTask, ServiceStops, Acquire, Promote, ErasePending,
                Lose, RadioFails, RadioTask, RadioTaskStops, ReceiveHopping, ChooseFixed, BeginReceive,
                EndReceive, fsmVars
  <2> QED BY <2>1 DEF ErrorInv
<1>7. CASE Consumer
  <2>1. /\ state' = state /\ fsm' = fsm
        /\ client' = client \/ client' # "RECEIVING" \/ AcceptsOta
    BY <1>7 DEF Consumer, Take, HandleConfig, HandleActivate, HandleStart, HandleData, HandleEnd,
                Verify, Report, LateReport, Reply, BeginSend, EndSend, Activate, Switch, fsmVars
  <2> QED BY <2>1 DEF ErrorInv, AcceptsOta, Provisioning
<1>8. CASE Restart
  BY <1>8 DEF Restart, ErrorInv
<1> QED BY <1>1, <1>2, <1>3, <1>4, <1>5, <1>6, <1>7, <1>8, <1>9 DEF Next, FsmTask

\* Who holds the mutex is where the task is.
LEMMA OwnerSteps == EntryInv /\ OwnerInv /\ Next => OwnerInv'
<1> SUFFICES ASSUME EntryInv, OwnerInv, Next PROVE OwnerInv'
  OBVIOUS
<1>1. CASE Transition \/ Stay \/ TimerFires \/ MenuSelect \/ ServiceTask
  <2>1. /\ UNCHANGED << mutex, otaTask, cons >>
        /\ fsm = fsm' \/ (fsm = "ready" /\ fsm' \in { "ready", "stop" })
    BY <1>1 DEF Transition, Stay, TimerFires, MenuSelect, ServiceTask, ServiceStops, Acquire, Promote,
                ErasePending, Lose, RadioFails, fsmVars, consVars, handlerVars
  <2> QED BY <2>1 DEF OwnerInv
<1>2. CASE RadioTaskGone
  <2>1. /\ UNCHANGED << mutex, otaTask, cons >>
        /\ fsm = "stop" /\ fsm' # "pause"
    BY <1>2 DEF RadioTaskGone, handlerVars
  <2> QED BY <2>1 DEF OwnerInv
<1>3. ASSUME NEW ok \in Outcome, EndOta(ok) PROVE OwnerInv'
  BY <1>3 DEF EndOta, OwnerInv, handlerVars
<1>4. CASE BeginOta
  BY <1>4 DEF BeginOta, OwnerInv, consVars, handlerVars
<1>5. ASSUME NEW ok \in Outcome, Paused(ok) PROVE OwnerInv'
  BY <1>5 DEF Paused, OwnerInv, EntryInv, consVars, handlerVars
<1>9. ASSUME NEW again \in Outcome, Restore(again) PROVE OwnerInv'
  BY <1>9 DEF Restore, OwnerInv, consVars, handlerVars
<1>6. CASE RadioTask
  BY <1>6 DEF RadioTask, RadioTaskStops, ReceiveHopping, ChooseFixed, BeginReceive, EndReceive,
              OwnerInv, fsmVars, consVars, handlerVars
<1>7. CASE Consumer
  <2>1. CASE BeginSend \/ \E ok \in Outcome : EndSend(ok)
    BY <2>1 DEF BeginSend, EndSend, AfterSending, GoTo, Done, OwnerInv, fsmVars
  <2>2. CASE ~(BeginSend \/ \E ok \in Outcome : EndSend(ok))
    <3>1. UNCHANGED << mutex, otaTask, fsm >> /\ cons # "send" /\ cons' # "send"
      BY <1>7, <2>2 DEF Consumer, Take, HandleConfig, HandleActivate, HandleStart, HandleData, HandleEnd,
                  Verify, Report, LateReport, Reply, Activate, Switch, fsmVars, GoTo, Answer, Done,
                  AfterSending, Handling
    <3> QED BY <3>1 DEF OwnerInv
  <2> QED BY <2>1, <2>2
<1>8. CASE Restart
  BY <1>8 DEF Restart, OwnerInv
<1> QED BY <1>1, <1>2, <1>3, <1>4, <1>5, <1>6, <1>7, <1>8, <1>9 DEF Next, FsmTask

\* Only pause stops the service; end_ota and Switch start it again.
LEMMA ServiceSteps == EntryInv /\ ServiceInv /\ Next => ServiceInv'
<1> SUFFICES ASSUME EntryInv, ServiceInv, Next, ~Faults PROVE ServiceInv'
  BY DEF ServiceInv
<1>0. Outcome = { TRUE }
  BY DEF Outcome
<1>1. CASE Transition \/ Stay \/ TimerFires \/ MenuSelect \/ RadioTaskGone \/ BeginOta \/ RadioTask
  <2>1. /\ UNCHANGED << service, ota_active >>
        /\ fsm # "pause" \/ fsm' = fsm
    BY <1>1 DEF Transition, Stay, TimerFires, MenuSelect, RadioTaskGone, BeginOta, RadioTask,
                RadioTaskStops, ReceiveHopping, ChooseFixed, BeginReceive, EndReceive, fsmVars,
                adapterVars, serviceVars
  <2> QED BY <2>1 DEF ServiceInv
<1>2. CASE EndOta(TRUE)
  BY <1>2 DEF EndOta, SetRoleRx, ServiceInv, serviceVars
<1>3. CASE Paused(TRUE)
  BY <1>3 DEF Paused, ServiceInv
<1>7. CASE Restore(TRUE)
  BY <1>7 DEF Restore, SetRoleRx, ServiceInv, serviceVars, adapterVars
<1>4. CASE ServiceTask
  <2>1. /\ UNCHANGED << ota_active, fsm >>
        /\ service' = "stopped" => fsm = "pause"
    BY <1>4 DEF ServiceTask, ServiceStops, Acquire, Promote, ErasePending, Lose, RadioFails, fsmVars,
                adapterVars, serviceVars
  <2> QED BY <2>1 DEF ServiceInv
<1>5. CASE Consumer
  <2>1. CASE Switch(TRUE)
    BY <2>1 DEF Switch, SetRoleRx, ServiceInv, serviceVars
  <2>2. CASE ~Switch(TRUE)
    <3>1. UNCHANGED << ota_active, fsm, service >>
      BY <1>0, <1>5, <2>2 DEF Consumer, Take, HandleConfig, HandleActivate, HandleStart, HandleData,
                  HandleEnd, Verify, Report, LateReport, Reply, BeginSend, EndSend, Activate, fsmVars,
                  adapterVars, serviceVars
    <3> QED BY <3>1 DEF ServiceInv
  <2> QED BY <2>1, <2>2
<1>6. CASE Restart
  BY <1>6 DEF Restart, ServiceInv
<1> QED BY <1>0, <1>1, <1>2, <1>3, <1>4, <1>5, <1>6, <1>7 DEF Next, FsmTask

\* What AfterSending acknowledges is what HandleConfig saved.
LEMMA ConfigSteps == TypeOK /\ ConfigInv /\ Next => ConfigInv'
<1> SUFFICES ASSUME TypeOK, ConfigInv, Next PROVE ConfigInv'
  OBVIOUS
<1>1. CASE FsmTask \/ TimerFires \/ MenuSelect \/ RadioTask
  <2>1. UNCHANGED << pending, active, acked, overtaken, cons, pkt, answer >>
    BY <1>1 DEF FsmTask, Transition, Stay, TimerFires, MenuSelect, RadioTaskGone, BeginOta, EndOta,
                Paused, Restore, RadioTask, RadioTaskStops, ReceiveHopping, ChooseFixed,
                BeginReceive, EndReceive, flash, history, promises, consVars, handlerVars
  <2> QED BY <2>1 DEF ConfigInv, Stands
<1>2. CASE ServiceStops \/ Acquire \/ Lose \/ RadioFails
  <2>1. UNCHANGED << pending, active, acked, overtaken, cons, pkt, answer >>
    BY <1>2 DEF ServiceStops, Acquire, Lose, RadioFails, flash, history, promises, consVars, handlerVars
  <2> QED BY <2>1 DEF ConfigInv, Stands
<1>3. CASE Promote
  <2>1. /\ UNCHANGED << pending, acked, overtaken, cons, pkt, answer >>
        /\ active' = active \/ (active' = pending /\ pending # None)
    BY <1>3 DEF Promote, history, promises, consVars, handlerVars
  <2> QED BY <2>1 DEF ConfigInv, Stands
<1>4. CASE ErasePending
  <2>1. /\ UNCHANGED << active, acked, cons, pkt, answer >> /\ pending' = None
        /\ overtaken' = (overtaken \/ pending \notin { None, active })
    BY <1>4 DEF ErasePending, consVars, handlerVars
  <2>2. ~ overtaken' => ~ overtaken /\ pending \in { None, active }
    BY <2>1, Zenon
  <2> QED BY <2>1, <2>2 DEF ConfigInv, Stands
<1>5. CASE HandleConfig
  <2>1. /\ cons' = "reply" /\ pkt' = pkt /\ active' = active
        /\ \/ pending' = pkt.generation /\ acked' = None
           \/ answer' = "NACK" /\ UNCHANGED << pending, acked, overtaken >>
    BY <1>5 DEF HandleConfig, Answer
  <2> QED BY <2>1 DEF ConfigInv, Stands
<1>6. CASE Take \/ HandleActivate \/ HandleStart \/ HandleData \/ HandleEnd \/ Verify \/ Report
           \/ LateReport \/ Activate \/ \E ok \in Outcome : Switch(ok)
  <2>1. UNCHANGED << pending, active, acked, overtaken >>
    BY <1>6 DEF Take, HandleActivate, HandleStart, HandleData, HandleEnd, Verify, Report, LateReport,
                Activate, Switch, flash, history, promises
  <2>2. cons' = "verify" => pkt'.kind # "CONFIG"
    BY <1>6 DEF Take, HandleActivate, HandleStart, HandleData, HandleEnd, Verify, Report, LateReport,
                Activate, Switch, GoTo, Answer, Done, Handling
  <2>3. cons' \in { "reply", "lock", "send" } => answer' # "ACK" \/ pkt'.kind # "CONFIG"
    BY <1>6 DEF Take, HandleActivate, HandleStart, HandleData, HandleEnd, Verify, Report, LateReport,
                Activate, Switch, GoTo, Answer, Done, Handling, ConfigInv
  <2> QED BY <2>1, <2>2, <2>3 DEF ConfigInv, Stands
<1>7. CASE Reply \/ BeginSend \/ \E ok \in Outcome : EndSend(ok)
  <2>1. /\ UNCHANGED << pending, active, overtaken >>
        /\ cons \in { "reply", "lock", "send" } /\ cons' # "verify"
        /\ cons' \in { "reply", "lock", "send" } => UNCHANGED << pkt, answer >>
    BY <1>7 DEF Reply, BeginSend, EndSend, AfterSending, GoTo, Done, flash, history, promises
  <2>2. acked' = acked \/ (pkt.kind = "CONFIG" /\ answer = "ACK" /\ acked' = pkt.generation)
    BY <1>7 DEF Reply, BeginSend, EndSend, AfterSending, history, promises
  <2> QED BY <2>1, <2>2 DEF ConfigInv, Stands
<1>8. CASE Restart
  <2>1. UNCHANGED << pending, active, acked, overtaken >> /\ cons' = "idle"
    BY <1>8 DEF Restart, flash, history, promises
  <2> QED BY <2>1 DEF ConfigInv, Stands
<1> QED BY <1>1, <1>2, <1>3, <1>4, <1>5, <1>6, <1>7, <1>8 DEF Next, ServiceTask, Consumer

LEMMA InitInv == Init => Inv
<1>1. Init => TypeOK
  BY RestartType
<1>2. Init => EntryInv /\ ErrorInv /\ OwnerInv /\ ServiceInv /\ ConfigInv
  BY DEF Init, EntryInv, ErrorInv, OwnerInv, ServiceInv, ConfigInv, RadioTaskInOta
<1> QED BY <1>1, <1>2 DEF Inv

LEMMA NextInv == Inv /\ [Next]_vars => Inv'
<1>1. ASSUME Inv, Next PROVE Inv'
  <2>1. TypeOK'
    BY <1>1, FsmTaskType, RadioTaskType, ServiceTaskType, ConsumerQuietType, ConsumerRadioType,
       RestartType DEF Inv, Next, Consumer
  <2> QED BY <1>1, <2>1, EntrySteps, ErrorSteps, OwnerSteps, ServiceSteps, ConfigSteps DEF Inv
<1>2. ASSUME Inv, UNCHANGED vars PROVE Inv'
  <2>1. UNCHANGED << state, events, fsm, timers, otaTask, mutex, ota_active, ota_fhss_active, ram,
                     controller, service, synced, candidate, pending, active, inbox, cons, pkt, answer,
                     client, acked, overtaken, stale >>
    BY <1>2 DEF vars, fsmVars, adapterVars, serviceVars, flash, consVars, handlerVars, history, promises
  <2>2. FsmType' /\ RadioType' /\ FlashType' /\ ConsType'
    BY <1>2, <2>1, TypeParts DEF Inv, FsmType, RadioType, FlashType, ConsType
  <2>3. FlagType'
    BY <1>2, <2>1, TypeParts, FlagsKept DEF Inv
  <2>4. EntryInv' /\ ErrorInv' /\ OwnerInv' /\ ServiceInv' /\ ConfigInv'
    BY <1>2, <2>1 DEF Inv, EntryInv, ErrorInv, OwnerInv, ServiceInv, ConfigInv, RadioTaskInOta, Stands
  <2> QED BY <2>2, <2>3, <2>4, TypedAgain DEF Inv
<1> QED BY <1>1, <1>2

----------------------------------------------------------------------------
(* The screen and the session.  What fsm_task will make of the state is in *)
(* the event queue: these invariants say which events still wait when the  *)
(* client has gone on.  A position in the queue is its distance to fsm_task.*)

Queued(e) == { i \in 1..Len(events) : events[i] = e }

\* OTA_START waits for the one session it will show.
StartedOnce ==
  /\ state \in SessionScreens => Queued("OTA_START") = {}
  /\ \A i, j \in Queued("OTA_START") : i = j
  /\ Queued("OTA_START") # {} => client # "IDLE"

\* A session that ends before it is shown has posted its end behind OTA_START.
StartOutlived ==
  client \notin { "IDLE", "RECEIVING" } =>
    \A i \in Queued("OTA_START") :
      cons = "report" \/ \E k \in Queued("OTA_COMPLETE") \cup Queued("ERROR") : k > i

\* An OTA_COMPLETE that will end a session shown belongs to the image at hand.
CompleteIsCurrent ==
  \A j \in Queued("OTA_COMPLETE") :
    state = "OTA_RECEIVING" \/ (\E i \in Queued("OTA_START") : i < j) =>
      \/ cons \in { "verify", "report" } \/ client = "READY_TO_REBOOT"
      \/ \E k \in Queued("ERROR") : k > j

ReceivingEnds ==
  state = "OTA_RECEIVING" /\ client # "RECEIVING" =>
    cons = "report" \/ Queued("OTA_COMPLETE") \cup Queued("ERROR") # {}
ApplyingEnds ==
  state = "OTA_APPLYING" /\ client # "READY_TO_REBOOT" =>
    \/ cons \in { "verify", "report", "late_report" }
    \/ Queued("OTA_VERIFY_FAIL") \cup Queued("ERROR") # {}

\* Nothing aborts a verification.
Verifies == cons = "verify" => client = "VERIFYING"

\* None of this holds of a session aborted before its OTA_START was taken, until
\* that event and what it shows are gone (stale): then it holds again, whatever
\* else is queued.
Clear == StartedOnce /\ StartOutlived /\ CompleteIsCurrent /\ ReceivingEnds /\ ApplyingEnds
ScreenInv == Verifies /\ (stale \/ Clear)

\* The rows of the table these invariants rest on.
LEMMA Lookup ==
  ASSUME NEW s \in States, NEW e
  PROVE  \/ Destination(s, e) = s
         \/ e = "ERROR" /\ Destination(s, e) = "ERROR"
         \/ e = "OTA_FHSS_RESYNC_TIMEOUT" /\ s = "OTA_RECEIVING" /\ Destination(s, e) = "MENU_OTA"
         \/ e = "SYNC_LOST" /\ s \notin { "BOOT_INIT", "ERROR", "OTA_RECEIVING" }
              /\ Destination(s, e) \in { "MENU_OTA", "MENU_COMM" }
         \/ << s, e, Destination(s, e) >> \in Transitions
<1> DEFINE row == { t \in Transitions : t[1] = s /\ t[2] = e }
           found == CHOOSE t \in row : TRUE
<1>1. \A t \in Transitions : t = << t[1], t[2], t[3] >>
  BY DEF Transitions
<1>2. row # {} => found \in Transitions /\ found[1] = s /\ found[2] = e
  OBVIOUS
<1>3. row # {} => << s, e, found[3] >> \in Transitions
  BY <1>1, <1>2
<1> HIDE DEF row, found
<1>4. Destination(s, e) =
        CASE e = "ERROR" -> "ERROR"
          [] e = "OTA_FHSS_RESYNC_TIMEOUT" -> IF s = "OTA_RECEIVING" THEN "MENU_OTA" ELSE s
          [] e = "SYNC_LOST" /\ s \in Provisioning -> "MENU_OTA"
          [] e = "SYNC_LOST" /\ s \notin Provisioning ->
               IF s \in { "BOOT_INIT", "ERROR", "OTA_RECEIVING" } THEN s ELSE "MENU_COMM"
          [] OTHER -> IF row = {} THEN s ELSE found[3]
  BY Zenon DEF Destination, row, found
<1> QED BY <1>3, <1>4 DEF Provisioning

LEMMA SessionRows ==
  ASSUME NEW s \in States, NEW e, NEW d, d = Destination(s, e)
  PROVE  /\ d = "OTA_RECEIVING" /\ s # d => s = "OTA_FHSS_READY" /\ e = "OTA_START"
         /\ d = "OTA_APPLYING" /\ s # d => s = "OTA_RECEIVING" /\ e = "OTA_COMPLETE"
<1>1. \A t \in Transitions :
        /\ t[3] = "OTA_RECEIVING" => t[1] = "OTA_FHSS_READY" /\ t[2] = "OTA_START"
        /\ t[3] = "OTA_APPLYING" => t[1] = "OTA_RECEIVING" /\ t[2] = "OTA_COMPLETE"
  BY DEF Transitions
<1>2. << s, e, d >> \in Transitions =>
        /\ d = "OTA_RECEIVING" => s = "OTA_FHSS_READY" /\ e = "OTA_START"
        /\ d = "OTA_APPLYING" => s = "OTA_RECEIVING" /\ e = "OTA_COMPLETE"
  BY <1>1
<1> QED BY <1>2, Lookup

\* The events that end what is shown of a session do end it.
LEMMA EndingRows ==
  /\ \A s : Destination(s, "ERROR") = "ERROR"
  /\ Destination("OTA_RECEIVING", "OTA_COMPLETE") # "OTA_RECEIVING"
  /\ Destination("OTA_APPLYING", "OTA_VERIFY_FAIL") # "OTA_APPLYING"
<1>1. \A s : Destination(s, "ERROR") = "ERROR"
  BY DEF Destination
<1>2. ASSUME NEW s, NEW e, NEW d, << s, e, d >> \in Transitions,
             e \notin { "ERROR", "OTA_FHSS_RESYNC_TIMEOUT", "SYNC_LOST" },
             \A t \in Transitions : t[1] = s /\ t[2] = e => t[3] # s
      PROVE  Destination(s, e) # s
  <2> DEFINE row == { t \in Transitions : t[1] = s /\ t[2] = e }
             found == CHOOSE t \in row : TRUE
  <2>1. << s, e, d >> \in row
    BY <1>2
  <2>2. found \in row
    BY <2>1
  <2>3. found[3] # s /\ row # {}
    BY <1>2, <2>1, <2>2
  <2> HIDE DEF row, found
  <2>4. Destination(s, e) =
          CASE e = "ERROR" -> "ERROR"
            [] e = "OTA_FHSS_RESYNC_TIMEOUT" -> IF s = "OTA_RECEIVING" THEN "MENU_OTA" ELSE s
            [] e = "SYNC_LOST" /\ s \in Provisioning -> "MENU_OTA"
            [] e = "SYNC_LOST" /\ s \notin Provisioning ->
                 IF s \in { "BOOT_INIT", "ERROR", "OTA_RECEIVING" } THEN s ELSE "MENU_COMM"
            [] OTHER -> IF row = {} THEN s ELSE found[3]
    BY Zenon DEF Destination, row, found
  <2> QED BY <1>2, <2>3, <2>4
<1>3. /\ << "OTA_RECEIVING", "OTA_COMPLETE", "OTA_APPLYING" >> \in Transitions
      /\ << "OTA_APPLYING", "OTA_VERIFY_FAIL", "MENU_OTA" >> \in Transitions
      /\ \A t \in Transitions :
           /\ t[1] = "OTA_RECEIVING" /\ t[2] = "OTA_COMPLETE" => t[3] # "OTA_RECEIVING"
           /\ t[1] = "OTA_APPLYING" /\ t[2] = "OTA_VERIFY_FAIL" => t[3] # "OTA_APPLYING"
  BY DEF Transitions
<1>4. Destination("OTA_RECEIVING", "OTA_COMPLETE") # "OTA_RECEIVING"
  BY <1>2, <1>3
<1>5. Destination("OTA_APPLYING", "OTA_VERIFY_FAIL") # "OTA_APPLYING"
  BY <1>2, <1>3
<1> QED BY <1>1, <1>4, <1>5

\* An event posted comes behind all others.
LEMMA PostedLast ==
  ASSUME events \in Seq(Events), NEW e \in Events, Post(e)
  PROVE  /\ \A x : x # e => Queued(x)' = Queued(x)
         /\ Queued(e)' = Queued(e) \cup { Len(events) + 1 }
         /\ \A x : \A i \in Queued(x) : i \in Nat \ {0} /\ i < Len(events) + 1
         /\ Len(events) \in Nat
<1>1. /\ Len(events) \in Nat /\ Len(events') = Len(events) + 1
      /\ events'[Len(events) + 1] = e
      /\ \A i \in 1..Len(events) : events'[i] = events[i]
  BY DEF Post
<1>2. ASSUME NEW x PROVE Queued(x)' = { i \in 1..Len(events') : events'[i] = x }
  BY DEF Queued
<1>3. \A x : x # e => Queued(x)' = Queued(x)
  BY <1>1, <1>2 DEF Queued
<1>4. Queued(e)' = Queued(e) \cup { Len(events) + 1 }
  BY <1>1, <1>2 DEF Queued
<1> QED BY <1>1, <1>3, <1>4 DEF Queued

\* An event taken brings the others one place forward; the entry into BOOT_INIT
\* posts INIT_DONE behind them.
LEMMA TakenFirst ==
  ASSUME events \in Seq(Events), events # << >>,
         events' = Tail(events) \/ events' = Append(Tail(events), "INIT_DONE")
  PROVE  /\ \A x : \A i \in Queued(x) : i = 1 => Head(events) = x
         /\ \A x : \A i \in Queued(x) : i # 1 => i - 1 \in Queued(x)'
         /\ \A x : \A i \in Queued(x)' :
              /\ i \in Nat \ {0}
              /\ x # "INIT_DONE" => i + 1 \in Queued(x)
         /\ \A x : \A i \in Queued(x) : i \in Nat \ {0} /\ i <= Len(events)
         /\ 1 \in Queued(Head(events))
<1>1. /\ Len(events) \in Nat \ {0} /\ Head(events) = events[1]
      /\ Len(events') \in { Len(events) - 1, Len(events) }
      /\ \A i \in 1..Len(events) - 1 : events'[i] = events[i + 1]
      /\ Len(events') = Len(events) => events'[Len(events)] = "INIT_DONE"
  <2>1. CASE events' = Tail(events)
    BY <2>1
  <2>2. CASE events' = Append(Tail(events), "INIT_DONE")
    <3> DEFINE rest == Tail(events)
    <3>1. /\ Len(rest) = Len(events) - 1 /\ rest \in Seq(Events) /\ Len(events) \in Nat \ {0}
          /\ \A i \in 1..Len(events) - 1 : rest[i] = events[i + 1]
          /\ Head(events) = events[1]
      OBVIOUS
    <3>2. events' = Append(rest, "INIT_DONE")
      BY <2>2
    <3> HIDE DEF rest
    <3>3. /\ Len(events') = Len(rest) + 1 /\ events'[Len(rest) + 1] = "INIT_DONE"
          /\ \A i \in 1..Len(rest) : events'[i] = rest[i]
      BY <3>1, <3>2
    <3>5. Len(events') = Len(events) /\ (Len(events) - 1) + 1 = Len(events)
      BY <3>1, <3>3
    <3>6. \A i \in 1..Len(events) - 1 : events'[i] = events[i + 1]
      BY <3>1, <3>3
    <3>7. events'[Len(events)] = "INIT_DONE"
      BY <3>1, <3>3, <3>5
    <3> QED BY <3>1, <3>5, <3>6, <3>7
  <2> QED BY <2>1, <2>2
<1>2. ASSUME NEW x PROVE Queued(x)' = { i \in 1..Len(events') : events'[i] = x }
  BY DEF Queued
<1> QED BY <1>1, <1>2 DEF Queued

\* Nothing is left of a session that was aborted.
LEMMA Nothing == ~ Waits(events) /\ state \notin SessionScreens => Clear
<1> SUFFICES ASSUME ~ Waits(events), state \notin SessionScreens PROVE Clear
  OBVIOUS
<1>1. Queued("OTA_START") = {}
  BY DEF Queued, Waits
<1> QED BY <1>1 DEF Clear, StartedOnce, StartOutlived, CompleteIsCurrent, ReceivingEnds,
                    ApplyingEnds, SessionScreens

LEMMA NothingAgain == (~ Waits(events) /\ state \notin SessionScreens)' => Clear'
  BY Nothing, PTL

\* An abort, or a step of fsm_task after one.
LEMMA AbortedScreen ==
  ASSUME Outdate, stale \/ client' # client
  PROVE  stale' \/ Clear'
<1>1. stale' = (Waits(events') \/ state' \in SessionScreens)
  BY Zenon DEF Outdate
<1>2. Waits(events') = Waits(events)'
  BY DEF Waits
<1> QED BY <1>1, <1>2, NothingAgain

\* Steps that post nothing of a session and leave its state to others.
LEMMA KeptClear ==
  ASSUME TypeOK, Clear, UNCHANGED << state, client >>,
         cons' = cons \/ {cons, cons'} \cap { "verify", "report", "late_report" } = {},
         \/ events' = events
         \/ \E e \in Events \ { "OTA_START", "OTA_COMPLETE" } : Post(e)
  PROVE  Clear'
<1> DEFINE Marks == { "OTA_START", "OTA_COMPLETE" }
<1>1. /\ \A x : Queued(x) \subseteq Queued(x)'
      /\ \A x \in Marks : Queued(x)' = Queued(x)
  <2>1. CASE events' = events
    BY <2>1 DEF Queued
  <2>2. ASSUME NEW e \in Events \ Marks, Post(e)
        PROVE  /\ \A x : Queued(x) \subseteq Queued(x)'
               /\ \A x \in Marks : Queued(x)' = Queued(x)
    BY <2>2, PostedLast DEF TypeOK
  <2> QED BY <2>1, <2>2
<1>2. StartedOnce'
  BY <1>1 DEF Clear, StartedOnce
<1>3. StartOutlived'
  BY <1>1 DEF Clear, StartOutlived
<1>4. CompleteIsCurrent'
  BY <1>1 DEF Clear, CompleteIsCurrent
<1>5. ReceivingEnds' /\ ApplyingEnds'
  BY <1>1 DEF Clear, ReceivingEnds, ApplyingEnds
<1> QED BY <1>2, <1>3, <1>4, <1>5 DEF Clear

LEMMA KeptScreen ==
  ASSUME TypeOK, ScreenInv, UNCHANGED << state, client, stale >>,
         cons' = cons \/ {cons, cons'} \cap { "verify", "report", "late_report" } = {},
         \/ events' = events
         \/ \E e \in Events \ { "OTA_START", "OTA_COMPLETE" } : Post(e)
  PROVE  ScreenInv'
<1>1. Verifies'
  BY DEF ScreenInv, Verifies
<1>2. Clear => Clear'
  BY KeptClear
<1> QED BY <1>1, <1>2 DEF ScreenInv

\* fsm_task takes the next event, with what it does to the state and the client.
LEMMA TakenClear ==
  ASSUME TypeOK, Clear, Transition \/ Stay, client' = client
  PROVE  Clear'
<1> DEFINE e == Head(events)
<1>1. /\ events \in Seq(Events) /\ events # << >> /\ cons' = cons
      /\ state' = Destination(state, e) /\ state \in States
      /\ \/ events' = Tail(events)
         \/ events' = Append(Tail(events), "INIT_DONE") /\ state' = "BOOT_INIT" /\ state # state'
  BY DEF Transition, Stay, TypeOK, consVars, handlerVars
<1>2. /\ state' = "OTA_RECEIVING" /\ state # state' => state = "OTA_FHSS_READY" /\ e = "OTA_START"
      /\ state' = "OTA_APPLYING" /\ state # state' => state = "OTA_RECEIVING" /\ e = "OTA_COMPLETE"
  <2> HIDE DEF e
  <2> QED BY <1>1, SessionRows
<1>3. /\ e = "ERROR" => state' = "ERROR"
      /\ state = "OTA_RECEIVING" /\ e = "OTA_COMPLETE" => state' # state
      /\ state = "OTA_APPLYING" /\ e = "OTA_VERIFY_FAIL" => state' # state
  <2> HIDE DEF e
  <2> QED BY <1>1, EndingRows
<1>4. /\ \A x : \A i \in Queued(x) : i = 1 => e = x
      /\ \A x : \A i \in Queued(x) : i # 1 => i - 1 \in Queued(x)'
      /\ \A x : \A i \in Queued(x)' :
           /\ i \in Nat \ {0}
           /\ x # "INIT_DONE" => i + 1 \in Queued(x)
      /\ \A x : \A i \in Queued(x) : i \in Nat \ {0} /\ i <= Len(events)
      /\ 1 \in Queued(e)
  BY <1>1, TakenFirst
<1>5. Len(events) \in Nat
  BY <1>1
<1> HIDE DEF e
<1>6. StartedOnce'
  <2>1. ASSUME NEW i \in Queued("OTA_START")', state' \in SessionScreens
        PROVE  FALSE
    <3>1. i + 1 \in Queued("OTA_START") /\ i \in Nat \ {0}
      BY <1>4
    <3>2. state \notin SessionScreens
      BY <3>1 DEF Clear, StartedOnce
    <3>3. 1 \in Queued("OTA_START")
      BY <1>2, <1>4, <2>1, <3>2 DEF SessionScreens
    <3>4. i + 1 = 1
      BY <3>1, <3>3 DEF Clear, StartedOnce
    <3> QED BY <3>1, <3>4
  <2>2. ASSUME NEW i \in Queued("OTA_START")', NEW j \in Queued("OTA_START")'
        PROVE  i = j
    <3>1. i + 1 \in Queued("OTA_START") /\ i \in Nat /\ j + 1 \in Queued("OTA_START") /\ j \in Nat
      BY <1>4
    <3>2. i + 1 = j + 1
      BY <3>1 DEF Clear, StartedOnce
    <3> QED BY <3>1, <3>2
  <2>3. ASSUME NEW i \in Queued("OTA_START")'
        PROVE  client' # "IDLE"
    <3>1. i + 1 \in Queued("OTA_START")
      BY <1>4
    <3> QED BY <3>1 DEF Clear, StartedOnce
  <2> QED BY <2>1, <2>2, <2>3 DEF StartedOnce
<1>7. StartOutlived'
  <2> SUFFICES ASSUME client' \notin { "IDLE", "RECEIVING" }, NEW i \in Queued("OTA_START")',
                      cons # "report"
               PROVE  \E k \in Queued("OTA_COMPLETE")' \cup Queued("ERROR")' : k > i
    BY <1>1 DEF StartOutlived
  <2>1. i + 1 \in Queued("OTA_START") /\ i \in Nat \ {0}
    BY <1>4
  <2>2. PICK k \in Queued("OTA_COMPLETE") \cup Queued("ERROR") : k > i + 1
    BY <2>1 DEF Clear, StartOutlived
  <2>3. k \in Nat /\ k # 1 /\ k - 1 > i
    BY <1>4, <2>1, <2>2
  <2>4. k - 1 \in Queued("OTA_COMPLETE")' \cup Queued("ERROR")'
    BY <1>4, <2>2, <2>3
  <2> QED BY <2>3, <2>4
<1>8. CompleteIsCurrent'
  <2> SUFFICES ASSUME NEW j \in Queued("OTA_COMPLETE")',
                      state' = "OTA_RECEIVING" \/ \E i \in Queued("OTA_START")' : i < j,
                      cons \notin { "verify", "report" }, client' # "READY_TO_REBOOT"
               PROVE  \E k \in Queued("ERROR")' : k > j
    BY <1>1 DEF CompleteIsCurrent
  <2>1. j + 1 \in Queued("OTA_COMPLETE") /\ j \in Nat \ {0}
    BY <1>4
  <2>3. state = "OTA_RECEIVING" \/ \E i \in Queued("OTA_START") : i < j + 1
    <3>1. CASE state' = "OTA_RECEIVING" /\ state # state'
      <4>1. 1 \in Queued("OTA_START")
        BY <1>2, <1>4, <3>1
      <4>2. 1 < j + 1
        BY <2>1
      <4> QED BY <4>1, <4>2
    <3>2. ASSUME NEW i \in Queued("OTA_START")', i < j
          PROVE  \E l \in Queued("OTA_START") : l < j + 1
      <4>1. i + 1 \in Queued("OTA_START") /\ i \in Nat
        BY <1>4
      <4>2. i + 1 < j + 1
        BY <2>1, <3>2, <4>1
      <4> QED BY <4>1, <4>2
    <3> QED BY <3>1, <3>2
  <2>4. PICK k \in Queued("ERROR") : k > j + 1
    BY <2>1, <2>3 DEF Clear, CompleteIsCurrent
  <2>5. k \in Nat /\ k # 1 /\ k - 1 > j
    BY <1>4, <2>1, <2>4
  <2> QED BY <1>4, <2>4, <2>5
<1>9. ReceivingEnds'
  <2> SUFFICES ASSUME state' = "OTA_RECEIVING", client' # "RECEIVING", cons # "report"
               PROVE  Queued("OTA_COMPLETE")' \cup Queued("ERROR")' # {}
    BY <1>1 DEF ReceivingEnds
  <2>2. CASE state = "OTA_RECEIVING"
    <3>1. PICK k \in Queued("OTA_COMPLETE") \cup Queued("ERROR") : TRUE
      BY <2>2 DEF Clear, ReceivingEnds
    <3>2. k # 1
      BY <1>3, <1>4, <2>2, <3>1
    <3> QED BY <1>4, <3>1, <3>2
  <2>3. CASE state # "OTA_RECEIVING"
    <3>1. state = "OTA_FHSS_READY" /\ 1 \in Queued("OTA_START")
      BY <1>2, <1>4, <2>3
    <3>2. client # "IDLE"
      BY <3>1 DEF Clear, StartedOnce
    <3>3. PICK k \in Queued("OTA_COMPLETE") \cup Queued("ERROR") : k > 1
      BY <3>1, <3>2 DEF Clear, StartOutlived
    <3>4. k # 1
      BY <1>4, <3>3
    <3> QED BY <1>4, <3>3, <3>4
  <2> QED BY <2>2, <2>3
<1>10. ApplyingEnds'
  <2> SUFFICES ASSUME state' = "OTA_APPLYING", client' # "READY_TO_REBOOT",
                      cons \notin { "verify", "report", "late_report" }
               PROVE  Queued("OTA_VERIFY_FAIL")' \cup Queued("ERROR")' # {}
    BY <1>1 DEF ApplyingEnds
  <2>2. CASE state = "OTA_APPLYING"
    <3>1. PICK k \in Queued("OTA_VERIFY_FAIL") \cup Queued("ERROR") : TRUE
      BY <2>2 DEF Clear, ApplyingEnds
    <3>2. k # 1
      BY <1>3, <1>4, <2>2, <3>1
    <3> QED BY <1>4, <3>1, <3>2
  <2>3. CASE state # "OTA_APPLYING"
    <3>1. state = "OTA_RECEIVING" /\ 1 \in Queued("OTA_COMPLETE")
      BY <1>2, <1>4, <2>3
    <3>2. PICK k \in Queued("ERROR") : k > 1
      BY <3>1 DEF Clear, CompleteIsCurrent
    <3>3. k # 1
      BY <1>4, <3>2
    <3> QED BY <1>4, <3>2, <3>3
  <2> QED BY <2>2, <2>3
<1> QED BY <1>6, <1>7, <1>8, <1>9, <1>10 DEF Clear

LEMMA TakenScreen ==
  ASSUME TypeOK, ScreenInv, Transition \/ Stay
  PROVE  ScreenInv'
<1>1. /\ cons' = cons /\ Outdate
      /\ client' = client \/ client \in { "RECEIVING", "ERROR" }
  BY DEF Transition, Stay, Abort, consVars, handlerVars
<1>2. Verifies'
  BY <1>1 DEF ScreenInv, Verifies
<1>3. CASE stale \/ client' # client
  BY <1>1, <1>2, <1>3, AbortedScreen DEF ScreenInv
<1>4. CASE ~ stale /\ client' = client
  BY <1>2, <1>4, TakenClear DEF ScreenInv
<1> QED BY <1>3, <1>4

\* The entry action of ERROR aborts the session, those of the menus do not.
LEMMA EntryScreen ==
  ASSUME TypeOK, ScreenInv, NEW due, Abort(due), Outdate, UNCHANGED << state, events, cons >>
  PROVE  ScreenInv'
<1>1. client' = client \/ client \in { "RECEIVING", "ERROR" }
  BY DEF Abort
<1>2. Verifies'
  BY <1>1 DEF ScreenInv, Verifies
<1>3. CASE stale \/ client' # client
  BY <1>2, <1>3, AbortedScreen DEF ScreenInv
<1>4. CASE ~ stale /\ client' = client
  BY <1>2, <1>4, KeptClear DEF ScreenInv
<1> QED BY <1>3, <1>4

\* START: the session and its event begin together (handle_start).
LEMMA StartScreen ==
  ASSUME TypeOK, ScreenInv, HandleStart
  PROVE  ScreenInv'
<1>1. state' = state /\ stale' = stale /\ cons = "handle" /\ cons' # "verify"
  BY DEF HandleStart, Handling, history, GoTo, Answer
<1>2. Verifies'
  BY <1>1 DEF Verifies
<1>3. CASE client' = client /\ events' = events
  BY <1>1, <1>3, KeptScreen DEF HandleStart, GoTo, Answer
<1>4. CASE Clear /\ AcceptsOta /\ client = "IDLE"
  <2>1. Queued("OTA_START") = {} /\ state \notin SessionScreens
    BY <1>4 DEF AcceptsOta, Provisioning, Clear, StartedOnce, SessionScreens
  <2>2. CASE client' = "RECEIVING" /\ Post("OTA_START") /\ cons' = "reply"
    <3>1. /\ \A x : x # "OTA_START" => Queued(x)' = Queued(x)
          /\ Queued("OTA_START")' = { Len(events) + 1 }
          /\ \A x : \A i \in Queued(x) : i \in Nat \ {0} /\ i < Len(events) + 1
          /\ Len(events) \in Nat
      BY <2>1, <2>2, PostedLast, Posted DEF TypeOK
    <3>2. StartedOnce' /\ StartOutlived'
      BY <1>1, <2>1, <2>2, <3>1 DEF StartedOnce, StartOutlived, SessionScreens
    <3>3. CompleteIsCurrent'
      <4>1. \A j \in Queued("OTA_COMPLETE")' : ~(Len(events) + 1 < j)
        BY <3>1
      <4> QED BY <1>1, <2>1, <3>1, <4>1 DEF CompleteIsCurrent, SessionScreens
    <3>4. ReceivingEnds' /\ ApplyingEnds'
      BY <1>1, <2>1, <2>2 DEF ReceivingEnds, ApplyingEnds, SessionScreens
    <3> QED BY <1>2, <3>2, <3>3, <3>4 DEF ScreenInv, Clear
  <2>3. CASE client' = "ERROR" /\ events' = events /\ cons' = "report"
    <3>1. \A x : Queued(x)' = Queued(x)
      BY <2>3 DEF Queued
    <3> QED BY <1>1, <1>2, <2>1, <2>3, <3>1
            DEF ScreenInv, Clear, StartedOnce, StartOutlived, CompleteIsCurrent, ReceivingEnds,
                ApplyingEnds, SessionScreens
  <2> QED BY <1>4, <2>2, <2>3 DEF HandleStart, Answer, GoTo
<1>5. CASE stale
  BY <1>1, <1>2, <1>5 DEF ScreenInv
<1> QED BY <1>3, <1>4, <1>5 DEF HandleStart, ScreenInv

\* DATA that cannot be written: the failure will be reported.
LEMMA DataScreen ==
  ASSUME TypeOK, ScreenInv, HandleData
  PROVE  ScreenInv'
<1>1. UNCHANGED << state, events, stale >> /\ cons = "handle"
  BY DEF HandleData, Handling, fsmVars, history
<1>2. CASE client' = client /\ cons' = "reply"
  BY <1>1, <1>2, KeptScreen
<1>3. CASE client = "RECEIVING" /\ client' = "ERROR" /\ cons' = "report"
  <2>1. \A x : Queued(x)' = Queued(x)
    BY <1>1 DEF Queued
  <2>2. Clear => Clear'
    BY <1>1, <1>3, <2>1
       DEF Clear, StartedOnce, StartOutlived, CompleteIsCurrent, ReceivingEnds, ApplyingEnds
  <2>3. Verifies'
    BY <1>3 DEF Verifies
  <2> QED BY <1>1, <2>2, <2>3 DEF ScreenInv
<1> QED BY <1>2, <1>3 DEF HandleData, Answer, GoTo

\* END: OTA_COMPLETE is posted as the verification begins.
LEMMA EndScreen ==
  ASSUME TypeOK, ScreenInv, HandleEnd
  PROVE  ScreenInv'
<1>1. UNCHANGED << state, stale >> /\ cons = "handle"
  BY DEF HandleEnd, Handling, history
<1>2. CASE client' = client /\ events' = events /\ cons' = "reply"
  BY <1>1, <1>2, KeptScreen
<1>3. CASE client = "RECEIVING" /\ client' = "VERIFYING" /\ Post("OTA_COMPLETE") /\ cons' = "verify"
  <2>1. /\ \A x : x # "OTA_COMPLETE" => Queued(x)' = Queued(x)
        /\ Queued("OTA_COMPLETE")' = Queued("OTA_COMPLETE") \cup { Len(events) + 1 }
        /\ \A x : \A i \in Queued(x) : i \in Nat \ {0} /\ i < Len(events) + 1
        /\ Len(events) \in Nat
    BY <1>3, PostedLast, Posted DEF TypeOK
  <2>2. ASSUME Clear PROVE Clear'
    <3>1. StartedOnce'
      BY <1>1, <1>3, <2>1, <2>2 DEF Clear, StartedOnce
    <3>2. StartOutlived'
      BY <2>1 DEF StartOutlived
    <3>3. CompleteIsCurrent' /\ ReceivingEnds' /\ ApplyingEnds'
      BY <1>3, <2>1 DEF CompleteIsCurrent, ReceivingEnds, ApplyingEnds
    <3> QED BY <3>1, <3>2, <3>3 DEF Clear
  <2>3. Verifies'
    BY <1>3 DEF Verifies
  <2> QED BY <1>1, <2>2, <2>3 DEF ScreenInv
<1> QED BY <1>2, <1>3 DEF HandleEnd, Answer, GoTo

\* The verification ends one way or the other.
LEMMA VerifyScreen ==
  ASSUME ScreenInv, Verify
  PROVE  ScreenInv'
<1>1. /\ UNCHANGED << state, events, stale >> /\ cons = "verify" /\ client = "VERIFYING"
      /\ \/ client' = "READY_TO_REBOOT" /\ cons' = "reply"
         \/ client' = "ERROR" /\ cons' = "report"
  BY DEF Verify, Answer, GoTo, fsmVars, history, ScreenInv, Verifies
<1>2. \A x : Queued(x)' = Queued(x)
  BY <1>1 DEF Queued
<1>3. ASSUME Clear PROVE Clear'
  <2>1. StartedOnce' /\ StartOutlived' /\ CompleteIsCurrent'
    BY <1>1, <1>2, <1>3 DEF Clear, StartedOnce, StartOutlived, CompleteIsCurrent
  <2>2. ReceivingEnds' /\ ApplyingEnds'
    BY <1>1, <1>2, <1>3 DEF Clear, ReceivingEnds, ApplyingEnds
  <2> QED BY <2>1, <2>2 DEF Clear
<1>4. Verifies'
  BY <1>1 DEF Verifies
<1> QED BY <1>1, <1>3, <1>4 DEF ScreenInv

\* OTA_CLIENT_EVENT_FAILED, at once or after it was shown.
LEMMA ReportScreen ==
  ASSUME TypeOK, ScreenInv, Report \/ LateReport
  PROVE  ScreenInv'
<1>1. UNCHANGED << state, client, stale >> /\ Verifies'
  BY DEF Report, LateReport, GoTo, Answer, history, Verifies
<1>2. CASE Report /\ state = "OTA_APPLYING"
  <2>1. cons = "report" /\ cons' = "late_report" /\ events' = events
    BY <1>2 DEF Report, GoTo
  <2>2. \A x : Queued(x)' = Queued(x)
    BY <2>1 DEF Queued
  <2>3. ASSUME Clear PROVE Clear'
    <3>1. StartedOnce' /\ ReceivingEnds' /\ ApplyingEnds'
      BY <1>1, <1>2, <2>1, <2>2, <2>3 DEF Clear, StartedOnce, ReceivingEnds, ApplyingEnds
    <3>2. StartOutlived'
      <4>1. client \notin { "IDLE", "RECEIVING" } => Queued("OTA_START") = {}
        BY <1>2, <2>3 DEF Clear, StartedOnce, SessionScreens
      <4> QED BY <1>1, <2>2, <4>1 DEF StartOutlived
    <3>3. CompleteIsCurrent'
      <4>1. Queued("OTA_START") = {}
        BY <1>2, <2>3 DEF Clear, StartedOnce, SessionScreens
      <4> QED BY <1>1, <1>2, <2>2, <4>1 DEF CompleteIsCurrent
    <3> QED BY <3>1, <3>2, <3>3 DEF Clear
  <2> QED BY <1>1, <2>3 DEF ScreenInv
<1>3. ASSUME Clear, NEW e \in { "ERROR", "OTA_VERIFY_FAIL" }, Post(e), cons' = "reply",
             \/ cons = "report" /\ e = "ERROR" /\ state # "OTA_APPLYING"
             \/ cons = "late_report" /\ e = "OTA_VERIFY_FAIL"
      PROVE  Clear'
  <2>1. /\ \A x : x # e => Queued(x)' = Queued(x)
        /\ Queued(e)' = Queued(e) \cup { Len(events) + 1 }
        /\ \A x : \A i \in Queued(x) : i \in Nat \ {0} /\ i < Len(events) + 1
        /\ Len(events) \in Nat
    BY <1>3, PostedLast, Posted DEF TypeOK
  <2>2. StartedOnce'
    BY <1>1, <1>3, <2>1 DEF Clear, StartedOnce
  <2>3. StartOutlived'
    BY <1>1, <1>3, <2>1 DEF Clear, StartOutlived
  <2>4. CompleteIsCurrent'
    BY <1>1, <1>3, <2>1 DEF Clear, CompleteIsCurrent
  <2>5. ReceivingEnds' /\ ApplyingEnds'
    BY <1>1, <1>3, <2>1 DEF Clear, ReceivingEnds, ApplyingEnds
  <2> QED BY <2>2, <2>3, <2>4, <2>5 DEF Clear
<1>4. CASE ~ (Report /\ state = "OTA_APPLYING")
  <2>1. Clear => Clear'
    BY <1>3, <1>4 DEF Report, LateReport, Answer
  <2> QED BY <1>1, <2>1 DEF ScreenInv
<1> QED BY <1>2, <1>4

\* Nothing is queued but INIT_DONE when the device starts.
LEMMA StartedScreen ==
  ASSUME state = "BOOT_INIT", events = << "INIT_DONE" >>, cons = "idle"
  PROVE  ScreenInv
<1>1. ~ Waits(events)
  BY DEF Waits
<1> QED BY <1>1, Nothing DEF ScreenInv, SessionScreens, Verifies

LEMMA ScreenSteps ==
  ASSUME TypeOK, ScreenInv, [Next]_vars
  PROVE  ScreenInv'
<1>1. CASE Transition \/ Stay
  BY <1>1, TakenScreen
<1>2. CASE RadioTaskGone
  BY <1>2, EntryScreen DEF RadioTaskGone, handlerVars
<1>3. ASSUME NEW ok \in Outcome, EndOta(ok) PROVE ScreenInv'
  BY <1>3, EntryScreen DEF EndOta, handlerVars
<1>4. CASE BeginOta \/ RadioTask \/ \E ok \in Outcome : Paused(ok) \/ Restore(ok)
  <2>1. UNCHANGED << state, client, cons, stale >>
    BY <1>4 DEF BeginOta, Paused, Restore, RadioTask, RadioTaskStops, ReceiveHopping, ChooseFixed,
                BeginReceive, EndReceive, fsmVars, consVars, handlerVars, history
  <2>2. events' = events \/ Post("ERROR")
    BY <1>4 DEF BeginOta, Paused, Restore, RadioTask, RadioTaskStops, ReceiveHopping, ChooseFixed,
                BeginReceive, EndReceive, fsmVars
  <2> QED BY <2>1, <2>2, KeptScreen, Posted
<1>5. CASE TimerFires \/ MenuSelect \/ ServiceTask
  <2>1. UNCHANGED << state, client, cons, stale >>
    BY <1>5 DEF TimerFires, MenuSelect, ServiceTask, ServiceStops, Acquire, Promote, ErasePending,
                Lose, RadioFails, fsmVars, consVars, handlerVars, history
  <2>2. events' = events \/ \E e \in { "FHSS_SYNC_TIMEOUT", "OTA_FHSS_RESYNC_TIMEOUT", "ERROR",
                                       "SYNC_ACQUIRED", "SYNC_LOST", "RETRY" } \cup Clicks : Post(e)
    BY <1>5 DEF TimerFires, MenuSelect, ServiceTask, ServiceStops, Acquire, Promote, ErasePending,
                Lose, RadioFails, fsmVars
  <2>3. Clicks \subseteq Events \ { "OTA_START", "OTA_COMPLETE" }
    BY ClicksAssumption DEF Events
  <2> QED BY <2>1, <2>2, <2>3, KeptScreen, Posted
<1>6. CASE Take \/ HandleConfig \/ HandleActivate \/ Reply \/ BeginSend \/ Activate
           \/ \E ok \in Outcome : EndSend(ok) \/ Switch(ok)
  <2>1. UNCHANGED << state, client, stale >>
    BY <1>6 DEF Take, HandleConfig, HandleActivate, Reply, BeginSend, Activate, EndSend, Switch,
                fsmVars, history
  <2>2. {cons, cons'} \cap { "verify", "report", "late_report" } = {}
    BY <1>6 DEF Take, HandleConfig, HandleActivate, Reply, BeginSend, Activate, EndSend, Switch,
                Handling, GoTo, Answer, Done, AfterSending
  <2>3. events' = events \/ \E e \in { "FHSS_CONFIG_READY", "FHSS_ACTIVATE", "FHSS_SYNC_TIMEOUT" } : Post(e)
    BY <1>6 DEF Take, HandleConfig, HandleActivate, Reply, BeginSend, Activate, EndSend, Switch,
                AfterSending, fsmVars
  <2> QED BY <2>1, <2>2, <2>3, KeptScreen, Posted
<1>7. CASE HandleStart \/ HandleData \/ HandleEnd \/ Verify \/ Report \/ LateReport
  BY <1>7, StartScreen, DataScreen, EndScreen, VerifyScreen, ReportScreen
<1>8. CASE Restart
  <2>1. (state = "BOOT_INIT" /\ events = << "INIT_DONE" >> /\ cons = "idle")'
    BY <1>8 DEF Restart
  <2> QED BY <2>1, StartedScreen, PTL
<1>9. CASE UNCHANGED vars
  BY <1>9, KeptScreen DEF vars, fsmVars, consVars, handlerVars, history
<1> QED BY <1>1, <1>2, <1>3, <1>4, <1>5, <1>6, <1>7, <1>8, <1>9 DEF Next, FsmTask, Consumer

----------------------------------------------------------------------------
(* Theorems. *)

\* Inv holds while the four tasks, the timers and the user do what they may.
THEOREM Invariance == Spec => []Inv
  BY InitInv, NextInv, PTL DEF Spec

\* Every variable keeps its type; what is promoted and acknowledged is a stored
\* generation.
THEOREM TypeCorrect == Spec => []TypeOK
<1>1. Inv => TypeOK
  BY DEF Inv
<1> QED BY <1>1, Invariance, PTL

\* An acknowledged configuration is in one of the two keys, for any number of
\* generations and restarts, unless a promotion it overtook erased it
\* (fhss_config_store_activate).
THEOREM ConfigSafety == Spec => []AckedIsKept
<1>1. Inv => AckedIsKept
  BY DEF Inv, ConfigInv, Stands, AckedIsKept
<1> QED BY <1>1, Invariance, PTL

\* The radio task never runs outside OTA mode (stop_ota_radio, end_ota).
THEOREM RadioTaskSafety == Spec => []RadioTaskInOta
<1>1. Inv => RadioTaskInOta
  BY DEF Inv, EntryInv
<1> QED BY <1>1, Invariance, PTL

\* Whatever failed on the way to ERROR, nothing runs there (on_enter_error).
THEOREM ErrorSafety == Spec => []ErrorIsQuiet
<1>1. Inv => ErrorIsQuiet
  BY DEF Inv, EntryInv, ErrorInv, RadioTaskInOta, ErrorIsQuiet
<1> QED BY <1>1, Invariance, PTL

\* With a radio that works the voice menus have a receiver, however a session
\* was left (fhss_audio_adapter_end_ota, fhss_service_set_role).
THEOREM ReceiverSafety ==
  ASSUME ~ Faults
  PROVE  Spec => []MenuHasReceiver
<1>1. Inv => MenuHasReceiver
  BY DEF Inv, EntryInv, ServiceInv, RadioTaskInOta, MenuHasReceiver
<1> QED BY <1>1, Invariance, PTL

\* At rest the screen shows the session there is, for any generations, any packets
\* on either channel and any number of waiting events, unless it shows an OTA_START
\* that was taken after its session had been aborted (fsm_task, on_enter_error,
\* handle_start).
THEOREM ScreenSafety == Spec => []ScreenMatchesSession
<1>1. Init => ScreenInv
  BY StartedScreen DEF Init
<1>2. TypeOK /\ ScreenInv /\ [Next]_vars => ScreenInv'
  BY ScreenSteps
<1>3. ScreenInv => ScreenMatchesSession
  <2>1. events = << >> => \A x : Queued(x) = {}
    BY DEF Queued
  <2> QED BY <2>1 DEF ScreenInv, Clear, ReceivingEnds, ApplyingEnds, ScreenMatchesSession, Settled
<1> QED BY <1>1, <1>2, <1>3, TypeCorrect, PTL DEF Spec

\* Channel 0 has one user at a time: fsm_task that sets it up, the radio task in
\* a receive window or the consumer sending an answer (radio_mutex).
OneUser ==
  /\ ~ (fsm = "pause" /\ otaTask = "receive")
  /\ ~ (fsm = "pause" /\ cons = "send")
  /\ ~ (otaTask = "receive" /\ cons = "send")
THEOREM MutualExclusion == Spec => []OneUser
<1>1. Inv => OneUser
  BY DEF Inv, OwnerInv, OneUser
<1> QED BY <1>1, Invariance, PTL
=============================================================================
