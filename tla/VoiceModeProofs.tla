---------------------------- MODULE VoiceModeProofs ---------------------------
(***************************************************************************)
(* VoiceMode for every depth of the two queues, with and without failures. *)
(*                                                                         *)
(* HalfDuplex and ListensUnlessRefused follow from where fsm_task is: the  *)
(* transmit session (ActiveInv) and the two audio tasks (AudioInv) live in *)
(* one state and in the entry actions that end them.  AwaitedEventComes    *)
(* needs PressInv: while the button is up, no PTT_PRESS is the last word   *)
(* in the event queue, so that the transmission it starts finds its        *)
(* PTT_RELEASE behind it.                                                  *)
(***************************************************************************)
EXTENDS VoiceMode, TLAPS

Starting == { "beep", "begin_tx", "to_tx", "start_capture" }
Stopping == { "stop_capture", "end_tx", "to_rx", "stop_player" }

\* Which entry action is whose.
StepInv ==
  /\ fsm \in Starting => state = "TX_AUDIO"
  /\ fsm = "start_player" => state = "RX_AUDIO"
  /\ fsm = "rearm" => state = "BOOT_INIT"
  /\ fsm \in Stopping => state \in { "MENU_COMM", "ERROR" }

\* The transmit session: open from begin_tx's success to end_tx's return to RX.
ActiveInv ==
  /\ active => /\ role = "TX"
               /\ \/ state = "TX_AUDIO" /\ fsm \in { "start_capture", "ready" }
                  \/ fsm \in { "stop_capture", "end_tx", "to_rx" }
  /\ ~active => refused \/ (role = "RX" /\ (task # "none" \/ fsm = "to_tx"))
  /\ fsm = "start_capture" => active

\* The tasks of the microphone and of the loudspeaker.
AudioInv ==
  /\ capture => active /\ ((state = "TX_AUDIO" /\ fsm = "ready") \/ fsm = "stop_capture")
  /\ player => (state = "RX_AUDIO" /\ fsm = "ready") \/ fsm \in Stopping
  /\ ~(capture /\ player)

\* A press in the queue is followed by its release.
PressesEnd ==
  \/ "PTT_RELEASE" \in lost
  \/ \A i \in 1..Len(events) : events[i] = "PTT_PRESS" =>
       \E j \in 1..Len(events) : i < j /\ events[j] = "PTT_RELEASE"
PressInv == ~pressed => PressesEnd

\* FailureComes, from the role change on.
BrokenInv ==
  state = "TX_AUDIO" /\ fsm \in { "start_capture", "ready" } /\ task = "none" => Coming("ERROR")

Inv ==
  /\ TypeOK /\ StepInv /\ ActiveInv /\ AudioInv
  /\ PressInv /\ ReleaseComes /\ BrokenInv /\ DoneComes /\ InitDoneComes

----------------------------------------------------------------------------
(* The table. *)

\* A state has one row for an event (s_transitions).
LEMMA RowsAreUnique ==
  \A t, u \in Transitions : t[1] = u[1] /\ t[2] = u[2] => t = u
  BY DEF Transitions

\* Looking a row up finds it.
LEMMA RowFound ==
  ASSUME NEW t \in Transitions, t[2] \notin { "ERROR", "OTA_FHSS_RESYNC_TIMEOUT", "SYNC_LOST" }
  PROVE  Destination(t[1], t[2]) = t[3]
<1> DEFINE row == { u \in Transitions : u[1] = t[1] /\ u[2] = t[2] }
<1>1. row = { t }
  BY RowsAreUnique
<1>2. Destination(t[1], t[2]) = IF row = {} THEN t[1] ELSE (CHOOSE u \in row : TRUE)[3]
  BY DEF Destination
<1> HIDE DEF row
<1> QED BY <1>1, <1>2

\* The events of the voice states that lead elsewhere; the others are ignored.
LEMMA VoiceTable ==
  ASSUME NEW s \in VoiceStates, NEW e \in VoiceEvents
  PROVE  Destination(s, e) =
           IF e = "ERROR" THEN "ERROR"
           ELSE IF e = "SYNC_LOST" THEN IF s \in { "BOOT_INIT", "ERROR" } THEN s ELSE "MENU_COMM"
           ELSE IF s = "BOOT_INIT" /\ e = "INIT_DONE" THEN "MENU_COMM"
           ELSE IF s = "MENU_COMM" /\ e = "PTT_PRESS" THEN "TX_AUDIO"
           ELSE IF s = "MENU_COMM" /\ e = "RX_FRAME" THEN "RX_AUDIO"
           ELSE IF s = "TX_AUDIO" /\ e = "PTT_RELEASE" THEN "MENU_COMM"
           ELSE IF s = "RX_AUDIO" /\ e = "RX_DONE" THEN "MENU_COMM"
           ELSE IF s = "ERROR" /\ e = "RETRY" THEN "BOOT_INIT"
           ELSE s
<1>1. CASE e = "ERROR"
  BY <1>1 DEF Destination
<1>2. CASE e = "SYNC_LOST"
  BY <1>2 DEF Destination, VoiceStates, Provisioning
<1>3. ASSUME NEW t \in Transitions, t[1] = s, t[2] = e, e \notin { "ERROR", "SYNC_LOST" }
      PROVE  Destination(s, e) = t[3]
  <2>1. e # "OTA_FHSS_RESYNC_TIMEOUT"
    BY DEF VoiceEvents
  <2> QED BY <1>3, <2>1, RowFound
<1>4. ASSUME e \notin { "ERROR", "SYNC_LOST" }, \A t \in Transitions : ~(t[1] = s /\ t[2] = e)
      PROVE  Destination(s, e) = s
  <2>1. e # "OTA_FHSS_RESYNC_TIMEOUT"
    BY DEF VoiceEvents
  <2>2. { t \in Transitions : t[1] = s /\ t[2] = e } = {}
    BY <1>4
  <2> QED BY <1>4, <2>1, <2>2 DEF Destination
<1>5. ASSUME NEW d, << s, e, d >> \in Transitions, e \notin { "ERROR", "SYNC_LOST" }
      PROVE  Destination(s, e) = d
  <2> DEFINE t == << s, e, d >>
  <2>1. t[1] = s /\ t[2] = e /\ t[3] = d
    OBVIOUS
  <2>2. t \in Transitions
    BY <1>5
  <2> HIDE DEF t
  <2> QED BY <1>3, <1>5, <2>1, <2>2
<1>6. CASE s = "BOOT_INIT" /\ e = "INIT_DONE"
  BY <1>5, <1>6 DEF Transitions
<1>7. CASE s = "MENU_COMM" /\ e = "PTT_PRESS"
  BY <1>5, <1>7 DEF Transitions
<1>8. CASE s = "MENU_COMM" /\ e = "RX_FRAME"
  BY <1>5, <1>8 DEF Transitions
<1>9. CASE s = "TX_AUDIO" /\ e = "PTT_RELEASE"
  BY <1>5, <1>9 DEF Transitions
<1>10. CASE s = "RX_AUDIO" /\ e = "RX_DONE"
  BY <1>5, <1>10 DEF Transitions
<1>11. CASE s = "ERROR" /\ e = "RETRY"
  BY <1>5, <1>11 DEF Transitions
<1>12. ASSUME e \notin { "ERROR", "SYNC_LOST" },
              << s, e >> \notin { << "BOOT_INIT", "INIT_DONE" >>, << "MENU_COMM", "PTT_PRESS" >>,
                                  << "MENU_COMM", "RX_FRAME" >>, << "TX_AUDIO", "PTT_RELEASE" >>,
                                  << "RX_AUDIO", "RX_DONE" >>, << "ERROR", "RETRY" >> }
      PROVE  Destination(s, e) = s
  <2>1. \A t \in Transitions : ~(t[1] = s /\ t[2] = e)
    BY <1>12 DEF Transitions, VoiceStates, VoiceEvents
  <2> QED BY <1>4, <1>12, <2>1
<1> QED BY <1>1, <1>2, <1>6, <1>7, <1>8, <1>9, <1>10, <1>11, <1>12

----------------------------------------------------------------------------
(* The event queue. *)

QueueType == /\ events \in Seq(VoiceEvents) /\ Len(events) <= EventDepth
             /\ lost \subseteq Awaited

\* fsm_post_event: nothing that was coming is forgotten but what the caller settles,
\* and an awaited event is queued or counted as lost.
LEMMA PostSteps ==
  ASSUME QueueType, NEW e \in VoiceEvents, NEW settled, PostSettling(e, settled)
  PROVE  /\ QueueType'
         /\ \A f : f \notin settled /\ Coming(f) => Coming(f)'
         /\ e \in Awaited => Coming(e)'
         /\ e # "PTT_PRESS" /\ "PTT_RELEASE" \notin settled /\ PressesEnd => PressesEnd'
         /\ e = "PTT_RELEASE" => PressesEnd'
<1>1. CASE Len(events) < EventDepth
  <2>1. events' = Append(events, e) /\ lost' = lost \ settled
    BY <1>1 DEF PostSettling
  <2>2. /\ Len(events') = Len(events) + 1 /\ Len(events) \in Nat
        /\ \A i \in 1..Len(events) : events'[i] = events[i]
        /\ events'[Len(events) + 1] = e
        /\ events' \in Seq(VoiceEvents)
    BY <2>1 DEF QueueType
  <2>3. QueueType'
    BY <1>1, <2>1, <2>2, EventDepthAssumption DEF QueueType
  <2>4. \A f : f \notin settled /\ Coming(f) => Coming(f)'
    BY <2>1, <2>2 DEF Coming, Queued
  <2>5. Coming(e)'
    BY <2>2 DEF Coming, Queued
  <2>6. e # "PTT_PRESS" /\ "PTT_RELEASE" \notin settled /\ PressesEnd => PressesEnd'
    BY <2>1, <2>2 DEF PressesEnd
  <2>7. e = "PTT_RELEASE" => PressesEnd'
    BY <2>2 DEF PressesEnd
  <2> QED BY <2>3, <2>4, <2>5, <2>6, <2>7
<1>2. CASE ~(Len(events) < EventDepth)
  <2>1. events' = events /\ lost' = (lost \ settled) \cup ({ e } \cap Awaited)
    BY <1>2 DEF PostSettling
  <2>2. QueueType'
    BY <2>1 DEF QueueType
  <2>3. \A f : f \notin settled /\ Coming(f) => Coming(f)'
    BY <2>1 DEF Coming, Queued
  <2>4. e \in Awaited => Coming(e)'
    BY <2>1 DEF Coming
  <2>5. e # "PTT_PRESS" /\ "PTT_RELEASE" \notin settled /\ PressesEnd => PressesEnd'
    BY <2>1 DEF PressesEnd
  <2>6. e = "PTT_RELEASE" => PressesEnd'
    BY <2>1 DEF PressesEnd, Awaited
  <2> QED BY <2>2, <2>3, <2>4, <2>5, <2>6
<1> QED BY <1>1, <1>2

\* xQueueReceive takes the head: what else was coming still comes, and a press at the
\* head has its release behind it.
LEMMA TakeSteps ==
  ASSUME QueueType, events # << >>, events' = Tail(events), lost' = lost
  PROVE  /\ QueueType' /\ Head(events) \in VoiceEvents
         /\ \A f : f # Head(events) /\ Coming(f) => Coming(f)'
         /\ PressesEnd => PressesEnd'
         /\ PressesEnd /\ Head(events) = "PTT_PRESS" => Coming("PTT_RELEASE")'
<1>1. /\ Len(events) \in Nat \ {0} /\ Len(events') = Len(events) - 1
      /\ \A i \in 1..Len(events') : events'[i] = events[i + 1]
      /\ Head(events) = events[1] /\ events[1] \in VoiceEvents
      /\ events' \in Seq(VoiceEvents)
  BY DEF QueueType
<1>2. \A k \in 1..Len(events) : k # 1 => k - 1 \in 1..Len(events') /\ events'[k - 1] = events[k]
  BY <1>1
<1>3. QueueType'
  BY <1>1, EventDepthAssumption DEF QueueType
<1>4. \A f : f # Head(events) /\ Coming(f) => Coming(f)'
  BY <1>1, <1>2 DEF Coming, Queued
<1>5. PressesEnd => PressesEnd'
  <2> SUFFICES ASSUME \A i \in 1..Len(events) : events[i] = "PTT_PRESS" =>
                        \E j \in 1..Len(events) : i < j /\ events[j] = "PTT_RELEASE",
                      NEW i \in 1..Len(events'), events'[i] = "PTT_PRESS"
               PROVE  \E j \in 1..Len(events') : i < j /\ events'[j] = "PTT_RELEASE"
    BY DEF PressesEnd
  <2>1. i + 1 \in 1..Len(events) /\ events[i + 1] = "PTT_PRESS"
    BY <1>1
  <2>2. PICK j \in 1..Len(events) : i + 1 < j /\ events[j] = "PTT_RELEASE"
    BY <2>1
  <2>3. j - 1 \in 1..Len(events') /\ i < j - 1 /\ events'[j - 1] = "PTT_RELEASE"
    BY <1>1, <1>2, <2>2
  <2> QED BY <2>3
<1>6. PressesEnd /\ Head(events) = "PTT_PRESS" => Coming("PTT_RELEASE")'
  <2>1. CASE "PTT_RELEASE" \in lost
    BY <2>1 DEF Coming
  <2>2. ASSUME events[1] = "PTT_PRESS",
               NEW j \in 1..Len(events), 1 < j, events[j] = "PTT_RELEASE"
        PROVE  Coming("PTT_RELEASE")'
    BY <1>2, <2>2 DEF Coming, Queued
  <2> QED BY <1>1, <2>1, <2>2 DEF PressesEnd
<1> QED BY <1>1, <1>3, <1>4, <1>5, <1>6

----------------------------------------------------------------------------
(* The types of the rest. *)

ControlType ==
  /\ state \in VoiceStates
  /\ fsm \in EntrySteps \cup { "ready" }
  /\ rxq \in 0..RxDepth
  /\ role \in { "TX", "RX" } /\ task \in { "none", "head", "slot" }
FlagType ==
  /\ pressed \in BOOLEAN
  /\ capture \in BOOLEAN /\ player \in BOOLEAN /\ expired \in BOOLEAN
  /\ active \in BOOLEAN /\ refused \in BOOLEAN

LEMMA TypeParts == TypeOK <=> QueueType /\ ControlType /\ FlagType
  BY DEF TypeOK, QueueType, ControlType, FlagType

\* A started device listens, and nothing is awaited.
LEMMA InitInv == Init => Inv
<1> SUFFICES ASSUME Init PROVE Inv
  OBVIOUS
<1>1. QueueType /\ ControlType
  <2>1. events \in Seq(VoiceEvents) /\ Len(events) = 0
    BY DEF Init
  <2>2. Len(events) <= EventDepth /\ 0 \in 0..RxDepth
    BY <2>1, EventDepthAssumption, RxDepthAssumption
  <2> QED BY <2>1, <2>2 DEF Init, QueueType, ControlType, VoiceStates
<1>2. FlagType
  BY Zenon DEF Init, FlagType
<1>3. TypeOK
  BY <1>1, <1>2, TypeParts
<1>4. StepInv /\ ActiveInv /\ AudioInv
  BY DEF Init, StepInv, ActiveInv, AudioInv, Starting, Stopping
<1>5. PressInv /\ ReleaseComes /\ BrokenInv /\ DoneComes /\ InitDoneComes
  BY DEF Init, PressInv, PressesEnd, ReleaseComes, BrokenInv, DoneComes, InitDoneComes
<1> QED BY <1>3, <1>4, <1>5 DEF Inv

\* fhss_service_set_role, in what it leaves of the service.
LEMMA SetRoleSteps ==
  ASSUME ControlType, FlagType, NEW r \in { "TX", "RX" }, NEW result \in Results,
         SetRole(r, result)
  PROVE  /\ role' \in { "TX", "RX" } /\ task' \in { "none", "head", "slot" }
         /\ refused' \in BOOLEAN
         /\ result = "ok" => role' = r /\ task' # "none"
         /\ result # "ok" => refused'
<1>1. CASE role = r /\ task # "none"
  BY <1>1 DEF SetRole, ControlType, FlagType, serviceVars
<1>2. CASE ~(role = r /\ task # "none")
  <2>1. /\ role' \in { role, r }
        /\ task' = IF result = "ok" THEN "head" ELSE "none"
        /\ result = "ok" => role' = r
    BY <1>2 DEF SetRole
  <2>2. refused' \in BOOLEAN /\ (result # "ok" => refused')
    BY <1>2 DEF SetRole, FlagType
  <2> QED BY <2>1, <2>2 DEF ControlType
<1> QED BY <1>1, <1>2

----------------------------------------------------------------------------
(* Steps.  What a step does to the queue is one of three things: nothing   *)
(* is taken out of it, its head is, or a PTT_PRESS comes in.               *)

\* Nothing is taken out, and no press comes in.
Grows(settled) ==
  /\ QueueType'
  /\ \A f : f \notin settled /\ Coming(f) => Coming(f)'
  /\ "PTT_RELEASE" \notin settled /\ PressesEnd => PressesEnd'

\* A step without a call of fsm_post_event, or with one.
LEMMA QueueGrows ==
  ASSUME QueueType
  PROVE  /\ UNCHANGED queues => Grows({})
         /\ \A e \in VoiceEvents : \A settled : e # "PTT_PRESS" /\ PostSettling(e, settled) =>
              Grows(settled) /\ (e \in Awaited => Coming(e)')
         /\ \A settled : UNCHANGED events /\ lost' = lost \ settled => Grows(settled)
<1>1. UNCHANGED queues => Grows({})
  BY DEF queues, Grows, QueueType, Coming, Queued, PressesEnd
<1>2. ASSUME NEW e \in VoiceEvents, NEW settled, e # "PTT_PRESS", PostSettling(e, settled)
      PROVE  Grows(settled) /\ (e \in Awaited => Coming(e)')
  BY <1>2, PostSteps DEF Grows
<1>3. ASSUME NEW settled, UNCHANGED events, lost' = lost \ settled
      PROVE  Grows(settled)
  BY <1>3 DEF Grows, QueueType, Coming, Queued, PressesEnd
<1> QED BY <1>1, <1>2, <1>3

\* fsm_task takes an event (xQueueReceive and transition_to).
LEMMA DispatchSteps == Inv /\ Dispatch => Inv'
<1> SUFFICES ASSUME Inv, Dispatch PROVE Inv'
  OBVIOUS
<1> DEFINE e == Head(events)
<1>1. QueueType /\ ControlType /\ FlagType
  BY TypeParts DEF Inv
<1>2. /\ QueueType' /\ e \in VoiceEvents
      /\ \A f : f # e /\ Coming(f) => Coming(f)'
      /\ PressesEnd => PressesEnd'
      /\ PressesEnd /\ e = "PTT_PRESS" => Coming("PTT_RELEASE")'
  BY <1>1, TakeSteps DEF Dispatch
<1>3. /\ fsm = "ready" /\ state' = Destination(state, e)
      /\ fsm' = IF state' = state THEN "ready" ELSE FirstStep(state')
      /\ UNCHANGED << pressed, lost, capture, player, expired, rxq, active, role, task, refused >>
  BY DEF Dispatch, audioVars, serviceVars
<1> HIDE DEF e
<1>4. \/ /\ state' = state /\ fsm' = "ready"
         /\ state = "TX_AUDIO" => e \notin { "PTT_RELEASE", "ERROR" }
         /\ state = "RX_AUDIO" => e \notin { "RX_DONE", "ERROR" }
         /\ state = "BOOT_INIT" => e # "INIT_DONE"
      \/ state' \in { "MENU_COMM", "ERROR" } /\ fsm' = "stop_capture"
      \/ state = "MENU_COMM" /\ e = "PTT_PRESS" /\ state' = "TX_AUDIO" /\ fsm' = "beep"
      \/ state = "MENU_COMM" /\ state' = "RX_AUDIO" /\ fsm' = "start_player"
      \/ state = "ERROR" /\ state' = "BOOT_INIT" /\ fsm' = "rearm"
  BY <1>1, <1>2, <1>3, VoiceTable DEF ControlType, FirstStep, VoiceStates
<1>5. ControlType'
  BY <1>1, <1>3, <1>4 DEF ControlType, EntrySteps, VoiceStates
<1>6. FlagType'
  BY <1>1, <1>3, Zenon DEF FlagType
<1>7. TypeOK'
  <2>1. TypeOK' <=> (QueueType /\ ControlType /\ FlagType)'
    BY TypeParts, PTL
  <2> QED BY <1>2, <1>5, <1>6, <2>1
<1>8. StepInv'
  BY <1>4 DEF StepInv, Starting, Stopping
<1>9. ActiveInv'
  BY <1>3, <1>4 DEF Inv, ActiveInv
<1>10. AudioInv'
  BY <1>3, <1>4 DEF Inv, AudioInv, Stopping
<1>11. PressInv'
  BY <1>2, <1>3 DEF Inv, PressInv
<1>12. ReleaseComes' /\ BrokenInv'
  BY <1>2, <1>3, <1>4 DEF Inv, PressInv, ReleaseComes, BrokenInv
<1>13. DoneComes' /\ InitDoneComes'
  BY <1>2, <1>3, <1>4 DEF Inv, DoneComes, InitDoneComes
<1> QED BY <1>7, <1>8, <1>9, <1>10, <1>11, <1>12, <1>13 DEF Inv

\* The invariant after a step, from the types of its parts.
LEMMA Assembled ==
  ASSUME QueueType', ControlType', FlagType', StepInv', ActiveInv', AudioInv', PressInv',
         ReleaseComes', BrokenInv', DoneComes', InitDoneComes'
  PROVE  Inv'
<1>1. TypeOK' <=> (QueueType /\ ControlType /\ FlagType)'
  BY TypeParts, PTL
<1> QED BY <1>1 DEF Inv

\* The button and the knob (on_ptt_event).
LEMMA ButtonSteps == Inv /\ (Press \/ Release \/ ClickRetry) => Inv'
<1> SUFFICES ASSUME Inv, Press \/ Release \/ ClickRetry PROVE Inv'
  OBVIOUS
<1>1. QueueType /\ ControlType /\ FlagType
  BY TypeParts DEF Inv
<1>2. UNCHANGED << state, fsm, capture, player, expired, rxq, active, role, task, refused >>
  BY DEF Press, Release, ClickRetry, outside, fsmVars, audioVars, serviceVars
<1>3. pressed' \in BOOLEAN
  BY <1>1, Zenon DEF Press, Release, ClickRetry, FlagType
<1>4. ControlType'
  BY <1>1, <1>2 DEF ControlType
<1>5. FlagType'
  BY <1>1, <1>2, <1>3, Zenon DEF FlagType
<1>6. StepInv' /\ ActiveInv' /\ AudioInv'
  BY <1>2 DEF Inv, StepInv, ActiveInv, AudioInv
<1>7. /\ QueueType'
      /\ \A f : f # "PTT_RELEASE" /\ Coming(f) => Coming(f)'
      /\ pressed' \/ (Coming("PTT_RELEASE")' /\ PressesEnd')
         \/ (~pressed /\ (Coming("PTT_RELEASE") => Coming("PTT_RELEASE")')
                      /\ (PressesEnd => PressesEnd'))
  <2>1. CASE Press
    <3>1. PostSettling("PTT_PRESS", { "PTT_RELEASE" }) /\ pressed'
      BY <2>1 DEF Press
    <3>2. "PTT_PRESS" \in VoiceEvents
      BY DEF VoiceEvents
    <3> QED BY <1>1, <3>1, <3>2, PostSteps
  <2>2. CASE Release
    <3>1. PostSettling("PTT_RELEASE", {})
      BY <2>2 DEF Release, Post
    <3>2. "PTT_RELEASE" \in VoiceEvents /\ "PTT_RELEASE" \in Awaited
      BY DEF VoiceEvents, Awaited
    <3> QED BY <1>1, <3>1, <3>2, PostSteps
  <2>3. CASE ClickRetry
    <3>1. PostSettling("RETRY", {}) /\ pressed' = pressed
      BY <2>3 DEF ClickRetry, Post
    <3>2. "RETRY" \in VoiceEvents
      BY DEF VoiceEvents
    <3>3. Grows({})
      BY <1>1, <3>1, <3>2, QueueGrows
    <3>4. PressInv /\ (state # "TX_AUDIO")
      BY <2>3 DEF Inv, ClickRetry
    <3> QED BY <3>1, <3>3 DEF Grows
  <2> QED BY <2>1, <2>2, <2>3
<1>8. ~pressed' => pressed \/ PressesEnd
  BY DEF Inv, PressInv
<1>9. PressInv' /\ ReleaseComes'
  BY <1>2, <1>7, <1>8 DEF Inv, PressInv, ReleaseComes
<1>10. BrokenInv' /\ DoneComes' /\ InitDoneComes'
  BY <1>2, <1>7 DEF Inv, BrokenInv, DoneComes, InitDoneComes
<1> QED BY <1>4, <1>5, <1>6, <1>7, <1>9, <1>10, Assembled

\* on_enter_tx_audio and on_enter_rx_audio (fhss_audio_adapter_begin_tx).
LEMMA EnterSteps ==
  Inv /\ (Beep \/ BeginTx \/ ToTx \/ StartCapture \/ StartPlayer \/ Rearm) => Inv'
<1> SUFFICES ASSUME Inv, Beep \/ BeginTx \/ ToTx \/ StartCapture \/ StartPlayer \/ Rearm
             PROVE Inv'
  OBVIOUS
<1>1. QueueType /\ ControlType /\ FlagType
  BY TypeParts DEF Inv
<1>2. /\ "ERROR" \in VoiceEvents /\ "ERROR" \in Awaited
      /\ "INIT_DONE" \in VoiceEvents /\ "INIT_DONE" \in Awaited
  BY DEF VoiceEvents, Awaited
<1>3. CASE Beep
  <2>1. /\ fsm = "beep" /\ fsm' = "begin_tx"
        /\ UNCHANGED << state, pressed, capture, player, expired, rxq, active, role, task, refused >>
        /\ UNCHANGED queues
    BY <1>3 DEF Beep, audioVars, serviceVars
  <2>2. Grows({})
    BY <1>1, <2>1, QueueGrows
  <2>3. ControlType'
    BY <1>1, <2>1 DEF ControlType, EntrySteps
  <2>4. FlagType'
    BY <1>1, <2>1, Zenon DEF FlagType
  <2>5. StepInv' /\ ActiveInv' /\ AudioInv'
    BY <2>1 DEF Inv, StepInv, ActiveInv, AudioInv, Starting, Stopping
  <2>6. PressInv' /\ ReleaseComes' /\ BrokenInv' /\ DoneComes' /\ InitDoneComes'
    BY <2>1, <2>2 DEF Inv, PressInv, ReleaseComes, BrokenInv, DoneComes, InitDoneComes, Grows
  <2> QED BY <2>2, <2>3, <2>4, <2>5, <2>6, Assembled DEF Grows
<1>4. CASE BeginTx
  <2>1. /\ fsm = "begin_tx"
        /\ UNCHANGED << state, pressed, capture, player, expired, rxq, active, role, task, refused >>
        /\ fsm' = IF active THEN "ready" ELSE "to_tx"
        /\ active => PostSettling("ERROR", {})
        /\ ~active => UNCHANGED queues
    BY <1>4 DEF BeginTx, audioVars, serviceVars, Post
  <2>2. ~active
    BY <2>1 DEF Inv, ActiveInv
  <2>3. Grows({})
    BY <1>1, <2>1, <2>2, QueueGrows
  <2>4. ControlType'
    BY <1>1, <2>1, <2>2 DEF ControlType, EntrySteps
  <2>5. FlagType'
    BY <1>1, <2>1, Zenon DEF FlagType
  <2>6. StepInv' /\ ActiveInv' /\ AudioInv'
    BY <2>1, <2>2 DEF Inv, StepInv, ActiveInv, AudioInv, Starting, Stopping
  <2>7. PressInv' /\ ReleaseComes' /\ BrokenInv' /\ DoneComes' /\ InitDoneComes'
    BY <2>1, <2>2, <2>3 DEF Inv, PressInv, ReleaseComes, BrokenInv, DoneComes, InitDoneComes, Grows
  <2> QED BY <2>3, <2>4, <2>5, <2>6, <2>7, Assembled DEF Grows
<1>5. CASE ToTx
  <2>1. PICK result \in Results :
          /\ SetRole("TX", result)
          /\ active' = (result = "ok")
          /\ IF result = "ok"
             THEN fsm' = "start_capture" /\ lost' = lost \ { "ERROR" } /\ UNCHANGED events
             ELSE fsm' = "ready" /\ Post("ERROR")
    BY <1>5 DEF ToTx
  <2>2. /\ fsm = "to_tx" /\ state = "TX_AUDIO"
        /\ UNCHANGED << state, pressed, capture, player, expired, rxq >>
    BY <1>5 DEF ToTx, audioVars, Inv, StepInv, Starting
  <2>3. /\ role' \in { "TX", "RX" } /\ task' \in { "none", "head", "slot" }
        /\ refused' \in BOOLEAN
        /\ result = "ok" => role' = "TX" /\ task' # "none"
        /\ result # "ok" => refused'
    BY <1>1, <2>1, SetRoleSteps
  <2>4. /\ Grows({ "ERROR" })
        /\ result # "ok" => Coming("ERROR")'
    <3>1. CASE result = "ok"
      BY <1>1, <2>1, <3>1, QueueGrows
    <3>2. CASE result # "ok"
      <4>1. PostSettling("ERROR", {})
        BY <2>1, <3>2 DEF Post
      <4>2. Grows({}) /\ Coming("ERROR")'
        BY <1>1, <1>2, <4>1, QueueGrows
      <4> QED BY <4>2 DEF Grows
    <3> QED BY <3>1, <3>2
  <2>5. ControlType'
    BY <1>1, <2>1, <2>2, <2>3 DEF ControlType, EntrySteps
  <2>6. active' \in BOOLEAN
    BY <2>1, Zenon
  <2>7. FlagType'
    BY <1>1, <2>2, <2>3, <2>6, Zenon DEF FlagType
  <2>8. ~active /\ ~capture /\ ~player
    BY <2>2 DEF Inv, ActiveInv, AudioInv, Stopping
  <2>9. StepInv' /\ ActiveInv' /\ AudioInv'
    BY <2>1, <2>2, <2>3, <2>8 DEF StepInv, ActiveInv, AudioInv, Starting, Stopping
  <2>10. PressInv' /\ ReleaseComes' /\ BrokenInv' /\ DoneComes' /\ InitDoneComes'
    BY <2>1, <2>2, <2>3, <2>4
       DEF Inv, PressInv, ReleaseComes, BrokenInv, DoneComes, InitDoneComes, Grows
  <2> QED BY <2>4, <2>5, <2>7, <2>9, <2>10, Assembled DEF Grows
<1>6. CASE StartCapture
  <2>1. /\ fsm = "start_capture" /\ fsm' = "ready" /\ capture' \in Outcome
        /\ UNCHANGED << state, pressed, player, expired, rxq, active, role, task, refused >>
        /\ UNCHANGED queues
    BY <1>6 DEF StartCapture, serviceVars
  <2>2. Grows({})
    BY <1>1, <2>1, QueueGrows
  <2>3. ControlType'
    BY <1>1, <2>1 DEF ControlType
  <2>4. capture' \in BOOLEAN
    BY <2>1, Zenon DEF Outcome
  <2>5. FlagType'
    BY <1>1, <2>1, <2>4, Zenon DEF FlagType
  <2>6. active /\ ~player /\ state = "TX_AUDIO"
    BY <2>1 DEF Inv, ActiveInv, AudioInv, StepInv, Starting, Stopping
  <2>7. StepInv' /\ ActiveInv' /\ AudioInv'
    BY <2>1, <2>6 DEF Inv, StepInv, ActiveInv, AudioInv, Starting, Stopping
  <2>8. PressInv' /\ ReleaseComes' /\ BrokenInv' /\ DoneComes' /\ InitDoneComes'
    BY <2>1, <2>2, <2>6 DEF Inv, PressInv, ReleaseComes, BrokenInv, DoneComes, InitDoneComes, Grows
  <2> QED BY <2>2, <2>3, <2>5, <2>7, <2>8, Assembled DEF Grows
<1>7. CASE StartPlayer
  <2>1. /\ fsm = "start_player" /\ fsm' = "ready" /\ player' \in Outcome
        /\ UNCHANGED << state, pressed, capture, expired, rxq, active, role, task, refused >>
        /\ player' => lost' = lost \ { "RX_DONE" } /\ UNCHANGED events
        /\ ~player' => PostSettling("ERROR", {})
    BY <1>7 DEF StartPlayer, serviceVars, Post
  <2>2. /\ Grows({ "RX_DONE" })
        /\ ~player' => Coming("ERROR")'
    <3>1. CASE player'
      BY <1>1, <2>1, <3>1, QueueGrows
    <3>2. CASE ~player'
      <4>1. Grows({}) /\ Coming("ERROR")'
        BY <1>1, <1>2, <2>1, <3>2, QueueGrows
      <4> QED BY <4>1 DEF Grows
    <3> QED BY <3>1, <3>2
  <2>3. ControlType'
    BY <1>1, <2>1 DEF ControlType
  <2>4. player' \in BOOLEAN
    BY <2>1, Zenon DEF Outcome
  <2>5. FlagType'
    BY <1>1, <2>1, <2>4, Zenon DEF FlagType
  <2>6. ~active /\ ~capture /\ state = "RX_AUDIO"
    BY <2>1 DEF Inv, ActiveInv, AudioInv, StepInv, Starting, Stopping
  <2>7. StepInv' /\ ActiveInv' /\ AudioInv'
    BY <2>1, <2>6 DEF Inv, StepInv, ActiveInv, AudioInv, Starting, Stopping
  <2>8. PressInv' /\ ReleaseComes' /\ BrokenInv' /\ DoneComes' /\ InitDoneComes'
    BY <2>1, <2>2, <2>6 DEF Inv, PressInv, ReleaseComes, BrokenInv, DoneComes, InitDoneComes, Grows
  <2> QED BY <2>2, <2>3, <2>5, <2>7, <2>8, Assembled DEF Grows
<1>8. CASE Rearm
  <2>1. /\ fsm = "rearm" /\ fsm' = "ready"
        /\ UNCHANGED << state, pressed, capture, player, expired, rxq, active, role, task, refused >>
        /\ PostSettling("INIT_DONE", { "INIT_DONE" })
    BY <1>8 DEF Rearm, audioVars, serviceVars
  <2>2. Grows({ "INIT_DONE" }) /\ Coming("INIT_DONE")'
    BY <1>1, <1>2, <2>1, QueueGrows
  <2>3. ControlType'
    BY <1>1, <2>1 DEF ControlType
  <2>4. FlagType'
    BY <1>1, <2>1, Zenon DEF FlagType
  <2>5. state = "BOOT_INIT" /\ ~active /\ ~player /\ ~capture
    BY <2>1 DEF Inv, ActiveInv, AudioInv, StepInv, Stopping
  <2>6. StepInv' /\ ActiveInv' /\ AudioInv'
    BY <2>1, <2>5 DEF Inv, StepInv, ActiveInv, AudioInv, Starting, Stopping
  <2>7. PressInv' /\ ReleaseComes' /\ BrokenInv' /\ DoneComes' /\ InitDoneComes'
    BY <2>1, <2>2, <2>5 DEF Inv, PressInv, ReleaseComes, BrokenInv, DoneComes, InitDoneComes, Grows
  <2> QED BY <2>2, <2>3, <2>4, <2>6, <2>7, Assembled DEF Grows
<1> QED BY <1>3, <1>4, <1>5, <1>6, <1>7, <1>8

\* on_enter_menu_comm and on_enter_error: the loops that end the tasks, and end_tx.
LEMMA LeaveSteps == Inv /\ (StopCapture \/ EndTx \/ ToRx \/ StopPlayer) => Inv'
<1> SUFFICES ASSUME Inv, StopCapture \/ EndTx \/ ToRx \/ StopPlayer PROVE Inv'
  OBVIOUS
<1>1. QueueType /\ ControlType /\ FlagType
  BY TypeParts DEF Inv
<1>2. fsm \in Stopping /\ UNCHANGED queues /\ UNCHANGED << state, pressed, capture, player, expired >>
  BY DEF StopCapture, EndTx, ToRx, StopPlayer, Stopping, audioVars, queues
<1>3. state \in { "MENU_COMM", "ERROR" }
  BY <1>2 DEF Inv, StepInv
<1>4. Grows({})
  BY <1>1, <1>2, QueueGrows
<1>5. PressInv' /\ ReleaseComes' /\ BrokenInv' /\ DoneComes' /\ InitDoneComes'
  BY <1>2, <1>3, <1>4 DEF Inv, PressInv, ReleaseComes, BrokenInv, DoneComes, InitDoneComes, Grows
<1>6. CASE StopCapture
  <2>1. /\ fsm = "stop_capture" /\ ~capture /\ fsm' = "end_tx"
        /\ UNCHANGED << rxq, active, role, task, refused >>
    BY <1>6 DEF StopCapture, audioVars, serviceVars
  <2>2. ControlType'
    BY <1>1, <1>2, <2>1 DEF ControlType, EntrySteps
  <2>3. FlagType'
    BY <1>1, <1>2, <2>1, Zenon DEF FlagType
  <2>4. StepInv' /\ ActiveInv' /\ AudioInv'
    BY <1>2, <1>3, <2>1 DEF Inv, StepInv, ActiveInv, AudioInv, Starting, Stopping
  <2> QED BY <1>4, <1>5, <2>2, <2>3, <2>4, Assembled DEF Grows
<1>7. CASE EndTx
  <2>1. /\ fsm = "end_tx" /\ fsm' = IF active THEN "to_rx" ELSE "stop_player"
        /\ UNCHANGED << rxq, active, role, task, refused >>
    BY <1>7 DEF EndTx, audioVars, serviceVars
  <2>2. ControlType'
    BY <1>1, <1>2, <2>1 DEF ControlType, EntrySteps
  <2>3. FlagType'
    BY <1>1, <1>2, <2>1, Zenon DEF FlagType
  <2>4. ~capture
    BY <2>1 DEF Inv, AudioInv
  <2>5. StepInv' /\ ActiveInv' /\ AudioInv'
    BY <1>2, <1>3, <2>1, <2>4 DEF Inv, StepInv, ActiveInv, AudioInv, Starting, Stopping
  <2> QED BY <1>4, <1>5, <2>2, <2>3, <2>5, Assembled DEF Grows
<1>8. CASE ToRx
  <2>1. PICK result \in Results : SetRole("RX", result)
    BY <1>8 DEF ToRx
  <2>2. fsm = "to_rx" /\ fsm' = "stop_player" /\ active' = FALSE /\ UNCHANGED rxq
    BY <1>8 DEF ToRx, audioVars
  <2>3. /\ role' \in { "TX", "RX" } /\ task' \in { "none", "head", "slot" }
        /\ refused' \in BOOLEAN
        /\ result = "ok" => role' = "RX" /\ task' # "none"
        /\ result # "ok" => refused'
    BY <1>1, <2>1, SetRoleSteps
  <2>4. ControlType'
    BY <1>1, <1>2, <2>2, <2>3 DEF ControlType, EntrySteps
  <2>5. active' \in BOOLEAN
    BY <2>2, Zenon
  <2>6. FlagType'
    BY <1>1, <1>2, <2>3, <2>5, Zenon DEF FlagType
  <2>7. ~capture
    BY <2>2 DEF Inv, AudioInv
  <2>8. StepInv' /\ ActiveInv' /\ AudioInv'
    BY <1>2, <1>3, <2>2, <2>3, <2>7 DEF Inv, StepInv, ActiveInv, AudioInv, Starting, Stopping
  <2> QED BY <1>4, <1>5, <2>4, <2>6, <2>8, Assembled DEF Grows
<1>9. CASE StopPlayer
  <2>1. /\ fsm = "stop_player" /\ ~player /\ fsm' = "ready"
        /\ rxq' = IF state = "MENU_COMM" THEN 0 ELSE rxq
        /\ UNCHANGED << active, role, task, refused >>
    BY <1>9 DEF StopPlayer, serviceVars
  <2>2. rxq' \in 0..RxDepth
    BY <1>1, <2>1, RxDepthAssumption DEF ControlType
  <2>3. ControlType'
    BY <1>1, <1>2, <2>1, <2>2 DEF ControlType
  <2>4. FlagType'
    BY <1>1, <1>2, <2>1, Zenon DEF FlagType
  <2>5. ~active /\ ~capture
    BY <1>3, <2>1 DEF Inv, ActiveInv, AudioInv
  <2>6. StepInv' /\ ActiveInv' /\ AudioInv'
    BY <1>2, <1>3, <2>1, <2>5 DEF Inv, StepInv, ActiveInv, AudioInv, Starting, Stopping
  <2> QED BY <1>4, <1>5, <2>3, <2>4, <2>6, Assembled DEF Grows
<1> QED BY <1>6, <1>7, <1>8, <1>9

\* tx_audio_task and rx_audio_task.
LEMMA AudioSteps == Inv /\ (CaptureStops \/ PlayerStep \/ ReportDone) => Inv'
<1> SUFFICES ASSUME Inv, CaptureStops \/ Play \/ PlayerStops \/ PlayerExpires \/ ReportDone
             PROVE Inv'
  BY DEF PlayerStep
<1>1. QueueType /\ ControlType /\ FlagType
  BY TypeParts DEF Inv
<1>2. UNCHANGED << state, fsm, pressed, active, role, task, refused >>
  BY DEF CaptureStops, Play, PlayerStops, PlayerExpires, ReportDone, fsmVars, serviceVars
<1>3. /\ Grows({})
      /\ ReportDone => Coming("RX_DONE")'
  <2>1. CASE ReportDone
    <3>1. PostSettling("RX_DONE", {}) /\ "RX_DONE" \in VoiceEvents /\ "RX_DONE" \in Awaited
      BY <2>1 DEF ReportDone, Post, VoiceEvents, Awaited
    <3> QED BY <1>1, <3>1, QueueGrows
  <2>2. CASE ~ReportDone
    <3>1. UNCHANGED queues
      BY <2>2 DEF CaptureStops, Play, PlayerStops, PlayerExpires, queues
    <3> QED BY <1>1, <2>2, <3>1, QueueGrows
  <2> QED BY <2>1, <2>2
<1>4. /\ rxq' \in 0..RxDepth
      /\ capture' => capture
      /\ player' => player
  BY <1>1, RxDepthAssumption
     DEF CaptureStops, Play, PlayerStops, PlayerExpires, ReportDone, ControlType
<1>5. capture' \in BOOLEAN /\ player' \in BOOLEAN
  <2>1. capture' \in { capture, FALSE } /\ player' \in { player, FALSE }
    BY DEF CaptureStops, Play, PlayerStops, PlayerExpires, ReportDone
  <2> QED BY <1>1, <2>1, Zenon DEF FlagType
<1>6. expired' \in BOOLEAN
  BY <1>1, Zenon DEF CaptureStops, Play, PlayerStops, PlayerExpires, ReportDone, FlagType
<1>7. ControlType'
  BY <1>1, <1>2, <1>4 DEF ControlType
<1>8. FlagType'
  BY <1>1, <1>2, <1>5, <1>6, Zenon DEF FlagType
<1>9. StepInv' /\ ActiveInv' /\ AudioInv'
  BY <1>2, <1>4 DEF Inv, StepInv, ActiveInv, AudioInv
<1>10. PressInv' /\ ReleaseComes' /\ BrokenInv' /\ InitDoneComes'
  BY <1>2, <1>3 DEF Inv, PressInv, ReleaseComes, BrokenInv, InitDoneComes, Grows
<1>11. state = "RX_AUDIO" /\ fsm = "ready" /\ (player \/ expired)
         => player' \/ expired' \/ Coming("RX_DONE")'
  BY <1>3 DEF CaptureStops, Play, PlayerStops, PlayerExpires, ReportDone
<1>12. DoneComes'
  BY <1>2, <1>3, <1>11 DEF Inv, DoneComes, Grows
<1> QED BY <1>3, <1>7, <1>8, <1>9, <1>10, <1>12, Assembled DEF Grows

\* The hopping service (rx_task, tx_task and what they call).
LEMMA ServiceSteps == Inv /\ (ServiceStep \/ HearFrame \/ HearEvent) => Inv'
<1> SUFFICES ASSUME Inv, TaskHead \/ SlotOver \/ SlotFails \/ HearFrame \/ HearEvent
             PROVE Inv'
  BY DEF ServiceStep
<1>1. QueueType /\ ControlType /\ FlagType
  BY TypeParts DEF Inv
<1>2. UNCHANGED << state, fsm, pressed, capture, player, expired, active, role, refused >>
  BY DEF TaskHead, SlotOver, SlotFails, HearFrame, HearEvent, besideService, fsmVars
<1>3. /\ Grows({})
      /\ Coming("ERROR")' \/ TaskHead \/ task' = "head" \/ task' = task
  <2>1. CASE TaskHead \/ SlotOver
    <3>1. UNCHANGED queues /\ (TaskHead \/ task' = "head")
      BY <2>1 DEF TaskHead, SlotOver, queues
    <3> QED BY <1>1, <3>1, QueueGrows
  <2>2. CASE SlotFails
    <3>1. PostSettling("ERROR", {}) /\ "ERROR" \in VoiceEvents /\ "ERROR" \in Awaited
      BY <2>2 DEF SlotFails, Post, VoiceEvents, Awaited
    <3> QED BY <1>1, <3>1, QueueGrows
  <2>3. CASE HearFrame
    <3>1. PostSettling("RX_FRAME", {}) /\ "RX_FRAME" \in VoiceEvents /\ task' = task
      BY <2>3 DEF HearFrame, Post, VoiceEvents
    <3> QED BY <1>1, <3>1, QueueGrows
  <2>4. CASE HearEvent
    <3>1. PICK e \in { "RX_DONE", "SYNC_LOST" } : PostSettling(e, {})
      BY <2>4 DEF HearEvent, Post
    <3>2. e \in VoiceEvents /\ e # "PTT_PRESS" /\ task' = task
      BY <2>4 DEF VoiceEvents, HearEvent
    <3> QED BY <1>1, <3>1, <3>2, QueueGrows
  <2> QED BY <2>1, <2>2, <2>3, <2>4
<1>4. /\ rxq' \in 0..RxDepth /\ task' \in { "none", "head", "slot" }
      /\ task' = "none" => task = "none" \/ role = "TX" \/ (fsm = "to_tx" /\ role = "RX")
      /\ TaskHead /\ task' = "none" => fsm \in { "to_tx", "to_rx" }
  BY <1>1, RxDepthAssumption
     DEF TaskHead, SlotOver, SlotFails, HearFrame, HearEvent, StopAsked, besideService, ControlType
<1>5. ControlType'
  BY <1>1, <1>2, <1>4 DEF ControlType
<1>6. FlagType'
  BY <1>1, <1>2, Zenon DEF FlagType
<1>7. StepInv' /\ AudioInv'
  BY <1>2 DEF Inv, StepInv, AudioInv
<1>8. ActiveInv'
  BY <1>2, <1>4 DEF Inv, ActiveInv
<1>9. PressInv' /\ ReleaseComes' /\ DoneComes' /\ InitDoneComes'
  BY <1>2, <1>3 DEF Inv, PressInv, ReleaseComes, DoneComes, InitDoneComes, Grows
<1>10. BrokenInv'
  BY <1>2, <1>3, <1>4 DEF Inv, BrokenInv, Grows
<1> QED BY <1>3, <1>5, <1>6, <1>7, <1>8, <1>9, <1>10, Assembled DEF Grows

\* Every step of the device keeps the invariant.
LEMMA NextInv == Inv /\ [Next]_vars => Inv'
<1>1. Inv /\ Next => Inv'
  BY DispatchSteps, ButtonSteps, EnterSteps, LeaveSteps, AudioSteps, ServiceSteps
     DEF Next, FsmStep, Outside
<1>2. Inv /\ UNCHANGED vars => Inv'
  <2> SUFFICES ASSUME Inv, UNCHANGED vars PROVE Inv'
    OBVIOUS
  <2>1. QueueType /\ ControlType /\ FlagType
    BY TypeParts DEF Inv
  <2>2. UNCHANGED << state, fsm, events, lost, pressed, capture, player, expired, rxq,
                     active, role, task, refused >>
    BY DEF vars, fsmVars, queues, audioVars, serviceVars
  <2>3. QueueType' /\ ControlType'
    BY <2>1, <2>2 DEF QueueType, ControlType
  <2>4. FlagType'
    BY <2>1, <2>2, Zenon DEF FlagType
  <2>5. StepInv' /\ ActiveInv' /\ AudioInv'
    BY <2>2 DEF Inv, StepInv, ActiveInv, AudioInv
  <2>6. PressInv' /\ ReleaseComes' /\ BrokenInv' /\ DoneComes' /\ InitDoneComes'
    BY <2>2 DEF Inv, PressInv, PressesEnd, ReleaseComes, BrokenInv, DoneComes, InitDoneComes,
                Coming, Queued
  <2> QED BY <2>3, <2>4, <2>5, <2>6, Assembled
<1> QED BY <1>1, <1>2

----------------------------------------------------------------------------
(* Theorems. *)

\* Inv holds in every state of a device in voice mode (main/fsm.c).
THEOREM Invariance == Spec => []Inv
<1>1. Spec => Init /\ [][Next]_vars
  BY DEF Spec
<1> QED BY <1>1, InitInv, NextInv, PTL

\* Every variable keeps its type; no more than EventDepth events are queued.
THEOREM TypeCorrect == Spec => []TypeOK
<1>1. Inv => TypeOK
  BY DEF Inv
<1> QED BY <1>1, Invariance, PTL

\* The microphone is open only over a transmit session, and never beside the
\* loudspeaker (stop_tx_audio_task, stop_rx_audio_task and their callers).
THEOREM DuplexSafety == Spec => []HalfDuplex
<1>1. Inv => HalfDuplex
  BY DEF Inv, AudioInv, ActiveInv, HalfDuplex
<1> QED BY <1>1, Invariance, PTL

\* After the entry action of a listening state the service listens, unless a role
\* change failed (fhss_audio_adapter_end_tx, fhss_service_set_role).
THEOREM ListenSafety == Spec => []ListensUnlessRefused
<1>1. Inv => ListensUnlessRefused
  BY DEF Inv, ActiveInv, ListensUnlessRefused
<1> QED BY <1>1, Invariance, PTL

\* The event that ends a state is on its way, or the queue was full when it was
\* posted (fsm_post_event and its callers).
THEOREM AwaitedSafety == Spec => []AwaitedEventComes
<1>1. Inv => AwaitedEventComes
  BY DEF Inv, BrokenInv, AwaitedEventComes, FailureComes
<1> QED BY <1>1, Invariance, PTL
=============================================================================
