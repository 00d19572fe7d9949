----------------------------- MODULE ProductFsm -----------------------------
(***************************************************************************)
(* The transition relation of the product state machine (main/fsm.c),      *)
(* without variables: the states, the events, the table s_transitions and  *)
(* the global rules fsm_task applies before it looks the table up.  The    *)
(* modules that run the machine extend this one and add what an entry      *)
(* action does to the radio, the timers and the OTA client.                *)
(***************************************************************************)

Menus == { "MENU_COMM", "MENU_IDLE", "MENU_OTA" }
Provisioning == { "OTA_FHSS_CONFIGURED", "OTA_FHSS_SYNCING", "OTA_FHSS_READY" }
States == Menus \cup Provisioning \cup
          { "BOOT_INIT", "TX_AUDIO", "RX_AUDIO", "OTA_RECEIVING",
            "OTA_APPLYING", "ERROR" }

Events == { "INIT_DONE", "SYNC_LOST", "MENU_SELECT_COMM", "MENU_SELECT_IDLE",
            "MENU_SELECT_OTA", "FHSS_CONFIG_READY", "FHSS_ACTIVATE",
            "SYNC_ACQUIRED", "FHSS_SYNC_TIMEOUT", "OTA_FHSS_RESYNC_TIMEOUT",
            "PTT_PRESS", "PTT_RELEASE", "RX_FRAME", "RX_DONE", "OTA_START",
            "OTA_COMPLETE", "OTA_VERIFY_FAIL", "ERROR", "RETRY" }

\* Rows of s_transitions: << state, event, next state >>.
Transitions ==
  { << "BOOT_INIT", "INIT_DONE", "MENU_COMM" >>,
    << "MENU_COMM", "PTT_PRESS", "TX_AUDIO" >>,
    << "MENU_COMM", "RX_FRAME", "RX_AUDIO" >>,
    << "MENU_COMM", "MENU_SELECT_IDLE", "MENU_IDLE" >>,
    << "MENU_COMM", "MENU_SELECT_OTA", "MENU_OTA" >>,
    << "MENU_IDLE", "MENU_SELECT_COMM", "MENU_COMM" >>,
    << "MENU_IDLE", "MENU_SELECT_OTA", "MENU_OTA" >>,
    << "MENU_OTA", "MENU_SELECT_COMM", "MENU_COMM" >>,
    << "MENU_OTA", "MENU_SELECT_IDLE", "MENU_IDLE" >>,
    << "MENU_OTA", "FHSS_CONFIG_READY", "OTA_FHSS_CONFIGURED" >>,
    << "OTA_FHSS_CONFIGURED", "FHSS_ACTIVATE", "OTA_FHSS_SYNCING" >>,
    << "OTA_FHSS_CONFIGURED", "MENU_SELECT_COMM", "MENU_COMM" >>,
    << "OTA_FHSS_CONFIGURED", "MENU_SELECT_IDLE", "MENU_IDLE" >>,
    << "OTA_FHSS_SYNCING", "SYNC_ACQUIRED", "OTA_FHSS_READY" >>,
    << "OTA_FHSS_SYNCING", "FHSS_SYNC_TIMEOUT", "MENU_OTA" >>,
    << "OTA_FHSS_READY", "OTA_START", "OTA_RECEIVING" >>,
    << "OTA_FHSS_READY", "MENU_SELECT_COMM", "MENU_COMM" >>,
    << "OTA_FHSS_READY", "MENU_SELECT_IDLE", "MENU_IDLE" >>,
    << "TX_AUDIO", "PTT_RELEASE", "MENU_COMM" >>,
    << "RX_AUDIO", "RX_DONE", "MENU_COMM" >>,
    << "OTA_RECEIVING", "OTA_COMPLETE", "OTA_APPLYING" >>,
    << "OTA_APPLYING", "OTA_VERIFY_FAIL", "MENU_OTA" >>,
    << "ERROR", "RETRY", "BOOT_INIT" >> }

\* Where fsm_task goes from s on e.  The state itself stands for a row that
\* leads back to its state, for a global rule that keeps the state and for an
\* unhandled event: fsm_transition_to returns at once on all three.
Destination(s, e) ==
  LET row == { t \in Transitions : t[1] = s /\ t[2] = e }
  IN  CASE e = "ERROR" -> "ERROR"
        [] e = "OTA_FHSS_RESYNC_TIMEOUT" ->
             IF s = "OTA_RECEIVING" THEN "MENU_OTA" ELSE s
        [] e = "SYNC_LOST" /\ s \in Provisioning -> "MENU_OTA"
        [] e = "SYNC_LOST" /\ s \notin Provisioning ->
             IF s \in { "BOOT_INIT", "ERROR", "OTA_RECEIVING" }
             THEN s ELSE "MENU_COMM"
        [] OTHER -> IF row = {} THEN s ELSE (CHOOSE t \in row : TRUE)[3]
=============================================================================
