------------------------------ MODULE Talkspurt ------------------------------
(***************************************************************************)
(* The transmit side of one device: what fhss_audio_adapter_begin_tx,      *)
(* _submit_encoded_frame and _end_tx put into the queue of the hopping     *)
(* service, and what tx_task hands to the radio.  Three tasks:             *)
(*                                                                         *)
(*   fsm_task       calls begin_tx on TX_AUDIO, later stops the capture    *)
(*                  task and calls end_tx; which event makes it do so is   *)
(*                  the subject of VoiceMode.tla                           *)
(*   tx_audio_task  reads a frame, submits it, looks at its stop flag      *)
(*   fhss_service   service_task with tx_task; as receiver it only has to  *)
(*                  see its stop flag (FhssReceiver.tla has its detail)    *)
(*                                                                         *)
(* The stop flags are TRUE exactly while fsm_task polls for the task to    *)
(* end, tx_in_flight exactly while a packet is with the radio: neither is  *)
(* a variable of its own.                                                  *)
(***************************************************************************)
EXTENDS Naturals, Sequences

CONSTANTS
  TxDepth,          \* places of the service's tx_queue
  AnnounceCopies, EndCopies,
  FramesPerPacket,
  MaxSession,       \* the session number wraps to 1 after this one
  MaxPackets,       \* bound: audio packets of one session
  Faults            \* whether the radio and the creation of a task may fail

ASSUME TxDepthAssumption == TxDepth \in Nat \ {0}
ASSUME CopiesAssumption ==
  AnnounceCopies \in Nat \ {0} /\ EndCopies \in 2..TxDepth
ASSUME PacketAssumption == FramesPerPacket \in Nat \ {0} /\ MaxPackets \in Nat
ASSUME SessionAssumption == MaxSession \in Nat \ {0, 1}
ASSUME FaultsAssumption == Faults \in BOOLEAN

VARIABLES
  call,             \* where fsm_task is in begin_tx or end_tx
  capture,          \* tx_audio_task: none, at its loop head, reading
  active, frames, seq, session,   \* tx_active, frame_count, tx_sequence, ...
  copies,           \* copies of the announcement or the END still to queue
  ok,               \* the result end_tx is building
  role, task,       \* config.role, where the service task is
  txq, hand,        \* tx_queue, the packet taken out of it
  air,              \* history: the last packet of the session on the radio
  spilled,          \* history: a packet did not fit back into the queue
  refused           \* history: a role change failed since the last return to RX

adapterVars == << active, frames, seq, session, copies, ok >>
serviceVars == << role, task, txq, hand >>
history == << air, spilled, refused >>
vars == << call, capture, adapterVars, serviceVars, history >>

Sessions == 1..MaxSession
Items == [session : Sessions, kind : { "announce", "audio", "end" }, n : 0..MaxPackets]
Nothing == [session |-> 0, kind |-> "none", n |-> 0]

TypeOK ==
  /\ call \in { "idle", "to_tx", "announce", "on", "stop_capture",
                "send_end", "wait_idle", "to_rx" }
  /\ capture \in { "none", "head", "read" }
  /\ active \in BOOLEAN /\ frames \in 0..FramesPerPacket
  /\ seq \in 0..MaxPackets /\ session \in 0..MaxSession
  /\ copies \in 0..AnnounceCopies + EndCopies /\ ok \in BOOLEAN
  /\ role \in { "TX", "RX" }
  /\ task \in { "none", "head", "slot", "drain", "hand", "air" }
  /\ txq \in Seq(Items) /\ Len(txq) <= TxDepth
  /\ hand \in Items \cup { Nothing } /\ air \in Items \cup { Nothing }
  /\ spilled \in BOOLEAN /\ refused \in BOOLEAN

----------------------------------------------------------------------------
(* What the tasks call. *)

Outcome == IF Faults THEN BOOLEAN ELSE { TRUE }

\* fhss_service_send_data: a full queue refuses the packet.
HasRoom == Len(txq) < TxDepth
Enqueue(kind, n) ==
  txq' = Append(txq, [session |-> session, kind |-> kind, n |-> n])

\* Faulty: counts a packet the queue refused as sent.
SendBufferedOnce(buffered) ==
  IF buffered > 0
  THEN seq' = seq + 1 /\ frames' = 0 /\ IF HasRoom THEN Enqueue("audio", seq) ELSE UNCHANGED txq
  ELSE frames' = buffered /\ UNCHANGED << seq, txq >>

\* send_buffered_frames: the buffered frames become one packet, unless the
\* queue is full: then the buffer stays as it is.
SendBuffered(buffered) ==
  IF buffered > 0 /\ HasRoom
  THEN Enqueue("audio", seq) /\ seq' = seq + 1 /\ frames' = 0
  ELSE frames' = buffered /\ UNCHANGED << seq, txq >>

\* Faulty: tx_task never looks at should_stop.
StopAskedOfReceiver == call = "to_tx" /\ role = "RX"

\* fhss_service_set_role asked a running task of the other role to stop.
StopAsked == (call = "to_tx" /\ role = "RX") \/ (call = "to_rx" /\ role = "TX")

\* How the recovery of the radio and the creation of the task may end.
Results == IF Faults THEN { "ok", "radio", "memory" } ELSE { "ok" }

\* fhss_service_set_role: nothing to do for a live task of that role, otherwise
\* the old task is waited for, the radio recovered and a task created.  Only
\* the way to reception empties the queue.
SetRole(r, result) ==
  IF role = r /\ task # "none"
  THEN result = "ok" /\ UNCHANGED << role, task, txq, refused >>
  ELSE /\ task = "none"
       /\ role' = IF result = "radio" THEN role ELSE r
       /\ task' = IF result = "ok" THEN "head" ELSE "none"
       /\ txq' = IF r = "RX" /\ result # "radio" THEN << >> ELSE txq
       /\ refused' = IF result = "ok" THEN r = "TX" /\ refused ELSE TRUE

----------------------------------------------------------------------------
(* fsm_task: fhss_audio_adapter_begin_tx and the start of the capture task. *)

Begin ==
  /\ call = "idle" /\ ~active
  /\ frames' = 0 /\ seq' = 0
  /\ session' = IF session = MaxSession THEN 1 ELSE session + 1
  /\ air' = Nothing /\ spilled' = FALSE
  /\ call' = "to_tx"
  /\ UNCHANGED << capture, active, copies, ok, serviceVars, refused >>

ToTx ==
  /\ call = "to_tx"
  /\ \E result \in Results :
       /\ SetRole("TX", result)
       /\ call' = IF result = "ok" THEN "announce" ELSE "idle"
  /\ copies' = AnnounceCopies
  /\ UNCHANGED << capture, active, frames, seq, session, ok, hand, air, spilled >>

\* send_seed_announce_packets, given up at the first copy that does not fit.
Announce ==
  /\ call = "announce"
  /\ IF HasRoom THEN Enqueue("announce", 0) ELSE UNCHANGED txq
  /\ IF HasRoom /\ copies > 1
     THEN copies' = copies - 1 /\ UNCHANGED << call, active, capture >>
     ELSE /\ copies' = 0 /\ active' = TRUE /\ call' = "on"
          /\ capture' \in { IF created THEN "head" ELSE "none" : created \in Outcome }
  /\ UNCHANGED << frames, seq, session, ok, role, task, hand, history >>

\* TX_AUDIO is left: stop_tx_audio_task raises the flag and waits.
Leave ==
  /\ call = "on"
  /\ call' = "stop_capture"
  /\ UNCHANGED << capture, adapterVars, serviceVars, history >>

----------------------------------------------------------------------------
(* fsm_task: fhss_audio_adapter_end_tx. *)

EndTx ==
  /\ call = "stop_capture" /\ capture = "none"
  /\ SendBuffered(frames)
  /\ ok' = (frames = 0 \/ HasRoom)
  /\ copies' = EndCopies
  /\ call' = "send_end"
  /\ UNCHANGED << capture, active, session, role, task, hand, history >>

\* send_end_packets, given up at the first copy that does not fit.
SendEnd ==
  /\ call = "send_end"
  /\ IF HasRoom THEN Enqueue("end", seq) ELSE UNCHANGED txq
  /\ ok' = (ok /\ HasRoom)
  /\ IF HasRoom /\ copies > 1
     THEN copies' = copies - 1 /\ UNCHANGED call
     ELSE copies' = 0 /\ call' = "wait_idle"
  /\ UNCHANGED << capture, active, frames, seq, session, role, task, hand, history >>

\* Faulty: looks at tx_in_flight alone.
RadioIdle == task # "air"

\* fhss_service_wait_tx_idle looks at the queue and at tx_in_flight: a packet
\* taken out but not yet begun shows in neither.
TxIdle == txq = << >> /\ task # "air"

\* It returns TRUE as soon as both are empty and gives up after 600 ms.
WaitIdle ==
  /\ call = "wait_idle"
  /\ ok' = (ok /\ TxIdle)
  /\ call' = "to_rx"
  /\ UNCHANGED << capture, active, frames, seq, session, copies, serviceVars, history >>

ToRx ==
  /\ call = "to_rx"
  /\ \E result \in Results :
       SetRole("RX", result) /\ ok' = (ok /\ result = "ok")
  /\ active' = FALSE
  /\ call' = "idle"
  /\ UNCHANGED << capture, frames, seq, session, copies, hand, air, spilled >>

----------------------------------------------------------------------------
(* tx_audio_task. *)

besideCapture == << call, active, session, copies, ok, role, task, hand, history >>

CaptureHead ==
  /\ capture = "head"
  /\ capture' = IF call = "stop_capture" THEN "none" ELSE "read"
  /\ UNCHANGED << besideCapture, frames, seq, txq >>

\* The microphone gave nothing, or the adapter refused the frame.
CaptureNothing ==
  /\ capture = "read"
  /\ capture' = "head"
  /\ UNCHANGED << besideCapture, frames, seq, txq >>

\* fhss_audio_adapter_submit_encoded_frame.  A full buffer refuses the frame
\* before it tries the queue again: it stays full until end_tx.
CaptureFrame ==
  /\ capture = "read" /\ active /\ frames < FramesPerPacket
  /\ seq < MaxPackets          \* bound
  /\ capture' = "head"
  /\ IF frames + 1 = FramesPerPacket
     THEN SendBuffered(frames + 1)
     ELSE frames' = frames + 1 /\ UNCHANGED << seq, txq >>
  /\ UNCHANGED besideCapture

----------------------------------------------------------------------------
(* fhss_service: service_task and tx_task. *)

besideService == << call, capture, adapterVars, role, refused >>

\* The head of the loop is where should_stop is seen.  A receiver has nothing
\* else to do here.
TaskHead ==
  /\ task = "head" /\ (StopAsked \/ role = "TX")
  /\ task' = IF StopAsked THEN "none" ELSE "slot"
  /\ UNCHANGED << besideService, txq, hand, air, spilled >>

\* The hop and the SYNC.  A failed hop is tried again, a failed SYNC ends the
\* task.
SendSync ==
  /\ task = "slot"
  /\ task' \in IF Faults THEN { "drain", "head", "none" } ELSE { "drain" }
  /\ UNCHANGED << besideService, txq, hand, air, spilled >>

\* drain_tx_data_until: until shortly before the next slot.
DrainEnds ==
  /\ task = "drain"
  /\ task' = "head"
  /\ UNCHANGED << besideService, txq, hand, air, spilled >>

Take ==
  /\ task = "drain" /\ txq # << >>
  /\ hand' = Head(txq) /\ txq' = Tail(txq)
  /\ task' = "hand"
  /\ UNCHANGED << besideService, air, spilled >>

\* Faulty: back to the end of the queue.
PutBackLast ==
  /\ task = "hand"
  /\ txq' = IF HasRoom THEN Append(txq, hand) ELSE txq
  /\ spilled' = (spilled \/ ~HasRoom)
  /\ hand' = Nothing
  /\ task' = "head"
  /\ UNCHANGED << besideService, air >>

\* Too late for this slot: back to the front of the queue, if it has room.
PutBack ==
  /\ task = "hand"
  /\ txq' = IF HasRoom THEN << hand >> \o txq ELSE txq
  /\ spilled' = (spilled \/ ~HasRoom)
  /\ hand' = Nothing
  /\ task' = "head"
  /\ UNCHANGED << besideService, air >>

OnAir ==
  /\ task = "hand"
  /\ air' = hand
  /\ task' = "air"
  /\ UNCHANGED << besideService, txq, hand, spilled >>

\* rf_transport_send_packet returns; a packet it failed to send is not tried
\* again.
Sent ==
  /\ task = "air"
  /\ hand' = Nothing
  /\ task' = "drain"
  /\ UNCHANGED << besideService, txq, air, spilled >>

----------------------------------------------------------------------------
Init ==
  /\ call = "idle" /\ capture = "none"
  /\ active = FALSE /\ frames = 0 /\ seq = 0 /\ session = 0
  /\ copies = 0 /\ ok = TRUE
  /\ role = "RX" /\ task = "head" /\ txq = << >> /\ hand = Nothing
  /\ air = Nothing /\ spilled = FALSE /\ refused = FALSE

CallStep == ToTx \/ Announce \/ EndTx \/ SendEnd \/ WaitIdle \/ ToRx
CaptureStep == CaptureHead \/ CaptureNothing \/ CaptureFrame
TaskStep == TaskHead \/ SendSync \/ DrainEnds \/ Take \/ PutBack \/ OnAir \/ Sent

Next == Begin \/ Leave \/ CallStep \/ CaptureStep \/ TaskStep

\* Every task runs when it can: the scheduler is preemptive with time slices
\* and every wait in the loops has a timeout.  Nothing is assumed of the button.
Fairness == WF_vars(CallStep) /\ WF_vars(CaptureStep) /\ WF_vars(TaskStep)

Spec == Init /\ [][Next]_vars /\ Fairness

----------------------------------------------------------------------------
(* Properties. *)

\* What a talkspurt promises its listeners (see Broadcast.tla): FIFO order
\* survives the packet put back at the front, and nothing of an earlier session
\* is left in the queue (drain_tx_data_until, fhss_service_set_role).
Air == INSTANCE Broadcast WITH stuck <- refused
KeepsBroadcastOrder == Air!Spec

\* A listener tells lost packets by a gap in the sequence numbers: there is none
\* before the radio.  Each audio packet follows the one before it and END follows
\* the last, unless a packet taken out did not fit back (drain_tx_data_until).
Successor(before, item) ==
  CASE item.kind = "audio" -> item.n = IF before.kind = "audio" THEN before.n + 1 ELSE 0
    [] item.kind = "end" ->
         \/ before.kind = "end" /\ before.n = item.n
         \/ before.kind = "audio" /\ before.n + 1 = item.n
         \/ before.kind \in { "announce", "none" } /\ item.n = 0
    [] OTHER -> TRUE
NoGapOnAir ==
  [][ task = "hand" /\ task' = "air" => Successor(air, air') \/ spilled \/ refused ]_vars

\* When end_tx reports success no accepted frame is left behind: the buffer is
\* empty and an END naming the last audio packet went to the radio.  The last
\* copy need not have: wait_tx_idle does not see a packet in the service's hand
\* (fhss_audio_adapter_end_tx, fhss_service_wait_tx_idle).
EndTxTellsTheTruth ==
  [][ call = "to_rx" /\ call' = "idle" /\ ok'
        => frames = 0 /\ (refused \/ (air.kind = "end" /\ air.n = seq)) ]_vars

\* Once TX_AUDIO is left the service ends up listening, or the radio refused:
\* no wait of end_tx is for a task that waits for fsm_task.
EndTxReturns ==
  call = "stop_capture" ~> call = "idle" /\ (refused \/ (role = "RX" /\ task # "none"))
=============================================================================
