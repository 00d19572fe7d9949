# TLA+ model of the FHSS/OTA radio firmware

The firmware (ESP32, FreeRTOS, one CC1101 transceiver) is a push-to-talk radio that hops
over a channel list agreed with its peer, and that can receive its own firmware over the
same radio.  This directory models the parts whose correctness depends on the order of
events, model-checks them with TLC and proves the central facts with TLAPS.

Paths below are relative to `src/fhss-ota-radio/components/` (`main/` to `src/fhss-ota-radio/`).

## 1. The system

| part | code | state it keeps | who drives it |
|---|---|---|---|
| sync tracker | `fhss_core/fhss_sync_state.c` | SEARCHING/LOCKED, runs of valid SYNCs and of misses | the receive task |
| slot scheduler | `fhss_core/fhss_slot_scheduler.c` | reference slot and time | the receive task |
| sync controller | `fhss_core/fhss_sync_controller.c`, `fhss_core.c` | joins both, corrects the phase | the receive task |
| hop sequence | `fhss_core/fhss_hop_sequence.c` | permutation of the channel list, slot 0 fixed | both tasks |
| radio FSM | `fhss_service/fhss_fsm.c` | STOPPED, SEARCHING, SYNCHRONIZING, TRACKING, RECOVERY, TRANSMITTING | the service task |
| FHSS service | `fhss_service/fhss_service.c` | task handle, `should_stop`, TX queue, miss count, probe index | one task per role; `pause`, `set_role`, `send_data` from other tasks |
| transceiver driver | `rf_transport/rf_transport.c` | mode, one-deep timestamp queue filled by an interrupt | the service task, the GDO0 interrupt |
| audio adapter | `fhss_audio_adapter/fhss_audio_adapter.c` | session id, frame buffer, two OTA flags, OTA receive queue of 16, the radio mutex | the audio and OTA tasks, the service's callbacks |
| OTA client | `ota_client/source/*.c` | session, batch cache, flash writer, packet queue of 16 | the consumer task, `ota_client_abort` from the product FSM |
| hop configuration store | `fhss_config_store/fhss_config_store.c` | active and pending record in NVS | the service's callback, the OTA client |
| product FSM | `main/fsm.c` | screen and mode state, event queue of 16, timers, audio and radio tasks | `fsm_task`, callbacks of every other part |
| inputs | `ptt_button/`, `rotary_encoder/` | debounce and quadrature state | interrupts and timers |
| first boot | `main/main.c` | whether a fresh image has been confirmed | `app_main` |

**Interactions.**  The service task owns the radio; what it hears goes to the audio
adapter by a callback, which answers whether the peer ended its session.  Locks, losses
and errors go to the product FSM by a second callback, through the FSM's event queue.  OTA
packets go through the adapter's queue to a polling task of the product FSM, from there to
the OTA client's queue, and from its consumer task into the batch cache and the flash
writer; acknowledgements travel back through the service's TX queue, or over fixed channel
0 under the radio mutex.

**What is hard.**  Two counters and three state machines that must be reset together on
every path; arithmetic on slots and clocks that must neither repeat a slot nor run ahead
of the clock; a radio shared by a receiving and an answering role and by two modes; tasks
that other tasks stop by polling; a transfer over a channel that loses, repeats and
reorders; an abort that runs beside the task it aborts; two records in flash that must
survive a reset between any two writes; timers that fire after their reason has gone;
queues that drop when full.

**What makes each part correct.**

* Receiver: whoever hops has a reference and a lock consistent with what was reported; a
  lock takes an unbroken run of SYNCs and is lost after an unbroken run of misses; recovery
  tries its three candidates before the lock is given up; a stop request is honoured.
* Slot clock: every slot is listened for once, in order, with the channel open before the
  SYNC comes; corrections never overshoot; only misses end the lock.
* Transceiver: a packet is paired with its own timestamp, and neither comes from the
  channel before the hop.
* Talkspurt: announcement, audio by number and END leave in this order, without a gap and
  without anything of an earlier push of the button; `end_tx` ends, and reports success only
  when END has been sent.
* Hopping group: who heard the announcement hops with the talker; the end of a talkspurt is
  reported once; every sequence is a permutation with the rendezvous channel first.
* Voice mode: microphone and loudspeaker never run together; every state that only an event
  ends gets it; letting the button go leads back to a live receiver.
* OTA client: the partition holds a prefix of one image; what was acknowledged is kept;
  what is asked for again is missing; a whole, sound image and only that is selected; a
  repeated packet takes nothing back; every transfer ends.
* OTA mode: a configuration acknowledged survives any reset; the channel-0 radio has one user
  at a time; screen and session agree; ERROR leaves nothing running; no entry action hangs.

## 2. Modules

| module | what it is |
|---|---|
| `SyncTracker` | the tracker as pure operators on a record |
| `FhssReceiver` | the receive task of the service: radio FSM, tracker, reference, misses, probes, `pause` and `set_role` |
| `MCFhssReceiver` | the product's thresholds |
| `SlotClock`, `MCSlotClock` | scheduler, timing window and phase correction in numbers, against a drifting transmitter; the product's timing |
| `RfLink` | how a packet gets its timestamp: the chip, the GDO0 interrupt, the one-deep queue, the driver's calls |
| `Broadcast` | abstract: what a talkspurt promises the radios that follow it |
| `Talkspurt` | the transmit side: adapter, capture task, the service's queue and `tx_task` |
| `HopSequence` | the shuffle of the channel list |
| `SessionSeed`, `MCSessionSeed` | how the radios of a group come to hop by the seed of the talker |
| `ProductFsm` | states, events and the transition table of `main/fsm.c` |
| `VoiceMode` | one device in voice mode: button, bounded event queue, FSM, audio tasks, the service's role |
| `OtaMode`, `MCOtaMode` | four tasks, the radio mutex, the adapter's flags and the two NVS keys while the device is provisioned |
| `OtaImage` | abstract: the promise to the boot loader |
| `OtaClient`, `MCOtaClient` | `ota_client`: queue, session, batch cache, writer, abort, receive timeout; two small images |
| `*Proofs` | the theorems about `FhssReceiver`, `SlotClock`, `RfLink`, `Talkspurt`, `SessionSeed`, `VoiceMode`, `OtaMode` and `OtaClient` |

`FhssReceiver` is built on `SyncTracker`, `OtaMode` and `VoiceMode` on `ProductFsm`,
`SessionSeed` on `HopSequence`; `OtaClient` implements `OtaImage`, `Talkspurt` implements
`Broadcast`.  The same task appears at several levels.  `SlotClock` computes whether a SYNC is
inside the window and whether the next slot can be planned, `FhssReceiver` takes both as
choices and has every state around them, `RfLink` shows that the time given with the SYNC is
its own.  `VoiceMode` decides when `begin_tx` and `end_tx` are called, `Talkspurt` what they
do, `SessionSeed` what the listeners make of it.  `OtaMode` has the receiver of `FhssReceiver`
reduced to running and synchronized, and the client of `OtaClient` reduced to its state.

### How they correspond to the code

*FhssReceiver.*  A step is the stretch of `rx_task()` between two waits on the radio:
`SelectRendezvous` and `SearchReceive` (SEARCHING), `LoseReference` or `PlanNextSlot`
(`get_next_switch_time`), `DrainReceive`/`DrainEnds` (`drain_rx_data_until`), `Hop`, and
`SlotReceive`, `SlotTimeout` or `SlotInvalidSync` for the SYNC of the slot.  What
`receive_one()` returns is a choice over valid SYNCs inside, before and after the window,
DATA, END, CRC and radio errors; `HearSync` and `Miss` are `handle_sync_result()` and
`handle_miss()` with every state change they make.  `RequestStop`, `Pause` and `SetRole`
are the other tasks.  Two histories follow a RECOVERY: `probed` has the candidates the receiver
listened for through a whole slot, `barred` those in whose turn the radio failed.

*SlotClock.*  `GetSlot`, `StartTime`, `NextSlot`, `SetReference`, `Correction` and `Inside`
are the functions of the same name, with their overflow checks (`SlotMax` for UINT32_MAX,
`TimeMax` for INT64_MAX).  `Plan` is one pass of `rx_task()` up to the switch, `Hear`,
`Garbled`, `Drowned` and `TimedOut` are what `receive_one()` can return, `Begins` is the
transmitter's loop, whose clock drifts by at most `Drift` per slot and which sends each SYNC
after one of `Delays`.  RECOVERY and the loss of a lock are both "search": from either the
next SYNC heard sets the reference anew, whatever it was.

*RfLink.*  The chip's mode, the packet on its way in and the receive FIFO are external.  The
driver is `rf_transport_set_channel` (SIDLE, the channel, the flush of FIFO and timestamp
queue), `start_receive`, `send_packet` and `receive_packet`; the loop around them is
`receive_one` and `drain_rx_data_until`, with the answer that may be sent within a receive
slot.  A sync word, true or false, raises an edge that overwrites the queue of one.

*Talkspurt.*  `fsm_task` goes through `begin_tx` (`Begin`, `ToTx`, `Announce`) and `end_tx`
(`EndTx`, `SendEnd`, `WaitIdle`, `ToRx`) in steps between which the two other tasks run;
`CaptureFrame` is `submit_encoded_frame` with `send_buffered_frames`; `TaskHead`, `SendSync`,
`Take`, `PutBack`, `OnAir`, `Sent` and `DrainEnds` are `tx_task` with `drain_tx_data_until`.
A packet is its session, kind and number.  `hand` is the packet taken out of the queue and not
yet begun, the one `wait_tx_idle` does not see.

*SessionSeed.*  `Begin`, `Announce`, `Release`, `End` and `Leave` follow the talker from
`begin_tx` through the announcement and `end_tx` back to reception, `NextSlot` moves the slot on
meanwhile.  `Announce` and `End` also hold what the copy does at each listener that hears it: the
filters of `on_service_data` (`IsNews`, `Repeats`) and the resets of the sync controller
(`Applied`, `Rebuilt`).  Any copy may be lost to any of them.  `Sync` and `LoseSync` are the
listeners' synchronization, and `Reboot` restarts a radio.  A seed is the sequence
of numbers xorshift32 draws from it, one for each step of the shuffle; the derivation by HMAC
gives everybody the same value for the same announcement, so a seed stands for itself.

*VoiceMode.*  An event is taken from a queue of `EventDepth` places into which
`fsm_post_event` drops what does not fit (`lost` remembers it).  An entry action is a sequence
of steps, one for each call that blocks: beep, `begin_tx`, the role change, the start of the
capture task; the stop loops, `end_tx`, the role change.  The playback task expires after a
second of silence (`PlayerExpires`) and reports (`ReportDone`).

*OtaClient.*  A chunk is a pair of session and number, a packet a type, a session and a
number.  Handlers are split where `ota_client_abort()` can get between their steps
(`CommitBatch`/`BookBatch`, `BeginVerify`/`EndWriter`/`SelectImage`/`AcceptImage`), and the
abort is split likewise.  The digest is the comparison of contents with the announced image;
a session not in `Sound` is one whose announced digest does not match.

*OtaMode.*  CONFIG and ACTIVATE name a generation, the other packets are their kind.  The
adapter's receive queue is merged with the delivery to the client's queue.  The wait of up to
250 ms for an answer may end at any time.  A timer fires whenever it is armed, but not while
an activation is being carried out (it lasts five seconds, an activation some milliseconds).
The load and the first write of `fhss_config_store_activate` are one step: nothing but the
consumer writes the pending key, and it does not read the active one.  `begin_ota` that fails
gives the mutex back (`Paused`) before it starts the service again (`Restore`), so that a
waiting activation may come between.  The history `stale` is set by an abort while the
session's OTA_START is queued and stays until that event is dropped or what it shows is left;
it exempts the one disagreement of screen and session the code has (section 5).  Failures of timer
arming, task creation and NVS, and the audio states, are left out; START's mode callback may
refuse at any time; DISCOVER changes no state.

## 3. Runs

| run | what it asks | distinct states |
|---|---|---|
| `receiver` | all safety of the receiver, and that a stop is honoured | 93 707 |
| `slot_clock` | the slot clock stays in step with a drifting, sometimes late peer | 2.8 million |
| `rf_link` | packets and timestamps belong together, across hops, noise and answers | 764 498 |
| `talkspurt` | a talkspurt implements `Broadcast`, has no gap, ends and tells the truth | 275 313 |
| `session_seed` | listeners hop with the talker, one report of END, every sequence a permutation | 3.4 million |
| `voice_mode` | half duplex, awaited events, back to reception, with full queues and failures | 198 560 |
| `ota_client` | the client under loss, repetition, reordering and abort at any step | 1.9 million |
| `ota_transfer` | an undisturbed transfer ends, restarts, and implements `OtaImage` | 9 261 |
| `ota_mode` | provisioning to restart, with SPI faults, resets and a user who leaves | 9.5 million |
| `ota_mode_live` | with a radio that works: receivers in the menus, nothing hangs | 129 853 |
| `ota_aborted_boots` | finding: an aborted image may be selected | |
| `ota_mode_unproven` | finding: promotion of a configuration no SYNC proved | |

**Bounds.**

* `receiver`: the product's thresholds (3, 5, 2); no bound, the state space is finite as the
  counters are reset or saturate.
* `slot_clock`: microseconds and the product's values (slot 300 ms, guard 5 ms, margin 20 ms,
  deadband 0.5 ms, fast from 2 ms, gains 1/8 and 1/2, clamp 0.5 ms, window 80 ms); a coarser
  unit would enlarge the smallest correction.  Seven slots, clocks that drift apart by 30 µs
  per slot (100 ppm), SYNCs late by 0, 0.3 or 2.5 ms, a switch late by 1 ms.  Seven slots
  suffice to set the reference on a late SYNC, correct it, miss one, lose it and find it again.
  `MCSlotClock` assumes `TimingBudget`, the hypothesis of the proofs, so that TLC confirms that
  the product's timing keeps it.  The budget is real: with delays of 3 ms and a drift of 300 µs
  per slot `NeverDeaf` fails, because delay, drift and deadband then exceed the guard less the
  lateness of the switch.  `CHECK_DEADLOCK FALSE`: a behaviour ends at `SlotMax`.
* `rf_link`: four transmissions or false edges per slot (`SlotPackets`), a FIFO of one packet,
  hops counted modulo three: an edge of the slot before last is told from one of the last.
* `talkspurt`: a queue of two, two copies of announcement and END (the product has eight
  places and three copies), two frames per packet, three packets, a session number that wraps
  after two.  The queue overflows, packets put back find it full, and old numbers come again.
  The model needs the copies of END to fit in the queue, as they do: with fewer places all of
  them may be lost one by one while `send_end_packets` succeeds.
* `session_seed`: two radios that talk in turn, four channels (both steps of the shuffle
  exchange something), three seeds, session numbers that wrap after two.  A number met again
  comes from a wrap or a restart; a third radio adds one more way to the same case and leads
  beyond twenty million states.
* `voice_mode`: an event queue of two and a receive queue of one, so that both overflow; every
  role change, task creation and SYNC may fail.
* `ota_client`, `ota_transfer`: two sessions, an image of one full batch and one short one,
  an image of a single chunk with a wrong digest; batches of two; a queue of two or one.
  This reaches a short last batch, a repeat of an earlier batch, a session interrupted by
  another one's START, and a full queue.
* `ota_mode`: two generations (symmetric), one packet in the client's queue, the outside world
  acts only while fewer than `EventBound` events are queued.  The overflow of the event queue
  is the subject of `voice_mode`; here no event is dropped.  `EventBound` is 1 in the runs,
  where events still queue up behind each other, since the tasks post whatever the bound: in
  `ota_mode` an abort does overtake its session's OTA_START, though the bound keeps the event
  from being shown afterwards, which takes eight waiting events.  The theorems hold for every
  `EventBound`, the product's 16 included; `ScreenMatchesSession`, the property the length of
  the queue matters to, is proved with nothing assumed about it.  `ota_mode_live` has one generation and leaves out the
  transfer itself, which `ota_transfer` covers, and faults.

**Fairness.**  FreeRTOS schedules preemptively with time slices, and no loop in a model with
fairness waits without a timeout for anything but another task's end; hence weak fairness of
each task's steps.  In the receiver there is none of `DrainReceive`, so that a drain kept alive
by packets is allowed until its deadline (`DrainEnds`).  `TransferSpec`: the consumer runs, a
gateway repeats what is not acknowledged (strong fairness of each packet, since the queue may
be full at times) and some acknowledgement of END gets through.  `Talkspurt` and `VoiceMode`:
weak fairness of the tasks, of the end of a playback after silence and of its report; nothing
of button, microphone or peer.  `OtaMode`: weak fairness of tasks and timers; strong fairness
of `BeginSend` and `Switch`, the two places where the consumer waits for the radio mutex,
because the radio task, which takes it over and over, sleeps a tick or waits for the answer
between two receptions.  Nothing makes the outside world act.

## 4. Proofs

Every theorem holds for all values of the constants that the named assumptions allow.  Each
module proves an inductive invariant (`Invariance`), whose parts it names, and everything else
from it.

* `FhssReceiverProofs`.  `Inv` has types, and the relations between tracker, radio FSM,
  reference, both miss counters and what was reported, including those that hold only at the
  points inside the loop (after a plan, during a drain, before the slot's SYNC): of itself
  `TrackingIsLocked` says nothing of a tracker whose reference is gone.  `FollowingSafety`,
  `TrackingSafety`, `MissSafety` and `ReportSafety` are the state invariants of the run,
  `AcquisitionSafety` and `LossSafety` the action properties.  `ProbesInOrder` ties the probe
  index to the misses and to what the recovery has listened for or been kept from by the radio,
  hence `CandidateSafety`: before the lock is given up each candidate the miss budget leaves
  room for has been listened for, or the radio failed in its turn.
* `SlotClockProofs`.  From division facts (`Quotient`, `QuotientOf`) follow the bounds of
  the correction for every gain and clamp, `NoOvershootSafety`, and `SlotOfItsTime`, by
  which the scheduler's two functions are inverse to each other during each slot.
  `TypeCorrect` includes the refusal of the slot after the last.  `InStep` bounds the distance
  between the start the scheduler computes and the transmitter's: at most the lateness of SYNCs
  and a swing, and the drift of the slots missed since.  It is inductive under `TimingBudget`,
  which says, in terms of the constants alone, that an error beyond the swing is corrected by
  at least what the clocks drift apart before the service gives up, and that the distance fits
  into guard, margin, window and slot.  Hence `NeverDeafSafety` and `PlanSafety`
  (`OnlyMissesEndIt`).
* `RfLinkProofs`.  `HopInv`: between SIDLE and the flush the chip is silent, so nothing of the
  old channel comes in behind the flush; hence `HopSafety`.  `SyncInv` follows the slot's first
  packet from its edge to its payload; hence `SyncSafety`.
* `TalkspurtProofs`.  `BroadcastRefinement` maps every step to `Broadcast` or a stutter.
  `OrderInv` has each pair of waiting packets, and each of them against the one last on air, in
  the promised order; `DueInv` has none beyond what the adapter queues next; `CallInv` shows
  that a session starts with an empty queue; `ChainInv` is the order without a gap
  (`GapSafety`); `EndInv` follows the copies of END from queue to air (`EndTxSafety`).
* `SessionSeedProofs`.  While a session lasts, a listener whose filter has the session's number
  took it from this talker or had it before (`taken`); hence `SeedSafety` and `EndSafety`.
  `ShuffleOrders` shows for every number of channels and every seed that the shuffle yields a
  permutation with channel 0 first: the recursive function exists (`ShuffleExists`), and each
  of its steps exchanges two places other than the first (`ExchangeKeepsOrders`).  The
  library's induction theorems cannot be used here; in their place `Downwards` takes the set of
  numbers that would break the claim and its least element (`LeastNumber`).  From it,
  `MeetingSafety` (`EveryoneMeets`).
* `VoiceModeProofs`.  `StepInv` says which entry action is whose, `ActiveInv` and `AudioInv`
  where the transmit session and the audio tasks live (`DuplexSafety`, `ListenSafety`);
  `AwaitedSafety` needs `PressInv`: while the button is up, every press in the queue is
  followed by its release.
* `OtaModeProofs`.  `EntryInv` is what the tasks know of each other through the place of
  `fsm_task`; from it `RadioTaskSafety`, `ErrorSafety` and, for a radio that works,
  `ReceiverSafety`.  `OwnerInv` ties the mutex to its users (`MutualExclusion`), `ConfigInv`
  follows a configuration from flash over acknowledgement to promotion (`ConfigSafety`).
  `ScreenInv` is about the contents of the event queue, by position: an OTA_START waits for
  the one session it announces (`StartedOnce`) or is followed by that session's end
  (`StartOutlived`); an OTA_COMPLETE belongs to the image at hand (`CompleteIsCurrent`); a
  session shown that is over has its end in the queue (`ReceivingEnds`, `ApplyingEnds`).  All of
  it is lost when an abort overtakes an OTA_START (`stale`) and holds again once that event and
  its screen are gone (`AbortedScreen`).  `ScreenSafety` follows for queues of any length.
* `OtaClientProofs`.  `IInv` in parts: `BooksAgree` (expected chunk, cache base and bytes
  written tell one story, with the exception of the point between a commit and its booking),
  `IdleIsClosed`, `PacketAtHand`, `WriterFollows`, `SlotsInPlace`, `Kept` (what was
  acknowledged), `AckIsDue`, `AcksAreKept` and `GapIsOpen`.  From it `FlashSafety`, `AckSafety`,
  `NackSafety`, `ProgressSafety`, all with aborts at any step.  `TransferRefinement` shows that
  an undisturbed transfer implements `OtaImage`: `Selected` and `HoldsPrefix` map each step to
  one of `Begin`, `Extend`, `Select`, `Discard` or a stutter; `BootSafety` is
  `BootImageIntact` from the same invariant.

Only model-checked are the seven liveness properties (`StopHonoured`, `TransferEnds`,
`VerifiedRestarts`, `EntryEnds`, `SyncingEnds`, `EndTxReturns`, `ReleaseReturnsToReception`):
they rest on fairness, hence on ENABLED, which is out of the prover's reach.  Every safety
invariant and every action property of a passing run is also a theorem, as are the two
refinements.

## 5. Findings

Two runs end in a counterexample that contradicts a sentence of the repository; PROJECT.json
quotes each.  An abort that has found the session receiving, and is overtaken by the consumer
that takes END, closes the partition and selects it, finds the writer inactive and only resets
the session: the aborted image stays selected (`ota_aborted_boots`).  `set_role()` returns early for a running
receiver, so a new configuration is promoted by the old one's SYNC (`ota_mode_unproven`).

Further disagreements met while modelling, without a run of their own.

Receiver and driver:

* a recovery candidate whose channel cannot be selected is used up unheard
  (`fhss_service.c:862`, the index moved on at 686), and the lock may be lost without it (against
  the comment at 680); `CandidatesTriedBeforeLoss` shows that nothing else leaves one out;
* `rx_task()` drops a reference that lies ahead of the clock but keeps the tracker's lock, and
  no later acquisition is reported (`fhss_service.c:845`, against
  `docs/fhss_radio_sync_integration.md:83`).  `slot_clock` shows that the default timing does
  not lead there (`OnlyMissesEndIt`), and `PlanSafety` says which timing does not
  (`TimingBudget`); a guard that exceeds the time a SYNC takes to be processed does lead there,
  and the guard is part of the configuration a gateway provisions;
* after a lock lost during a drain the receiver listens once on a hop channel before
  returning to the rendezvous channel (`fhss_service.c:853`, against the comment at 796);
* SYNCs outside the window reset the service's misses but not the tracker's, so a lock may
  be lost without RECOVERY (`fhss_service.c:577` and 645);
* the edge of the device's own answer makes the next `receive_one()` wait for a packet that may
  not come, and the error it returns ends the drain of the slot (against
  `fhss_service.c:724`); a packet that comes after its edge timed out shifts the timestamps of
  the slot by one.

Voice:

* a seed announcement is filtered by its session number alone (`fhss_audio_adapter.c:284`,
  against `docs/fhss_hop_seed_hmac_derivation.md:91`): after a wrap, a restart or a second
  talker with the same number the listener stays on its old seed;
* once a full queue has refused a packet the buffered frames stay, and every later frame is
  refused until `end_tx` (`fhss_audio_adapter.c:625`);
* `wait_tx_idle` misses a packet between queue and radio, so that the last copy of END may be
  lost though `end_tx` reports success (`fhss_service.c:1125`, against
  `fhss_audio_adapter.c:647`); an earlier copy has been sent then (`EndTxTellsTheTruth`);
* a role change refused in `begin_tx` leaves the service dead, and the `end_tx` of
  `on_enter_error` does nothing, as `tx_active` is false (against `fsm.c:1009`);
* RX_FRAME events outlive the frames `on_enter_menu_comm` throws away, and start a silent second
  of RX_AUDIO; a SYNC_LOST queued during the beep ends the fresh TX_AUDIO (`fsm.c:1100`,
  against `fsm-design.md:53`); a PTT_RELEASE is dropped when sixteen events came in before it,
  and TX_AUDIO stays.

OTA:

* an activation that waited for the mutex sets the hopping flag after OTA mode has ended
  (`fhss_audio_adapter.c:734`, against `fhss_final_overview.md:105`);
* every regained SYNC promotes again, which fails once the pending key is gone, and the ERROR
  ends the session (`fsm.c:273`, against `fsm.c:1110`);
* an activation carried out in MENU_OTA arms no timeout (`fsm.c:386`, against
  `fhss-ota-monitor-guide.md:29`);
* a configuration saved while the previous one is promoted may be erased with it
  (`fhss_config_store.c:136`); `AckedIsKept` shows that this is the only way to lose one;
* a reception on channel 0 that began before an activation may overlap the start of hopping
  (`fhss_audio_adapter.c:786`, `fhss_service.c:733`);
* a receive timeout keeps the session (`ota_consumer.c:677`, against
  `ota_client/README.md:244`);
* progress is divided by the image size (`ota_client.c:274`), which START has checked
  (`ota_client.c:74`) and an abort since then has set to zero;
* SYNC_LOST in OTA_APPLYING leads to MENU_COMM (`fsm.c:1100`, against `fsm-design.md:54`);
* START is accepted by the client outside OTA_FHSS_READY (`fsm.c:1213`, against
  `fsm-design.md:135`), and VERIFY_FAIL leaves the client in ERROR (`fsm.c:1292`, against
  `fsm-design.md:142`);
* an OTA_START may be taken after its session was aborted (`fsm.c:1142`): ERROR aborts the
  session and leaves the queue as it is.  When the OTA_START stands behind the user's RETRY and
  a whole new provisioning up to its SYNC_ACQUIRED, which takes eight waiting events of the
  sixteen that fit, OTA_RECEIVING is shown with the client idle.  `ScreenSafety` shows that this
  is the only way for screen and session to disagree at rest;
* after an SPI fault on entering OTA mode the service stays stopped, and neither ERROR nor
  MENU_COMM starts it again (`fhss_audio_adapter.c:756`).

## 6. Not modelled

* `main.c`'s confirmation of a first boot: a straight line without another actor.
* The debouncing of the button and the quadrature decoder: their output is the input of
  `VoiceMode` and `OtaMode`.
* Packet layouts, Speex, I2S, the display, the LED, registers and SPI transfers, logging, the
  PCM test, the diagnostics: no protocol of their own.
* `ota_rf_bridge`: not used by the product firmware.  `ota_protocol` is a submodule whose
  sources are absent; its packets are inputs.
* The bits of xorshift32 and of the HMAC: a seed stands for the numbers drawn from it.
* Elapsed time outside `SlotClock`: whether the restart 500 ms after the END ACK leaves it time
  to be sent depends on the packets before it in the queue.

## 7. What is left

1. The safety half of the liveness properties: for each, that every state it waits in has an
   enabled step or a running timer, as invariants.
2. Two devices composed on `SlotClock`, `Talkspurt` and `FhssReceiver`; so far each meets an
   environment that may do anything its peer does.
