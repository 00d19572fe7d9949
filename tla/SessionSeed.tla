----------------------------- MODULE SessionSeed -----------------------------
(***************************************************************************)
(* How the radios of a group come to hop by the same sequence.  Every push *)
(* of the button draws a public seed; the talker announces it, under a     *)
(* session number, on the channel of slot 0, where everybody waits.        *)
(* A listener takes one announcement per session number and returns to its *)
(* own seed and to slot 0's channel on END (fhss_audio_adapter.c,          *)
(* fhss_service.c).                                                        *)
(*                                                                         *)
(* One radio talks at a time; any packet may be lost to any listener.  The *)
(* slot runs modulo the number of channels.  What a listener does to follow*)
(* the SYNCs is FhssReceiver.tla, how the packets come on air Talkspurt.tla*)
(***************************************************************************)
EXTENDS HopSequence

CONSTANTS
  Radios,
  None,             \* no radio, and no seed
  Channels,         \* how many channels the sequence visits
  Seeds,            \* the seeds esp_random gives, as the numbers drawn from them
  BootSeed,         \* the seed of the active hop configuration
  MaxSession        \* the session number wraps to 1 after this one

ASSUME NoneAssumption == None \notin Radios \cup Seeds
ASSUME ChannelsAssumption == Channels \in Nat /\ Channels > 1
ASSUME SeedsAssumption == Seeds \subseteq [Steps(Channels) -> Nat] /\ BootSeed \in Seeds
ASSUME SessionAssumption == MaxSession \in Nat \ {0}

VARIABLES
  talker, slot,     \* who transmits, in which slot
  ending,           \* the END packets are in the talker's queue
  spoken,           \* whether the session has an audio packet (final_sequence)
  number,           \* tx_session_id of each radio
  own,              \* config.hop_seed
  hops,             \* the seed of controller.core.hop_sequence
  derived,          \* last_derived_public_seed, if have_derived_public_seed
  phase,            \* SEARCHING, following the talker, or a talker that has gone
  announced,        \* last_rx_seed_announce_session_id, 0 for none
  ended,            \* last_rx_end_session_id and _sequence
  told,             \* history: announced to since the controller was built
  reports,          \* history: TALKSPURT_ENDED reported in this session
  heardEnd,         \* history: an END of this session came in
  taken             \* history: the session's number is one this radio knows

onAir == << talker, slot, ending, spoken >>
controller == << hops, derived, phase >>
filters == << announced, ended >>
history == << told, reports, heardEnd, taken >>
vars == << onAir, number, own, controller, filters, history >>

Numbers == 1..MaxSession
NoEnd == << 0, FALSE >>
No == [r \in Radios |-> FALSE]

TypeOK ==
  /\ talker \in Radios \cup { None } /\ slot \in 0..Channels - 1
  /\ ending \in BOOLEAN /\ spoken \in BOOLEAN
  /\ number \in [Radios -> 0..MaxSession]
  /\ own \in [Radios -> Seeds] /\ hops \in [Radios -> Seeds]
  /\ derived \in [Radios -> Seeds \cup { None }]
  /\ phase \in [Radios -> { "search", "follow", "adrift" }]
  /\ announced \in [Radios -> 0..MaxSession]
  /\ ended \in [Radios -> (0..MaxSession) \X BOOLEAN]
  /\ told \in [Radios -> BOOLEAN] /\ reports \in [Radios -> 0..2]
  /\ heardEnd \in [Radios -> BOOLEAN] /\ taken \in [Radios -> BOOLEAN]

----------------------------------------------------------------------------
(* What the handlers share. *)

\* Faulty: have_derived_public_seed stays.
RebuiltButDerived(rs) ==
  /\ hops' = [r \in Radios |-> IF r \in rs THEN own'[r] ELSE hops[r]]
  /\ UNCHANGED derived

\* reset_controller and fhss_fsm_init for the radios of a set.
Rebuilt(rs) ==
  /\ hops' = [r \in Radios |-> IF r \in rs THEN own'[r] ELSE hops[r]]
  /\ derived' = [r \in Radios |-> IF r \in rs THEN None ELSE derived[r]]

\* fhss_service_apply_public_seed.
Applied(rs, seed) ==
  /\ hops' = [r \in Radios |-> IF r \in rs /\ derived[r] # seed THEN seed ELSE hops[r]]
  /\ derived' = [r \in Radios |-> IF r \in rs THEN seed ELSE derived[r]]

\* The service hands a packet up only outside SEARCHING.  A listener follows
\* the talker on the channel its own sequence gives, one adrift may be anywhere.
OnChannel(l) ==
  \/ phase[l] = "adrift"
  \/ phase[l] = "follow" /\
       IndexAt(Channels, hops[l], slot) = IndexAt(Channels, own[talker], slot)
Audience == { l \in Radios \ { talker } : OnChannel(l) }

----------------------------------------------------------------------------
(* The talker. *)

\* fhss_audio_adapter_begin_tx.  Whoever still follows an earlier talker is now
\* adrift.
Begin(r) ==
  /\ talker = None
  /\ talker' = r
  /\ number' = [number EXCEPT ![r] = IF @ = MaxSession THEN 1 ELSE @ + 1]
  /\ \E seed \in Seeds : own' = [own EXCEPT ![r] = seed]
  /\ Rebuilt({ r })
  /\ phase' = [l \in Radios |-> IF l # r /\ phase[l] # "search" THEN "adrift" ELSE "search"]
  /\ taken' = [l \in Radios |-> number'[r] \in { announced[l], ended[l][1] }]
  /\ UNCHANGED << slot, ending, spoken, filters, told, reports, heardEnd >>

NextSlot ==
  /\ talker # None
  /\ slot' = (slot + 1) % Channels
  /\ UNCHANGED << talker, ending, spoken, number, own, controller, filters, history >>

\* on_service_data: the session's number is not that of the last announcement.
IsNews(l) == announced[l] # number[talker]

\* A copy of the announcement is heard by some of those on the channel.
Announce ==
  /\ talker # None /\ ~ending
  /\ \E heard \in SUBSET Audience :
       /\ heard # {}
       /\ LET news == { l \in heard : IsNews(l) }
          IN  /\ announced' = [l \in Radios |->
                                 IF l \in news THEN number[talker] ELSE announced[l]]
              /\ Applied(news, own[talker])
       /\ told' = [l \in Radios |-> told[l] \/ l \in heard]
  /\ UNCHANGED << onAir, number, own, phase, ended, reports, heardEnd, taken >>

\* fhss_audio_adapter_end_tx.
Release ==
  /\ talker # None /\ ~ending
  /\ ending' = TRUE /\ spoken' \in BOOLEAN
  /\ UNCHANGED << talker, slot, number, own, controller, filters, history >>

\* Faulty: every copy is reported.
RepeatsNothing(l, end) == FALSE

\* on_service_data: this END was reported before.
Repeats(l, end) == ended[l] = end

\* A copy of END: reported once, obeyed always (handle_session_end).
End ==
  /\ talker # None /\ ending
  /\ \E heard \in SUBSET Audience :
       /\ heard # {}
       /\ LET end == << number[talker], spoken >>
              news == { l \in heard : ~Repeats(l, end) }
          IN  /\ ended' = [l \in Radios |-> IF l \in news THEN end ELSE ended[l]]
              /\ reports' = [l \in Radios |->
                    IF l \in news /\ reports[l] < 2 THEN reports[l] + 1 ELSE reports[l]]
       /\ UNCHANGED own
       /\ Rebuilt(heard)
       /\ told' = [l \in Radios |-> told[l] /\ l \notin heard]
       /\ phase' = [l \in Radios |-> IF l \in heard THEN "search" ELSE phase[l]]
       /\ heardEnd' = [l \in Radios |-> heardEnd[l] \/ l \in heard]
  /\ UNCHANGED << onAir, number, announced, taken >>

\* The way back to reception: fhss_service_set_role rebuilds the controller.
Leave ==
  /\ talker # None /\ ending
  /\ UNCHANGED own
  /\ Rebuilt({ talker })
  /\ talker' = None /\ slot' = 0 /\ ending' = FALSE /\ spoken' = FALSE
  /\ told' = No /\ reports' = [r \in Radios |-> 0] /\ heardEnd' = No /\ taken' = No
  /\ UNCHANGED << number, phase, filters >>

----------------------------------------------------------------------------
(* The listeners. *)

\* SYNC carries the slot; whoever searches waits on the channel of slot 0.
Sync(l) ==
  /\ talker \notin { None, l }
  /\ \/ phase[l] = "search" /\
          IndexAt(Channels, hops[l], 0) = IndexAt(Channels, own[talker], slot)
     \/ phase[l] = "adrift"
  /\ phase' = [phase EXCEPT ![l] = "follow"]
  /\ UNCHANGED << onAir, number, own, hops, derived, filters, history >>

\* The loss of synchronization leaves the hop sequence as it is.
LoseSync(l) ==
  /\ phase[l] # "search"
  /\ phase' = [phase EXCEPT ![l] = "search"]
  /\ UNCHANGED << onAir, number, own, hops, derived, filters, history >>

\* A restart, or the end of OTA mode for the controller's part of it.
Reboot(r) ==
  /\ talker # r
  /\ number' = [number EXCEPT ![r] = 0]
  /\ own' = [own EXCEPT ![r] = BootSeed]
  /\ Rebuilt({ r })
  /\ phase' = [phase EXCEPT ![r] = "search"]
  /\ announced' = [announced EXCEPT ![r] = 0]
  /\ ended' = [ended EXCEPT ![r] = NoEnd]
  /\ told' = [told EXCEPT ![r] = FALSE]
  /\ reports' = [reports EXCEPT ![r] = 0] /\ heardEnd' = [heardEnd EXCEPT ![r] = FALSE]
  /\ taken' = [taken EXCEPT ![r] = FALSE]
  /\ UNCHANGED onAir

----------------------------------------------------------------------------
Init ==
  /\ talker = None /\ slot = 0 /\ ending = FALSE /\ spoken = FALSE
  /\ number = [r \in Radios |-> 0]
  /\ own = [r \in Radios |-> BootSeed] /\ hops = own
  /\ derived = [r \in Radios |-> None]
  /\ phase = [r \in Radios |-> "search"]
  /\ announced = [r \in Radios |-> 0] /\ ended = [r \in Radios |-> NoEnd]
  /\ told = No /\ reports = [r \in Radios |-> 0] /\ heardEnd = No /\ taken = No

Next ==
  \/ \E r \in Radios : Begin(r) \/ Sync(r) \/ LoseSync(r) \/ Reboot(r)
  \/ NextSlot \/ Announce \/ Release \/ End \/ Leave

Spec == Init /\ [][Next]_vars

----------------------------------------------------------------------------
(* Properties. *)

\* A listener that heard the announcement hops as the talker does, until END
\* or a restart: unless the session's number is the one it last took, from
\* another talker, before a restart, or by wrapping (on_service_data).
HopsWithTheTalker ==
  talker # None =>
    \A l \in Radios \ { talker } : told[l] => taken[l] \/ hops[l] = own[talker]

\* The application learns of the end of a talkspurt once, however many copies
\* of END come in, also after the first of them sent the listener back to
\* search and it met the talker again at slot 0's channel (on_service_data).
EndReportedOnce ==
  talker # None =>
    \A l \in Radios \ { talker } :
      reports[l] < 2 /\ (heardEnd[l] => taken[l] \/ reports[l] = 1)

\* Whatever the seed, slot 0 is on the channel where everybody waits, and the
\* slots of a cycle visit every channel (initialize_sequence).
EveryoneMeets ==
  \A r \in Radios :
    LET order == Permutation(Channels, hops[r])
    IN  order[0] = 0 /\ { order[i] : i \in 0..Channels - 1 } = 0..Channels - 1
=============================================================================
