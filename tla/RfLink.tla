------------------------------- MODULE RfLink --------------------------------
(***************************************************************************)
(* How a received packet gets its timestamp.  The interrupt of pin GDO0    *)
(* puts the time of every sync word, heard or sent, into a queue of one    *)
(* place, overwriting; the packet itself is read from the FIFO of the      *)
(* CC1101 later, by the task of the hopping service.  Nothing but the      *)
(* order of the calls ties the two together (components/rf_transport and   *)
(* receive_one, drain_rx_data_until of fhss_service.c).                    *)
(*                                                                         *)
(* The chip (mode, incoming, fifo) is external; after a packet it goes to  *)
(* IDLE, as MCSM1 = 0 tells it to.  A packet and an edge carry the hop and *)
(* the number within the hop of the transmission they come from.           *)
(***************************************************************************)
EXTENDS Integers, Sequences

CONSTANTS
  SlotPackets,      \* bound: transmissions and false edges within one slot
  FifoRoom          \* packets the 64 bytes of the receive FIFO hold

ASSUME SlotPacketsAssumption == SlotPackets \in Nat \ {0}
ASSUME FifoRoomAssumption == FifoRoom \in Nat \ {0}

VARIABLES
  mode, incoming, fifo,   \* the chip: IDLE, RX or TX, the packet on its way in
  overflow,         \* RXFIFO_OVERFLOW
  edge,             \* rx_timestamp_queue
  pc,               \* where the service task is
  first,            \* whether it is after the first packet of the slot
  stamp,            \* rx_timestamp_us of receive_one
  hop, number,      \* history: the hop (modulo 3), transmissions in it
  tuned             \* history: the last set_channel went through

chip == << mode, incoming, fifo, overflow >>
history == << hop, number, tuned >>
vars == << chip, edge, pc, first, stamp, history >>

Edges == [hop : 0..2, number : 1..SlotPackets, source : { "peer", "noise", "own" }]
None == [hop |-> 0, number |-> 0, source |-> "none"]
NoPacket == None

TypeOK ==
  /\ mode \in { "IDLE", "RX", "TX" }
  /\ incoming \in Edges \cup { NoPacket } /\ fifo \in Seq(Edges)
  /\ Len(fifo) <= FifoRoom /\ overflow \in BOOLEAN
  /\ edge \in Edges \cup { None } /\ stamp \in Edges \cup { None }
  /\ pc \in { "hop", "flush", "arm", "wait", "read", "poll", "drain", "load",
              "sending", "idle" }
  /\ first \in BOOLEAN
  /\ hop \in 0..2 /\ number \in 0..SlotPackets
  /\ tuned \in BOOLEAN

----------------------------------------------------------------------------
(* The chip and the interrupt. *)

ThisEdge(source) == [hop |-> hop, number |-> number + 1, source |-> source]

\* cc1101_gdo0_isr: xQueueOverwriteFromISR.  A sync word found in noise counts
\* as one whose packet the chip discards for its length; if it does not, the
\* garbage arrives as a packet of the peer would.
SyncWord ==
  /\ mode = "RX" /\ incoming = NoPacket
  /\ number < SlotPackets      \* bound
  /\ \E source \in { "peer", "noise" } :
       /\ edge' = ThisEdge(source)
       /\ incoming' = IF source = "peer" THEN ThisEdge("peer") ELSE NoPacket
  /\ number' = number + 1
  /\ UNCHANGED << mode, fifo, overflow, pc, first, stamp, hop, tuned >>

\* The body is complete.
Arrives ==
  /\ mode = "RX" /\ incoming # NoPacket
  /\ incoming' = NoPacket
  /\ mode' = "IDLE"
  /\ IF Len(fifo) < FifoRoom
     THEN fifo' = Append(fifo, incoming) /\ UNCHANGED overflow
     ELSE overflow' = TRUE /\ UNCHANGED fifo
  /\ UNCHANGED << edge, pc, first, stamp, history >>

\* The strobes the driver sends.
StrobeIdle == mode' = "IDLE" /\ incoming' = NoPacket
StrobeRx == mode' = "RX" /\ UNCHANGED << incoming, fifo, overflow >>
FlushRx == fifo' = << >> /\ overflow' = FALSE

----------------------------------------------------------------------------
(* rf_transport_set_channel: SIDLE and CHANNR, then SFRX and SFTX, then the *)
(* timestamp queue.  An SPI error ends it where it is.                      *)

\* Faulty: listens again before the queue of timestamps is emptied.
HopListening ==
  /\ pc = "hop"
  /\ mode' = "RX" /\ incoming' = NoPacket
  /\ hop' = (hop + 1) % 3 /\ number' = 0
  /\ pc' = "flush"
  /\ UNCHANGED << fifo, overflow, edge, first, stamp, tuned >>

Hop ==
  /\ pc = "hop"
  /\ StrobeIdle
  /\ hop' = (hop + 1) % 3 /\ number' = 0
  /\ pc' = "flush"
  /\ UNCHANGED << fifo, overflow, edge, first, stamp, tuned >>

\* Faulty: leaves the queue of timestamps as it is.
FlushKeepsEdge ==
  /\ pc = "flush"
  /\ FlushRx
  /\ tuned' = TRUE
  /\ first' = TRUE /\ pc' = "arm"
  /\ UNCHANGED << mode, incoming, edge, stamp, hop, number >>

Flush ==
  /\ pc = "flush"
  /\ FlushRx
  /\ edge' = None
  /\ tuned' = TRUE
  /\ first' = TRUE /\ pc' = "arm"
  /\ UNCHANGED << mode, incoming, stamp, hop, number >>

\* rx_task reports the error and goes round: drain_rx_data_until follows.
HopFails ==
  /\ pc = "flush"
  /\ fifo' \in { fifo, << >> } /\ overflow' = (overflow /\ fifo' # << >>)
  /\ tuned' = FALSE
  /\ first' = FALSE /\ pc' = "drain"
  /\ UNCHANGED << mode, incoming, edge, stamp, hop, number >>

----------------------------------------------------------------------------
(* receive_one. *)

\* rf_transport_start_receive.
Arm ==
  /\ pc = "arm"
  /\ StrobeRx
  /\ stamp' = None
  /\ pc' = "wait"
  /\ UNCHANGED << edge, first, history >>

\* rf_transport_wait_rx_timestamp.
Stamp ==
  /\ pc = "wait" /\ edge # None
  /\ stamp' = edge /\ edge' = None
  /\ pc' = "read"
  /\ UNCHANGED << chip, first, history >>

NoEdge ==
  /\ pc = "wait" /\ edge = None
  /\ pc' = "drain" /\ first' = FALSE
  /\ UNCHANGED << chip, edge, stamp, history >>

\* rf_transport_receive_packet: SRX, then polling RXBYTES.
Read ==
  /\ pc = "read"
  /\ StrobeRx
  /\ pc' = "poll"
  /\ UNCHANGED << edge, first, stamp, history >>

Packet ==
  /\ pc = "poll" /\ fifo # << >> /\ ~overflow
  /\ fifo' = Tail(fifo)
  /\ mode' = "RX"
  /\ pc' = "drain" /\ first' = FALSE
  /\ UNCHANGED << incoming, overflow, edge, stamp, history >>

\* RECEIVE_RESULT_RADIO_ERROR is reported after the SYNC, ends the drain later.
GiveUp == pc' = (IF first THEN "drain" ELSE "idle") /\ first' = FALSE

\* RECEIVE_RESULT_RADIO_ERROR: the packet did not come in time, or the FIFO
\* ran over.  The queue of timestamps is left as it is.
NoPacketComes ==
  /\ pc = "poll"
  /\ \/ ~overflow /\ fifo = << >> /\ StrobeIdle
     \/ overflow /\ mode' = "RX" /\ incoming' = NoPacket
  /\ FlushRx
  /\ GiveUp
  /\ UNCHANGED << edge, stamp, history >>

\* A strobe or a register access fails and nothing is tidied up.
SpiFails ==
  /\ pc \in { "arm", "read", "poll" }
  /\ GiveUp
  /\ UNCHANGED << chip, edge, stamp, history >>

----------------------------------------------------------------------------
(* drain_rx_data_until and send_one_queued_data. *)

Drain ==
  /\ pc = "drain"
  /\ pc' \in { "arm", "load", "idle" }     \* idle: the slot is over
  /\ UNCHANGED << chip, edge, first, stamp, history >>

\* rf_transport_send_packet: SIDLE, SFTX, the FIFO, STX.
Load ==
  /\ pc = "load" /\ number < SlotPackets
  /\ mode' = "TX" /\ incoming' = NoPacket
  /\ pc' = "sending"
  /\ UNCHANGED << fifo, overflow, edge, first, stamp, history >>

\* The own sync word raises GDO0 too.  The packet out, start_receive follows.
Sends ==
  /\ pc = "sending"
  /\ edge' = ThisEdge("own")
  /\ number' = number + 1
  /\ StrobeRx
  /\ pc' = "arm"
  /\ UNCHANGED << first, stamp, hop, tuned >>

\* delay_until_us the switch time, then the next slot.
SlotEnds ==
  /\ pc = "idle" \/ (pc = "load" /\ number = SlotPackets)
  /\ pc' = "hop"
  /\ UNCHANGED << chip, edge, first, stamp, history >>

----------------------------------------------------------------------------
Init ==
  /\ mode = "IDLE" /\ incoming = NoPacket /\ fifo = << >> /\ overflow = FALSE
  /\ edge = None /\ stamp = None
  /\ pc = "hop" /\ first = TRUE
  /\ hop = 0 /\ number = 0 /\ tuned = TRUE

Next ==
  \/ SyncWord \/ Arrives
  \/ Hop \/ Flush \/ HopFails
  \/ Arm \/ Stamp \/ NoEdge \/ Read \/ Packet \/ NoPacketComes \/ SpiFails
  \/ Drain \/ Load \/ Sends \/ SlotEnds

Spec == Init /\ [][Next]_vars

----------------------------------------------------------------------------
(* Properties. *)

\* Neither a packet nor a timestamp of the channel before the hop is taken for
\* one of this slot, if the hop went through: a stale edge would make the SYNC
\* appear almost a slot early (rf_transport_set_channel).
NothingCrossesTheHop ==
  [][ Packet /\ tuned => Head(fifo).hop = hop /\ stamp.hop = hop ]_vars

\* The slot's first packet, the SYNC the clock is corrected by, carries the
\* time of its own sync word, or of a false one raised before it (receive_one).
SyncHasItsOwnEdge ==
  [][ Packet /\ tuned /\ first =>
        \/ stamp = Head(fifo)
        \/ stamp.source = "noise" /\ stamp.number < Head(fifo).number ]_vars
=============================================================================
