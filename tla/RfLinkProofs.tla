----------------------------- MODULE RfLinkProofs -----------------------------
(***************************************************************************)
(* RfLink for every number of transmissions in a slot and every size of    *)
(* the receive FIFO: a timestamp and a packet are tied together by the     *)
(* order of the calls alone, and that order suffices.                      *)
(*                                                                         *)
(* NothingCrossesTheHop follows from HopInv: between set_channel's SIDLE   *)
(* and its flush the chip is silent, so that nothing of the old channel    *)
(* comes in behind the flush.  SyncHasItsOwnEdge follows from SyncInv,     *)
(* which follows the first packet of a slot from its edge to its payload:  *)
(* the chip is idle until receive_one starts it, and as the packet on its  *)
(* way in keeps the edge from being overwritten, the edge that is read is  *)
(* that of the packet read next, or that of noise before it.               *)
(***************************************************************************)
EXTENDS RfLink, TLAPS

----------------------------------------------------------------------------
(* The data. *)

\* The time of a sync word of this slot is told apart from an empty queue.
LEMMA ThisEdgeType ==
  ASSUME hop \in 0..2, number \in 0..SlotPackets, number < SlotPackets,
         NEW source \in { "peer", "noise", "own" }
  PROVE  /\ ThisEdge(source) \in Edges
         /\ ThisEdge(source).hop = hop
         /\ ThisEdge(source).number = number + 1
         /\ ThisEdge(source).source = source
         /\ ThisEdge(source) # None
<1>1. number + 1 \in 1..SlotPackets
  BY SlotPacketsAssumption
<1> QED BY <1>1 DEF ThisEdge, Edges, None

LEMMA NoneIsNoEdge == None \notin Edges
  BY DEF None, Edges

\* The FIFO after SFRX.
LEMMA EmptyFifo == << >> \in Seq(Edges) /\ Len(<< >>) <= FifoRoom
<1>1. << >> \in Seq(Edges) /\ Len(<< >>) = 0
  OBVIOUS
<1> QED BY <1>1, FifoRoomAssumption

\* A packet joins the FIFO behind those that are there (Arrives).
LEMMA FifoAppend ==
  ASSUME NEW s \in Seq(Edges), NEW e \in Edges
  PROVE  /\ Append(s, e) \in Seq(Edges) /\ Append(s, e) # << >>
         /\ Len(Append(s, e)) = Len(s) + 1
         /\ Head(Append(s, e)) = IF s = << >> THEN e ELSE Head(s)
         /\ \A i \in 1..Len(s) : Append(s, e)[i] = s[i]
         /\ Append(s, e)[Len(s) + 1] = e
  OBVIOUS

\* The packet read leaves the others (Packet).
LEMMA FifoTail ==
  ASSUME NEW s \in Seq(Edges), s # << >>
  PROVE  /\ Tail(s) \in Seq(Edges) /\ Len(Tail(s)) = Len(s) - 1
         /\ Head(s) = s[1] /\ Len(s) \in Nat \ {0}
         /\ \A i \in 1..Len(Tail(s)) : Tail(s)[i] = s[i + 1]
  OBVIOUS

----------------------------------------------------------------------------
(* The inductive invariant. *)

\* While the own packet is out nothing comes in (rf_transport_send_packet).
SendInv == pc = "sending" => mode = "TX" /\ number < SlotPackets

\* Between SIDLE and SFRX the chip is silent; after it everything is of this
\* slot's channel.
HopInv ==
  /\ pc = "flush" => mode = "IDLE" /\ incoming = None
  /\ tuned /\ pc # "flush" =>
       /\ \A i \in 1..Len(fifo) : fifo[i].hop = hop
       /\ incoming # None => incoming.hop = hop
       /\ edge # None => edge.hop = hop
       /\ pc \in { "read", "poll" } => stamp # None /\ stamp.hop = hop

\* The first packet of the slot is waited for: the edge in the queue is that of
\* the packet on its way in or in the FIFO.
WaitInv ==
  /\ fifo # << >> => mode = "IDLE" /\ incoming = None /\ edge = Head(fifo)
  /\ incoming # None => edge = incoming
  /\ edge # None => edge.source \in { "peer", "noise" } /\ edge.number <= number
  /\ edge # None => (edge.source = "peer" <=> incoming # None \/ fifo # << >>)
  /\ ~overflow

\* Its edge was taken: a true one belongs to the packet that will be read, a
\* false one came before it.
StampInv ==
  /\ stamp.source \in { "peer", "noise" } /\ stamp.number <= number
  /\ stamp.source = "peer" =>
       IF fifo = << >> THEN incoming = stamp ELSE Head(fifo) = stamp
  /\ stamp.source = "noise" =>
       /\ fifo # << >> => stamp.number < Head(fifo).number
       /\ incoming # None => stamp.number < incoming.number

SyncInv ==
  /\ first => pc \in { "hop", "flush", "arm", "wait", "read", "poll" }
  /\ first /\ tuned =>
       /\ pc = "arm" => mode = "IDLE" /\ incoming = None /\ fifo = << >> /\ edge = None
                        /\ ~overflow
       /\ pc = "wait" => WaitInv
       /\ pc \in { "read", "poll" } => StampInv

Inv == TypeOK /\ SendInv /\ HopInv /\ SyncInv

LEMMA InitInv == Init => Inv
<1> SUFFICES ASSUME Init PROVE Inv
  OBVIOUS
<1>1. TypeOK
  <2>1. fifo \in Seq(Edges) /\ Len(fifo) <= FifoRoom
    BY EmptyFifo DEF Init
  <2>2. 0 \in 0..SlotPackets /\ 0 \in 0..2
    BY SlotPacketsAssumption
  <2> QED BY <2>1, <2>2 DEF Init, TypeOK, NoPacket
<1>2. SendInv /\ HopInv /\ SyncInv
  BY DEF Init, SendInv, HopInv, SyncInv, NoPacket
<1> QED BY <1>1, <1>2 DEF Inv

\* Every action keeps the types; only the four that handle packets need a reason.
LEMMA NextType ==
  ASSUME TypeOK, SendInv, Next
  PROVE  TypeOK'
<1> USE DEF NoPacket
<1>1. CASE SyncWord
  <2>1. PICK source \in { "peer", "noise" } :
          /\ edge' = ThisEdge(source)
          /\ incoming' = IF source = "peer" THEN ThisEdge("peer") ELSE None
    BY <1>1 DEF SyncWord
  <2>2. edge' \in Edges /\ incoming' \in Edges \cup { None }
    BY <1>1, <2>1, ThisEdgeType DEF SyncWord, TypeOK
  <2>3. number' \in 0..SlotPackets
    BY <1>1, SlotPacketsAssumption DEF SyncWord, TypeOK
  <2> QED BY <1>1, <2>2, <2>3 DEF SyncWord, TypeOK
<1>2. CASE Arrives
  <2>1. fifo \in Seq(Edges) /\ incoming \in Edges
    BY <1>2 DEF Arrives, TypeOK
  <2>2. fifo' \in Seq(Edges) /\ Len(fifo') <= FifoRoom
    <3>1. CASE Len(fifo) < FifoRoom
      BY <1>2, <2>1, <3>1, FifoAppend, FifoRoomAssumption DEF Arrives
    <3>2. CASE ~(Len(fifo) < FifoRoom)
      BY <1>2, <2>1, <3>2 DEF Arrives, TypeOK
    <3> QED BY <3>1, <3>2
  <2> QED BY <1>2, <2>2 DEF Arrives, TypeOK, history
<1>3. CASE Packet
  <2>1. fifo' \in Seq(Edges) /\ Len(fifo') <= FifoRoom
    BY <1>3, FifoTail, FifoRoomAssumption DEF Packet, TypeOK
  <2> QED BY <1>3, <2>1 DEF Packet, TypeOK, history
<1>4. CASE Sends
  <2>1. edge' \in Edges /\ number' \in 0..SlotPackets
    BY <1>4, ThisEdgeType, SlotPacketsAssumption DEF Sends, TypeOK, SendInv
  <2> QED BY <1>4, <2>1 DEF Sends, StrobeRx, TypeOK
<1>5. ASSUME fifo' \in { fifo, << >> }
      PROVE  fifo' \in Seq(Edges) /\ Len(fifo') <= FifoRoom
  BY <1>5, EmptyFifo DEF TypeOK
<1>6. CASE Hop
  <2>1. hop' \in 0..2 /\ number' \in 0..SlotPackets
    BY <1>6, SlotPacketsAssumption DEF Hop, TypeOK
  <2> QED BY <1>6, <2>1 DEF Hop, StrobeIdle, TypeOK
<1>7. CASE Flush
  BY <1>5, <1>7 DEF Flush, FlushRx, TypeOK
<1>8. CASE HopFails
  BY <1>5, <1>8 DEF HopFails, TypeOK
<1>9. CASE NoPacketComes
  BY <1>5, <1>9 DEF NoPacketComes, FlushRx, StrobeIdle, GiveUp, TypeOK, history
<1>10. CASE Arm \/ Stamp \/ NoEdge \/ Read
  BY <1>10 DEF Arm, Stamp, NoEdge, Read, StrobeRx, TypeOK, history, chip
<1>11. CASE SpiFails \/ Drain \/ Load \/ SlotEnds
  BY <1>11 DEF SpiFails, GiveUp, Drain, Load, SlotEnds, TypeOK, history, chip
<1> QED BY <1>1, <1>2, <1>3, <1>4, <1>6, <1>7, <1>8, <1>9, <1>10, <1>11 DEF Next

\* The own packet goes out undisturbed.
LEMMA NextSendInv ==
  ASSUME TypeOK, SendInv, Next
  PROVE  SendInv'
  BY DEF Next, TypeOK, SendInv, SyncWord, Arrives, Hop, Flush, HopFails, Arm, Stamp, NoEdge, Read,
         Packet, NoPacketComes, SpiFails, GiveUp, Drain, Load, Sends, SlotEnds, StrobeIdle,
         StrobeRx, FlushRx, chip, history

\* Nothing gets behind the flush.
LEMMA NextHopInv ==
  ASSUME TypeOK, SendInv, HopInv, Next
  PROVE  HopInv'
<1> USE DEF NoPacket
<1>1. CASE SyncWord
  <2>1. PICK source \in { "peer", "noise" } :
          /\ edge' = ThisEdge(source)
          /\ incoming' = IF source = "peer" THEN ThisEdge("peer") ELSE None
    BY <1>1 DEF SyncWord
  <2>2. edge'.hop = hop /\ (incoming' # None => incoming'.hop = hop)
    BY <1>1, <2>1, ThisEdgeType DEF SyncWord, TypeOK
  <2>3. pc # "flush"
    BY <1>1 DEF SyncWord, HopInv
  <2>4. UNCHANGED << fifo, stamp, hop, tuned, pc >>
    BY <1>1 DEF SyncWord
  <2> QED BY <2>2, <2>3, <2>4 DEF HopInv
<1>2. CASE Arrives
  <2>1. pc # "flush" /\ incoming \in Edges /\ incoming' = None
    BY <1>2 DEF Arrives, HopInv, TypeOK
  <2>2. UNCHANGED << edge, stamp, hop, tuned, pc >>
    BY <1>2 DEF Arrives, history
  <2>3. ASSUME tuned
        PROVE  \A i \in 1..Len(fifo') : fifo'[i].hop = hop
    <3>1. /\ \A i \in 1..Len(fifo) : fifo[i].hop = hop
          /\ incoming.hop = hop
      BY <2>1, <2>3, NoneIsNoEdge DEF HopInv
    <3>2. fifo' = fifo \/ fifo' = Append(fifo, incoming)
      BY <1>2 DEF Arrives
    <3>3. CASE fifo' = fifo
      BY <3>1, <3>3
    <3>4. CASE fifo' = Append(fifo, incoming)
      <4>1. Len(fifo') = Len(fifo) + 1 /\ Len(fifo) \in Nat
        BY <2>1, <3>4, FifoAppend DEF TypeOK
      <4>2. \A i \in 1..Len(fifo) : fifo'[i] = fifo[i]
        BY <2>1, <3>4, FifoAppend DEF TypeOK
      <4>3. fifo'[Len(fifo) + 1] = incoming
        BY <2>1, <3>4, FifoAppend DEF TypeOK
      <4> QED BY <3>1, <4>1, <4>2, <4>3
    <3> QED BY <3>2, <3>3, <3>4
  <2> QED BY <2>1, <2>2, <2>3 DEF HopInv
<1>3. CASE Hop
  BY <1>3 DEF Hop, StrobeIdle, HopInv
<1>4. CASE Flush
  <2>1. pc' = "arm" /\ fifo' = << >> /\ incoming' = None /\ edge' = None
    BY <1>4 DEF Flush, FlushRx, HopInv
  <2> QED BY <2>1 DEF HopInv
<1>5. CASE HopFails
  BY <1>5 DEF HopFails, HopInv
<1>6. CASE Packet
  <2>1. ASSUME tuned
        PROVE  \A i \in 1..Len(fifo') : fifo'[i].hop = hop
    <3>1. \A i \in 1..Len(fifo) : fifo[i].hop = hop
      BY <1>6, <2>1 DEF Packet, HopInv
    <3>2. /\ fifo' = Tail(fifo) /\ Len(fifo') = Len(fifo) - 1 /\ Len(fifo) \in Nat
          /\ \A i \in 1..Len(fifo') : fifo'[i] = fifo[i + 1]
      BY <1>6, FifoTail DEF Packet, TypeOK
    <3> QED BY <3>1, <3>2
  <2> QED BY <1>6, <2>1 DEF Packet, HopInv, history
<1>7. CASE NoPacketComes
  <2>1. /\ pc = "poll" /\ pc' \in { "drain", "idle" } /\ fifo' = << >>
        /\ incoming' \in { incoming, None } /\ UNCHANGED << edge, hop, tuned >>
    BY <1>7 DEF NoPacketComes, StrobeIdle, FlushRx, GiveUp, history
  <2> QED BY <2>1 DEF HopInv
<1>8. CASE Arm \/ Read
  BY <1>8 DEF Arm, Read, StrobeRx, HopInv, history
<1>9. CASE Stamp \/ NoEdge
  BY <1>9 DEF Stamp, NoEdge, HopInv, history, chip
<1>10. CASE SpiFails \/ Drain \/ SlotEnds
  BY <1>10 DEF SpiFails, GiveUp, Drain, SlotEnds, HopInv, history, chip
<1>11. CASE Load
  BY <1>11 DEF Load, HopInv, history
<1>12. CASE Sends
  <2>1. /\ edge' # None /\ edge'.hop = hop /\ pc = "sending" /\ pc' = "arm"
        /\ UNCHANGED << fifo, incoming, hop, tuned >>
    BY <1>12, ThisEdgeType DEF Sends, StrobeRx, SendInv, TypeOK
  <2> QED BY <2>1 DEF HopInv
<1> QED BY <1>1, <1>2, <1>3, <1>4, <1>5, <1>6, <1>7, <1>8, <1>9, <1>10, <1>11, <1>12 DEF Next

\* receive_one follows the first packet from its edge to its payload.
LEMMA NextSyncInv ==
  ASSUME TypeOK, SendInv, HopInv, SyncInv, Next
  PROVE  SyncInv'
<1> USE DEF NoPacket
<1>1. CASE SyncWord
  <2>1. PICK source \in { "peer", "noise" } :
          /\ edge' = ThisEdge(source)
          /\ incoming' = IF source = "peer" THEN ThisEdge("peer") ELSE None
    BY <1>1 DEF SyncWord
  <2>2. /\ mode = "RX" /\ incoming = None /\ number \in Nat /\ number' = number + 1
        /\ UNCHANGED << mode, fifo, overflow, pc, first, stamp, tuned >>
    BY <1>1 DEF SyncWord, TypeOK
  <2>3. /\ edge' # None /\ edge'.source = source /\ edge'.number = number + 1
        /\ source = "peer" => incoming' = edge'
        /\ source = "noise" => incoming' = None
        /\ incoming' # None => incoming'.number = number + 1
    BY <1>1, <2>1, ThisEdgeType DEF SyncWord, TypeOK
  <2>4. stamp.number \in Nat
    BY DEF TypeOK, Edges, None
  <2>5. ASSUME first, tuned, pc = "wait" PROVE WaitInv'
    BY <2>2, <2>3, <2>5 DEF SyncInv, WaitInv
  <2>6. ASSUME first, tuned, pc \in { "read", "poll" } PROVE StampInv'
    BY <2>2, <2>3, <2>4, <2>6 DEF SyncInv, StampInv, None
  <2> QED BY <2>2, <2>5, <2>6 DEF SyncInv
<1>2. CASE Arrives
  <2>1. /\ mode = "RX" /\ incoming # None /\ incoming' = None /\ mode' = "IDLE"
        /\ UNCHANGED << edge, pc, first, stamp, number, tuned >>
        /\ fifo \in Seq(Edges) /\ incoming \in Edges
    BY <1>2 DEF Arrives, history, TypeOK
  <2>2. fifo = << >> => fifo' # << >> /\ Head(fifo') = incoming /\ overflow' = overflow
    BY <1>2, <2>1, FifoAppend, EmptyFifo, FifoRoomAssumption DEF Arrives
  <2>3. fifo # << >> => fifo' # << >> /\ Head(fifo') = Head(fifo)
    BY <1>2, <2>1, FifoAppend DEF Arrives
  <2>4. ASSUME first, tuned, pc = "wait" PROVE WaitInv'
    BY <2>1, <2>2, <2>4 DEF SyncInv, WaitInv
  <2>5. ASSUME first, tuned, pc \in { "read", "poll" } PROVE StampInv'
    BY <2>1, <2>2, <2>3, <2>5 DEF SyncInv, StampInv
  <2> QED BY <2>1, <2>4, <2>5 DEF SyncInv
<1>3. CASE Hop
  BY <1>3 DEF Hop, SyncInv
<1>4. CASE Flush
  <2>1. /\ pc' = "arm" /\ mode' = "IDLE" /\ incoming' = None /\ fifo' = << >> /\ edge' = None
        /\ overflow' = FALSE
    BY <1>4 DEF Flush, FlushRx, HopInv
  <2> QED BY <2>1 DEF SyncInv
<1>5. CASE Arm
  <2>1. /\ pc = "arm" /\ pc' = "wait" /\ mode' = "RX"
        /\ UNCHANGED << incoming, fifo, overflow, edge, first, tuned >>
    BY <1>5 DEF Arm, StrobeRx, history
  <2>2. ASSUME first, tuned PROVE WaitInv'
    BY <2>1, <2>2 DEF SyncInv, WaitInv
  <2> QED BY <2>1, <2>2 DEF SyncInv
<1>6. CASE Stamp
  <2>1. /\ pc = "wait" /\ pc' = "read" /\ edge # None /\ stamp' = edge
        /\ UNCHANGED << incoming, fifo, first, number, tuned >>
    BY <1>6 DEF Stamp, chip, history
  <2>2. ASSUME first, tuned PROVE StampInv'
    BY <2>1, <2>2 DEF SyncInv, WaitInv, StampInv
  <2> QED BY <2>1, <2>2 DEF SyncInv
<1>7. CASE Read
  <2>1. /\ pc = "read" /\ pc' = "poll"
        /\ UNCHANGED << incoming, fifo, stamp, first, number, tuned >>
    BY <1>7 DEF Read, StrobeRx, history
  <2>2. ASSUME first, tuned PROVE StampInv'
    BY <2>1, <2>2 DEF SyncInv, StampInv
  <2> QED BY <2>1, <2>2 DEF SyncInv
<1>8. CASE HopFails \/ NoEdge \/ Packet \/ NoPacketComes \/ SpiFails
  <2>1. first' = FALSE
    BY <1>8 DEF HopFails, NoEdge, Packet, NoPacketComes, SpiFails, GiveUp
  <2> QED BY <2>1 DEF SyncInv
<1>9. CASE Drain \/ Load \/ Sends \/ SlotEnds
  <2>1. first' = first /\ pc \in { "drain", "load", "sending", "idle" }
    BY <1>9 DEF Drain, Load, Sends, SlotEnds
  <2> QED BY <2>1 DEF SyncInv
<1> QED BY <1>1, <1>2, <1>3, <1>4, <1>5, <1>6, <1>7, <1>8, <1>9 DEF Next

\* Nothing but the actions changes the variables.
LEMMA Stuttering ==
  ASSUME Inv, UNCHANGED vars
  PROVE  Inv'
  BY DEF Inv, vars, chip, history, TypeOK, SendInv, HopInv, SyncInv, WaitInv, StampInv

----------------------------------------------------------------------------
(* The theorems. *)

\* The inductive invariant holds in every reachable state.
THEOREM Invariance == Spec => []Inv
<1>1. Inv /\ [Next]_vars => Inv'
  BY NextType, NextSendInv, NextHopInv, NextSyncInv, Stuttering DEF Inv
<1> QED BY InitInv, <1>1, PTL DEF Spec

\* The chip, the timestamp queue and the receive loop keep their types; in
\* particular the FIFO never holds more than it has room for.
THEOREM TypeCorrect == Spec => []TypeOK
<1>1. Inv => TypeOK
  BY DEF Inv
<1> QED BY Invariance, <1>1, PTL

\* Whatever was heard before a hop that went through, neither its packet nor its
\* timestamp is handed to receive_one after it (rf_transport_set_channel).
THEOREM HopSafety == Spec => NothingCrossesTheHop
<1>1. ASSUME Inv, [Next]_vars
      PROVE  [Packet /\ tuned => Head(fifo).hop = hop /\ stamp.hop = hop]_vars
  <2>1. ASSUME Packet, tuned
        PROVE  Head(fifo).hop = hop /\ stamp.hop = hop
    <3>1. pc = "poll" /\ fifo \in Seq(Edges) /\ fifo # << >>
      BY <1>1, <2>1 DEF Packet, Inv, TypeOK
    <3>2. Head(fifo) = fifo[1] /\ 1 \in 1..Len(fifo)
      BY <3>1, FifoTail
    <3> QED BY <1>1, <2>1, <3>1, <3>2 DEF Inv, HopInv
  <2> QED BY <2>1
<1> QED BY Invariance, <1>1, PTL DEF Spec, NothingCrossesTheHop

\* The SYNC a receiver corrects its clock by carries the time of its own sync
\* word, or of noise before it (receive_one, rf_transport_wait_rx_timestamp).
THEOREM SyncSafety == Spec => SyncHasItsOwnEdge
<1>1. ASSUME Inv, [Next]_vars
      PROVE  [Packet /\ tuned /\ first =>
                \/ stamp = Head(fifo)
                \/ stamp.source = "noise" /\ stamp.number < Head(fifo).number]_vars
  <2>1. ASSUME Packet, tuned, first
        PROVE  \/ stamp = Head(fifo)
               \/ stamp.source = "noise" /\ stamp.number < Head(fifo).number
    <3>1. fifo # << >> /\ StampInv
      BY <1>1, <2>1 DEF Packet, Inv, SyncInv
    <3> QED BY <3>1 DEF StampInv
  <2> QED BY <2>1
<1> QED BY Invariance, <1>1, PTL DEF Spec, SyncHasItsOwnEdge
=============================================================================
