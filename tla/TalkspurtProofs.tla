--------------------------- MODULE TalkspurtProofs ---------------------------
(***************************************************************************)
(* Talkspurt implements Broadcast, for every depth of the queue and number *)
(* of copies.                                                              *)
(*                                                                         *)
(* The argument is about the packets between end_tx or submit and the      *)
(* radio: the queue and the one packet the service has taken out of it.    *)
(* OrderInv has them in the order of the promise, each pair of them and    *)
(* each of them against the packet last on air; DueInv has none of them    *)
(* beyond what the adapter queues next.  Both are about a session that     *)
(* transmits (role TX, no role change refused): CallInv shows that every   *)
(* other one leaves an empty queue.  ChainInv is the same for neighbours,  *)
(* without a gap, and EndInv follows the copies of END.                    *)
(***************************************************************************)
EXTENDS Talkspurt, TLAPS

Calling == { "announce", "on", "stop_capture", "send_end", "wait_idle", "to_rx" }

\* Where fsm_task is, and what that says of the session and of the service.
CallInv ==
  /\ call \in Calling => role = "TX"
  /\ call \in { "idle", "to_tx" } => role = "RX" \/ (refused /\ task = "none")
  /\ role = "RX" => txq = << >> /\ task \in { "none", "head" }
  /\ active <=> call \in Calling \ { "announce" }
  /\ capture # "none" => call \in { "on", "stop_capture" }
  /\ call = "to_tx" => air = Nothing
  /\ call \in { "to_tx", "announce" } => frames = 0 /\ seq = 0
  /\ call # "idle" => session # 0
  /\ frames > 0 => seq < MaxPackets
  /\ call = "announce" => copies \in 1..AnnounceCopies
  /\ call = "send_end" => copies \in 1..EndCopies
  /\ call \in { "wait_idle", "to_rx" } => copies = 0

\* The packet in the service's hand.
HandInv ==
  /\ task \in { "hand", "air" } => hand \in Items
  /\ task = "air" => air = hand

Sending == role = "TX" /\ ~refused

\* Of the session, and in the order of Broadcast.
OrderInv ==
  Sending =>
    /\ \A i \in 1..Len(txq) : txq[i].session = session /\ Air!After(air, txq[i])
    /\ \A i, j \in 1..Len(txq) : i < j => Air!After(txq[i], txq[j])
    /\ task = "hand" =>
         /\ hand.session = session /\ Air!After(air, hand)
         /\ \A i \in 1..Len(txq) : Air!After(hand, txq[i])

\* item may be followed by what the adapter queues next, in call c with the next
\* sequence number s.
Due(c, s, item) ==
  /\ c = "announce" => item.kind \in { "none", "announce" }
  /\ c \in { "on", "stop_capture" } => item.kind \in { "none", "announce", "audio" }
  /\ item.kind = "audio" => item.n < s
  /\ item.kind = "end" => item.n = s
DueInv ==
  Sending =>
    /\ Due(call, seq, air) /\ (task = "hand" => Due(call, seq, hand))
    /\ \A i \in 1..Len(txq) : Due(call, seq, txq[i])

\* The last packet that left or waits, and the one before the queue.
Before == IF task = "hand" THEN hand ELSE air
Latest == IF txq = << >> THEN Before ELSE txq[Len(txq)]

ChainInv ==
  Sending /\ ~spilled =>
    /\ task = "hand" => Successor(air, hand)
    /\ txq # << >> => Successor(Before, txq[1])
    /\ \A i \in 1..Len(txq) - 1 : Successor(txq[i], txq[i + 1])
    /\ \/ Latest.kind = "audio" /\ Latest.n + 1 = seq
       \/ Latest.kind \in { "announce", "none" } /\ seq = 0
       \/ Latest.kind = "end" /\ call \in { "send_end", "wait_idle", "to_rx" }

\* The copies of END queued so far: one of them is on air, or they are the last
\* of those that wait.
Copied == EndCopies - copies
EndInv ==
  call \in { "send_end", "wait_idle", "to_rx" } /\ ok =>
    /\ frames = 0
    /\ refused \/ air.kind = "end"
       \/ /\ call # "to_rx"
          /\ \A i \in 1..Len(txq) : i > Len(txq) - Copied => txq[i].kind = "end"
          /\ Copied > Len(txq) =>
               task = "hand" /\ hand.kind = "end" /\ Copied = Len(txq) + 1

Inv == TypeOK /\ CallInv /\ HandInv /\ OrderInv /\ DueInv /\ ChainInv /\ EndInv

----------------------------------------------------------------------------
(* The data. *)

Packets == Items \cup { Nothing }

QueueType ==
  /\ txq \in Seq(Items) /\ Len(txq) <= TxDepth
  /\ hand \in Packets /\ air \in Packets
ControlType ==
  /\ call \in Calling \cup { "idle", "to_tx", "stop_capture" }
  /\ capture \in { "none", "head", "read" }
  /\ frames \in 0..FramesPerPacket /\ seq \in 0..MaxPackets
  /\ session \in 0..MaxSession /\ copies \in 0..AnnounceCopies + EndCopies
  /\ role \in { "TX", "RX" }
  /\ task \in { "none", "head", "slot", "drain", "hand", "air" }
FlagType == active \in BOOLEAN /\ ok \in BOOLEAN /\ spilled \in BOOLEAN /\ refused \in BOOLEAN

LEMMA TypeParts == TypeOK <=> QueueType /\ ControlType /\ FlagType
  BY DEF TypeOK, QueueType, ControlType, FlagType, Packets, Calling

LEMMA ConstantsFit ==
  /\ TxDepth \in Nat \ {0} /\ AnnounceCopies \in Nat \ {0}
  /\ EndCopies \in Nat /\ 2 <= EndCopies /\ EndCopies <= TxDepth
  /\ FramesPerPacket \in Nat \ {0} /\ MaxPackets \in Nat /\ MaxSession \in Nat /\ 2 <= MaxSession
  BY TxDepthAssumption, CopiesAssumption, PacketAssumption, SessionAssumption

LEMMA PacketFields ==
  /\ Nothing.kind = "none"
  /\ \A x \in Items : x.kind \in { "announce", "audio", "end" }
  /\ \A x \in Packets : x.kind \in { "none", "announce", "audio", "end" } /\ x.n \in Nat
<1>1. Nothing.kind = "none" /\ Nothing.n = 0
  BY DEF Nothing
<1>2. \A x \in Items : x.kind \in { "announce", "audio", "end" } /\ x.n \in 0..MaxPackets
  BY DEF Items
<1> QED BY <1>1, <1>2, ConstantsFit DEF Packets

\* What the promise allows after a packet (Broadcast.tla).
LEMMA AfterCases ==
  ASSUME NEW x \in Packets, NEW y \in Items
  PROVE  Air!After(x, y) <=>
           \/ x.kind \in { "none", "announce" }
           \/ x.kind = "audio" /\ (y.kind = "end" \/ (y.kind = "audio" /\ x.n < y.n))
           \/ x.kind = "end" /\ y.kind = "end"
<1>1. x.kind \in { "none", "announce", "audio", "end" } /\ y.kind \in { "announce", "audio", "end" }
  BY PacketFields
<1>2. /\ Air!Rank("none") = 0 /\ Air!Rank("announce") = 1
      /\ Air!Rank("audio") = 2 /\ Air!Rank("end") = 3
  BY DEF Air!Rank
<1> QED BY <1>1, <1>2 DEF Air!After

\* A packet joins the queue (fhss_service_send_data).
LEMMA EnqueueSteps ==
  ASSUME QueueType, HasRoom, session \in Sessions,
         NEW kind \in { "announce", "audio", "end" }, NEW n \in 0..MaxPackets, Enqueue(kind, n)
  PROVE  /\ txq' \in Seq(Items) /\ Len(txq') <= TxDepth /\ txq' # << >>
         /\ Len(txq) \in Nat /\ Len(txq') = Len(txq) + 1
         /\ \A i \in 1..Len(txq) : txq'[i] = txq[i]
         /\ txq'[Len(txq) + 1] \in Items
         /\ txq'[Len(txq) + 1].session = session
         /\ txq'[Len(txq) + 1].kind = kind /\ txq'[Len(txq) + 1].n = n
<1> DEFINE new == [session |-> session, kind |-> kind, n |-> n]
<1>1. new \in Items /\ new.session = session /\ new.kind = kind /\ new.n = n
  BY DEF Items
<1>2. txq' = Append(txq, new)
  BY DEF Enqueue
<1> HIDE DEF new
<1> QED BY <1>1, <1>2, ConstantsFit DEF QueueType, HasRoom

\* xQueueReceive.
LEMMA TakeSteps ==
  ASSUME QueueType, txq # << >>
  PROVE  /\ Tail(txq) \in Seq(Items) /\ Len(txq) \in Nat \ {0} /\ Len(Tail(txq)) = Len(txq) - 1
         /\ Head(txq) = txq[1] /\ txq[1] \in Items
         /\ \A i \in 1..Len(Tail(txq)) : Tail(txq)[i] = txq[i + 1]
  BY DEF QueueType

\* xQueueSendToFront.
LEMMA PutBackSteps ==
  ASSUME QueueType, hand \in Items
  PROVE  /\ << hand >> \o txq \in Seq(Items) /\ Len(txq) \in Nat
         /\ Len(<< hand >> \o txq) = Len(txq) + 1
         /\ (<< hand >> \o txq)[1] = hand
         /\ \A i \in 1..Len(txq) : (<< hand >> \o txq)[i + 1] = txq[i]
  BY DEF QueueType

\* A device that has just started has nothing to send.
LEMMA InitInv == Init => Inv
<1> SUFFICES ASSUME Init PROVE Inv
  OBVIOUS
<1>1. QueueType
  <2>1. txq \in Seq(Items) /\ Len(txq) = 0
    BY DEF Init
  <2> QED BY <2>1, ConstantsFit DEF Init, QueueType, Packets
<1>2. ControlType
  BY ConstantsFit DEF Init, ControlType, Calling
<1>3. FlagType
  BY Zenon DEF Init, FlagType
<1>4. CallInv
  BY DEF Init, CallInv, Calling
<1>5. HandInv /\ OrderInv /\ DueInv /\ ChainInv /\ EndInv
  BY DEF Init, HandInv, OrderInv, DueInv, ChainInv, EndInv, Sending
<1> QED BY <1>1, <1>2, <1>3, <1>4, <1>5, TypeParts DEF Inv

----------------------------------------------------------------------------
(* What the adapter queues.  A packet that follows everything due before   *)
(* it keeps the order, and one that succeeds the latest keeps the chain.   *)

\* Everything but the queue and the adapter's own counters stays.
Beside == UNCHANGED << session, role, task, hand, air, spilled, refused >>

LEMMA EnqueueOrder ==
  ASSUME QueueType, QueueType', HandInv, OrderInv, DueInv, Beside,
         Len(txq) \in Nat, Len(txq') = Len(txq) + 1,
         \A i \in 1..Len(txq) : txq'[i] = txq[i],
         txq'[Len(txq) + 1].session = session,
         \A x \in Packets : Sending /\ Due(call, seq, x) => Air!After(x, txq'[Len(txq) + 1])
  PROVE  OrderInv'
<1> SUFFICES ASSUME Sending PROVE OrderInv'
  BY DEF OrderInv, Sending, Beside
<1>1. UNCHANGED << session, task, hand, air, role, refused >>
  BY DEF Beside
<1> DEFINE last == Len(txq) + 1
<1>2. /\ Air!After(air, txq'[last])
      /\ task = "hand" => Air!After(hand, txq'[last])
      /\ \A i \in 1..Len(txq) : Air!After(txq[i], txq'[last])
  <2>1. air \in Packets /\ (task = "hand" => hand \in Packets)
        /\ \A i \in 1..Len(txq) : txq[i] \in Packets
    BY DEF QueueType, Packets
  <2> QED BY <2>1 DEF DueInv
<1>3. \A i \in 1..Len(txq') : i = last \/ i \in 1..Len(txq)
  OBVIOUS
<1>4. \A i \in 1..Len(txq') : txq'[i].session = session /\ Air!After(air, txq'[i])
  BY <1>2, <1>3 DEF OrderInv
<1>5. \A i, j \in 1..Len(txq') : i < j => Air!After(txq'[i], txq'[j])
  BY <1>2, <1>3 DEF OrderInv
<1>6. task = "hand" => /\ hand.session = session /\ Air!After(air, hand)
                       /\ \A i \in 1..Len(txq') : Air!After(hand, txq'[i])
  BY <1>2, <1>3 DEF OrderInv
<1> HIDE DEF last
<1> QED BY <1>1, <1>4, <1>5, <1>6 DEF OrderInv, Air!After

LEMMA EnqueueDue ==
  ASSUME DueInv, Beside,
         Len(txq) \in Nat, Len(txq') = Len(txq) + 1,
         \A i \in 1..Len(txq) : txq'[i] = txq[i],
         Sending => Due(call', seq', txq'[Len(txq) + 1]),
         \A x : Due(call, seq, x) => Due(call', seq', x)
  PROVE  DueInv'
<1>1. \A i \in 1..Len(txq') : i = Len(txq) + 1 \/ i \in 1..Len(txq)
  OBVIOUS
<1>2. UNCHANGED << task, hand, air, role, refused >>
  BY DEF Beside
<1>3. Sending' => Sending /\ \A i \in 1..Len(txq') : Due(call', seq', txq'[i])
  BY <1>1, <1>2 DEF DueInv, Sending
<1>4. Sending' => Due(call', seq', air') /\ (task' = "hand" => Due(call', seq', hand'))
  BY <1>2, <1>3 DEF DueInv
<1> QED BY <1>3, <1>4 DEF DueInv

LEMMA EnqueueChain ==
  ASSUME QueueType, ChainInv, Beside,
         Len(txq) \in Nat, Len(txq') = Len(txq) + 1,
         \A i \in 1..Len(txq) : txq'[i] = txq[i],
         Sending /\ ~spilled => Successor(Latest, txq'[Len(txq) + 1]),
         Sending /\ ~spilled =>
           LET new == txq'[Len(txq) + 1]
           IN  \/ new.kind = "audio" /\ new.n + 1 = seq'
               \/ new.kind \in { "announce", "none" } /\ seq' = 0
               \/ new.kind = "end" /\ call' \in { "send_end", "wait_idle", "to_rx" }
  PROVE  ChainInv'
<1> SUFFICES ASSUME Sending, ~spilled PROVE ChainInv'
  BY DEF ChainInv, Sending, Beside
<1> DEFINE last == Len(txq) + 1
<1>1. /\ UNCHANGED << task, hand, air >> /\ Before' = Before
      /\ txq' # << >> /\ Latest' = txq'[last]
  BY DEF Beside, Before, Latest
<1>2. task = "hand" => Successor(air, hand)
  BY DEF ChainInv
<1>3. Successor(Before, txq'[1])
  BY DEF ChainInv, Latest, QueueType
<1>4. \A i \in 1..Len(txq') - 1 : Successor(txq'[i], txq'[i + 1])
  <2>1. CASE txq = << >>
    BY <2>1
  <2>2. CASE txq # << >>
    <3>1. Latest = txq[Len(txq)] /\ Len(txq) >= 1
      BY <2>2 DEF Latest, QueueType
    <3>2. \A i \in 1..Len(txq') - 1 : i = Len(txq) \/ i \in 1..Len(txq) - 1
      OBVIOUS
    <3> QED BY <3>1, <3>2 DEF ChainInv
  <2> QED BY <2>1, <2>2
<1> HIDE DEF last
<1> QED BY <1>1, <1>2, <1>3, <1>4 DEF ChainInv, Successor, last

----------------------------------------------------------------------------
(* Steps of fsm_task. *)

\* A step that leaves the packets alone keeps what is known of their order.
LEMMA QuietOrder ==
  ASSUME Inv, UNCHANGED << txq, hand, air, session, role, refused, spilled >>,
         (task' = "hand") <=> (task = "hand")
  PROVE  OrderInv' /\ Before' = Before /\ Latest' = Latest
<1>1. Before' = Before /\ Latest' = Latest
  BY DEF Before, Latest
<1>2. OrderInv'
  BY DEF Inv, OrderInv, Sending, Air!After
<1> QED BY <1>1, <1>2

LEMMA Assembled ==
  ASSUME QueueType', ControlType', FlagType', CallInv', HandInv', OrderInv', DueInv', ChainInv',
         EndInv'
  PROVE  Inv'
<1>1. TypeOK' <=> (QueueType /\ ControlType /\ FlagType)'
  BY TypeParts, PTL
<1> QED BY <1>1 DEF Inv

\* fhss_audio_adapter_begin_tx numbers a new session: nothing of an old one waits,
\* unless the radio is stuck.
LEMMA BeginSteps == Inv /\ Begin => Inv'
<1> SUFFICES ASSUME Inv, Begin PROVE Inv'
  OBVIOUS
<1>1. QueueType /\ ControlType /\ FlagType
  BY TypeParts DEF Inv
<1>2. /\ call = "idle" /\ call' = "to_tx" /\ frames' = 0 /\ seq' = 0 /\ air' = Nothing
      /\ session' = IF session = MaxSession THEN 1 ELSE session + 1
      /\ spilled' = FALSE
      /\ UNCHANGED << capture, active, copies, ok, role, task, txq, hand, refused >>
  BY DEF Begin, serviceVars
<1>3. ~Sending' /\ task \in { "none", "head" }
  BY <1>2 DEF Inv, CallInv, Sending
<1>4. QueueType'
  BY <1>1, <1>2 DEF QueueType, Packets
<1>5. ControlType'
  BY <1>1, <1>2, ConstantsFit DEF ControlType
<1>6. spilled' \in BOOLEAN
  BY <1>2, Zenon
<1>7. FlagType'
  BY <1>1, <1>2, <1>6, Zenon DEF FlagType
<1>8. CallInv' /\ HandInv'
  BY <1>1, <1>2, <1>3, ConstantsFit DEF Inv, CallInv, HandInv, Calling, ControlType
<1>9. OrderInv' /\ DueInv' /\ ChainInv' /\ EndInv'
  BY <1>2, <1>3 DEF OrderInv, DueInv, ChainInv, EndInv
<1> QED BY <1>4, <1>5, <1>7, <1>8, <1>9, Assembled

\* fhss_service_set_role, in what it leaves of the service.
LEMMA SetRoleSteps ==
  ASSUME QueueType, ControlType, FlagType, NEW r \in { "TX", "RX" }, NEW result \in Results,
         SetRole(r, result)
  PROVE  /\ role' \in { "TX", "RX" } /\ refused' \in BOOLEAN
         /\ txq' \in { txq, << >> }
         /\ result = "ok" => role' = r
         /\ result # "ok" => refused' /\ task' = "none"
         /\ \/ role = r /\ task # "none" /\ result = "ok" /\ UNCHANGED << role, task, txq, refused >>
            \/ /\ task = "none" /\ task' \in { "none", "head" }
               /\ r = "TX" => txq' = txq /\ (~refused' => ~refused)
               /\ r = "RX" /\ role' = "RX" => txq' = << >> \/ (role = "RX" /\ txq' = txq)
               /\ role' \in { role, r }
<1>1. CASE role = r /\ task # "none"
  <2>1. result = "ok" /\ UNCHANGED << role, task, txq, refused >>
    BY <1>1 DEF SetRole
  <2> QED BY <1>1, <2>1 DEF ControlType, FlagType
<1>2. CASE ~(role = r /\ task # "none")
  <2>1. /\ task = "none"
        /\ role' = IF result = "radio" THEN role ELSE r
        /\ task' = IF result = "ok" THEN "head" ELSE "none"
        /\ txq' = IF r = "RX" /\ result # "radio" THEN << >> ELSE txq
        /\ refused' = IF result = "ok" THEN r = "TX" /\ refused ELSE TRUE
    BY <1>2 DEF SetRole
  <2>2. refused' \in BOOLEAN
    BY <2>1 DEF FlagType
  <2> QED BY <2>1, <2>2 DEF ControlType
<1> QED BY <1>1, <1>2

LEMMA ToTxSteps == Inv /\ ToTx => Inv'
<1> SUFFICES ASSUME Inv, ToTx PROVE Inv'
  OBVIOUS
<1>1. QueueType /\ ControlType /\ FlagType
  BY TypeParts DEF Inv
<1>2. PICK result \in Results :
        SetRole("TX", result) /\ call' = IF result = "ok" THEN "announce" ELSE "idle"
  BY DEF ToTx
<1>3. /\ call = "to_tx" /\ copies' = AnnounceCopies
      /\ UNCHANGED << capture, active, frames, seq, session, ok, hand, air, spilled >>
  BY DEF ToTx
<1>4. /\ air = Nothing /\ frames = 0 /\ seq = 0 /\ ~active /\ capture = "none"
      /\ role = "RX" \/ (refused /\ task = "none")
      /\ role = "RX" => txq = << >> /\ task \in { "none", "head" }
  BY <1>3 DEF Inv, CallInv, Calling
<1>5. /\ role' \in { "TX", "RX" } /\ refused' \in BOOLEAN
      /\ result = "ok" => role' = "TX"
      /\ result # "ok" => refused' /\ task' = "none"
      /\ task = "none" /\ task' \in { "none", "head" }
      /\ txq' = txq /\ (~refused' => ~refused)
      /\ role' \in { role, "TX" }
  BY <1>1, <1>2, <1>4, SetRoleSteps
<1>6. QueueType'
  BY <1>1, <1>3, <1>5 DEF QueueType, Packets
<1>7. ControlType'
  BY <1>1, <1>2, <1>3, <1>5, ConstantsFit DEF ControlType, Calling
<1>8. FlagType'
  BY <1>1, <1>3, <1>5, Zenon DEF FlagType
<1>9. session # 0 /\ ~(call' = "to_tx")
  BY <1>2, <1>3 DEF Inv, CallInv
<1>10. CallInv' /\ HandInv'
  BY <1>2, <1>3, <1>4, <1>5, <1>9, ConstantsFit DEF Inv, CallInv, HandInv, Calling
<1>11. Sending' => txq' = << >> /\ task' # "hand" /\ air' = Nothing /\ call' = "announce"
  BY <1>2, <1>3, <1>4, <1>5 DEF Sending
<1>12. Nothing.kind = "none"
  BY PacketFields
<1>13. OrderInv' /\ DueInv' /\ ChainInv' /\ EndInv'
  BY <1>2, <1>3, <1>4, <1>11, <1>12
     DEF OrderInv, DueInv, ChainInv, EndInv, Due, Latest, Before
<1> QED BY <1>6, <1>7, <1>8, <1>10, <1>13, Assembled

\* send_seed_announce_packets queues copies of one packet, in front of the audio.
LEMMA AnnounceSteps == Inv /\ Announce => Inv'
<1> SUFFICES ASSUME Inv, Announce PROVE Inv'
  OBVIOUS
<1>1. QueueType /\ ControlType /\ FlagType
  BY TypeParts DEF Inv
<1>2. /\ call = "announce" /\ role = "TX" /\ frames = 0 /\ seq = 0 /\ ~active
      /\ session # 0 /\ capture = "none" /\ copies \in 1..AnnounceCopies
      /\ UNCHANGED << frames, seq, session, ok, role, task, hand, air, spilled, refused >>
      /\ \/ /\ HasRoom /\ copies > 1
            /\ copies' = copies - 1 /\ UNCHANGED << call, active, capture >>
         \/ /\ ~(HasRoom /\ copies > 1)
            /\ copies' = 0 /\ active' = TRUE /\ call' = "on" /\ capture' \in { "head", "none" }
  BY DEF Announce, Inv, CallInv, Calling, history
<1>3. active' \in BOOLEAN
  BY <1>1, Zenon DEF Announce, FlagType
<1>4. FlagType'
  BY <1>1, <1>2, <1>3, Zenon DEF FlagType
<1>5. ControlType'
  BY <1>1, <1>2, ConstantsFit DEF ControlType, Calling
<1>6. CallInv' /\ HandInv' /\ EndInv'
  BY <1>1, <1>2, ConstantsFit DEF Inv, CallInv, HandInv, EndInv, Calling, ControlType
<1>7. \A x : Due(call, seq, x) => Due(call', seq', x)
  BY <1>2 DEF Due
<1>8. CASE HasRoom
  <2>1. Enqueue("announce", 0) /\ session \in Sessions /\ 0 \in 0..MaxPackets
    BY <1>1, <1>2, <1>8, ConstantsFit DEF Announce, ControlType, Sessions
  <2>2. /\ txq' \in Seq(Items) /\ Len(txq') <= TxDepth /\ txq' # << >>
        /\ Len(txq) \in Nat /\ Len(txq') = Len(txq) + 1
        /\ \A i \in 1..Len(txq) : txq'[i] = txq[i]
        /\ txq'[Len(txq) + 1] \in Items /\ txq'[Len(txq) + 1].session = session
        /\ txq'[Len(txq) + 1].kind = "announce"
    BY <1>1, <1>8, <2>1, EnqueueSteps
  <2>3. QueueType' /\ Beside
    BY <1>1, <1>2, <2>2 DEF QueueType, Beside
  <2>4. \A x \in Packets : Sending /\ Due(call, seq, x) => Air!After(x, txq'[Len(txq) + 1])
    BY <1>2, <2>2, AfterCases DEF Due
  <2>5. OrderInv'
    BY <1>1, <2>2, <2>3, <2>4, EnqueueOrder DEF Inv
  <2>6. Due(call', seq', txq'[Len(txq) + 1])
    BY <1>2, <2>2 DEF Due
  <2>7. DueInv'
    BY <1>7, <2>2, <2>3, <2>6, EnqueueDue DEF Inv
  <2>8. Successor(Latest, txq'[Len(txq) + 1])
    BY <2>2 DEF Successor
  <2>9. ChainInv'
    BY <1>1, <1>2, <2>2, <2>3, <2>8, EnqueueChain DEF Inv
  <2> QED BY <1>4, <1>5, <1>6, <2>3, <2>5, <2>7, <2>9, Assembled
<1>9. CASE ~HasRoom
  <2>1. UNCHANGED txq
    BY <1>9 DEF Announce
  <2>2. QueueType'
    BY <1>1, <1>2, <2>1 DEF QueueType
  <2>3. OrderInv' /\ Before' = Before /\ Latest' = Latest
    BY <1>2, <2>1, QuietOrder
  <2>4. DueInv'
    BY <1>2, <1>7, <2>1 DEF Inv, DueInv, Sending
  <2>5. ChainInv'
    BY <1>2, <2>1, <2>3 DEF Inv, ChainInv, Sending, Successor
  <2> QED BY <1>4, <1>5, <1>6, <2>2, <2>3, <2>4, <2>5, Assembled
<1> QED BY <1>8, <1>9

Later == { << "on", "stop_capture" >>, << "stop_capture", "send_end" >>,
           << "send_end", "wait_idle" >>, << "wait_idle", "to_rx" >> }

\* A step that queues nothing and sends nothing.
LEMMA QuietSteps ==
  ASSUME Inv, UNCHANGED << txq, hand, air, session, seq, role, refused, spilled >>,
         (task' = "hand") <=> (task = "hand"),
         call' = call \/ << call, call' >> \in Later
  PROVE  QueueType' /\ OrderInv' /\ DueInv' /\ ChainInv'
<1>1. QueueType
  BY TypeParts DEF Inv
<1>2. QueueType'
  BY <1>1 DEF QueueType
<1>3. OrderInv' /\ Before' = Before /\ Latest' = Latest
  BY QuietOrder
<1>4. \A x : Due(call, seq, x) => Due(call', seq', x)
  BY DEF Due, Later
<1>5. DueInv'
  BY <1>4 DEF Inv, DueInv, Sending
<1>6. ChainInv'
  BY <1>3 DEF Inv, ChainInv, Sending, Successor, Later
<1> QED BY <1>2, <1>3, <1>5, <1>6

\* send_buffered_frames puts an audio packet behind the announcement and the audio
\* queued so far.
LEMMA AudioQueued ==
  ASSUME Inv, call \in { "on", "stop_capture" }, call' = call \/ << call, call' >> \in Later,
         HasRoom, Enqueue("audio", seq), seq < MaxPackets, seq' = seq + 1, Beside
  PROVE  QueueType' /\ OrderInv' /\ DueInv' /\ ChainInv'
<1>1. QueueType /\ ControlType
  BY TypeParts DEF Inv
<1>2. session \in Sessions /\ seq \in 0..MaxPackets /\ seq \in Nat
  BY <1>1, ConstantsFit DEF Inv, CallInv, ControlType, Sessions
<1>3. /\ txq' \in Seq(Items) /\ Len(txq') <= TxDepth /\ txq' # << >>
      /\ Len(txq) \in Nat /\ Len(txq') = Len(txq) + 1
      /\ \A i \in 1..Len(txq) : txq'[i] = txq[i]
      /\ txq'[Len(txq) + 1] \in Items /\ txq'[Len(txq) + 1].session = session
      /\ txq'[Len(txq) + 1].kind = "audio" /\ txq'[Len(txq) + 1].n = seq
  BY <1>1, <1>2, EnqueueSteps
<1>4. QueueType'
  BY <1>1, <1>3 DEF QueueType, Beside
<1>5. \A x \in Packets : Sending /\ Due(call, seq, x) => Air!After(x, txq'[Len(txq) + 1])
  BY <1>3, AfterCases DEF Due
<1>6. OrderInv'
  BY <1>1, <1>3, <1>4, <1>5, EnqueueOrder DEF Inv
<1>7. Due(call', seq', txq'[Len(txq) + 1])
  BY <1>2, <1>3 DEF Due, Later
<1>8. DueInv'
  <2>1. \A x \in Packets : Due(call, seq, x) => Due(call', seq', x)
    BY <1>2, PacketFields DEF Due, Later
  <2>2. UNCHANGED << task, hand, air, role, refused >>
    BY DEF Beside
  <2>3. \A i \in 1..Len(txq') : i = Len(txq) + 1 \/ (i \in 1..Len(txq) /\ txq'[i] = txq[i])
    BY <1>3
  <2>4. air \in Packets /\ hand \in Packets /\ \A i \in 1..Len(txq) : txq[i] \in Packets
    BY <1>1 DEF QueueType, Packets
  <2> QED BY <1>7, <2>1, <2>2, <2>3, <2>4 DEF Inv, DueInv, Sending
<1>9. Sending /\ ~spilled => Successor(Latest, txq'[Len(txq) + 1])
  BY <1>3 DEF Inv, ChainInv, Successor
<1>10. ChainInv'
  BY <1>1, <1>2, <1>3, <1>9, EnqueueChain DEF Inv
<1> QED BY <1>4, <1>6, <1>8, <1>10

\* tx_audio_task (fhss_audio_adapter_submit_encoded_frame).
LEMMA CaptureSteps == Inv /\ (CaptureHead \/ CaptureNothing \/ CaptureFrame) => Inv'
<1> SUFFICES ASSUME Inv, CaptureHead \/ CaptureNothing \/ CaptureFrame PROVE Inv'
  OBVIOUS
<1>1. QueueType /\ ControlType /\ FlagType
  BY TypeParts DEF Inv
<1>2. /\ capture # "none" /\ capture' \in { "none", "head", "read" }
      /\ UNCHANGED << call, active, session, copies, ok, role, task, hand, air, spilled, refused >>
      /\ call \in { "on", "stop_capture" }
  BY DEF CaptureHead, CaptureNothing, CaptureFrame, besideCapture, history, Inv, CallInv
<1>3. FlagType' /\ Beside
  BY <1>1, <1>2, Zenon DEF FlagType, Beside
<1>4. CASE UNCHANGED << frames, seq, txq >>
  <2>1. QueueType' /\ OrderInv' /\ DueInv' /\ ChainInv'
    BY <1>2, <1>4, QuietSteps
  <2>2. ControlType' /\ CallInv' /\ HandInv' /\ EndInv'
    BY <1>1, <1>2, <1>4 DEF Inv, ControlType, CallInv, HandInv, EndInv, Calling
  <2> QED BY <1>3, <2>1, <2>2, Assembled
<1>5. CASE CaptureFrame
  <2>1. /\ frames < FramesPerPacket /\ seq < MaxPackets
        /\ frames + 1 # FramesPerPacket => frames' = frames + 1 /\ UNCHANGED << seq, txq >>
        /\ frames + 1 = FramesPerPacket => SendBuffered(frames + 1)
        /\ frames \in Nat /\ seq \in Nat
    BY <1>1, <1>5, ConstantsFit DEF CaptureFrame, ControlType
  <2>2. \/ /\ UNCHANGED << seq, txq >> /\ frames' \in 0..FramesPerPacket
        \/ /\ HasRoom /\ Enqueue("audio", seq) /\ seq' = seq + 1 /\ frames' = 0
    BY <2>1, ConstantsFit DEF SendBuffered
  <2>3. QueueType' /\ OrderInv' /\ DueInv' /\ ChainInv'
    <3>1. CASE UNCHANGED << seq, txq >>
      BY <1>2, <3>1, QuietSteps
    <3>2. CASE HasRoom /\ Enqueue("audio", seq) /\ seq' = seq + 1
      BY <1>2, <1>3, <2>1, <3>2, AudioQueued
    <3> QED BY <2>2, <3>1, <3>2
  <2>4. ControlType' /\ CallInv' /\ HandInv' /\ EndInv'
    BY <1>1, <1>2, <2>1, <2>2, ConstantsFit
       DEF Inv, ControlType, CallInv, HandInv, EndInv, Calling
  <2> QED BY <1>3, <2>3, <2>4, Assembled
<1>6. CaptureHead \/ CaptureNothing => UNCHANGED << frames, seq, txq >>
  BY DEF CaptureHead, CaptureNothing
<1> QED BY <1>4, <1>5, <1>6

\* stop_tx_audio_task and the head of fhss_audio_adapter_end_tx.
LEMMA FlushSteps == Inv /\ (Leave \/ EndTx) => Inv'
<1> SUFFICES ASSUME Inv, Leave \/ EndTx PROVE Inv'
  OBVIOUS
<1>1. QueueType /\ ControlType /\ FlagType
  BY TypeParts DEF Inv
<1>2. CASE Leave
  <2>1. /\ call = "on" /\ call' = "stop_capture"
        /\ UNCHANGED << capture, active, frames, seq, session, copies, ok, role, task, txq, hand,
                        air, spilled, refused >>
    BY <1>2 DEF Leave, adapterVars, serviceVars, history
  <2>2. QueueType' /\ OrderInv' /\ DueInv' /\ ChainInv'
    BY <2>1, QuietSteps DEF Later
  <2>3. FlagType'
    BY <1>1, <2>1, Zenon DEF FlagType
  <2>4. ControlType' /\ CallInv' /\ HandInv' /\ EndInv'
    BY <1>1, <2>1 DEF Inv, ControlType, CallInv, HandInv, EndInv, Calling
  <2> QED BY <2>2, <2>3, <2>4, Assembled
<1>3. CASE EndTx
  <2>1. /\ call = "stop_capture" /\ capture = "none" /\ call' = "send_end"
        /\ copies' = EndCopies /\ ok' = (frames = 0 \/ HasRoom) /\ SendBuffered(frames)
        /\ UNCHANGED << capture, active, session, role, task, hand, air, spilled, refused >>
        /\ frames \in Nat /\ seq \in Nat
    BY <1>1, <1>3, ConstantsFit DEF EndTx, ControlType, history
  <2>2. \/ /\ UNCHANGED << seq, txq >> /\ frames' = frames /\ ~(frames > 0 /\ HasRoom)
        \/ /\ HasRoom /\ frames > 0 /\ Enqueue("audio", seq) /\ seq' = seq + 1 /\ frames' = 0
    BY <2>1 DEF SendBuffered
  <2>3. Beside /\ << call, call' >> \in Later /\ (frames > 0 => seq < MaxPackets)
    BY <2>1 DEF Beside, Later, Inv, CallInv
  <2>4. QueueType' /\ OrderInv' /\ DueInv' /\ ChainInv'
    <3>1. CASE UNCHANGED << seq, txq >>
      BY <2>1, <2>3, <3>1, QuietSteps
    <3>2. CASE frames > 0 /\ HasRoom /\ Enqueue("audio", seq) /\ seq' = seq + 1
      BY <2>1, <2>3, <3>2, AudioQueued
    <3> QED BY <2>2, <3>1, <3>2
  <2>5. ok' \in BOOLEAN
    BY <2>1, Zenon
  <2>6. FlagType'
    BY <1>1, <2>1, <2>5, Zenon DEF FlagType
  <2>7. ControlType' /\ CallInv' /\ HandInv'
    BY <1>1, <2>1, <2>2, <2>3, ConstantsFit DEF Inv, ControlType, CallInv, HandInv, Calling
  <2>8. EndInv'
    <3>0. ok' => frames = 0 \/ HasRoom
      BY <2>1, Zenon
    <3>1. ok' => frames' = 0
      BY <2>1, <2>2, <3>0
    <3>2. Copied' = 0
      BY <2>1, ConstantsFit DEF Copied
    <3>3. Len(txq') \in Nat
      BY <2>4 DEF QueueType
    <3> QED BY <2>1, <3>1, <3>2, <3>3 DEF EndInv
  <2> QED BY <2>4, <2>6, <2>7, <2>8, Assembled
<1> QED BY <1>2, <1>3

\* send_end_packets queues copies of one packet, behind everything.
LEMMA SendEndSteps == Inv /\ SendEnd => Inv'
<1> SUFFICES ASSUME Inv, SendEnd PROVE Inv'
  OBVIOUS
<1>1. QueueType /\ ControlType /\ FlagType
  BY TypeParts DEF Inv
<1>2. /\ call = "send_end" /\ role = "TX" /\ session # 0 /\ copies \in 1..EndCopies
      /\ ok' = (ok /\ HasRoom)
      /\ UNCHANGED << capture, active, frames, seq, session, role, task, hand, air, spilled, refused >>
      /\ \/ HasRoom /\ copies > 1 /\ copies' = copies - 1 /\ call' = call
         \/ ~(HasRoom /\ copies > 1) /\ copies' = 0 /\ call' = "wait_idle"
      /\ seq \in 0..MaxPackets /\ seq \in Nat
  BY <1>1, ConstantsFit DEF SendEnd, Inv, CallInv, Calling, history, ControlType
<1>3. ok' \in BOOLEAN
  BY <1>2, Zenon
<1>4. FlagType'
  BY <1>1, <1>2, <1>3, Zenon DEF FlagType
<1>5. ControlType' /\ CallInv' /\ HandInv'
  BY <1>1, <1>2, ConstantsFit DEF Inv, ControlType, CallInv, HandInv, Calling
<1>6. call' = call \/ << call, call' >> \in Later
  BY <1>2 DEF Later
<1>7. CASE HasRoom
  <2>1. Enqueue("end", seq) /\ session \in Sessions
    BY <1>1, <1>2, <1>7, ConstantsFit DEF SendEnd, ControlType, Sessions
  <2>2. /\ txq' \in Seq(Items) /\ Len(txq') <= TxDepth /\ txq' # << >>
        /\ Len(txq) \in Nat /\ Len(txq') = Len(txq) + 1
        /\ \A i \in 1..Len(txq) : txq'[i] = txq[i]
        /\ txq'[Len(txq) + 1] \in Items /\ txq'[Len(txq) + 1].session = session
        /\ txq'[Len(txq) + 1].kind = "end" /\ txq'[Len(txq) + 1].n = seq
    BY <1>1, <1>2, <1>7, <2>1, EnqueueSteps
  <2>3. QueueType' /\ Beside
    BY <1>1, <1>2, <2>2 DEF QueueType, Beside
  <2>4. \A x \in Packets : Air!After(x, txq'[Len(txq) + 1])
    BY <2>2, AfterCases, PacketFields
  <2>5. OrderInv'
    BY <1>1, <2>2, <2>3, <2>4, EnqueueOrder DEF Inv
  <2>6. /\ Due(call', seq', txq'[Len(txq) + 1])
        /\ \A x : Due(call, seq, x) => Due(call', seq', x)
    BY <1>2, <2>2 DEF Due
  <2>7. DueInv'
    BY <2>2, <2>3, <2>6, EnqueueDue DEF Inv
  <2>8. Sending /\ ~spilled => Successor(Latest, txq'[Len(txq) + 1])
    <3>1. Sending => (Latest.kind = "end" => Latest.n = seq)
      BY <1>1 DEF Inv, DueInv, Due, Latest, Before, QueueType
    <3> QED BY <2>2, <3>1 DEF Inv, ChainInv, Successor
  <2>9. ChainInv'
    BY <1>1, <1>2, <2>2, <2>3, <2>8, EnqueueChain DEF Inv
  <2>10. EndInv'
    <3>1. Copied' = Copied + 1 /\ Copied \in Nat /\ Copied' \in Nat
      BY <1>2, <1>7, ConstantsFit DEF Copied
    <3>2. \A i \in 1..Len(txq') : i = Len(txq) + 1 \/ (i \in 1..Len(txq) /\ txq'[i] = txq[i])
      BY <2>2
    <3>3. ok' => ok
      BY <1>2, Zenon
    <3> QED BY <1>2, <2>2, <3>1, <3>2, <3>3 DEF Inv, EndInv
  <2> QED BY <1>4, <1>5, <2>3, <2>5, <2>7, <2>9, <2>10, Assembled
<1>8. CASE ~HasRoom
  <2>1. UNCHANGED txq
    BY <1>8 DEF SendEnd
  <2>2. QueueType' /\ OrderInv' /\ DueInv' /\ ChainInv'
    BY <1>2, <1>6, <2>1, QuietSteps
  <2>3. EndInv'
    BY <1>2, <1>8 DEF EndInv
  <2> QED BY <1>4, <1>5, <2>2, <2>3, Assembled
<1> QED BY <1>7, <1>8

\* fhss_service_wait_tx_idle.
LEMMA WaitIdleSteps == Inv /\ WaitIdle => Inv'
<1> SUFFICES ASSUME Inv, WaitIdle PROVE Inv'
  OBVIOUS
<1>1. QueueType /\ ControlType /\ FlagType
  BY TypeParts DEF Inv
<1>2. /\ call = "wait_idle" /\ call' = "to_rx" /\ ok' = (ok /\ TxIdle)
      /\ UNCHANGED << capture, active, frames, seq, session, copies, role, task, txq, hand,
                      air, spilled, refused >>
  BY DEF WaitIdle, serviceVars, history
<1>3. ok' \in BOOLEAN
  BY <1>2, Zenon
<1>4. FlagType'
  BY <1>1, <1>2, <1>3, Zenon DEF FlagType
<1>5. ControlType' /\ CallInv' /\ HandInv'
  BY <1>1, <1>2 DEF Inv, ControlType, CallInv, HandInv, Calling
<1>6. QueueType' /\ OrderInv' /\ DueInv' /\ ChainInv'
  BY <1>2, QuietSteps DEF Later
<1>7. EndInv'
  <2>1. Copied = EndCopies
    BY <1>2, ConstantsFit DEF Inv, CallInv, Copied
  <2>2. txq = << >> => Len(txq) = 0
    OBVIOUS
  <2>3. ok' => ok /\ TxIdle
    BY <1>2, Zenon
  <2> QED BY <1>2, <2>1, <2>2, <2>3, ConstantsFit DEF Inv, EndInv, TxIdle
<1> QED BY <1>4, <1>5, <1>6, <1>7, Assembled

\* The way back to reception empties the queue (fhss_service_set_role).
LEMMA ToRxSteps == Inv /\ ToRx => Inv'
<1> SUFFICES ASSUME Inv, ToRx PROVE Inv'
  OBVIOUS
<1>1. QueueType /\ ControlType /\ FlagType
  BY TypeParts DEF Inv
<1>2. PICK result \in Results : SetRole("RX", result) /\ ok' = (ok /\ result = "ok")
  BY DEF ToRx
<1>3. /\ call = "to_rx" /\ role = "TX" /\ active' = FALSE /\ call' = "idle" /\ capture = "none"
      /\ UNCHANGED << capture, frames, seq, session, copies, hand, air, spilled >>
  BY DEF ToRx, Inv, CallInv, Calling
<1>4. /\ role' \in { "TX", "RX" } /\ refused' \in BOOLEAN
      /\ txq' \in { txq, << >> }
      /\ result = "ok" => role' = "RX"
      /\ result # "ok" => refused' /\ task' = "none"
      /\ task = "none" /\ task' \in { "none", "head" }
      /\ role' = "RX" => txq' = << >>
  BY <1>1, <1>2, <1>3, SetRoleSteps
<1>5. << >> \in Seq(Items) /\ Len(<< >>) = 0
  OBVIOUS
<1>6. QueueType'
  <2>1. CASE txq' = txq
    BY <1>1, <1>3, <2>1 DEF QueueType
  <2>2. CASE txq' = << >>
    BY <1>1, <1>3, <1>5, <2>2, ConstantsFit DEF QueueType
  <2> QED BY <1>4, <2>1, <2>2
<1>7. active' \in BOOLEAN /\ ok' \in BOOLEAN
  BY <1>2, <1>3, Zenon
<1>8. FlagType'
  BY <1>1, <1>3, <1>4, <1>7, Zenon DEF FlagType
<1>9. ControlType'
  BY <1>1, <1>3, <1>4 DEF ControlType, Calling
<1>10. CallInv' /\ HandInv'
  BY <1>3, <1>4 DEF Inv, CallInv, HandInv, Calling
<1>11. ~Sending'
  BY <1>4 DEF Sending
<1>12. OrderInv' /\ DueInv' /\ ChainInv' /\ EndInv'
  BY <1>3, <1>11 DEF OrderInv, DueInv, ChainInv, EndInv
<1> QED BY <1>6, <1>8, <1>9, <1>10, <1>12, Assembled

----------------------------------------------------------------------------
(* Steps of the service. *)

\* service_task, the hop, the SYNC, and the end of a transmission (tx_task).
LEMMA TaskSteps == Inv /\ (TaskHead \/ SendSync \/ DrainEnds \/ Sent) => Inv'
<1> SUFFICES ASSUME Inv, TaskHead \/ SendSync \/ DrainEnds \/ Sent PROVE Inv'
  OBVIOUS
<1>1. QueueType /\ ControlType /\ FlagType
  BY TypeParts DEF Inv
<1>2. /\ UNCHANGED << call, capture, active, frames, seq, session, copies, ok, role, refused,
                      txq, air, spilled >>
      /\ hand' \in { hand, Nothing }
      /\ task # "hand" /\ task' \in { "none", "head", "slot", "drain" }
      /\ task # "none" /\ (role = "RX" => task' \in { "none", "head" })
  BY DEF TaskHead, SendSync, DrainEnds, Sent, besideService, adapterVars, StopAsked, Inv, CallInv
<1>3. QueueType'
  BY <1>1, <1>2 DEF QueueType, Packets
<1>4. ControlType' /\ HandInv'
  BY <1>1, <1>2 DEF ControlType, HandInv
<1>5. FlagType'
  BY <1>1, <1>2, Zenon DEF FlagType
<1>6. CallInv'
  BY <1>2 DEF Inv, CallInv
<1>7. Before' = Before /\ Latest' = Latest
  BY <1>2 DEF Before, Latest
<1>8. OrderInv' /\ DueInv'
  BY <1>2 DEF Inv, OrderInv, DueInv, Sending, Air!After
<1>9. ChainInv'
  BY <1>2, <1>7 DEF Inv, ChainInv, Sending, Successor
<1>10. EndInv'
  BY <1>2 DEF Inv, EndInv, Copied
<1> QED BY <1>3, <1>4, <1>5, <1>6, <1>8, <1>9, <1>10, Assembled

\* The head of the queue into the service's hand.
LEMMA TakenSteps == Inv /\ Take => Inv'
<1> SUFFICES ASSUME Inv, Take PROVE Inv'
  OBVIOUS
<1>1. QueueType /\ ControlType /\ FlagType
  BY TypeParts DEF Inv
<1>2. /\ task = "drain" /\ txq # << >> /\ hand' = Head(txq) /\ txq' = Tail(txq) /\ task' = "hand"
      /\ UNCHANGED << call, capture, active, frames, seq, session, copies, ok, role, refused,
                      air, spilled >>
  BY DEF Take, besideService, adapterVars
<1>3. /\ txq' \in Seq(Items) /\ Len(txq) \in Nat \ {0} /\ Len(txq') = Len(txq) - 1
      /\ hand' = txq[1] /\ txq[1] \in Items
      /\ \A i \in 1..Len(txq') : txq'[i] = txq[i + 1] /\ i + 1 \in 1..Len(txq)
  BY <1>1, <1>2, TakeSteps
<1>4. QueueType'
  BY <1>1, <1>2, <1>3, ConstantsFit DEF QueueType, Packets
<1>5. ControlType' /\ HandInv'
  BY <1>1, <1>2, <1>3 DEF ControlType, HandInv
<1>6. FlagType'
  BY <1>1, <1>2, Zenon DEF FlagType
<1>7. CallInv' /\ role = "TX"
  BY <1>1, <1>2 DEF Inv, CallInv, ControlType
<1>8. OrderInv'
  <2> SUFFICES ASSUME Sending PROVE OrderInv'
    BY <1>2 DEF OrderInv, Sending
  <2>1. /\ \A i \in 1..Len(txq') : txq'[i].session = session /\ Air!After(air, txq'[i])
        /\ hand'.session = session /\ Air!After(air, hand')
        /\ \A i \in 1..Len(txq') : Air!After(hand', txq'[i])
    BY <1>3 DEF Inv, OrderInv
  <2>2. \A i, j \in 1..Len(txq') : i < j => Air!After(txq'[i], txq'[j])
    BY <1>3 DEF Inv, OrderInv
  <2> QED BY <1>2, <2>1, <2>2 DEF OrderInv, Air!After
<1>9. DueInv'
  <2>1. Sending => Due(call, seq, hand') /\ \A i \in 1..Len(txq') : Due(call, seq, txq'[i])
    BY <1>3 DEF Inv, DueInv
  <2> QED BY <1>2, <2>1 DEF Inv, DueInv, Sending
<1>10. ChainInv'
  <2> SUFFICES ASSUME Sending, ~spilled PROVE ChainInv'
    BY <1>2 DEF ChainInv, Sending
  <2>1. Before = air /\ Before' = txq[1] /\ Latest = txq[Len(txq)]
    BY <1>2, <1>3 DEF Before, Latest
  <2>2. Latest' = Latest
    <3>1. CASE txq' = << >>
      <4>1. Len(txq') = 0
        BY <3>1
      <4>2. Latest' = txq[1] /\ Latest = txq[Len(txq)]
        BY <2>1, <3>1 DEF Latest
      <4>3. Len(txq) = 1
        BY <1>3, <4>1
      <4> QED BY <4>2, <4>3
    <3>2. CASE txq' # << >>
      <4>1. Len(txq') # 0
        BY <1>3, <3>2
      <4> QED BY <1>3, <2>1, <3>2, <4>1 DEF Latest
    <3> QED BY <3>1, <3>2
  <2>3. Successor(air, hand')
    BY <1>2, <1>3, <2>1 DEF Inv, ChainInv
  <2>4. txq' # << >> => Successor(Before', txq'[1])
    <3>1. txq' # << >> => 1 \in 1..Len(txq') /\ 1 \in 1..Len(txq) - 1
      BY <1>3
    <3> QED BY <1>3, <2>1, <3>1 DEF Inv, ChainInv
  <2>5. \A i \in 1..Len(txq') - 1 : Successor(txq'[i], txq'[i + 1])
    <3>1. \A i \in 1..Len(txq') - 1 : /\ i + 1 \in 1..Len(txq) - 1
                                      /\ txq'[i] = txq[i + 1] /\ txq'[i + 1] = txq[(i + 1) + 1]
      BY <1>3
    <3> QED BY <3>1 DEF Inv, ChainInv
  <2>6. \/ Latest.kind = "audio" /\ Latest.n + 1 = seq
        \/ Latest.kind \in { "announce", "none" } /\ seq = 0
        \/ Latest.kind = "end" /\ call \in { "send_end", "wait_idle", "to_rx" }
    BY DEF Inv, ChainInv
  <2> QED BY <1>2, <2>2, <2>3, <2>4, <2>5, <2>6 DEF ChainInv, Successor
<1>11. EndInv'
  <2>1. Copied' = Copied /\ (call = "send_end" => Copied \in Nat)
    BY <1>2, ConstantsFit DEF Copied, Inv, CallInv
  <2>2. call \in { "wait_idle", "to_rx" } => Copied \in Nat
    BY <1>2, ConstantsFit DEF Copied, Inv, CallInv
  <2> HIDE DEF Copied
  <2> QED BY <1>2, <1>3, <2>1, <2>2 DEF Inv, EndInv
<1> QED BY <1>4, <1>5, <1>6, <1>7, <1>8, <1>9, <1>10, <1>11, Assembled

\* Back to the front of the queue, or lost when it has filled up.
LEMMA ReturnedSteps == Inv /\ PutBack => Inv'
<1> SUFFICES ASSUME Inv, PutBack PROVE Inv'
  OBVIOUS
<1>1. QueueType /\ ControlType /\ FlagType
  BY TypeParts DEF Inv
<1>2. /\ task = "hand" /\ hand' = Nothing /\ task' = "head"
      /\ txq' = IF HasRoom THEN << hand >> \o txq ELSE txq
      /\ spilled' = (spilled \/ ~HasRoom)
      /\ UNCHANGED << call, capture, active, frames, seq, session, copies, ok, role, refused, air >>
  BY DEF PutBack, besideService, adapterVars
<1>3. hand \in Items /\ role = "TX"
  BY <1>1, <1>2 DEF Inv, HandInv, CallInv, ControlType
<1>4. ControlType' /\ HandInv' /\ CallInv'
  BY <1>1, <1>2, <1>3 DEF Inv, ControlType, HandInv, CallInv
<1>5. spilled' \in BOOLEAN /\ (~spilled' => ~spilled /\ HasRoom)
  BY <1>2, Zenon
<1>6. FlagType'
  BY <1>1, <1>2, <1>5, Zenon DEF FlagType
<1>7. Copied' = Copied /\ (call \in { "send_end", "wait_idle", "to_rx" }
                             => Copied \in Nat /\ Copied <= TxDepth)
  BY <1>2, ConstantsFit DEF Copied, Inv, CallInv
<1>8. CASE HasRoom
  <2>1. /\ txq' \in Seq(Items) /\ Len(txq) \in Nat /\ Len(txq') = Len(txq) + 1
        /\ txq'[1] = hand
        /\ \A i \in 1..Len(txq) : txq'[i + 1] = txq[i]
    BY <1>1, <1>2, <1>3, <1>8, PutBackSteps
  <2>2. \A i \in 1..Len(txq') : i = 1 \/ (i - 1 \in 1..Len(txq) /\ txq'[i] = txq[i - 1])
    <3>1. \A i \in 1..Len(txq') : i # 1 => i - 1 \in 1..Len(txq) /\ (i - 1) + 1 = i
      BY <2>1
    <3> QED BY <2>1, <3>1
  <2>3. QueueType'
    BY <1>1, <1>2, <1>8, <2>1, ConstantsFit DEF QueueType, Packets, HasRoom
  <2>4. OrderInv'
    <3> SUFFICES ASSUME Sending PROVE OrderInv'
      BY <1>2 DEF OrderInv, Sending
    <3>1. \A i \in 1..Len(txq') : txq'[i].session = session /\ Air!After(air, txq'[i])
      BY <1>2, <2>1, <2>2 DEF Inv, OrderInv
    <3>2. \A i, j \in 1..Len(txq') : i < j => Air!After(txq'[i], txq'[j])
      <4> SUFFICES ASSUME NEW i \in 1..Len(txq'), NEW j \in 1..Len(txq'), i < j
                   PROVE  Air!After(txq'[i], txq'[j])
        OBVIOUS
      <4>1. j - 1 \in 1..Len(txq) /\ txq'[j] = txq[j - 1]
        BY <2>2
      <4>2. CASE i = 1
        BY <1>2, <2>1, <4>1, <4>2 DEF Inv, OrderInv
      <4>3. CASE i # 1
        <5>1. i - 1 \in 1..Len(txq) /\ txq'[i] = txq[i - 1] /\ i - 1 < j - 1
          BY <2>2, <4>3
        <5> QED BY <4>1, <5>1 DEF Inv, OrderInv
      <4> QED BY <4>2, <4>3
    <3> QED BY <1>2, <3>1, <3>2 DEF OrderInv, Air!After
  <2>5. DueInv'
    <3>1. Sending => \A i \in 1..Len(txq') : Due(call, seq, txq'[i])
      BY <1>2, <2>1, <2>2 DEF Inv, DueInv
    <3> QED BY <1>2, <3>1 DEF Inv, DueInv, Sending
  <2>6. ChainInv'
    <3> SUFFICES ASSUME Sending, ~spilled PROVE ChainInv'
      BY <1>2, <1>5 DEF ChainInv, Sending
    <3>1. Before = hand /\ Before' = air /\ txq' # << >> /\ Latest' = txq'[Len(txq')]
      BY <1>2, <2>1 DEF Before, Latest
    <3>2. Latest' = Latest
      <4>1. CASE txq = << >>
        <5>1. Len(txq) = 0 /\ Latest = hand
          BY <3>1, <4>1 DEF Latest
        <5> QED BY <2>1, <3>1, <5>1
      <4>2. CASE txq # << >>
        <5>1. Len(txq) \in 1..Len(txq) /\ Latest = txq[Len(txq)]
          BY <1>1, <4>2 DEF Latest, QueueType
        <5> QED BY <2>1, <3>1, <5>1
      <4> QED BY <4>1, <4>2
    <3>3. Successor(Before', txq'[1])
      BY <1>2, <2>1, <3>1 DEF Inv, ChainInv
    <3>4. \A i \in 1..Len(txq') - 1 : Successor(txq'[i], txq'[i + 1])
      <4> SUFFICES ASSUME NEW i \in 1..Len(txq') - 1 PROVE Successor(txq'[i], txq'[i + 1])
        OBVIOUS
      <4>1. i \in 1..Len(txq) /\ i \in 1..Len(txq') /\ txq'[i + 1] = txq[i]
        BY <2>1
      <4>2. CASE i = 1
        <5>1. txq # << >>
          BY <4>1
        <5> QED BY <2>1, <3>1, <4>1, <4>2, <5>1 DEF Inv, ChainInv
      <4>3. CASE i # 1
        <5>1. i - 1 \in 1..Len(txq) - 1 /\ txq'[i] = txq[i - 1] /\ (i - 1) + 1 = i
          BY <2>2, <4>1, <4>3
        <5>2. Successor(txq[i - 1], txq[(i - 1) + 1])
          BY <5>1 DEF Inv, ChainInv
        <5> QED BY <4>1, <5>1, <5>2
      <4> QED BY <4>2, <4>3
    <3>5. \/ Latest.kind = "audio" /\ Latest.n + 1 = seq
          \/ Latest.kind \in { "announce", "none" } /\ seq = 0
          \/ Latest.kind = "end" /\ call \in { "send_end", "wait_idle", "to_rx" }
      BY DEF Inv, ChainInv
    <3> QED BY <1>2, <3>2, <3>3, <3>4, <3>5 DEF ChainInv, Successor
  <2>7. EndInv'
    <3> HIDE DEF Copied
    <3>1. CASE call \in { "send_end", "wait_idle", "to_rx" } /\ ok /\ ~refused /\ air.kind # "end"
      <4>1. /\ frames = 0 /\ call # "to_rx"
            /\ \A i \in 1..Len(txq) : i > Len(txq) - Copied => txq[i].kind = "end"
            /\ Copied > Len(txq) => hand.kind = "end" /\ Copied = Len(txq) + 1
        BY <3>1 DEF Inv, EndInv
      <4>2. Copied \in Nat
        BY <1>7, <3>1
      <4>3. \A i \in 1..Len(txq') : i > Len(txq') - Copied => txq'[i].kind = "end"
        <5> SUFFICES ASSUME NEW i \in 1..Len(txq'), i > Len(txq') - Copied
                     PROVE  txq'[i].kind = "end"
          OBVIOUS
        <5>1. CASE i = 1
          BY <2>1, <4>1, <4>2, <5>1
        <5>2. CASE i # 1
          <6>1. i - 1 \in 1..Len(txq) /\ txq'[i] = txq[i - 1]
            BY <2>2, <5>2
          <6>2. i - 1 > Len(txq) - Copied
            BY <2>1, <4>2
          <6> QED BY <4>1, <6>1, <6>2
        <5> QED BY <5>1, <5>2
      <4>4. ~(Copied > Len(txq'))
        BY <2>1, <4>1, <4>2
      <4> QED BY <1>2, <1>7, <4>1, <4>3, <4>4 DEF EndInv
    <3>2. CASE ~(call \in { "send_end", "wait_idle", "to_rx" } /\ ok) \/ refused \/ air.kind = "end"
      BY <1>2, <3>2 DEF Inv, EndInv
    <3> QED BY <3>1, <3>2
  <2> QED BY <1>4, <1>6, <2>3, <2>4, <2>5, <2>6, <2>7, Assembled
<1>9. CASE ~HasRoom
  <2>1. txq' = txq /\ spilled'
    BY <1>2, <1>9
  <2>2. QueueType' /\ Len(txq) = TxDepth
    BY <1>1, <1>2, <1>9, <2>1, ConstantsFit DEF QueueType, Packets, HasRoom
  <2>3. OrderInv' /\ DueInv' /\ ChainInv'
    BY <1>2, <2>1 DEF Inv, OrderInv, DueInv, ChainInv, Sending, Air!After
  <2>4. EndInv'
    <3> SUFFICES ASSUME call \in { "send_end", "wait_idle", "to_rx" }, ok PROVE EndInv'
      BY <1>2 DEF EndInv
    <3>1. ~(Copied > Len(txq)) /\ ~(Copied' > Len(txq'))
      <4>1. Copied \in Nat /\ Copied <= Len(txq) /\ Len(txq) \in Nat
        BY <1>7, <2>2, ConstantsFit
      <4> HIDE DEF Copied
      <4> QED BY <1>7, <2>1, <4>1
    <3>2. /\ frames' = frames /\ air' = air /\ refused' = refused /\ call' = call
          /\ txq' = txq /\ Copied' = Copied
      BY <1>2, <1>7, <2>1
    <3> HIDE DEF Copied
    <3> QED BY <3>1, <3>2 DEF Inv, EndInv
  <2> QED BY <1>4, <1>6, <2>2, <2>3, <2>4, Assembled
<1> QED BY <1>8, <1>9

\* rf_transport_send_packet begins.
LEMMA OnAirSteps == Inv /\ OnAir => Inv'
<1> SUFFICES ASSUME Inv, OnAir PROVE Inv'
  OBVIOUS
<1>1. QueueType /\ ControlType /\ FlagType
  BY TypeParts DEF Inv
<1>2. /\ task = "hand" /\ air' = hand /\ task' = "air"
      /\ UNCHANGED << call, capture, active, frames, seq, session, copies, ok, role, refused,
                      txq, hand, spilled >>
  BY DEF OnAir, besideService, adapterVars
<1>3. QueueType' /\ ControlType' /\ HandInv'
  BY <1>1, <1>2 DEF QueueType, ControlType, Inv, HandInv
<1>4. FlagType'
  BY <1>1, <1>2, Zenon DEF FlagType
<1>5. CallInv'
  BY <1>1, <1>2 DEF Inv, CallInv, ControlType
<1>6. Before' = Before /\ Latest' = Latest
  BY <1>2 DEF Before, Latest
<1>7. OrderInv' /\ DueInv'
  BY <1>2 DEF Inv, OrderInv, DueInv, Sending, Air!After
<1>8. ChainInv'
  BY <1>2, <1>6 DEF Inv, ChainInv, Sending, Successor
<1>9. EndInv'
  <2>1. Copied' = Copied
    BY <1>2 DEF Copied
  <2>2. ~refused /\ air.kind = "end" => hand.kind = "end"
    <3>1. hand \in Items /\ air \in Packets /\ role = "TX"
      BY <1>1, <1>2 DEF Inv, HandInv, CallInv, ControlType, QueueType
    <3>2. ~refused => Air!After(air, hand)
      BY <1>2, <3>1 DEF Inv, OrderInv, Sending
    <3> QED BY <3>1, <3>2, AfterCases
  <2> HIDE DEF Copied
  <2>3. CASE call \in { "send_end", "wait_idle", "to_rx" } /\ ok
    <3>1. frames = 0
      BY <2>3 DEF Inv, EndInv
    <3>2. CASE refused \/ air.kind = "end" \/ Copied > Len(txq)
      <4>1. refused \/ hand.kind = "end"
        BY <2>2, <2>3, <3>2 DEF Inv, EndInv
      <4> QED BY <1>2, <3>1, <4>1 DEF EndInv
    <3>3. CASE ~refused /\ air.kind # "end" /\ ~(Copied > Len(txq))
      <4>1. /\ call # "to_rx"
            /\ \A i \in 1..Len(txq) : i > Len(txq) - Copied => txq[i].kind = "end"
        BY <2>3, <3>3 DEF Inv, EndInv
      <4> QED BY <1>2, <2>1, <3>1, <3>3, <4>1 DEF EndInv
    <3> QED BY <3>2, <3>3
  <2>4. CASE ~(call \in { "send_end", "wait_idle", "to_rx" } /\ ok)
    BY <1>2, <2>4 DEF EndInv
  <2> QED BY <2>3, <2>4
<1> QED BY <1>3, <1>4, <1>5, <1>7, <1>8, <1>9, Assembled

LEMMA NextInv == Inv /\ [Next]_vars => Inv'
<1>1. Inv /\ Next => Inv'
  BY BeginSteps, ToTxSteps, AnnounceSteps, CaptureSteps, FlushSteps, SendEndSteps, WaitIdleSteps,
     ToRxSteps, TaskSteps, TakenSteps, ReturnedSteps, OnAirSteps
     DEF Next, CallStep, CaptureStep, TaskStep
<1>2. Inv /\ UNCHANGED vars => Inv'
  <2> SUFFICES ASSUME Inv, UNCHANGED vars PROVE Inv'
    OBVIOUS
  <2>1. UNCHANGED << call, capture, active, frames, seq, session, copies, ok, role, task, txq, hand,
                     air, spilled, refused >>
    BY DEF vars, adapterVars, serviceVars, history
  <2>2. ControlType' /\ CallInv' /\ HandInv'
    BY <2>1, TypeParts DEF Inv, ControlType, CallInv, HandInv
  <2>3. FlagType'
    BY <2>1, TypeParts, Zenon DEF Inv, FlagType
  <2>4. QueueType' /\ OrderInv' /\ DueInv' /\ ChainInv'
    BY <2>1, QuietSteps
  <2>5. EndInv'
    BY <2>1 DEF Inv, EndInv, Copied
  <2> QED BY <2>2, <2>3, <2>4, <2>5, Assembled
<1> QED BY <1>1, <1>2

----------------------------------------------------------------------------
(* Theorems. *)

LEMMA SpecSteps == Spec => Init /\ [][Next]_vars
  BY DEF Spec

\* Inv holds throughout every talkspurt (fhss_audio_adapter.c, fhss_service.c).
THEOREM Invariance == Spec => []Inv
  BY SpecSteps, InitInv, NextInv, PTL

\* Every variable keeps its type; the queue never holds more than TxDepth packets.
THEOREM TypeCorrect == Spec => []TypeOK
<1>1. Inv => TypeOK
  BY DEF Inv
<1> QED BY <1>1, Invariance, PTL

\* What reaches the air is what Broadcast promises: announcement, audio by number,
\* END, of one push of the button (drain_tx_data_until, fhss_service_set_role).
THEOREM BroadcastRefinement == Spec => KeepsBroadcastOrder
<1>1. Init => Air!Init
  BY PacketFields DEF Init, Air!Init
<1>2. Inv /\ [Next]_vars => [Air!Next]_<< session, refused, air >>
  <2> SUFFICES ASSUME Inv, [Next]_vars PROVE [Air!Next]_<< session, refused, air >>
    OBVIOUS
  <2>1. QueueType /\ ControlType /\ FlagType
    BY TypeParts DEF Inv
  <2>2. CASE Begin
    <3>1. session' # session /\ air' = Nothing /\ refused' = refused
      BY <2>1, <2>2, ConstantsFit DEF Begin, ControlType
    <3> QED BY <3>1, PacketFields DEF Air!Next, Air!Begin
  <2>3. CASE ToTx \/ ToRx
    <3>1. refused' \in BOOLEAN /\ UNCHANGED << session, air >>
      BY <2>1, <2>3, SetRoleSteps DEF ToTx, ToRx
    <3> QED BY <3>1 DEF Air!Next, Air!RoleChange
  <2>4. CASE OnAir
    <3>1. task = "hand" /\ air' = hand /\ UNCHANGED << session, refused >> /\ role = "TX"
      BY <2>1, <2>4 DEF OnAir, besideService, adapterVars, Inv, CallInv, ControlType
    <3>2. ~refused => hand.session = session /\ Air!After(air, hand)
      BY <3>1 DEF Inv, OrderInv, Sending
    <3> QED BY <3>1, <3>2 DEF Air!Next, Air!Transmit
  <2>5. CASE ~Begin /\ ~ToTx /\ ~ToRx /\ ~OnAir
    <3>1. UNCHANGED << session, refused, air >>
      BY <2>5 DEF Next, Leave, CallStep, Announce, EndTx, SendEnd, WaitIdle,
                  CaptureStep, CaptureHead, CaptureNothing, CaptureFrame,
                  TaskStep, TaskHead, SendSync, DrainEnds, Take, PutBack, Sent,
                  besideCapture, besideService, adapterVars, serviceVars, history, vars
    <3> QED BY <3>1
  <2> QED BY <2>2, <2>3, <2>4, <2>5
<1>3. Spec => Air!Spec
  BY <1>1, <1>2, SpecSteps, Invariance, PTL DEF Air!Spec
<1> QED BY <1>3 DEF KeepsBroadcastOrder

\* The radio is never handed a packet that leaves one out, unless one did not fit
\* back into the queue or the radio is stuck (send_buffered_frames, drain_tx_data_until).
THEOREM GapSafety == Spec => NoGapOnAir
<1>1. Inv /\ [Next]_vars => [ task = "hand" /\ task' = "air" =>
                                Successor(air, air') \/ spilled \/ refused ]_vars
  <2> SUFFICES ASSUME Inv, Next, task = "hand", task' = "air", ~spilled, ~refused
               PROVE  Successor(air, air')
    OBVIOUS
  <2>1. ControlType
    BY TypeParts DEF Inv
  <2>2. OnAir
    BY <2>1 DEF Next, Begin, Leave, CallStep, ToTx, ToRx, SetRole, Announce, EndTx, SendEnd,
                WaitIdle, CaptureStep, CaptureHead, CaptureNothing, CaptureFrame,
                TaskStep, TaskHead, SendSync, DrainEnds, Take, PutBack, Sent,
                besideCapture, serviceVars
  <2>3. role = "TX" /\ air' = hand
    BY <2>1, <2>2 DEF OnAir, Inv, CallInv, ControlType
  <2> QED BY <2>3 DEF Inv, ChainInv, Sending
<1> QED BY <1>1, SpecSteps, Invariance, PTL DEF NoGapOnAir

\* end_tx that reports success has emptied the buffer and seen an END on air that
\* names the last packet (fhss_audio_adapter_end_tx, fhss_service_wait_tx_idle).
THEOREM EndTxSafety == Spec => EndTxTellsTheTruth
<1>1. Inv /\ [Next]_vars => [ call = "to_rx" /\ call' = "idle" /\ ok' =>
                                frames = 0 /\ (refused \/ (air.kind = "end" /\ air.n = seq)) ]_vars
  <2> SUFFICES ASSUME Inv, Next, call = "to_rx", call' = "idle", ok'
               PROVE  frames = 0 /\ (refused \/ (air.kind = "end" /\ air.n = seq))
    OBVIOUS
  <2>1. ToRx
    BY DEF Next, Begin, Leave, CallStep, ToTx, Announce, EndTx, SendEnd, WaitIdle,
           CaptureStep, CaptureHead, CaptureNothing, CaptureFrame,
           TaskStep, TaskHead, SendSync, DrainEnds, Take, PutBack, OnAir, Sent,
           besideCapture, besideService
  <2>2. ok /\ role = "TX"
    <3>1. PICK result \in Results : ok' = (ok /\ result = "ok")
      BY <2>1 DEF ToRx
    <3>2. ok
      BY <3>1, Zenon
    <3>3. role = "TX"
      BY DEF Inv, CallInv, Calling
    <3> QED BY <3>2, <3>3
  <2>3. frames = 0 /\ (refused \/ air.kind = "end")
    BY <2>2 DEF Inv, EndInv
  <2>4. refused \/ (air.kind = "end" => air.n = seq)
    BY <2>2 DEF Inv, DueInv, Due, Sending
  <2> QED BY <2>3, <2>4
<1> QED BY <1>1, SpecSteps, Invariance, PTL DEF EndTxTellsTheTruth
=============================================================================
