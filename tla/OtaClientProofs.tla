--------------------------- MODULE OtaClientProofs ---------------------------
(***************************************************************************)
(* What OtaClient keeps for every set of sessions, image sizes, batch and  *)
(* queue, with ota_client_abort() between any two steps of the consumer.   *)
(***************************************************************************)
EXTENDS OtaClient, TLAPS

\* A packet names a session and one of its chunks.
LEMMA PacketFields ==
  ASSUME NEW p \in Packets
  PROVE  p.session \in Sessions /\ p.seq \in Nat
BY OtaAssumption DEF Packets

\* A fresh batch cache has its type, and no slot is taken.
LEMMA PrepareType ==
  ASSUME NEW base \in Nat, NEW chunks \in Nat
  PROVE  /\ Prepare(base, chunks)
              \in [base : Nat, count : 0 .. BatchSize, slots : [0 .. BatchSize - 1 -> Content]]
         /\ Prepare(base, chunks).base = base
         /\ \A i \in 0 .. BatchSize - 1 : Prepare(base, chunks).slots[i] = Blank
         /\ base >= chunks => Prepare(base, chunks).count = 0
         /\ base < chunks  => Prepare(base, chunks).count # 0
BY OtaAssumption DEF Prepare, Content

\* The type is kept by every step of the radio and of the consumer before DATA
\* and END are worked on.
LEMMA TypeStepQueue ==
  ASSUME TypeOK,
         \/ \E p \in Packets : Submit(p)
         \/ Receive \/ ReceiveTimeout
         \/ \E sent \in BOOLEAN : Reply(sent)
  PROVE  TypeOK'
<1> USE OtaAssumption DEF TypeOK, At, client, consumer, device, history
<1>1. ASSUME NEW p \in Packets, Submit(p) PROVE TypeOK'
  BY <1>1 DEF Submit, HasRoom
<1>2. CASE Receive
  BY <1>2 DEF Receive
<1>3. CASE ReceiveTimeout
  BY <1>3 DEF ReceiveTimeout, Missing
<1>4. ASSUME NEW sent \in BOOLEAN, Reply(sent) PROVE TypeOK'
  <2>1. acked' \in SUBSET Nat
    BY <1>4, PacketFields DEF Reply, NoPacket
  <2> QED BY <1>4, <2>1 DEF Reply
<1> QED BY <1>1, <1>2, <1>3, <1>4

\* START answers or opens a session, and keeps the types.
LEMMA TypeStepStart ==
  ASSUME TypeOK, Start
  PROVE  TypeOK'
<1> USE OtaAssumption DEF TypeOK, Handling, At, Answer, Fail, client, consumer, device, history
<1>1. CASE RepeatedStart
  BY <1>1 DEF RepeatedStart
<1>2. CASE RefusedStart
  BY <1>2 DEF RefusedStart
<1>3. CASE FailedStart
  BY <1>3 DEF FailedStart
<1>4. CASE AcceptedStart
  <2>1. pkt \in Packets /\ pkt.session \in Sessions
    BY <1>4, PacketFields DEF AcceptedStart, NoPacket
  <2>2. Chunks[pkt.session] \in Nat
    BY <2>1
  <2>3. flash' \in [0 .. FlashSize - 1 -> Content]
    BY <1>4 DEF AcceptedStart, Content
  <2>4. cache' \in [base : Nat, count : 0 .. BatchSize, slots : [0 .. BatchSize - 1 -> Content]]
    BY <1>4, <2>2, PrepareType DEF AcceptedStart
  <2>5. writer' \in [active : BOOLEAN, size : Nat, written : Nat, hashing : BOOLEAN]
    BY <1>4, <2>2 DEF AcceptedStart
  <2>6. session' \in Sessions /\ { total', received', expected', batch' } \subseteq Nat
    BY <1>4, <2>1, <2>2 DEF AcceptedStart
  <2>7. acked' \in SUBSET Nat /\ UNCHANGED << boot, power, nacked, aborted, queue, abort >>
    BY <1>4, Zenon DEF AcceptedStart
  <2>8. state' = "RECEIVING" /\ pc' = "reply" /\ answer' = "ACK" /\ UNCHANGED << pkt, batch >>
    BY <1>4 DEF AcceptedStart
  <2> QED BY <2>3, <2>4, <2>5, <2>6, <2>7, <2>8
<1> QED BY <1>1, <1>2, <1>3, <1>4 DEF Start

\* DATA, from the look at the packet to the progress report, keeps the types.
LEMMA TypeStepData ==
  ASSUME TypeOK, Data
  PROVE  TypeOK'
<1> USE OtaAssumption DEF TypeOK, Handling, At, Answer, Fail, GoTo, client, consumer, device, history
<1>1. CASE RefusedData
  BY <1>1 DEF RefusedData
<1>2. CASE RepeatedData
  BY <1>2 DEF RepeatedData
<1>3. CASE StoreData
  <2>1. pkt \in Packets /\ pkt.session \in Sessions /\ pkt.seq \in Nat
    BY <1>3, PacketFields DEF StoreData, NoPacket
  <2>2. << pkt.session, pkt.seq >> \in Content
    BY <2>1 DEF Content
  <2>3. cache' \in [base : Nat, count : 0 .. BatchSize, slots : [0 .. BatchSize - 1 -> Content]]
    BY <1>3, <2>2 DEF StoreData
  <2>4. pc' \in { "commit", "reply" } /\ answer' \in { "none", "ACK", "NACK" } /\ UNCHANGED << pkt, batch >>
    BY <1>3 DEF StoreData
  <2> QED BY <1>3, <2>3, <2>4 DEF StoreData
<1>4. CASE CommitBatch
  <2>1. cache.count \in 0 .. BatchSize /\ writer.written \in Nat
    OBVIOUS
  <2>2. flash' \in [0 .. FlashSize - 1 -> Content]
    <3>1. ASSUME NEW p \in 0 .. FlashSize - 1,
                 writer.written <= p, p < writer.written + cache.count
          PROVE  cache.slots[p - writer.written] \in Content
      <4>1. p - writer.written \in 0 .. BatchSize - 1
        BY <2>1, <3>1
      <4>2. cache.slots \in [0 .. BatchSize - 1 -> Content]
        OBVIOUS
      <4> QED BY <4>1, <4>2
    <3>2. flash \in [0 .. FlashSize - 1 -> Content] /\ DOMAIN flash = 0 .. FlashSize - 1
      OBVIOUS
    <3>3. flash' = [p \in 0 .. FlashSize - 1 |->
                      IF writer.written <= p /\ p < writer.written + cache.count
                      THEN cache.slots[p - writer.written] ELSE flash[p]]
      BY <1>4, <3>2 DEF CommitBatch, Written
    <3> HIDE DEF TypeOK
    <3> QED BY <3>1, <3>2, <3>3
  <2>3. writer' \in [active : BOOLEAN, size : Nat, written : Nat, hashing : BOOLEAN]
    <3>1. writer \in [active : BOOLEAN, size : Nat, written : Nat, hashing : BOOLEAN]
      OBVIOUS
    <3>2. writer' = [writer EXCEPT !.written = writer.written + cache.count]
      BY <1>4 DEF CommitBatch
    <3>3. writer.written + cache.count \in Nat
      BY <2>1
    <3> HIDE DEF TypeOK
    <3> QED BY <3>1, <3>2, <3>3
  <2>4. batch' \in Nat /\ pc' = "book"
        /\ UNCHANGED << state, session, total, received, expected, cache, pkt, answer, boot, power,
                        acked, nacked, aborted, queue, abort >>
    BY <1>4, <2>1 DEF CommitBatch
  <2> QED BY <2>2, <2>3, <2>4
<1>5. CASE FailedCommit
  BY <1>5 DEF FailedCommit, WriterAborted, IdleWriter
<1>6. CASE BookBatch
  <2>1. cache.count \in Nat /\ NextExpected \in Nat
    BY DEF NextExpected
  <2>2. cache' \in [base : Nat, count : 0 .. BatchSize, slots : [0 .. BatchSize - 1 -> Content]]
    BY <1>6, <2>1, PrepareType DEF BookBatch
  <2>3. power' \in { "on", "updated", "panic" }
    BY <1>6 DEF BookBatch
  <2>4. received' \in Nat /\ expected' \in Nat /\ batch' \in Nat
    BY <1>6, <2>1 DEF BookBatch
  <2>5. pc' = "reply" /\ answer' = "ACK"
        /\ UNCHANGED << state, session, total, writer, pkt, flash, boot, acked, nacked, aborted, queue, abort >>
    BY <1>6 DEF BookBatch
  <2> QED BY <2>2, <2>3, <2>4, <2>5
<1> QED BY <1>1, <1>2, <1>3, <1>4, <1>5, <1>6 DEF Data

\* END, from the look at the packet to the restart, keeps the types.
LEMMA TypeStepEnd ==
  ASSUME TypeOK, End
  PROVE  TypeOK'
<1> USE OtaAssumption DEF TypeOK, Handling, At, Answer, Fail, GoTo, client, consumer, device, history
<1>1. CASE RepeatedEnd
  BY <1>1 DEF RepeatedEnd
<1>2. CASE RefusedEnd
  BY <1>2 DEF RefusedEnd
<1>3. CASE BeginVerify
  BY <1>3 DEF BeginVerify
<1>4. CASE EndWriter
  BY <1>4 DEF EndWriter
<1>5. CASE FailedEnd
  <2>1. writer' \in [active : BOOLEAN, size : Nat, written : Nat, hashing : BOOLEAN]
    BY <1>5 DEF FailedEnd
  <2> QED BY <1>5, <2>1 DEF FailedEnd
<1>6. CASE SelectImage
  BY <1>6 DEF SelectImage
<1>7. CASE FailedVerify
  BY <1>7 DEF FailedVerify
<1>8. CASE AcceptImage
  BY <1>8 DEF AcceptImage
<1> QED BY <1>1, <1>2, <1>3, <1>4, <1>5, <1>6, <1>7, <1>8 DEF End

\* The steps of ota_client_abort() keep the types.
LEMMA TypeStepAbort ==
  ASSUME TypeOK, Abort
  PROVE  TypeOK'
<1> USE OtaAssumption DEF TypeOK, client, consumer, device, history
<1>1. CASE AbortBegin
  <2>1. aborted' \in SUBSET Sessions
    BY <1>1 DEF AbortBegin
  <2> QED BY <1>1, <2>1 DEF AbortBegin
<1>2. CASE AbortWriter
  BY <1>2 DEF AbortWriter, WriterAborted, IdleWriter
<1>3. CASE AbortReset
  <2>1. cache' \in [base : Nat, count : 0 .. BatchSize, slots : [0 .. BatchSize - 1 -> Content]]
    BY <1>3, PrepareType DEF AbortReset
  <2>2. queue' \in Seq(Packets) /\ Len(queue') <= QueueDepth
    BY <1>3 DEF AbortReset
  <2> QED BY <1>3, <2>1, <2>2 DEF AbortReset, IdleWriter
<1>4. CASE AbortEnd
  BY <1>4 DEF AbortEnd
<1> QED BY <1>1, <1>2, <1>3, <1>4 DEF Abort

\* Every step keeps the types.
LEMMA TypeStep ==
  ASSUME TypeOK, [Next]_vars
  PROVE  TypeOK'
<1>1. CASE UNCHANGED vars
  BY <1>1 DEF TypeOK, vars, client, consumer, device, history
<1>2. CASE Restarted
  BY <1>2, <1>1 DEF Restarted
<1> QED
  BY <1>1, <1>2, TypeStepQueue, TypeStepStart, TypeStepData, TypeStepEnd, TypeStepAbort
  DEF Next, Undisturbed, Consume

\* The client starts with every variable in its type.
LEMMA TypeInit == Init => TypeOK
<1> SUFFICES ASSUME Init PROVE TypeOK
  OBVIOUS
<1>1. cache \in [base : Nat, count : 0 .. BatchSize, slots : [0 .. BatchSize - 1 -> Content]]
  BY PrepareType DEF Init
<1>2. flash \in [0 .. FlashSize - 1 -> Content]
  BY DEF Init, Content
<1>3. writer \in [active : BOOLEAN, size : Nat, written : Nat, hashing : BOOLEAN]
  BY DEF Init, IdleWriter
<1>4. queue \in Seq(Packets) /\ Len(queue) <= QueueDepth
  BY OtaAssumption DEF Init
<1> QED BY <1>1, <1>2, <1>3, <1>4 DEF Init, TypeOK

\* Every variable of ota_client keeps its type.
THEOREM TypeCorrect == Spec => []TypeOK
<1>1. Init => TypeOK
  BY TypeInit
<1>2. TypeOK /\ [Next]_vars => TypeOK'
  BY TypeStep
<1> QED BY <1>1, <1>2, PTL DEF Spec

-----------------------------------------------------------------------------
(* The inductive invariant, in named parts.                                *)

\* The cache starts at expected_sequence; without a session it is empty.
BooksAgree ==
  /\ cache.base = expected
  /\ session = NoSession => total = 0 /\ cache.count = 0

\* START finds the writer closed: the state is IDLE only outside of abort().
IdleIsClosed ==
  /\ state = "IDLE" => ~ writer.active
  /\ abort # "idle" => state # "IDLE"
  /\ abort = "idle_next" => ~ writer.active

\* The consumer has a packet from the moment it takes one.
PacketAtHand ==
  /\ pc # "receive" => pkt \in Packets /\ nacked = {}
  /\ pc \in { "finish", "verify", "accept" } => pkt.type = "END"

\* The writer belongs to the session and is as far as the cache says.
WriterFollows ==
  writer.active =>
    /\ session \in Sessions
    /\ total = Chunks[session]
    /\ writer.size = total
    /\ writer.written <= total
    /\ writer.written = IF pc = "book" THEN cache.base + cache.count ELSE cache.base
    /\ \A p \in 0 .. FlashSize - 1 : p < writer.written => flash[p] = << session, p >>

\* A slot holds the chunk its place stands for.
SlotsInPlace ==
  session # NoSession =>
    \A i \in 0 .. BatchSize - 1 :
      cache.slots[i] = Blank \/ cache.slots[i] = << session, cache.base + i >>

\* A chunk is kept by its batch having been committed, or by its slot.
Kept(q) ==
  \/ q < cache.base
  \/ q - cache.base < cache.count /\ cache.slots[q - cache.base] = << session, q >>

\* The consumer is about to acknowledge the DATA packet it handles.
AckIsDue == pc \in { "commit", "book" } \/ (pc = "reply" /\ answer = "ACK" /\ pkt.type = "DATA")

AcksAreKept ==
  session # NoSession =>
    /\ \A q \in acked : Kept(q)
    /\ AckIsDue => Kept(pkt.seq)

\* A session that waits for DATA has a slot to fill.
GapIsOpen ==
  writer.active /\ pc \notin { "commit", "book" } /\ expected < total => Missing(cache) # {}

IInv ==
  /\ TypeOK
  /\ BooksAgree /\ IdleIsClosed /\ PacketAtHand
  /\ WriterFollows /\ SlotsInPlace
  /\ AcksAreKept /\ GapIsOpen
  /\ nacked \cap acked = {}

\* The cache follows expected_sequence, and is empty without a session.
LEMMA BooksStep ==
  ASSUME TypeOK, BooksAgree, [Next]_vars
  PROVE  BooksAgree'
<1> USE DEF BooksAgree, At, Handling, Answer, Fail, GoTo, client, consumer, device, history
<1>1. CASE UNCHANGED vars \/ Restarted
  BY <1>1 DEF vars, Restarted
<1>2. ASSUME NEW p \in Packets, Submit(p) PROVE BooksAgree'
  BY <1>2 DEF Submit
<1>3. ASSUME NEW sent \in BOOLEAN, Reply(sent) PROVE BooksAgree'
  BY <1>3 DEF Reply
<1>4. CASE Receive \/ ReceiveTimeout
  BY <1>4 DEF Receive, ReceiveTimeout
<1>5. CASE RepeatedStart \/ RefusedStart \/ FailedStart
  BY <1>5 DEF RepeatedStart, StartIsRepeated, RefusedStart, FailedStart, MayStart
<1>6. CASE AcceptedStart
  <2>1. pkt \in Packets /\ pkt.session \in Sessions
    BY <1>6, PacketFields DEF AcceptedStart, TypeOK, NoPacket
  <2>2. Chunks[pkt.session] \in Nat /\ pkt.session # NoSession
    BY <2>1, OtaAssumption
  <2> QED BY <1>6, <2>2, PrepareType DEF AcceptedStart
<1>7. CASE RefusedData \/ RepeatedData
  BY <1>7 DEF RefusedData, RepeatedData
<1>8. CASE StoreData
  BY <1>8 DEF StoreData
<1>9. CASE CommitBatch
  BY <1>9 DEF CommitBatch
<1>10. CASE FailedCommit
  BY <1>10 DEF FailedCommit, WriterAborted, IdleWriter
<1>11. CASE BookBatch
  <2>1. expected \in Nat /\ cache.count \in Nat /\ total \in Nat /\ expected + cache.count \in Nat
    BY OtaAssumption DEF TypeOK
  <2>2. cache' = Prepare(expected + cache.count, total) /\ expected' = expected + cache.count
    BY <1>11 DEF BookBatch, NextExpected
  <2>3. cache'.base = expected'
    BY <2>1, <2>2, PrepareType
  <2>4. session' = session /\ total' = total
    BY <1>11 DEF BookBatch
  <2>5. ASSUME session = NoSession PROVE cache'.count = 0
    <3>1. total = 0
      BY <2>5
    <3>2. expected + cache.count >= total
      BY <3>1, <2>1
    <3> QED BY <3>2, <2>1, <2>2, PrepareType
  <2> QED BY <2>3, <2>4, <2>5
<1>12. CASE RepeatedEnd \/ RefusedEnd \/ BeginVerify
  BY <1>12 DEF RepeatedEnd, RefusedEnd, BeginVerify, EndIsDue
<1>13. CASE EndWriter \/ FailedEnd
  BY <1>13 DEF EndWriter, FailedEnd
<1>14. CASE SelectImage \/ FailedVerify \/ AcceptImage
  BY <1>14 DEF SelectImage, FailedVerify, AcceptImage
<1>15. CASE AbortBegin \/ AbortEnd
  BY <1>15 DEF AbortBegin, AbortEnd
<1>16. CASE AbortWriter
  BY <1>16 DEF AbortWriter, WriterAborted, IdleWriter
<1>17. CASE AbortReset
  BY <1>17, PrepareType DEF AbortReset
<1> QED
  BY <1>1, <1>2, <1>3, <1>4, <1>5, <1>6, <1>7, <1>8, <1>9, <1>10, <1>11, <1>12, <1>13, <1>14, <1>15, <1>16, <1>17
  DEF Next, Undisturbed, Consume, Start, Data, End, Abort

\* IDLE is entered with the writer closed and left by START alone.
LEMMA IdleStep ==
  ASSUME TypeOK, IdleIsClosed, [Next]_vars
  PROVE  IdleIsClosed'
<1> USE DEF IdleIsClosed, At, Handling, Answer, Fail, GoTo, client, consumer, device, history
<1>1. CASE UNCHANGED vars \/ Restarted
  BY <1>1 DEF vars, Restarted
<1>2. ASSUME NEW p \in Packets, Submit(p) PROVE IdleIsClosed'
  BY <1>2 DEF Submit
<1>3. ASSUME NEW sent \in BOOLEAN, Reply(sent) PROVE IdleIsClosed'
  BY <1>3 DEF Reply
<1>4. CASE Receive \/ ReceiveTimeout
  BY <1>4 DEF Receive, ReceiveTimeout
<1>5. CASE RepeatedStart \/ RefusedStart \/ FailedStart
  BY <1>5 DEF RepeatedStart, StartIsRepeated, RefusedStart, FailedStart, MayStart
<1>6. CASE AcceptedStart
  BY <1>6 DEF AcceptedStart, MayStart
<1>7. CASE RefusedData \/ RepeatedData
  BY <1>7 DEF RefusedData, RepeatedData
<1>8. CASE StoreData
  BY <1>8 DEF StoreData
<1>9. CASE CommitBatch
  BY <1>9 DEF CommitBatch
<1>10. CASE FailedCommit
  BY <1>10 DEF FailedCommit, WriterAborted, IdleWriter
<1>11. CASE BookBatch
  BY <1>11 DEF BookBatch, NextExpected
<1>12. CASE RepeatedEnd \/ RefusedEnd \/ BeginVerify
  BY <1>12 DEF RepeatedEnd, RefusedEnd, BeginVerify, EndIsDue
<1>13. CASE EndWriter \/ FailedEnd
  BY <1>13 DEF EndWriter, FailedEnd
<1>14. CASE AcceptImage
  BY <1>14 DEF AcceptImage
<1>15. CASE SelectImage
  BY <1>15 DEF SelectImage, TypeOK
<1>16. CASE FailedVerify
  BY <1>16 DEF FailedVerify, TypeOK
<1>17. CASE AbortBegin \/ AbortEnd
  BY <1>17 DEF AbortBegin, AbortEnd
<1>18. CASE AbortWriter
  BY <1>18 DEF AbortWriter, WriterAborted, IdleWriter
<1>19. CASE AbortReset
  BY <1>19 DEF AbortReset, IdleWriter
<1> QED
  BY <1>1, <1>2, <1>3, <1>4, <1>5, <1>6, <1>7, <1>8, <1>9, <1>10, <1>11, <1>12, <1>13, <1>14, <1>15, <1>16, <1>17, <1>18, <1>19
  DEF Next, Undisturbed, Consume, Start, Data, End, Abort

\* The consumer keeps the packet it took until it has answered.
LEMMA PacketStep ==
  ASSUME TypeOK, PacketAtHand, [Next]_vars
  PROVE  PacketAtHand'
<1> USE DEF PacketAtHand, At, Handling, Answer, Fail, GoTo, client, consumer, device, history
<1>1. CASE UNCHANGED vars \/ Restarted
  BY <1>1 DEF vars, Restarted
<1>2. ASSUME NEW p \in Packets, Submit(p) PROVE PacketAtHand'
  BY <1>2 DEF Submit
<1>3. ASSUME NEW sent \in BOOLEAN, Reply(sent) PROVE PacketAtHand'
  BY <1>3 DEF Reply
<1>4. CASE ReceiveTimeout
  BY <1>4 DEF ReceiveTimeout
<1>5. CASE Receive
  BY <1>5 DEF Receive, TypeOK
<1>6. CASE RepeatedStart \/ RefusedStart \/ FailedStart
  BY <1>6 DEF RepeatedStart, StartIsRepeated, RefusedStart, FailedStart, MayStart
<1>7. CASE AcceptedStart
  BY <1>7 DEF AcceptedStart, MayStart
<1>8. CASE RefusedData \/ RepeatedData
  BY <1>8 DEF RefusedData, RepeatedData
<1>9. CASE StoreData
  BY <1>9 DEF StoreData
<1>10. CASE CommitBatch
  BY <1>10 DEF CommitBatch
<1>11. CASE FailedCommit
  BY <1>11 DEF FailedCommit, WriterAborted, IdleWriter
<1>12. CASE BookBatch
  BY <1>12 DEF BookBatch, NextExpected
<1>13. CASE RepeatedEnd \/ RefusedEnd \/ BeginVerify
  BY <1>13 DEF RepeatedEnd, RefusedEnd, BeginVerify, EndIsDue
<1>14. CASE EndWriter \/ FailedEnd
  BY <1>14 DEF EndWriter, FailedEnd
<1>15. CASE SelectImage \/ FailedVerify \/ AcceptImage
  BY <1>15 DEF SelectImage, FailedVerify, AcceptImage
<1>16. CASE AbortBegin \/ AbortEnd
  BY <1>16 DEF AbortBegin, AbortEnd
<1>17. CASE AbortWriter
  BY <1>17 DEF AbortWriter, WriterAborted, IdleWriter
<1>18. CASE AbortReset
  BY <1>18 DEF AbortReset, IdleWriter
<1> QED
  BY <1>1, <1>2, <1>3, <1>4, <1>5, <1>6, <1>7, <1>8, <1>9, <1>10, <1>11, <1>12, <1>13, <1>14, <1>15, <1>16, <1>17, <1>18
  DEF Next, Undisturbed, Consume, Start, Data, End, Abort

\* What is written follows the cache, and lies in place.
LEMMA WriterStep ==
  ASSUME TypeOK, BooksAgree, SlotsInPlace, WriterFollows, [Next]_vars
  PROVE  WriterFollows'
<1> USE DEF WriterFollows, At, Handling, Answer, Fail, GoTo, client, consumer, device, history
<1>1. CASE UNCHANGED vars \/ Restarted
  BY <1>1 DEF vars, Restarted
<1>2. ASSUME NEW p \in Packets, Submit(p) PROVE WriterFollows'
  BY <1>2 DEF Submit
<1>3. ASSUME NEW sent \in BOOLEAN, Reply(sent) PROVE WriterFollows'
  BY <1>3 DEF Reply
<1>4. CASE Receive \/ ReceiveTimeout
  BY <1>4 DEF Receive, ReceiveTimeout
<1>5. CASE RepeatedStart \/ RefusedStart \/ FailedStart
  BY <1>5 DEF RepeatedStart, StartIsRepeated, RefusedStart, FailedStart, MayStart
<1>6. CASE AcceptedStart
  <2>1. pkt \in Packets /\ pkt.session \in Sessions
    BY <1>6, PacketFields DEF AcceptedStart, TypeOK, NoPacket
  <2>2. Chunks[pkt.session] \in Nat /\ pkt.session # NoSession
    BY <2>1, OtaAssumption
  <2>3. /\ session' = pkt.session /\ total' = Chunks[pkt.session] /\ pc' = "reply"
        /\ writer' = [active |-> TRUE, size |-> Chunks[pkt.session], written |-> 0, hashing |-> TRUE]
        /\ cache'.base = 0
    BY <1>6, <2>2, PrepareType DEF AcceptedStart
  <2> QED BY <2>1, <2>2, <2>3
<1>7. CASE RefusedData \/ RepeatedData
  BY <1>7 DEF RefusedData, RepeatedData
<1>8. CASE StoreData
  <2>1. cache'.base = cache.base /\ cache'.count = cache.count
    BY <1>8 DEF StoreData, TypeOK
  <2>2. pc = "handle" /\ pc' # "book" /\ UNCHANGED << session, total, writer, flash >>
    BY <1>8 DEF StoreData
  <2> QED BY <2>1, <2>2
<1>9. CASE CommitBatch
  <2>1. /\ pc = "commit" /\ pc' = "book" /\ writer.active
        /\ Missing(cache) = {} /\ writer.written + cache.count <= writer.size
        /\ UNCHANGED << session, total, cache >>
    BY <1>9 DEF CommitBatch, Writable, Complete
  <2>2. cache.base \in Nat /\ cache.count \in 0 .. BatchSize /\ writer.written \in Nat /\ FlashSize \in Nat
    BY OtaAssumption DEF TypeOK
  <2>3. writer'.active /\ writer'.size = writer.size /\ writer'.written = writer.written + cache.count
    <3>1. writer \in [active : BOOLEAN, size : Nat, written : Nat, hashing : BOOLEAN]
      BY DEF TypeOK
    <3>2. writer' = [writer EXCEPT !.written = writer.written + cache.count] /\ writer.active
      BY <1>9, <2>1 DEF CommitBatch
    <3> HIDE DEF WriterFollows
    <3> QED BY <3>1, <3>2
  <2>4. ASSUME NEW p \in 0 .. FlashSize - 1, p < writer'.written
        PROVE  flash'[p] = << session, p >>
    <3>1. flash' = [q \in 0 .. FlashSize - 1 |->
                      IF writer.written <= q /\ q < writer.written + cache.count
                      THEN cache.slots[q - writer.written] ELSE flash[q]]
      BY <1>9 DEF CommitBatch, Written, TypeOK
    <3>2. CASE p < writer.written
      BY <3>1, <3>2, <2>1, <2>2
    <3>3. CASE ~ (p < writer.written)
      <4> DEFINE i == p - cache.base
      <4>1. i \in 0 .. BatchSize - 1 /\ i < cache.count /\ writer.written = cache.base /\ cache.base + i = p
        <5>1. writer.written = cache.base
          BY <2>1
        <5> HIDE DEF WriterFollows
        <5>2. p \in Nat
          BY <2>2
        <5> QED BY <5>1, <5>2, <3>3, <2>2, <2>3, <2>4, OtaAssumption
      <4>2. cache.slots[i] # Blank
        BY <4>1, <2>1 DEF Missing
      <4>3. session # NoSession
        BY <2>1, OtaAssumption
      <4>4. cache.slots[i] = << session, cache.base + i >>
        BY <4>1, <4>2, <4>3 DEF SlotsInPlace
      <4>5. flash'[p] = cache.slots[i]
        BY <3>1, <4>1, <2>2, <3>3
      <4> QED BY <4>1, <4>4, <4>5
    <3> QED BY <3>2, <3>3
  <2> QED BY <2>1, <2>2, <2>3, <2>4
<1>10. CASE FailedCommit
  BY <1>10 DEF FailedCommit, WriterAborted, IdleWriter
<1>11. CASE BookBatch
  <2>1. expected \in Nat /\ cache.count \in Nat /\ total \in Nat /\ expected + cache.count \in Nat
    BY OtaAssumption DEF TypeOK
  <2>2. cache'.base = expected + cache.count
    BY <1>11, <2>1, PrepareType DEF BookBatch, NextExpected
  <2>3. pc = "book" /\ pc' = "reply" /\ UNCHANGED << session, total, writer, flash >>
    BY <1>11 DEF BookBatch
  <2> QED BY <2>1, <2>2, <2>3 DEF BooksAgree
<1>12. CASE RepeatedEnd \/ RefusedEnd \/ BeginVerify
  BY <1>12 DEF RepeatedEnd, RefusedEnd, BeginVerify, EndIsDue
<1>13. CASE EndWriter
  BY <1>13 DEF EndWriter, TypeOK
<1>14. CASE FailedEnd
  <2>1. writer' = writer \/ ~ writer'.active
    BY <1>14 DEF FailedEnd, TypeOK
  <2> QED BY <1>14, <2>1 DEF FailedEnd
<1>15. CASE AcceptImage
  BY <1>15 DEF AcceptImage
<1>16. CASE SelectImage
  <2>1. /\ writer'.active = writer.active /\ writer'.size = writer.size /\ writer'.written = writer.written
        /\ pc # "book" /\ pc' # "book" /\ UNCHANGED << session, total, cache, flash >>
    BY <1>16 DEF SelectImage, TypeOK
  <2> QED BY <2>1
<1>17. CASE FailedVerify
  <2>1. /\ writer'.active = writer.active /\ writer'.size = writer.size /\ writer'.written = writer.written
        /\ pc # "book" /\ pc' # "book" /\ UNCHANGED << session, total, cache, flash >>
    BY <1>17 DEF FailedVerify, TypeOK
  <2> QED BY <2>1
<1>18. CASE AbortBegin \/ AbortEnd
  BY <1>18 DEF AbortBegin, AbortEnd
<1>19. CASE AbortWriter
  BY <1>19 DEF AbortWriter, WriterAborted, IdleWriter
<1>20. CASE AbortReset
  BY <1>20 DEF AbortReset, IdleWriter
<1> QED
  BY <1>1, <1>2, <1>3, <1>4, <1>5, <1>6, <1>7, <1>8, <1>9, <1>10, <1>11, <1>12, <1>13, <1>14, <1>15, <1>16, <1>17, <1>18, <1>19, <1>20
  DEF Next, Undisturbed, Consume, Start, Data, End, Abort

\* A slot is blank or holds the chunk of its place.
LEMMA SlotsStep ==
  ASSUME TypeOK, SlotsInPlace, [Next]_vars
  PROVE  SlotsInPlace'
<1> USE DEF SlotsInPlace, At, Handling, Answer, Fail, GoTo, client, consumer, device, history
<1>1. CASE UNCHANGED vars \/ Restarted
  BY <1>1 DEF vars, Restarted
<1>2. ASSUME NEW p \in Packets, Submit(p) PROVE SlotsInPlace'
  BY <1>2 DEF Submit
<1>3. ASSUME NEW sent \in BOOLEAN, Reply(sent) PROVE SlotsInPlace'
  BY <1>3 DEF Reply
<1>4. CASE Receive \/ ReceiveTimeout
  BY <1>4 DEF Receive, ReceiveTimeout
<1>5. CASE RepeatedStart \/ RefusedStart \/ FailedStart
  BY <1>5 DEF RepeatedStart, StartIsRepeated, RefusedStart, FailedStart, MayStart
<1>6. CASE AcceptedStart
  <2>1. pkt \in Packets /\ pkt.session \in Sessions
    BY <1>6, PacketFields DEF AcceptedStart, TypeOK, NoPacket
  <2>2. Chunks[pkt.session] \in Nat /\ pkt.session # NoSession
    BY <2>1, OtaAssumption
  <2>3. \A i \in 0 .. BatchSize - 1 : cache'.slots[i] = Blank
    <3>1. cache' = Prepare(0, Chunks[pkt.session])
      BY <1>6 DEF AcceptedStart
    <3> HIDE DEF SlotsInPlace
    <3> QED BY <2>2, <3>1, PrepareType
  <2> QED BY <2>3
<1>7. CASE RefusedData \/ RepeatedData
  BY <1>7 DEF RefusedData, RepeatedData
<1>8. CASE StoreData
  <2>1. /\ pkt.session = session /\ pkt.session \in Sessions /\ pkt.seq \in Nat /\ session # NoSession
        /\ UNCHANGED << session, acked >>
    BY <1>8, PacketFields, OtaAssumption DEF StoreData, DataIsForUs, TypeOK, NoPacket
  <2>2. /\ cache.base \in Nat /\ cache.base <= pkt.seq /\ pkt.seq - cache.base < cache.count
        /\ cache.count \in 0 .. BatchSize /\ cache.slots[pkt.seq - cache.base] = Blank
        /\ pkt.seq - cache.base \in 0 .. BatchSize - 1
    <3>1. cache.base \in Nat /\ cache.count \in 0 .. BatchSize /\ BatchSize \in Nat
      BY OtaAssumption DEF TypeOK
    <3>2. /\ cache.base <= pkt.seq /\ pkt.seq - cache.base < cache.count
          /\ cache.slots[pkt.seq - cache.base] = Blank
      BY <1>8 DEF StoreData, Storable
    <3> QED BY <2>1, <3>1, <3>2
  <2>3. /\ cache'.base = cache.base /\ cache'.count = cache.count
        /\ cache'.slots = [cache.slots EXCEPT ![pkt.seq - cache.base] = << session, pkt.seq >>]
        /\ DOMAIN cache.slots = 0 .. BatchSize - 1
    BY <1>8, <2>1 DEF StoreData, TypeOK
  <2>4. ASSUME NEW i \in 0 .. BatchSize - 1
        PROVE  cache'.slots[i] = Blank \/ cache'.slots[i] = << session, cache.base + i >>
    <3>1. CASE i = pkt.seq - cache.base
      <4>1. cache.base + i = pkt.seq
        BY <3>1, <2>1, <2>2
      <4> QED BY <3>1, <4>1, <2>2, <2>3
    <3>2. CASE i # pkt.seq - cache.base
      BY <3>2, <2>1, <2>2, <2>3
    <3> QED BY <3>1, <3>2
  <2> QED BY <2>1, <2>3, <2>4
<1>9. CASE CommitBatch
  BY <1>9 DEF CommitBatch
<1>10. CASE FailedCommit
  BY <1>10 DEF FailedCommit, WriterAborted, IdleWriter
<1>11. CASE BookBatch
  <2>1. expected \in Nat /\ cache.count \in Nat /\ total \in Nat /\ expected + cache.count \in Nat
    BY OtaAssumption DEF TypeOK
  <2>2. \A i \in 0 .. BatchSize - 1 : cache'.slots[i] = Blank
    <3>1. cache' = Prepare(expected + cache.count, total)
      BY <1>11 DEF BookBatch, NextExpected
    <3>2. \A i \in 0 .. BatchSize - 1 : Prepare(expected + cache.count, total).slots[i] = Blank
      BY <2>1, PrepareType
    <3> QED BY <3>1, <3>2
  <2> QED BY <2>2
<1>12. CASE RepeatedEnd \/ RefusedEnd \/ BeginVerify
  BY <1>12 DEF RepeatedEnd, RefusedEnd, BeginVerify, EndIsDue
<1>13. CASE EndWriter \/ FailedEnd
  BY <1>13 DEF EndWriter, FailedEnd
<1>14. CASE SelectImage \/ FailedVerify \/ AcceptImage
  BY <1>14 DEF SelectImage, FailedVerify, AcceptImage
<1>15. CASE AbortBegin \/ AbortEnd
  BY <1>15 DEF AbortBegin, AbortEnd
<1>16. CASE AbortWriter
  BY <1>16 DEF AbortWriter, WriterAborted, IdleWriter
<1>17. CASE AbortReset
  BY <1>17 DEF AbortReset
<1> QED
  BY <1>1, <1>2, <1>3, <1>4, <1>5, <1>6, <1>7, <1>8, <1>9, <1>10, <1>11, <1>12, <1>13, <1>14, <1>15, <1>16, <1>17
  DEF Next, Undisturbed, Consume, Start, Data, End, Abort

\* An acknowledged chunk stays in the cache until its batch is committed.
LEMMA AcksStep ==
  ASSUME TypeOK, BooksAgree, SlotsInPlace, PacketAtHand, AcksAreKept, [Next]_vars
  PROVE  AcksAreKept'
<1> USE DEF AcksAreKept, AckIsDue, Kept, At, Handling, Answer, Fail, GoTo, client, consumer, device, history
<1>1. CASE UNCHANGED vars \/ Restarted
  BY <1>1 DEF vars, Restarted
<1>2. ASSUME NEW p \in Packets, Submit(p) PROVE AcksAreKept'
  BY <1>2 DEF Submit
<1>3. ASSUME NEW sent \in BOOLEAN, Reply(sent) PROVE AcksAreKept'
  <2>1. UNCHANGED << session, cache >> /\ pc = "reply" /\ pc' = "receive"
    BY <1>3 DEF Reply
  <2>2. acked' = acked \/ (acked' = acked \cup { pkt.seq } /\ AckIsDue)
    BY <1>3 DEF Reply
  <2> QED BY <2>1, <2>2
<1>4. CASE Receive \/ ReceiveTimeout
  BY <1>4 DEF Receive, ReceiveTimeout
<1>5. CASE RepeatedStart \/ RefusedStart \/ FailedStart
  BY <1>5 DEF RepeatedStart, StartIsRepeated, RefusedStart, FailedStart, MayStart
<1>6. CASE AcceptedStart
  <2>1. acked' = {} /\ pc' = "reply" /\ pkt' = pkt /\ pkt.type = "START"
    BY <1>6 DEF AcceptedStart
  <2> QED BY <2>1
<1>7. CASE RefusedData
  <2>1. UNCHANGED << session, cache, acked, pkt >> /\ pc' = "reply" /\ answer' = "NACK"
    BY <1>7 DEF RefusedData
  <2> QED BY <2>1
<1>8. CASE RepeatedData
  <2>1. /\ UNCHANGED << session, cache, acked, pkt >> /\ pkt.session = session
        /\ pkt.session \in Sessions /\ pkt.seq \in Nat
    BY <1>8, PacketFields DEF RepeatedData, DataIsForUs, TypeOK, NoPacket
  <2>2. cache.base \in Nat /\ cache.base = expected /\ cache.count \in 0 .. BatchSize
    BY DEF TypeOK, BooksAgree
  <2>3. Kept(pkt.seq)
    <3>1. CASE pkt.seq < expected
      BY <3>1, <2>2
    <3>2. CASE /\ cache.base <= pkt.seq /\ pkt.seq - cache.base < cache.count
               /\ cache.slots[pkt.seq - cache.base] # Blank
      <4>1. pkt.seq - cache.base \in 0 .. BatchSize - 1 /\ cache.base + (pkt.seq - cache.base) = pkt.seq
        BY <3>2, <2>1, <2>2, OtaAssumption
      <4>2. session # NoSession
        BY <2>1, OtaAssumption
      <4> QED BY <3>2, <4>1, <4>2 DEF SlotsInPlace
    <3> QED BY <1>8, <3>1, <3>2 DEF RepeatedData, AlreadyStored
  <2> QED BY <2>1, <2>3
<1>9. CASE StoreData
  <2>1. /\ pkt.session = session /\ pkt.session \in Sessions /\ pkt.seq \in Nat /\ session # NoSession
        /\ UNCHANGED << session, acked >>
    BY <1>9, PacketFields, OtaAssumption DEF StoreData, DataIsForUs, TypeOK, NoPacket
  <2>2. /\ cache.base \in Nat /\ cache.base <= pkt.seq /\ pkt.seq - cache.base < cache.count
        /\ cache.count \in 0 .. BatchSize /\ cache.slots[pkt.seq - cache.base] = Blank
        /\ pkt.seq - cache.base \in 0 .. BatchSize - 1
    <3>1. cache.base \in Nat /\ cache.count \in 0 .. BatchSize /\ BatchSize \in Nat
      BY OtaAssumption DEF TypeOK
    <3>2. /\ cache.base <= pkt.seq /\ pkt.seq - cache.base < cache.count
          /\ cache.slots[pkt.seq - cache.base] = Blank
      BY <1>9 DEF StoreData, Storable
    <3> QED BY <2>1, <3>1, <3>2
  <2>3. /\ cache'.base = cache.base /\ cache'.count = cache.count
        /\ cache'.slots = [cache.slots EXCEPT ![pkt.seq - cache.base] = << session, pkt.seq >>]
        /\ DOMAIN cache.slots = 0 .. BatchSize - 1
    BY <1>9, <2>1 DEF StoreData, TypeOK
  <2>4. ASSUME NEW q \in Nat, Kept(q)
        PROVE  \/ q < cache'.base
               \/ q - cache'.base < cache'.count /\ cache'.slots[q - cache'.base] = << session, q >>
    <3>1. CASE q < cache.base
      <4>1. q < cache'.base
        BY <3>1, <2>2, <2>3
      <4> QED BY <4>1
    <3>2. CASE ~ (q < cache.base)
      <4>1. q - cache.base \in 0 .. BatchSize - 1 /\ cache.slots[q - cache.base] = << session, q >>
        BY <3>2, <2>2, <2>4, OtaAssumption
      <4>2. cache.slots[q - cache.base] # Blank
        BY <4>1, <2>1 DEF Blank
      <4>3. cache'.slots[q - cache.base] = cache.slots[q - cache.base]
        BY <4>1, <4>2, <2>2, <2>3
      <4> QED BY <4>1, <4>3, <2>3, <2>4, <3>2
    <3> QED BY <3>1, <3>2
  <2>5. cache'.slots[pkt.seq - cache'.base] = << session, pkt.seq >> /\ pkt.seq - cache'.base < cache'.count
    BY <2>2, <2>3
  <2>6. pkt' = pkt /\ acked \subseteq Nat
    BY <1>9 DEF StoreData, TypeOK
  <2> QED BY <2>1, <2>4, <2>5, <2>6
<1>10. CASE CommitBatch
  BY <1>10 DEF CommitBatch
<1>11. CASE FailedCommit
  BY <1>11 DEF FailedCommit, WriterAborted, IdleWriter
<1>12. CASE BookBatch
  <2>1. expected \in Nat /\ cache.count \in Nat /\ total \in Nat /\ expected + cache.count \in Nat
        /\ cache.base = expected /\ acked \subseteq Nat
    BY OtaAssumption DEF TypeOK, BooksAgree
  <2>2. cache'.base = cache.base + cache.count
    BY <1>12, <2>1, PrepareType DEF BookBatch, NextExpected
  <2>3. UNCHANGED << session, acked, pkt >> /\ pc = "book"
    BY <1>12 DEF BookBatch
  <2>4. pkt.seq \in Nat
    BY <2>3, PacketFields DEF PacketAtHand
  <2>5. ASSUME NEW q \in Nat, Kept(q) PROVE q < cache'.base
    BY <2>1, <2>2, <2>5
  <2> QED BY <2>1, <2>3, <2>4, <2>5
<1>13. CASE RepeatedEnd \/ RefusedEnd \/ BeginVerify
  BY <1>13 DEF RepeatedEnd, RefusedEnd, BeginVerify, EndIsDue
<1>14. CASE EndWriter \/ FailedEnd
  BY <1>14 DEF EndWriter, FailedEnd
<1>15. CASE SelectImage \/ FailedVerify
  BY <1>15 DEF SelectImage, FailedVerify
<1>16. CASE AcceptImage
  BY <1>16 DEF AcceptImage, PacketAtHand
<1>17. CASE AbortBegin \/ AbortEnd
  BY <1>17 DEF AbortBegin, AbortEnd
<1>18. CASE AbortWriter
  BY <1>18 DEF AbortWriter, WriterAborted, IdleWriter
<1>19. CASE AbortReset
  BY <1>19 DEF AbortReset
<1> QED
  BY <1>1, <1>2, <1>3, <1>4, <1>5, <1>6, <1>7, <1>8, <1>9, <1>10, <1>11, <1>12, <1>13, <1>14, <1>15, <1>16, <1>17, <1>18, <1>19
  DEF Next, Undisturbed, Consume, Start, Data, End, Abort

\* A session that waits for DATA has a slot to fill.
LEMMA GapStep ==
  ASSUME TypeOK, GapIsOpen, [Next]_vars
  PROVE  GapIsOpen'
<1> USE DEF GapIsOpen, Missing, At, Handling, Answer, Fail, GoTo, client, consumer, device, history
<1>1. CASE UNCHANGED vars \/ Restarted
  BY <1>1 DEF vars, Restarted
<1>2. ASSUME NEW p \in Packets, Submit(p) PROVE GapIsOpen'
  BY <1>2 DEF Submit
<1>3. ASSUME NEW sent \in BOOLEAN, Reply(sent) PROVE GapIsOpen'
  BY <1>3 DEF Reply
<1>4. CASE Receive \/ ReceiveTimeout
  BY <1>4 DEF Receive, ReceiveTimeout
<1>5. CASE RepeatedStart \/ RefusedStart \/ FailedStart
  BY <1>5 DEF RepeatedStart, StartIsRepeated, RefusedStart, FailedStart, MayStart
<1>6. CASE AcceptedStart
  <2>1. pkt \in Packets /\ pkt.session \in Sessions
    BY <1>6, PacketFields DEF AcceptedStart, TypeOK, NoPacket
  <2>2. Chunks[pkt.session] \in Nat /\ pkt.session # NoSession
    BY <2>1, OtaAssumption
  <2>3. /\ cache' = Prepare(0, Chunks[pkt.session]) /\ expected' = 0 /\ total' = Chunks[pkt.session]
    BY <1>6 DEF AcceptedStart
  <2>4. ASSUME 0 < Chunks[pkt.session] PROVE 0 \in Missing(Prepare(0, Chunks[pkt.session]))
    <3>1. /\ Prepare(0, Chunks[pkt.session]).count \in 0 .. BatchSize
          /\ Prepare(0, Chunks[pkt.session]).count # 0
          /\ \A i \in 0 .. BatchSize - 1 : Prepare(0, Chunks[pkt.session]).slots[i] = Blank
      BY <2>2, <2>4, PrepareType
    <3> HIDE DEF GapIsOpen
    <3> QED BY <3>1, OtaAssumption
  <2> HIDE DEF Missing
  <2> QED BY <2>3, <2>4
<1>7. CASE RefusedData \/ RepeatedData
  BY <1>7 DEF RefusedData, RepeatedData
<1>8. CASE StoreData
  <2> DEFINE filled == [cache EXCEPT !.slots[pkt.seq - cache.base] = << pkt.session, pkt.seq >>]
  <2>1. filled.count = cache.count /\ pkt.seq - cache.base < cache.count /\ cache.base <= pkt.seq
    BY <1>8 DEF StoreData, Storable, TypeOK
  <2>2. pkt.seq \in Nat /\ cache.base \in Nat /\ cache.count \in Nat
    BY <1>8, PacketFields, OtaAssumption DEF StoreData, TypeOK, NoPacket
  <2>3. filled.count # 0
    BY <2>1, <2>2
  <2>4. cache' = filled /\ (Complete(filled) => pc' = "commit")
    BY <1>8 DEF StoreData
  <2> HIDE DEF filled, Missing
  <2> QED BY <2>3, <2>4 DEF Complete
<1>9. CASE CommitBatch
  BY <1>9 DEF CommitBatch
<1>10. CASE FailedCommit
  BY <1>10 DEF FailedCommit, WriterAborted, IdleWriter
<1>11. CASE BookBatch
  <2>1. /\ expected \in Nat /\ cache.count \in Nat /\ total \in Nat /\ expected + cache.count \in Nat
    BY OtaAssumption DEF TypeOK
  <2>2. /\ cache' = Prepare(expected + cache.count, total) /\ expected' = expected + cache.count /\ total' = total
    BY <1>11 DEF BookBatch, NextExpected
  <2>3. ASSUME expected' < total PROVE 0 \in Missing(cache')
    <3>1. /\ cache'.count \in 0 .. BatchSize /\ cache'.count # 0
          /\ \A i \in 0 .. BatchSize - 1 : cache'.slots[i] = Blank
      BY <2>1, <2>2, <2>3, PrepareType
    <3> QED BY <3>1, OtaAssumption
  <2> HIDE DEF Missing
  <2> QED BY <2>2, <2>3
<1>12. CASE RepeatedEnd \/ RefusedEnd \/ BeginVerify
  BY <1>12 DEF RepeatedEnd, RefusedEnd, BeginVerify, EndIsDue
<1>13. CASE EndWriter
  BY <1>13 DEF EndWriter, TypeOK
<1>14. CASE FailedEnd
  <2>1. writer' = writer \/ ~ writer'.active
    BY <1>14 DEF FailedEnd, TypeOK
  <2> QED BY <1>14, <2>1 DEF FailedEnd
<1>15. CASE AcceptImage
  BY <1>15 DEF AcceptImage
<1>16. CASE SelectImage
  <2>1. writer'.active = writer.active /\ UNCHANGED << expected, total, cache >> /\ pc = "verify"
    BY <1>16 DEF SelectImage, TypeOK
  <2> QED BY <2>1
<1>17. CASE FailedVerify
  <2>1. writer'.active = writer.active /\ UNCHANGED << expected, total, cache >> /\ pc = "verify"
    BY <1>17 DEF FailedVerify, TypeOK
  <2> QED BY <2>1
<1>18. CASE AbortBegin \/ AbortEnd
  BY <1>18 DEF AbortBegin, AbortEnd
<1>19. CASE AbortWriter
  BY <1>19 DEF AbortWriter, WriterAborted, IdleWriter
<1>20. CASE AbortReset
  BY <1>20 DEF AbortReset, IdleWriter
<1> QED
  BY <1>1, <1>2, <1>3, <1>4, <1>5, <1>6, <1>7, <1>8, <1>9, <1>10, <1>11, <1>12, <1>13, <1>14, <1>15, <1>16, <1>17, <1>18, <1>19, <1>20
  DEF Next, Undisturbed, Consume, Start, Data, End, Abort

\* A timeout asks for nothing that was acknowledged.
LEMMA NackStep ==
  ASSUME TypeOK, BooksAgree, PacketAtHand, AcksAreKept, nacked \cap acked = {}, [Next]_vars
  PROVE  (nacked \cap acked = {})'
<1> USE DEF TypeOK, At, Handling, Answer, Fail, GoTo, client, consumer, device, history
<1>1. CASE UNCHANGED vars \/ Restarted
  BY <1>1 DEF vars, Restarted
<1>2. ASSUME NEW p \in Packets, Submit(p) PROVE (nacked \cap acked = {})'
  BY <1>2 DEF Submit
<1>3. ASSUME NEW sent \in BOOLEAN, Reply(sent) PROVE (nacked \cap acked = {})'
  <2>1. nacked' = {}
    BY <1>3 DEF Reply, PacketAtHand
  <2> QED BY <2>1
<1>4. CASE Receive
  BY <1>4 DEF Receive
<1>5. CASE ReceiveTimeout
  <2>1. nacked' = { cache.base + i : i \in Missing(cache) } /\ acked' = acked
    BY <1>5 DEF ReceiveTimeout
  <2>2. ASSUME NEW i \in Missing(cache), cache.base + i \in acked PROVE FALSE
    <3>1. i \in 0 .. BatchSize - 1 /\ i < cache.count /\ cache.slots[i] = Blank
      BY DEF Missing
    <3>2. cache.base \in Nat /\ cache.count \in Nat /\ i \in Nat
      BY <3>1, OtaAssumption
    <3>3. session # NoSession
      BY <3>1, <3>2 DEF BooksAgree
    <3>4. Kept(cache.base + i)
      BY <2>2, <3>3 DEF AcksAreKept
    <3>5. cache.slots[i] = << session, cache.base + i >>
      <4>1. ~ (cache.base + i < cache.base) /\ (cache.base + i) - cache.base = i
        BY <3>2
      <4> QED BY <3>4, <4>1 DEF Kept
    <3> QED BY <3>1, <3>3, <3>5 DEF Blank
  <2> QED BY <2>1, <2>2
<1>6. CASE RepeatedStart \/ RefusedStart \/ FailedStart
  BY <1>6 DEF RepeatedStart, StartIsRepeated, RefusedStart, FailedStart, MayStart
<1>7. CASE AcceptedStart
  BY <1>7 DEF AcceptedStart
<1>8. CASE RefusedData \/ RepeatedData
  BY <1>8 DEF RefusedData, RepeatedData
<1>9. CASE StoreData
  BY <1>9 DEF StoreData
<1>10. CASE CommitBatch
  BY <1>10 DEF CommitBatch
<1>11. CASE FailedCommit
  BY <1>11 DEF FailedCommit, WriterAborted, IdleWriter
<1>12. CASE BookBatch
  BY <1>12 DEF BookBatch, NextExpected
<1>13. CASE RepeatedEnd \/ RefusedEnd \/ BeginVerify
  BY <1>13 DEF RepeatedEnd, RefusedEnd, BeginVerify, EndIsDue
<1>14. CASE EndWriter \/ FailedEnd
  BY <1>14 DEF EndWriter, FailedEnd
<1>15. CASE SelectImage \/ FailedVerify \/ AcceptImage
  BY <1>15 DEF SelectImage, FailedVerify, AcceptImage
<1>16. CASE AbortBegin \/ AbortEnd
  BY <1>16 DEF AbortBegin, AbortEnd
<1>17. CASE AbortWriter
  BY <1>17 DEF AbortWriter, WriterAborted, IdleWriter
<1>18. CASE AbortReset
  BY <1>18 DEF AbortReset, IdleWriter
<1> QED
  BY <1>1, <1>2, <1>3, <1>4, <1>5, <1>6, <1>7, <1>8, <1>9, <1>10, <1>11, <1>12, <1>13, <1>14, <1>15, <1>16, <1>17, <1>18
  DEF Next, Undisturbed, Consume, Start, Data, End, Abort

-----------------------------------------------------------------------------
\* The invariant holds at the start.
LEMMA InvInit == Init => IInv
<1> SUFFICES ASSUME Init PROVE IInv
  OBVIOUS
<1>1. TypeOK
  BY TypeInit
<1>2. cache.base = 0 /\ cache.count = 0 /\ \A i \in 0 .. BatchSize - 1 : cache.slots[i] = Blank
  <2>1. cache = Prepare(0, 0)
    BY DEF Init
  <2>2. 0 \in Nat /\ 0 >= 0
    OBVIOUS
  <2>3. Prepare(0, 0).base = 0 /\ Prepare(0, 0).count = 0
    BY <2>2, PrepareType
  <2>4. \A i \in 0 .. BatchSize - 1 : Prepare(0, 0).slots[i] = Blank
    BY <2>2, PrepareType
  <2> QED BY <2>1, <2>3, <2>4
<1>3. ~ writer.active /\ acked = {} /\ nacked = {}
  BY DEF Init, IdleWriter
<1>4. BooksAgree /\ IdleIsClosed /\ PacketAtHand
  BY <1>2, <1>3 DEF Init, BooksAgree, IdleIsClosed, PacketAtHand
<1>5. WriterFollows /\ GapIsOpen
  BY <1>3 DEF WriterFollows, GapIsOpen
<1>6. SlotsInPlace /\ AcksAreKept
  BY DEF Init, SlotsInPlace, AcksAreKept
<1> QED BY <1>1, <1>3, <1>4, <1>5, <1>6 DEF IInv

\* Every step keeps it.
LEMMA InvStep == IInv /\ [Next]_vars => IInv'
<1> SUFFICES ASSUME IInv, [Next]_vars PROVE IInv'
  OBVIOUS
<1>1. TypeOK'
  BY TypeStep DEF IInv
<1>2. BooksAgree' /\ IdleIsClosed' /\ PacketAtHand'
  BY BooksStep, IdleStep, PacketStep DEF IInv
<1>3. WriterFollows' /\ SlotsInPlace'
  BY WriterStep, SlotsStep DEF IInv
<1>4. AcksAreKept' /\ GapIsOpen'
  BY AcksStep, GapStep DEF IInv
<1>5. (nacked \cap acked = {})'
  BY NackStep DEF IInv
<1> QED BY <1>1, <1>2, <1>3, <1>4, <1>5 DEF IInv

\* The inductive invariant of ota_client holds in every reachable state.
THEOREM Invariance == Spec => []IInv
<1>1. Init => IInv
  BY InvInit
<1>2. IInv /\ [Next]_vars => IInv'
  BY InvStep
<1> QED BY <1>1, <1>2, PTL DEF Spec

-----------------------------------------------------------------------------
\* The partition holds the session's chunks in place, however the packets come and
\* whenever the session is aborted.
THEOREM FlashSafety == Spec => []FlashHoldsPrefix
<1>1. IInv => FlashHoldsPrefix
  BY DEF IInv, WriterFollows, FlashHoldsPrefix
<1> QED BY <1>1, Invariance, PTL

\* An acknowledged chunk is in the partition or in the batch cache.
THEOREM AckSafety == Spec => []AckedIsKept
<1>1. ASSUME IInv, writer.active, NEW q \in acked
      PROVE  \/ q < writer.written
             \/ /\ q - cache.base < cache.count
                /\ cache.slots[q - cache.base] = << session, q >>
  <2>1. session # NoSession
    BY <1>1, OtaAssumption DEF IInv, WriterFollows
  <2>2. Kept(q)
    BY <1>1, <2>1 DEF IInv, AcksAreKept
  <2>3. q \in Nat /\ cache.base \in Nat /\ cache.count \in Nat /\ cache.base <= writer.written
    BY <1>1, OtaAssumption DEF IInv, TypeOK, WriterFollows
  <2>4. CASE q < cache.base
    BY <2>3, <2>4, <1>1 DEF IInv, TypeOK
  <2> QED BY <2>2, <2>4 DEF Kept
<1>2. IInv => AckedIsKept
  BY <1>1 DEF AckedIsKept
<1> QED BY <1>2, Invariance, PTL

\* A receive timeout asks for chunks that were not acknowledged, and for one at
\* least while DATA is still to come.
THEOREM NackSafety == Spec => []NacksNameTheGap
<1>1. IInv => NacksNameTheGap
  BY DEF IInv, GapIsOpen, NacksNameTheGap
<1> QED BY <1>1, Invariance, PTL

\* The body of ProgressIsKept.
KeepsProgress ==
  session' = session /\ writer.active /\ writer'.active
    => /\ writer'.written >= writer.written
       /\ expected' >= expected
       /\ acked \subseteq acked'

\* Within a session nothing achieved is taken back.
THEOREM ProgressSafety == Spec => ProgressIsKept
<1>1. IInv /\ [Next]_vars => [KeepsProgress]_vars
  <2> SUFFICES ASSUME IInv, [Next]_vars, session' = session, writer.active, writer'.active
               PROVE  /\ writer'.written >= writer.written
                      /\ expected' >= expected
                      /\ acked \subseteq acked'
    BY DEF KeepsProgress
  <2>0. writer.written \in Nat /\ expected \in Nat /\ cache.count \in Nat
    BY OtaAssumption DEF IInv, TypeOK
  <2>1. CASE UNCHANGED << writer, expected, acked >>
    BY <2>0, <2>1
  <2> USE DEF At, Handling, Answer, Fail, GoTo, client, consumer, device, history
  <2>2. CASE UNCHANGED vars \/ Restarted
    BY <2>2, <2>1 DEF vars, Restarted
  <2>3. ASSUME NEW p \in Packets, Submit(p) PROVE UNCHANGED << writer, expected, acked >>
    BY <2>3 DEF Submit
  <2>4. ASSUME NEW sent \in BOOLEAN, Reply(sent) PROVE writer' = writer /\ expected' = expected /\ acked \subseteq acked'
    BY <2>4 DEF Reply
  <2>5. CASE Receive \/ ReceiveTimeout
    BY <2>5, <2>1 DEF Receive, ReceiveTimeout
  <2>6. CASE RepeatedStart \/ RefusedStart \/ FailedStart
    BY <2>6, <2>1 DEF RepeatedStart, RefusedStart, FailedStart
  <2>7. CASE AcceptedStart
    BY <2>7 DEF AcceptedStart
  <2>8. CASE RefusedData \/ RepeatedData \/ StoreData
    BY <2>8, <2>1 DEF RefusedData, RepeatedData, StoreData
  <2>9. CASE CommitBatch
    <3>1. writer'.written = writer.written + cache.count
      <4>1. writer \in [active : BOOLEAN, size : Nat, written : Nat, hashing : BOOLEAN]
        BY DEF IInv, TypeOK
      <4>2. writer' = [writer EXCEPT !.written = writer.written + cache.count]
        BY <2>9 DEF CommitBatch
      <4> QED BY <4>1, <4>2
    <3>2. UNCHANGED << expected, acked >>
      BY <2>9 DEF CommitBatch
    <3> QED BY <3>1, <3>2, <2>0
  <2>10. CASE FailedCommit
    BY <2>10 DEF FailedCommit, WriterAborted, IdleWriter
  <2>11. CASE BookBatch
    BY <2>11, <2>0 DEF BookBatch, NextExpected
  <2>12. CASE RepeatedEnd \/ RefusedEnd \/ BeginVerify \/ AcceptImage
    BY <2>12, <2>1 DEF RepeatedEnd, RefusedEnd, BeginVerify, AcceptImage
  <2>13. CASE EndWriter \/ FailedEnd
    <3>1. writer' = writer \/ ~ writer'.active
      BY <2>13 DEF EndWriter, FailedEnd, IInv, TypeOK
    <3> QED BY <2>13, <2>1, <3>1 DEF EndWriter, FailedEnd
  <2>14. CASE SelectImage \/ FailedVerify
    <3>1. writer'.written = writer.written
      BY <2>14 DEF SelectImage, FailedVerify, IInv, TypeOK
    <3> QED BY <2>14, <2>0, <3>1 DEF SelectImage, FailedVerify
  <2>15. CASE Abort
    BY <2>15, <2>1 DEF Abort, AbortBegin, AbortWriter, AbortReset, AbortEnd, WriterAborted, IdleWriter
  <2> QED
    BY <2>0, <2>1, <2>2, <2>3, <2>4, <2>5, <2>6, <2>7, <2>8, <2>9, <2>10, <2>11, <2>12, <2>13, <2>14, <2>15
    DEF Next, Undisturbed, Consume, Start, Data, End
<1> QED BY <1>1, Invariance, PTL DEF Spec, ProgressIsKept, KeepsProgress

-----------------------------------------------------------------------------
(* A transfer nobody aborts implements OtaImage.                           *)

\* The partition holds the whole of the session's image.
HoldsImage ==
  /\ session \in Sessions /\ ~ writer.active
  /\ writer.written = Chunks[session] /\ Chunks[session] <= FlashSize
  /\ \A p \in 0 .. Chunks[session] - 1 : flash[p] = << session, p >>

\* The image is whole from the closing of the writer on; once selected it stays,
\* and no START is accepted any more.
Selected ==
  /\ abort = "idle"
  /\ writer.active => Chunks[session] <= FlashSize
  /\ pc = "verify" => HoldsImage /\ boot = NoSession
  /\ pc \in { "commit", "book" } => state = "RECEIVING"
  /\ pc \in { "finish", "verify", "accept" } => state = "VERIFYING"
  /\ boot # NoSession =>
       /\ HoldsImage /\ boot = session /\ boot \in Sound
       /\ state = "READY_TO_REBOOT" \/ (state = "VERIFYING" /\ pc = "accept")

\* Every step of a transfer keeps that.
LEMMA SelectedStep ==
  ASSUME IInv, Selected, [Undisturbed]_vars
  PROVE  Selected'
<1> USE DEF Selected, HoldsImage, At, Handling, Answer, Fail, GoTo, client, consumer, device, history
<1>1. CASE UNCHANGED vars \/ Restarted
  BY <1>1 DEF vars, Restarted
<1>2. ASSUME NEW p \in Packets, Submit(p) PROVE Selected'
  BY <1>2 DEF Submit
<1>3. ASSUME NEW sent \in BOOLEAN, Reply(sent) PROVE Selected'
  BY <1>3 DEF Reply
<1>4. CASE Receive \/ ReceiveTimeout
  BY <1>4 DEF Receive, ReceiveTimeout
<1>5. CASE RepeatedStart \/ RefusedStart \/ FailedStart
  BY <1>5 DEF RepeatedStart, RefusedStart, FailedStart, MayStart
<1>6. CASE AcceptedStart
  <2>1. boot = NoSession /\ boot' = NoSession /\ pc' = "reply" /\ abort' = "idle"
    BY <1>6 DEF AcceptedStart, MayStart
  <2>2. session' = pkt.session /\ Chunks[pkt.session] <= FlashSize
    BY <1>6 DEF AcceptedStart
  <2> QED BY <2>1, <2>2
<1>7. CASE RefusedData \/ RepeatedData
  BY <1>7 DEF RefusedData, RepeatedData
<1>8. CASE StoreData
  <2>1. /\ UNCHANGED << state, session, writer, flash, boot, abort >>
        /\ state = "RECEIVING" /\ pc' \in { "commit", "reply" }
    BY <1>8 DEF StoreData, DataIsForUs
  <2>2. boot = NoSession
    BY <2>1
  <2> QED BY <2>1, <2>2
<1>9. CASE CommitBatch
  <2>1. pc' = "book" /\ UNCHANGED << state, session, boot, abort >> /\ writer.active /\ state = "RECEIVING"
    BY <1>9 DEF CommitBatch, Writable
  <2>2. boot = NoSession
    BY <2>1
  <2> QED BY <2>1, <2>2
<1>10. CASE FailedCommit
  BY <1>10 DEF FailedCommit, WriterAborted, IdleWriter
<1>11. CASE BookBatch
  BY <1>11 DEF BookBatch
<1>12. CASE RepeatedEnd \/ RefusedEnd \/ BeginVerify
  BY <1>12 DEF RepeatedEnd, RefusedEnd, BeginVerify, EndIsDue
<1>13. CASE EndWriter
  <2>1. /\ writer.active /\ writer.written = writer.size /\ boot = NoSession
        /\ UNCHANGED << state, session, flash, boot, abort >>
        /\ pc' = "verify" /\ state = "VERIFYING"
    BY <1>13 DEF EndWriter, ImageIsWhole
  <2>2. ~ writer'.active /\ writer'.written = writer.written
    BY <1>13 DEF EndWriter, IInv, TypeOK
  <2>3. /\ session \in Sessions /\ writer.written = Chunks[session] /\ Chunks[session] <= FlashSize
        /\ \A p \in 0 .. FlashSize - 1 : p < writer.written => flash[p] = << session, p >>
    BY <2>1 DEF IInv, WriterFollows
  <2>4. \A p \in 0 .. Chunks[session] - 1 : flash[p] = << session, p >>
    <3>1. Chunks[session] \in Nat /\ FlashSize \in Nat
      BY <2>3, OtaAssumption
    <3>2. ASSUME NEW p \in 0 .. Chunks[session] - 1 PROVE flash[p] = << session, p >>
      <4>1. p \in 0 .. FlashSize - 1 /\ p < writer.written
        BY <3>1, <2>3
      <4> QED BY <4>1, <2>3
    <3> QED BY <3>2
  <2> QED BY <2>1, <2>2, <2>3, <2>4
<1>14. CASE FailedEnd
  <2>1. /\ boot = NoSession /\ pc' = "reply" /\ UNCHANGED << session, boot, abort >>
        /\ writer' = writer \/ ~ writer'.active
    BY <1>14 DEF FailedEnd, IInv, TypeOK
  <2> QED BY <2>1
<1>15. CASE SelectImage
  <2>1. /\ boot' = session /\ pc' = "accept" /\ session \in Sound /\ HoldsImage
        /\ UNCHANGED << state, session, flash, abort >>
    BY <1>15 DEF SelectImage, DigestMatches
  <2>2. writer'.active = writer.active /\ writer'.written = writer.written
    BY <1>15 DEF SelectImage, IInv, TypeOK
  <2>3. state = "VERIFYING"
    BY <1>15 DEF SelectImage
  <2> QED BY <2>1, <2>2, <2>3
<1>16. CASE FailedVerify
  <2>1. /\ boot = NoSession /\ pc' = "reply" /\ UNCHANGED << session, boot, abort >>
        /\ writer'.active = writer.active
    BY <1>16 DEF FailedVerify, IInv, TypeOK
  <2> QED BY <2>1
<1>17. CASE AcceptImage
  BY <1>17 DEF AcceptImage
<1> QED
  BY <1>1, <1>2, <1>3, <1>4, <1>5, <1>6, <1>7, <1>8, <1>9, <1>10, <1>11, <1>12, <1>13, <1>14, <1>15,
     <1>16, <1>17
  DEF Undisturbed, Consume, Start, Data, End

\* A transfer starts with nothing selected.
LEMMA SelectedInit == Init => Selected
BY OtaAssumption DEF Init, Selected, HoldsImage, IdleWriter

\* The promise sees only the session that fills the partition, and how far.
Seen == << Filling, session, writer.written, flash, boot >>

\* A step that leaves what it sees alone is no step of the promise.
LEMMA UnseenStep ==
  ASSUME Seen' = Seen
  PROVE  UNCHANGED Image!vars
<1>1. /\ Filling' = Filling /\ session' = session /\ writer'.written = writer.written
      /\ flash' = flash /\ boot' = boot
  BY DEF Seen
<1> HIDE DEF Filling
<1>2. (IF Filling THEN session ELSE NoSession)' = IF Filling THEN session ELSE NoSession
  BY <1>1
<1>3. [p \in IF Filling THEN 0 .. writer.written - 1 ELSE {} |-> flash[p]]'
        = [p \in IF Filling THEN 0 .. writer.written - 1 ELSE {} |-> flash[p]]
  BY <1>1
<1>4. (boot # NoSession)' = (boot # NoSession)
  BY <1>1
<1> QED BY <1>2, <1>3, <1>4 DEF Image!vars

\* So is a step that fills nothing before and after it, with nothing selected.
LEMMA IdleSeen ==
  ASSUME ~ Filling, ~ Filling'
  PROVE  UNCHANGED Image!vars
<1>1. boot = NoSession /\ boot' = NoSession
  BY DEF Filling
<1> HIDE DEF Filling
<1>2. (IF Filling THEN session ELSE NoSession)' = IF Filling THEN session ELSE NoSession
  OBVIOUS
<1>3. [p \in IF Filling THEN 0 .. writer.written - 1 ELSE {} |-> flash[p]]'
        = [p \in IF Filling THEN 0 .. writer.written - 1 ELSE {} |-> flash[p]]
  OBVIOUS
<1>4. (boot # NoSession)' = (boot # NoSession)
  BY <1>1
<1> QED BY <1>2, <1>3, <1>4 DEF Image!vars

\* Giving up an image that was not selected is what the promise allows.
LEMMA DiscardStep ==
  ASSUME Filling, session \in Sessions, boot = NoSession, ~ Filling'
  PROVE  Image!Discard
<1>1. boot' = NoSession
  BY DEF Filling
<1> HIDE DEF Filling
<1>2. (IF Filling THEN session ELSE NoSession) \in Sessions
  OBVIOUS
<1>3. (IF Filling THEN session ELSE NoSession)' = NoSession
  OBVIOUS
<1>4. [p \in IF Filling THEN 0 .. writer.written - 1 ELSE {} |-> flash[p]]' = Image!Prefix(NoSession, 0)
  <2>1. 0 .. 0 - 1 = {}
    OBVIOUS
  <2> QED BY <2>1 DEF Image!Prefix
<1> QED BY <1>1, <1>2, <1>3, <1>4 DEF Image!Discard

\* While the partition is filled, what it holds is the beginning of the image.
HoldsPrefix ==
  /\ session \in Sessions
  /\ [p \in IF Filling THEN 0 .. writer.written - 1 ELSE {} |-> flash[p]]
       = Image!Prefix(session, writer.written)
  /\ writer.written \in 0 .. Chunks[session]

\* It follows from the invariants.
LEMMA ContentsArePrefix == IInv /\ Selected /\ Filling => HoldsPrefix
<1> SUFFICES ASSUME IInv, Selected, Filling PROVE HoldsPrefix
  OBVIOUS
<1> USE DEF HoldsPrefix
<1>1. session \in Sessions /\ writer.written <= Chunks[session] /\ Chunks[session] <= FlashSize
  <2>1. CASE writer.active
    BY <2>1 DEF IInv, WriterFollows, Selected
  <2>2. CASE ~ writer.active
    <3>1. session \in Sessions /\ writer.written = Chunks[session] /\ Chunks[session] <= FlashSize
      BY <2>2 DEF Filling, Selected, HoldsImage
    <3> QED BY <3>1, OtaAssumption
  <2> QED BY <2>1, <2>2
<1>2. writer.written \in Nat /\ Chunks[session] \in Nat /\ FlashSize \in Nat
  BY <1>1, OtaAssumption DEF IInv, TypeOK
<1>3. \A p \in 0 .. writer.written - 1 : flash[p] = << session, p >>
  <2>1. CASE writer.active
    <3>1. \A p \in 0 .. FlashSize - 1 : p < writer.written => flash[p] = << session, p >>
      BY <2>1 DEF IInv, WriterFollows
    <3>2. ASSUME NEW p \in 0 .. writer.written - 1 PROVE flash[p] = << session, p >>
      <4>1. p \in 0 .. FlashSize - 1 /\ p < writer.written
        BY <1>1, <1>2
      <4> QED BY <4>1, <3>1
    <3> QED BY <3>2
  <2>2. CASE ~ writer.active
    BY <2>2 DEF Filling, Selected, HoldsImage
  <2> QED BY <2>1, <2>2
<1>4. [p \in 0 .. writer.written - 1 |-> flash[p]] = [p \in 0 .. writer.written - 1 |-> << session, p >>]
  BY <1>3
<1> HIDE DEF Filling
<1>5. writer.written \in 0 .. Chunks[session]
  BY <1>1, <1>2
<1> QED BY <1>1, <1>4, <1>5 DEF Image!Prefix

\* Every step of the transfer is a step of the promise or changes nothing it sees.
LEMMA ImageStep ==
  ASSUME IInv, Selected, [Undisturbed]_vars, IInv', Selected'
  PROVE  [Image!Next]_(Image!vars)
<1> USE DEF At, Handling, Answer, Fail, GoTo, client, consumer, device, history
<1>0. /\ Filling => HoldsPrefix
      /\ Filling' => HoldsPrefix'
  <2>1. (IInv /\ Selected /\ Filling => HoldsPrefix)'
    BY ContentsArePrefix, PTL
  <2> QED BY <2>1, ContentsArePrefix
<1>1. CASE UNCHANGED vars \/ Restarted
  <2>1. Seen' = Seen
    BY <1>1 DEF vars, Restarted, Seen, Filling
  <2> QED BY <2>1, UnseenStep
<1>2. ASSUME NEW p \in Packets, Submit(p) PROVE UNCHANGED Image!vars
  <2>1. Seen' = Seen
    BY <1>2 DEF Submit, Seen, Filling
  <2> QED BY <2>1, UnseenStep
<1>3. ASSUME NEW sent \in BOOLEAN, Reply(sent) PROVE UNCHANGED Image!vars
  <2>1. Seen' = Seen
    BY <1>3 DEF Reply, Seen, Filling
  <2> QED BY <2>1, UnseenStep
<1>4. CASE Receive \/ ReceiveTimeout
  <2>1. Seen' = Seen
    BY <1>4 DEF Receive, ReceiveTimeout, Seen, Filling
  <2> QED BY <2>1, UnseenStep
<1>5. CASE RepeatedStart \/ RefusedStart \/ FailedStart
  <2>1. Seen' = Seen
    BY <1>5 DEF RepeatedStart, RefusedStart, FailedStart, Seen, Filling
  <2> QED BY <2>1, UnseenStep
<1>6. CASE AcceptedStart
  <2>1. /\ ~ writer.active /\ boot = NoSession /\ boot' = NoSession /\ pc = "handle"
        /\ writer' = [active |-> TRUE, size |-> Chunks[pkt.session], written |-> 0, hashing |-> TRUE]
        /\ session' = pkt.session
    BY <1>6 DEF AcceptedStart, MayStart, Selected
  <2>2. session' \in Sessions
    BY <1>6, <2>1, PacketFields DEF AcceptedStart, IInv, TypeOK, NoPacket
  <2>3. ~ Filling /\ Filling' /\ writer'.written = 0
    BY <2>1 DEF Filling
  <2> HIDE DEF Filling
  <2>4. PICK s \in Sessions : s = pkt.session
    BY <2>1, <2>2
  <2>5. [p \in IF Filling THEN 0 .. writer.written - 1 ELSE {} |-> flash[p]]' = Image!Prefix(s, 0)
    BY <2>1, <2>3, <2>4, <1>0 DEF HoldsPrefix, Image!Prefix
  <2>6. Image!Begin(s)
    BY <2>1, <2>3, <2>4, <2>5 DEF Image!Begin
  <2> QED BY <2>6 DEF Image!Next
<1>7. CASE RefusedData \/ RepeatedData \/ StoreData
  <2>1. Seen' = Seen
    BY <1>7 DEF RefusedData, RepeatedData, StoreData, Seen, Filling
  <2> QED BY <2>1, UnseenStep
<1>9. CASE CommitBatch
  <2>1. /\ writer.active /\ pc' = "book" /\ UNCHANGED << session, boot >>
        /\ writer' = [writer EXCEPT !.written = @ + cache.count]
        /\ cache.count # 0
    BY <1>9 DEF CommitBatch, Writable, Complete
  <2>2. writer'.active /\ writer'.written = writer.written + cache.count
    BY <2>1 DEF IInv, TypeOK
  <2>3. Filling /\ Filling'
    BY <2>1, <2>2 DEF Filling
  <2>4. /\ session \in Sessions /\ writer.written \in Nat /\ cache.count \in Nat
        /\ writer'.written \in 0 .. Chunks[session] /\ Chunks[session] \in Nat
    BY <2>1, <2>3, <1>0, OtaAssumption DEF IInv, TypeOK, HoldsPrefix
  <2>5. PICK n \in 1 .. Chunks[session] : n = writer'.written
    BY <2>1, <2>2, <2>4
  <2>6. 0 .. writer.written - 1 \subseteq 0 .. n - 1
    BY <2>2, <2>4, <2>5
  <2> HIDE DEF Filling
  <2>7. [p \in IF Filling THEN 0 .. writer.written - 1 ELSE {} |-> flash[p]]' = Image!Prefix(session, n)
    BY <2>1, <2>3, <2>5, <1>0 DEF HoldsPrefix, Image!Prefix
  <2>8. DOMAIN [p \in IF Filling THEN 0 .. writer.written - 1 ELSE {} |-> flash[p]] = 0 .. writer.written - 1
    BY <2>3
  <2>9. Image!Extend(n)
    BY <2>1, <2>3, <2>4, <2>6, <2>7, <2>8 DEF Image!Extend
  <2>10. PICK s \in Sessions : s = session
    BY <2>4
  <2> QED BY <2>3, <2>5, <2>9, <2>10 DEF Image!Next
<1>10. CASE FailedCommit
  <2>1. boot = NoSession /\ boot' = NoSession /\ ~ writer'.active /\ pc = "commit" /\ pc' = "reply"
    BY <1>10 DEF FailedCommit, Selected, WriterAborted, IdleWriter
  <2>2. ~ Filling'
    BY <2>1 DEF Filling
  <2>3. CASE Filling
    BY <2>1, <2>2, <2>3, <1>0, DiscardStep DEF Image!Next, HoldsPrefix
  <2>4. CASE ~ Filling
    BY <2>2, <2>4, IdleSeen
  <2> QED BY <2>3, <2>4
<1>11. CASE BookBatch
  <2>1. Seen' = Seen
    BY <1>11 DEF BookBatch, Seen, Filling
  <2> QED BY <2>1, UnseenStep
<1>12. CASE RepeatedEnd \/ RefusedEnd \/ BeginVerify \/ AcceptImage
  <2>1. Seen' = Seen
    BY <1>12 DEF RepeatedEnd, RefusedEnd, BeginVerify, AcceptImage, Seen, Filling
  <2> QED BY <2>1, UnseenStep
<1>13. CASE EndWriter
  <2>1. /\ writer.active /\ pc' = "verify" /\ UNCHANGED << session, flash, boot >>
        /\ writer' = [writer EXCEPT !.active = FALSE]
    BY <1>13 DEF EndWriter
  <2>2. writer'.written = writer.written
    BY <2>1 DEF IInv, TypeOK
  <2>3. Seen' = Seen
    BY <2>1, <2>2 DEF Seen, Filling
  <2> QED BY <2>3, UnseenStep
<1>14. CASE FailedEnd
  <2>1. /\ boot = NoSession /\ boot' = NoSession /\ pc = "finish" /\ pc' = "reply"
        /\ UNCHANGED << session, flash >>
        /\ writer' = writer \/ ~ writer'.active
    BY <1>14 DEF FailedEnd, Selected, IInv, TypeOK
  <2>2. CASE writer' = writer
    <3>1. Seen' = Seen
      BY <2>1, <2>2 DEF Seen, Filling
    <3> QED BY <3>1, UnseenStep
  <2>3. CASE ~ writer'.active
    <3>1. ~ Filling'
      BY <2>1, <2>3 DEF Filling
    <3>2. CASE Filling
      BY <2>1, <3>1, <3>2, <1>0, DiscardStep DEF Image!Next, HoldsPrefix
    <3>3. CASE ~ Filling
      BY <3>1, <3>3, IdleSeen
    <3> QED BY <3>2, <3>3
  <2> QED BY <2>1, <2>2, <2>3
<1>15. CASE SelectImage
  <2>1. /\ pc = "verify" /\ boot = NoSession /\ boot' = session /\ UNCHANGED << session, flash >>
        /\ writer' = [writer EXCEPT !.hashing = FALSE]
        /\ session \in Sound /\ writer.written = Chunks[session]
    BY <1>15 DEF SelectImage, DigestMatches, Selected
  <2>2. writer'.written = writer.written
    BY <2>1 DEF IInv, TypeOK
  <2>3. session \in Sessions /\ session # NoSession
    BY <2>1, OtaAssumption
  <2>4. Filling /\ Filling'
    BY <2>1, <2>3 DEF Filling
  <2>5. [p \in IF Filling THEN 0 .. writer.written - 1 ELSE {} |-> flash[p]] = Image!Prefix(session, Chunks[session])
    BY <2>1, <2>4, <1>0 DEF HoldsPrefix
  <2> HIDE DEF Filling
  <2>6. [p \in IF Filling THEN 0 .. writer.written - 1 ELSE {} |-> flash[p]]'
          = [p \in IF Filling THEN 0 .. writer.written - 1 ELSE {} |-> flash[p]]
    BY <2>1, <2>2, <2>4
  <2>7. Image!Select
    BY <2>1, <2>3, <2>4, <2>5, <2>6 DEF Image!Select
  <2> QED BY <2>7 DEF Image!Next
<1>16. CASE FailedVerify
  <2>1. /\ boot = NoSession /\ boot' = NoSession /\ pc = "verify" /\ pc' = "reply"
        /\ ~ writer.active /\ writer' = [writer EXCEPT !.hashing = FALSE]
    BY <1>16 DEF FailedVerify, Selected, HoldsImage
  <2>2. ~ writer'.active
    BY <2>1 DEF IInv, TypeOK
  <2>3. Filling /\ ~ Filling'
    BY <2>1, <2>2 DEF Filling
  <2> QED BY <2>1, <2>3, <1>0, DiscardStep DEF Image!Next, HoldsPrefix
<1> QED
  BY <1>1, <1>2, <1>3, <1>4, <1>5, <1>6, <1>7, <1>9, <1>10, <1>11, <1>12, <1>13, <1>14, <1>15, <1>16
  DEF Undisturbed, Consume, Start, Data, End

\* What is selected for booting is a whole and sound image, from finish_session()
\* to the restart, and no later packet of the transfer touches it.
THEOREM BootSafety == TransferSpec => []BootImageIntact
<1>1. Init => IInv /\ Selected
  BY InvInit, SelectedInit
<1>2. IInv /\ Selected /\ [Undisturbed]_vars => (IInv /\ Selected)'
  BY InvStep, SelectedStep DEF Next
<1>3. Selected => BootImageIntact
  BY DEF Selected, HoldsImage, BootImageIntact
<1> HIDE DEF Fairness
<1> QED BY <1>1, <1>2, <1>3, PTL DEF TransferSpec

\* A transfer nobody aborts implements OtaImage: the partition takes one image at
\* a time, in order, and is selected when it holds all of a sound one, for good.
THEOREM TransferRefinement == TransferSpec => TransferRefinesImage
<1>1. Init => Image!Init
  <2>1. ASSUME Init PROVE ~ Filling /\ boot = NoSession
    BY <2>1 DEF Init, Filling, IdleWriter
  <2> HIDE DEF Filling
  <2>2. 0 .. 0 - 1 = {}
    OBVIOUS
  <2> QED BY <2>1, <2>2 DEF Image!Init, Image!Prefix
<1>2. Init => IInv /\ Selected
  BY InvInit, SelectedInit
<1>3. IInv /\ Selected /\ [Undisturbed]_vars => (IInv /\ Selected)'
  BY InvStep, SelectedStep DEF Next
<1>4. IInv /\ Selected /\ (IInv /\ Selected)' /\ [Undisturbed]_vars => [Image!Next]_(Image!vars)
  BY ImageStep
<1> HIDE DEF Fairness
<1> QED BY <1>1, <1>2, <1>3, <1>4, PTL DEF TransferSpec, TransferRefinesImage, Image!Spec
=============================================================================
