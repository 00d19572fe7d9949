------------------------------ MODULE OtaClient ------------------------------
(***************************************************************************)
(* components/ota_client: the packet queue (ota_client.c), the consumer    *)
(* task (ota_consumer.c), the batch cache (ota_batch_cache.c), the flash   *)
(* writer (ota_writer.c), and ota_client_abort(), which fsm_task calls     *)
(* while the consumer may be in the middle of a packet: no lock is taken.  *)
(*                                                                         *)
(* Sizes are counted in chunks (48 bytes, the last one of an image may be  *)
(* shorter).  A chunk is << session, sequence >>.  The air may lose,       *)
(* repeat and reorder: any packet of the gateway may arrive at any time.   *)
(***************************************************************************)
EXTENDS Naturals, Sequences

CONSTANTS
  Sessions,     \* the sessions the gateway offers
  NoSession,    \* session_id 0
  Chunks,       \* total_chunks of each session's image
  Sound,        \* the sessions whose image has the SHA-256 that START announces
  BatchSize,    \* OTA_CLIENT_BATCH_SIZE (5 in the product)
  QueueDepth,   \* OTA_CLIENT_RX_QUEUE_DEPTH (16 in the product)
  FlashSize     \* update_partition->size

ASSUME OtaAssumption ==
  /\ NoSession \notin Sessions
  /\ Chunks \in [Sessions -> Nat \ {0}]
  /\ Sound \subseteq Sessions
  /\ BatchSize \in Nat \ {0}
  /\ QueueDepth \in Nat \ {0}
  /\ FlashSize \in Nat

VARIABLES
  state,      \* s_ota_client.state
  session,    \* session_id, and with it expected_sha256
  total,      \* total_chunks and image_size
  received,   \* received_bytes
  expected,   \* expected_sequence
  cache,      \* batch_cache
  writer,     \* writer: active, image_size, written_size, hash_active
  queue,      \* rx_queue
  pc, pkt,    \* where the consumer task is, and its packet
  batch,      \* write_chunk()'s batch_bytes
  answer,     \* the response under way
  abort,      \* where ota_client_abort() is in fsm_task
  flash,      \* the update partition
  boot,       \* the session whose image is selected for booting
  power,      \* "on"; "updated" once restarted after the END ACK; "panic"
  acked,      \* history: the session's DATA sequences the gateway saw ACKed
  nacked,     \* the sequences NACKed by the last receive timeout
  aborted     \* history: sessions abort() was called for

client   == << state, session, total, received, expected, cache, writer >>
consumer == << pc, pkt, batch, answer >>
device   == << flash, boot, power >>
history  == << acked, nacked, aborted >>
vars     == << client, consumer, device, history, queue, abort >>

Blank   == << NoSession, 0 >>
Content == (Sessions \X Nat) \cup { Blank }

Packets ==
  [type : { "START", "END" }, session : Sessions, seq : { 0 }] \cup
  UNION { [type : { "DATA" }, session : { s }, seq : 0 .. Chunks[s] - 1] : s \in Sessions }
NoPacket == [type |-> "NONE", session |-> NoSession, seq |-> 0]

TypeOK ==
  /\ state \in { "IDLE", "RECEIVING", "VERIFYING", "READY_TO_REBOOT", "ERROR" }
  /\ session \in Sessions \cup { NoSession }
  /\ { total, received, expected, batch } \subseteq Nat
  /\ cache \in [base : Nat, count : 0 .. BatchSize, slots : [0 .. BatchSize - 1 -> Content]]
  /\ writer \in [active : BOOLEAN, size : Nat, written : Nat, hashing : BOOLEAN]
  /\ queue \in Seq(Packets) /\ Len(queue) <= QueueDepth
  /\ pc \in { "receive", "handle", "commit", "book", "finish", "verify", "accept", "reply" }
  /\ pkt \in Packets \cup { NoPacket }
  /\ answer \in { "none", "ACK", "NACK" }
  /\ abort \in { "idle", "writer", "reset", "idle_next" }
  /\ flash \in [0 .. FlashSize - 1 -> Content]
  /\ boot \in Sessions \cup { NoSession }
  /\ power \in { "on", "updated", "panic" }
  /\ acked \in SUBSET Nat /\ nacked \in SUBSET Nat
  /\ aborted \in SUBSET Sessions

-----------------------------------------------------------------------------
(* ota_batch_cache.c.  A slot's bit of received_mask is set iff the slot   *)
(* holds a chunk.                                                          *)

Prepare(base, chunks) ==
  [base  |-> base,
   count |-> IF base >= chunks THEN 0
             ELSE IF chunks - base < BatchSize THEN chunks - base ELSE BatchSize,
   slots |-> [i \in 0 .. BatchSize - 1 |-> Blank]]

\* Faulty: the last slot of the batch is not required.
MissingButLast(c) == { i \in 0 .. BatchSize - 1 : i + 1 < c.count /\ c.slots[i] = Blank }

Missing(c)  == { i \in 0 .. BatchSize - 1 : i < c.count /\ c.slots[i] = Blank }
Complete(c) == c.count # 0 /\ Missing(c) = {}

IdleWriter == [active |-> FALSE, size |-> 0, written |-> 0, hashing |-> FALSE]

\* ota_writer_abort(); an inactive writer is left as it is.
WriterAborted == IF writer.active THEN IdleWriter ELSE writer

-----------------------------------------------------------------------------
(* The radio task: ota_client_submit_packet().  A packet that finds the    *)
(* queue full is dropped.                                                  *)

HasRoom == Len(queue) < QueueDepth

Submit(p) ==
  /\ power = "on"
  /\ HasRoom
  /\ queue' = Append(queue, p)
  /\ UNCHANGED << client, consumer, device, history, abort >>

-----------------------------------------------------------------------------
(* The consumer task.                                                      *)

At(step) == power = "on" /\ pc = step
Handling(type) == At("handle") /\ pkt.type = type

Answer(response) ==
  /\ pc' = "reply"
  /\ answer' = response
  /\ UNCHANGED << pkt, batch >>

GoTo(step) == pc' = step /\ UNCHANGED << pkt, batch, answer >>

\* The failure paths of write_chunk(), finish_session() and start_session().
Fail ==
  /\ state' = "ERROR"
  /\ Answer("NACK")
  /\ UNCHANGED << session, total, received, expected, cache >>

Receive ==
  /\ At("receive")
  /\ queue # << >>
  /\ pkt' = Head(queue)
  /\ queue' = Tail(queue)
  /\ pc' = "handle"
  /\ nacked' = {}
  /\ UNCHANGED << client, batch, answer, device, acked, aborted, abort >>

\* ota_consumer_handle_receive_timeout(): nothing else happens than the NACKs.
ReceiveTimeout ==
  /\ At("receive")
  /\ queue = << >>
  /\ state = "RECEIVING"
  /\ nacked' = { cache.base + i : i \in Missing(cache) }
  /\ UNCHANGED << client, consumer, device, acked, aborted, queue, abort >>

-----------------------------------------------------------------------------
(* START                                                                   *)

StartIsRepeated ==
  state = "RECEIVING" /\ pkt.session = session /\ Chunks[pkt.session] = total

\* Faulty: START opens a session whatever the state is.
MayStartAlways == TRUE

MayStart == state = "IDLE"

RepeatedStart ==
  /\ Handling("START")
  /\ StartIsRepeated
  /\ Answer("ACK")
  /\ UNCHANGED << client, device, history, queue, abort >>

\* Not in OTA mode (ota_mode_callback), or the client is not IDLE.
RefusedStart ==
  /\ Handling("START")
  /\ ~ StartIsRepeated
  /\ Answer("NACK")
  /\ UNCHANGED << client, device, history, queue, abort >>

\* ota_writer_begin() fails: image too large, or the flash cannot be prepared.
FailedStart ==
  /\ Handling("START")
  /\ MayStart
  /\ Fail
  /\ UNCHANGED << writer, device, history, queue, abort >>

AcceptedStart ==
  /\ Handling("START")
  /\ MayStart /\ ~ StartIsRepeated
  /\ ~ writer.active
  /\ Chunks[pkt.session] <= FlashSize
  /\ state' = "RECEIVING"
  /\ session' = pkt.session
  /\ total' = Chunks[pkt.session]
  /\ received' = 0
  /\ expected' = 0
  /\ cache' = Prepare(0, Chunks[pkt.session])
  /\ writer' = [active |-> TRUE, size |-> Chunks[pkt.session], written |-> 0, hashing |-> TRUE]
  /\ flash' = [p \in DOMAIN flash |-> Blank]
  /\ acked' = {}
  /\ Answer("ACK")
  /\ UNCHANGED << boot, power, nacked, aborted, queue, abort >>

-----------------------------------------------------------------------------
(* DATA                                                                    *)

DataIsForUs == state = "RECEIVING" /\ pkt.session = session /\ pkt.seq < total

\* Faulty: a chunk of a later batch is acknowledged as if it were an old one.
AlreadyStoredOrAhead ==
  \/ pkt.seq < expected
  \/ pkt.seq - expected >= cache.count

\* An old chunk, or one whose slot is taken: acknowledged, and nothing more.
AlreadyStored ==
  \/ pkt.seq < expected
  \/ /\ cache.base <= pkt.seq /\ pkt.seq - cache.base < cache.count
     /\ cache.slots[pkt.seq - cache.base] # Blank

\* ota_batch_cache_store() has room for it.
Storable ==
  /\ pkt.seq >= expected
  /\ cache.base <= pkt.seq /\ pkt.seq - cache.base < cache.count
  /\ cache.slots[pkt.seq - cache.base] = Blank

RefusedData ==
  /\ Handling("DATA")
  /\ ~ (DataIsForUs /\ (AlreadyStored \/ Storable))
  /\ Answer("NACK")
  /\ UNCHANGED << client, device, history, queue, abort >>

RepeatedData ==
  /\ Handling("DATA")
  /\ DataIsForUs /\ AlreadyStored
  /\ Answer("ACK")
  /\ UNCHANGED << client, device, history, queue, abort >>

StoreData ==
  LET filled == [cache EXCEPT !.slots[pkt.seq - cache.base] = << pkt.session, pkt.seq >>]
  IN /\ Handling("DATA")
     /\ DataIsForUs /\ Storable
     /\ cache' = filled
     /\ IF Complete(filled) THEN GoTo("commit") ELSE Answer("ACK")
     /\ UNCHANGED << state, session, total, received, expected, writer >>
     /\ UNCHANGED << device, history, queue, abort >>

\* ota_writer_write() would accept the batch.
Writable == Complete(cache) /\ writer.active /\ writer.written + cache.count <= writer.size

\* Faulty: every batch goes to the start of the partition.
WrittenAtZero ==
  [p \in DOMAIN flash |-> IF p < cache.count THEN cache.slots[p] ELSE flash[p]]

\* esp_ota_write() appends.
Written ==
  [p \in DOMAIN flash |->
     IF writer.written <= p /\ p < writer.written + cache.count
     THEN cache.slots[p - writer.written]
     ELSE flash[p]]

CommitBatch ==
  /\ At("commit")
  /\ Writable
  /\ flash' = Written
  /\ writer' = [writer EXCEPT !.written = @ + cache.count]
  /\ batch' = cache.count
  /\ pc' = "book"
  /\ UNCHANGED << state, session, total, received, expected, cache >>
  /\ UNCHANGED << pkt, answer, boot, power, history, queue, abort >>

\* Flash or hash failure, or the session has been aborted meanwhile.
FailedCommit ==
  /\ At("commit")
  /\ writer' = WriterAborted
  /\ Fail
  /\ UNCHANGED << device, history, queue, abort >>

\* Faulty: the batch's count replaces the total.
NextExpectedIsCount == cache.count

NextExpected == expected + cache.count

BookBatch ==
  /\ At("book")
  /\ received' = received + batch
  /\ expected' = NextExpected
  /\ cache' = Prepare(NextExpected, total)
  /\ batch' = 0
  /\ pc' = "reply" /\ answer' = "ACK"
  \* The progress report divides by image_size.
  /\ power' \in IF total = 0 THEN { "on", "panic" } ELSE { "on" }
  /\ UNCHANGED << state, session, total, writer >>
  /\ UNCHANGED << pkt, flash, boot, history, queue, abort >>

-----------------------------------------------------------------------------
(* END                                                                     *)

\* Faulty: a repeated END finds the session over.
EndIsRepeatedNever == FALSE

EndIsRepeated ==
  state = "READY_TO_REBOOT" /\ pkt.session = session /\ Chunks[pkt.session] = total

\* Faulty: the last sequence number is compared with the number of chunks.
EndIsDueOffByOne ==
  /\ state = "RECEIVING" /\ pkt.session = session /\ Chunks[pkt.session] = total
  /\ received = total /\ expected + 1 = total

EndIsDue ==
  /\ state = "RECEIVING" /\ pkt.session = session /\ Chunks[pkt.session] = total
  /\ received = total /\ expected = total

RepeatedEnd ==
  /\ Handling("END")
  /\ EndIsRepeated
  /\ Answer("ACK")
  /\ UNCHANGED << client, device, history, queue, abort >>

RefusedEnd ==
  /\ Handling("END")
  /\ ~ EndIsRepeated /\ ~ EndIsDue
  /\ Answer("NACK")
  /\ UNCHANGED << client, device, history, queue, abort >>

BeginVerify ==
  /\ Handling("END")
  /\ EndIsDue
  /\ state' = "VERIFYING"
  /\ GoTo("finish")
  /\ UNCHANGED << session, total, received, expected, cache, writer >>
  /\ UNCHANGED << device, history, queue, abort >>

ImageIsWhole == writer.written = writer.size

\* esp_ota_end() accepts the image; its handle is gone in any case.
EndWriter ==
  /\ At("finish")
  /\ writer.active /\ ImageIsWhole
  /\ writer' = [writer EXCEPT !.active = FALSE]
  /\ GoTo("verify")
  /\ UNCHANGED << state, session, total, received, expected, cache >>
  /\ UNCHANGED << device, history, queue, abort >>

\* ota_writer_finish() refuses, or esp_ota_end() finds the image malformed.
FailedEnd ==
  /\ At("finish")
  /\ writer' \in { writer } \cup
       (IF writer.active /\ ImageIsWhole
        THEN { [writer EXCEPT !.active = FALSE, !.hashing = FALSE] } ELSE {})
  /\ Fail
  /\ UNCHANGED << device, history, queue, abort >>

\* Faulty: the digest is computed but not compared.
DigestMatchesAlways == writer.hashing

\* psa_hash_finish() and memcmp(): what was written is what START announced.
DigestMatches ==
  /\ writer.hashing
  /\ session \in Sound
  /\ \A p \in 0 .. FlashSize - 1 : p < writer.written => flash[p] = << session, p >>
  /\ writer.written = Chunks[session]

SelectImage ==
  /\ At("verify")
  /\ DigestMatches
  /\ writer' = [writer EXCEPT !.hashing = FALSE]
  /\ boot' = session
  /\ GoTo("accept")
  /\ UNCHANGED << state, session, total, received, expected, cache >>
  /\ UNCHANGED << flash, power, history, queue, abort >>

\* The digest differs, or esp_ota_set_boot_partition() fails.
FailedVerify ==
  /\ At("verify")
  /\ writer' = [writer EXCEPT !.hashing = FALSE]
  /\ Fail
  /\ UNCHANGED << device, history, queue, abort >>

AcceptImage ==
  /\ At("accept")
  /\ state' = "READY_TO_REBOOT"
  /\ Answer("ACK")
  /\ UNCHANGED << session, total, received, expected, cache, writer >>
  /\ UNCHANGED << device, history, queue, abort >>

-----------------------------------------------------------------------------
(* ota_consumer_send_response() and ota_radio_send_callback(): the radio   *)
(* may fail to send, and the device restarts once the ACK of END is out.   *)

SentEndAck == pkt.type = "END" /\ answer = "ACK"

Reply(sent) ==
  /\ At("reply")
  /\ pc' = "receive" /\ pkt' = NoPacket /\ answer' = "none" /\ UNCHANGED batch
  /\ acked' = IF sent /\ pkt.type = "DATA" /\ answer = "ACK"
              THEN acked \cup { pkt.seq } ELSE acked
  /\ power' = IF sent /\ SentEndAck THEN "updated" ELSE power
  /\ UNCHANGED << client, flash, boot, nacked, aborted, queue, abort >>

-----------------------------------------------------------------------------
(* ota_client_abort(), called by fsm_task.                                 *)

AbortBegin ==
  /\ power = "on" /\ abort = "idle"
  /\ state \in { "RECEIVING", "ERROR" }
  /\ abort' = "writer"
  /\ aborted' = aborted \cup ({ session } \ { NoSession })
  /\ UNCHANGED << client, consumer, device, acked, nacked, queue >>

AbortWriter ==
  /\ power = "on" /\ abort = "writer"
  /\ writer' = WriterAborted
  /\ abort' = "reset"
  /\ UNCHANGED << state, session, total, received, expected, cache >>
  /\ UNCHANGED << consumer, device, history, queue >>

\* xQueueReset() and ota_client_reset_session().
AbortReset ==
  /\ power = "on" /\ abort = "reset"
  /\ queue' = << >>
  /\ session' = NoSession
  /\ total' = 0 /\ received' = 0 /\ expected' = 0
  /\ cache' = Prepare(0, 0)
  /\ writer' = IdleWriter
  /\ abort' = "idle_next"
  /\ UNCHANGED << state, consumer, device, history >>

AbortEnd ==
  /\ power = "on" /\ abort = "idle_next"
  /\ state' = "IDLE"
  /\ abort' = "idle"
  /\ UNCHANGED << session, total, received, expected, cache, writer >>
  /\ UNCHANGED << consumer, device, history, queue >>

Abort == AbortBegin \/ AbortWriter \/ AbortReset \/ AbortEnd

-----------------------------------------------------------------------------
Start == RepeatedStart \/ RefusedStart \/ FailedStart \/ AcceptedStart
Data  == RefusedData \/ RepeatedData \/ StoreData \/ CommitBatch \/ FailedCommit \/ BookBatch
End   == RepeatedEnd \/ RefusedEnd \/ BeginVerify \/ EndWriter \/ FailedEnd
         \/ SelectImage \/ FailedVerify \/ AcceptImage
Consume == Receive \/ Start \/ Data \/ End \/ \E sent \in BOOLEAN : Reply(sent)

\* The restarted device is another program.
Restarted == power # "on" /\ UNCHANGED vars

Init ==
  /\ state = "IDLE" /\ session = NoSession
  /\ total = 0 /\ received = 0 /\ expected = 0
  /\ cache = Prepare(0, 0)
  /\ writer = IdleWriter
  /\ queue = << >>
  /\ pc = "receive" /\ pkt = NoPacket /\ batch = 0 /\ answer = "none"
  /\ abort = "idle"
  /\ flash = [p \in 0 .. FlashSize - 1 |-> Blank]
  /\ boot = NoSession /\ power = "on"
  /\ acked = {} /\ nacked = {} /\ aborted = {}

Undisturbed == (\E p \in Packets : Submit(p)) \/ Consume \/ ReceiveTimeout \/ Restarted
Next == Undisturbed \/ Abort

Spec == Init /\ [][Next]_vars

(* A transfer nobody aborts, to a gateway that repeats what is not         *)
(* acknowledged, over a radio that keeps getting some answers through.     *)
Fairness ==
  /\ WF_vars(Consume)
  /\ \A p \in Packets : SF_vars(Submit(p))
  /\ SF_vars(SentEndAck /\ Reply(TRUE))

TransferSpec == Init /\ [][Undisturbed]_vars /\ Fairness

-----------------------------------------------------------------------------
(* Whatever is aborted, and whenever.                                      *)

\* While the writer is open the partition holds the first chunks of the session's
\* own image, each in its place: no batch is lost, repeated or misplaced by
\* write_chunk() however the packets come.
FlashHoldsPrefix ==
  writer.active =>
    /\ session \in Sessions /\ writer.written <= Chunks[session]
    /\ \A p \in 0 .. FlashSize - 1 : p < writer.written => flash[p] = << session, p >>

\* A chunk the gateway saw acknowledged is never asked for again, so it must be
\* in the partition or in the batch cache for as long as the session lives.
AckedIsKept ==
  writer.active =>
    \A q \in acked : \/ q < writer.written
                     \/ /\ q - cache.base < cache.count
                        /\ cache.slots[q - cache.base] = << session, q >>

\* handle_receive_timeout() asks for what is missing and only for that; a session
\* that waits for DATA always has something to ask for.
NacksNameTheGap ==
  /\ nacked \cap acked = {}
  /\ pc = "receive" /\ state = "RECEIVING" /\ writer.active /\ expected < total
       => Missing(cache) # {}

\* A repeated START, DATA or END never takes back what a session has achieved.
ProgressIsKept ==
  [][session' = session /\ writer.active /\ writer'.active
       => /\ writer'.written >= writer.written
          /\ expected' >= expected
          /\ acked \subseteq acked']_vars

-----------------------------------------------------------------------------
(* A transfer nobody aborts.                                               *)

\* From finish_session() to the restart the selected partition holds the whole
\* image, with the digest START announced.
BootImageIntact ==
  boot # NoSession =>
    /\ boot \in Sound
    /\ \A p \in 0 .. Chunks[boot] - 1 : flash[p] = << boot, p >>

\* The gateway's repetitions bring every session to its end, and a verified image
\* to the restart that runs it.
TransferEnds == state = "RECEIVING" ~> state \in { "READY_TO_REBOOT", "ERROR" }
VerifiedRestarts == state = "READY_TO_REBOOT" ~> power = "updated"

\* The promise to the boot loader (module OtaImage), kept by the transfer.
Filling == writer.active \/ pc = "verify" \/ boot # NoSession
Image == INSTANCE OtaImage WITH
  image    <- IF Filling THEN session ELSE NoSession,
  contents <- [p \in IF Filling THEN 0 .. writer.written - 1 ELSE {} |-> flash[p]],
  selected <- boot # NoSession
TransferRefinesImage == Image!Spec

-----------------------------------------------------------------------------
(* What ota_client/README.md says of aborting, which does not hold.        *)

\* README.md:251: the image of an aborted session is not selected for booting.
AbortedImageNotBooted == boot \notin aborted
=============================================================================
