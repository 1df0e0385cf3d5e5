----------------------------- MODULE DtlsRecord -----------------------------
(***************************************************************************)
(* The receiving half of the DTLS record layer (ssl/d1_pkt.c): the replay  *)
(* window, the two epochs a receiver may see at once, and the three queues *)
(* in which records wait (unprocessed_rcds, processed_rcds and             *)
(* buffered_app_data).  Records arrive in datagrams; the network may lose, *)
(* repeat, delay and corrupt them, so at every read any datagram that the  *)
(* peer can have produced by then may be the next one.                     *)
(*                                                                         *)
(* dtls1_get_record is split at its `again' label: `pc' says which part of *)
(* the loop runs next.  The caller, dtls1_read_bytes, starts at            *)
(* pc = "idle" and acts on what is in rrec.  The handshake above it is     *)
(* reduced to what the record layer sees of it: whether a handshake is in  *)
(* progress and whether it waits for the peer's Finished.                  *)
(*                                                                         *)
(* A record that dtls1_get_record discards before it has looked at the     *)
(* body stays in rrec, with its length, until another one replaces it.     *)
(* `stale' marks such a leftover.                                          *)
(***************************************************************************)
EXTENDS Integers, FiniteSets, Sequences

CONSTANTS MaxEpoch,    \* epochs are 0 .. MaxEpoch (16 bits in the code)
          MaxSeq,      \* record numbers are 0 .. MaxSeq (48 bits)
          W,           \* width of DTLS1_BITMAP.map, sizeof(map) * 8
          Sat,         \* clamp of satsub64be, 128
          QueueLimit,  \* most records in one record_pqueue, 100
          Dgrams,      \* the datagrams the peer and the network can produce
          Waits,       \* BIO_read waits until there is a datagram
          Client       \* TRUE in dtls1_connect, FALSE in dtls1_accept

Types == {"HM", "CCS", "APP", "ALERT"}

Epochs == 0 .. MaxEpoch
Seqs == 0 .. MaxSeq

(* A record as its header describes it.  ok: its MAC verifies; ver: it     *)
(* carries the negotiated version; whole: the datagram holds all of it.    *)
Records == [epoch : Epochs, seq : Seqs, type : Types, ok : BOOLEAN,
            ver : BOOLEAN, whole : BOOLEAN]

ASSUME ConstantsAssumption ==
    /\ MaxEpoch \in Nat
    /\ MaxSeq \in Nat
    /\ W \in Nat \ {0}
    /\ Sat \in Nat
    /\ W <= Sat
    /\ QueueLimit \in Nat \ {0}
    /\ Waits \in BOOLEAN
    /\ Client \in BOOLEAN
    /\ Dgrams \subseteq Seq(Records)
    /\ \A d \in Dgrams : d # << >>

(* rrec with rr->length = 0. *)
NoRec == [epoch |-> -1, seq |-> -1, type |-> "none", ok |-> FALSE,
          ver |-> FALSE, whole |-> FALSE]

(* DTLS1_RECORD_DATA: a record together with what is left of the datagram  *)
(* it came in, since dtls1_buffer_record moves the whole of rbuf away.     *)
Items == [rec : Records, rest : Seq(Records), stale : BOOLEAN]

VARIABLES r_epoch,        \* d1->r_epoch
          bitmap,         \* d1->bitmap: [max, map], map the set of bits on
          next_bitmap,    \* d1->next_bitmap
          unprocessed,    \* d1->unprocessed_rcds.q, a set of Items
          unproc_epoch,   \* d1->unprocessed_rcds.epoch
          processed,      \* d1->processed_rcds.q
          app,            \* d1->buffered_app_data.q
          rbuf,           \* s3->rbuf: the records left of this datagram
          rrec,           \* s3->rrec, NoRec when rr->length = 0
          stale,          \* rrec is left over from a discarded record
          rstate,         \* s->rstate, "HEADER" or "BODY"
          pc,             \* where dtls1_get_record is
          hs,             \* "early", "wait" (for Finished) or "ok"
          started,        \* number of handshakes begun
          ccs_ok,         \* d1->change_cipher_spec_ok
          ccs,            \* s3->change_cipher_spec
          ierr,           \* history: internal errors and misused leftovers
          handed          \* history: times a record was handed upwards

vars == <<r_epoch, bitmap, next_bitmap, unprocessed, unproc_epoch, processed,
          app, rbuf, rrec, stale, rstate, pc, hs, started, ccs_ok, ccs, ierr,
          handed>>

handshakeVars == <<hs, started, ccs_ok, ccs>>
windowVars == <<r_epoch, bitmap, next_bitmap>>
recordVars == <<rrec, stale, rstate>>

EmptyBitmap == [max |-> 0, map |-> {}]

Init ==
    /\ r_epoch = 0
    /\ bitmap = EmptyBitmap
    /\ next_bitmap = EmptyBitmap
    /\ unprocessed = {}
    /\ unproc_epoch = 0
    /\ processed = {}
    /\ app = {}
    /\ rbuf = << >>
    /\ rrec = NoRec
    /\ stale = FALSE
    /\ rstate = "HEADER"
    /\ pc = "idle"
    /\ hs = "early"
    /\ started = 1
    /\ ccs_ok = FALSE
    /\ ccs = FALSE
    /\ ierr = {}
    /\ handed = [e \in Epochs |-> [n \in Seqs |-> 0]]

-----------------------------------------------------------------------------
(* Replay window *)

(* satsub64be: a - b, clamped to -Sat .. Sat. *)
satsub64be(a, b) ==
    IF a - b > Sat THEN Sat ELSE IF a - b < -Sat THEN -Sat ELSE a - b

(* TRUE when the record is new or inside the window and not yet seen. *)
dtls1_record_replay_check(seq, b) ==
    LET cmp == satsub64be(seq, b.max)
    IN  \/ cmp > 0
        \/ -cmp < W /\ -cmp \notin b.map

(* Mutant: a newer record clears the window instead of shifting it. *)
BitmapCleared(seq, b) ==
    LET cmp == satsub64be(seq, b.max)
    IN  IF cmp > 0
        THEN [max |-> seq, map |-> {0}]
        ELSE [max |-> b.max, map |-> b.map \cup {-cmp}]

dtls1_record_bitmap_update(seq, b) ==
    LET cmp == satsub64be(seq, b.max)
    IN  IF cmp > 0
        THEN [max |-> seq,
              map |-> {0} \cup {i \in 1 .. W - 1 : i - cmp \in b.map}]
        ELSE [max |-> b.max, map |-> b.map \cup {i \in 0 .. W - 1 : i = -cmp}]

InCurrentEpoch(rec) == rec.epoch = r_epoch

(* The only other epoch dtls1_get_bitmap finds a window for. *)
IsNextEpoch(rec) ==
    /\ rec.epoch = r_epoch + 1
    /\ unproc_epoch # r_epoch
    /\ rec.type \in {"HM", "ALERT"}

(* dtls1_process_record succeeds: in epoch 0 nothing is authenticated. *)
Authentic(rec) == rec.ok \/ rec.epoch = 0

-----------------------------------------------------------------------------
(* Record queues: a pqueue keyed by the record number *)

HasPriority(q, seq) == \E x \in q : x.rec.seq = seq
First(q) == {x \in q : \A y \in q : x.rec.seq <= y.rec.seq}

(* dtls1_buffer_record: 0 when the queue is full, -1 when pqueue_insert    *)
(* finds an entry with this record number, 1 otherwise.                    *)
BufferFull(q) == Cardinality(q) >= QueueLimit
BufferFails(q, rec) == ~BufferFull(q) /\ HasPriority(q, rec.seq)
Buffered(q, item) ==
    IF BufferFull(q) \/ HasPriority(q, item.rec.seq) THEN q ELSE q \cup {item}
(* rbuf moves away with the record unless the queue was full. *)
RbufAfter(q, rest) == IF BufferFull(q) THEN rest ELSE << >>
InternalError(q, rec, where) ==
    ierr' = ierr \cup (IF BufferFails(q, rec) THEN {where} ELSE {})

-----------------------------------------------------------------------------
(* dtls1_get_record *)

EmptyRrec == rrec' = NoRec /\ stale' = FALSE

(* dtls1_read_bytes calls dtls1_get_record only when rrec is used up and   *)
(* there is no application data kept from the last handshake.              *)
NeedsRecord ==
    pc = "again" \/ (pc = "idle" /\ rrec = NoRec /\ ~(hs = "ok" /\ app # {}))

(* Mutant: the queue is processed without a look at its epoch. *)
ProcessBufferedAnyEpoch ==
    /\ NeedsRecord
    /\ IF unprocessed = {}
       THEN unproc_epoch' = r_epoch + 1 /\ pc' = "fetch"
       ELSE pc' = (IF rbuf # << >> THEN "fetch" ELSE "loop")
            /\ UNCHANGED unproc_epoch
    /\ UNCHANGED <<windowVars, unprocessed, processed, app, rbuf, recordVars,
                   handshakeVars, ierr, handed>>

(* Mutant: the epochs are synchronised with records still in the queue. *)
ProcessBufferedSyncEarly ==
    /\ NeedsRecord
    /\ unproc_epoch' = r_epoch + 1
    /\ pc' = "fetch"
    /\ UNCHANGED <<windowVars, unprocessed, processed, app, rbuf, recordVars,
                   handshakeVars, ierr, handed>>

(* dtls1_process_buffered_records up to its loop. *)
ProcessBuffered ==
    /\ NeedsRecord
    /\ IF unprocessed = {}
       THEN /\ unproc_epoch' = r_epoch + 1
            /\ pc' = "fetch"
       ELSE /\ pc' = IF unproc_epoch # r_epoch \/ rbuf # << >>
                     THEN "fetch" ELSE "loop"
            /\ UNCHANGED unproc_epoch
    /\ UNCHANGED <<windowVars, unprocessed, processed, app, rbuf, recordVars,
                   handshakeVars, ierr, handed>>

(* Mutant: the result of dtls1_process_record is ignored. *)
ProcessOneUnchecked ==
    /\ pc = "loop"
    /\ \E item \in First(unprocessed) :
           /\ unprocessed' = unprocessed \ {item}
           /\ bitmap' = dtls1_record_bitmap_update(item.rec.seq, bitmap)
           /\ processed' = Buffered(processed, item)
           /\ rbuf' = RbufAfter(processed, item.rest)
    /\ rstate' = "HEADER"
    /\ EmptyRrec
    /\ UNCHANGED <<r_epoch, next_bitmap, unproc_epoch, app, handshakeVars,
                   handed, pc, ierr>>

(* Mutant: a record that is dumped stays at the head of the queue. *)
ProcessOnePeek ==
    /\ pc = "loop"
    /\ rstate' = "HEADER"
    /\ EmptyRrec
    /\ \E item \in First(unprocessed) :
         IF dtls1_record_replay_check(item.rec.seq, bitmap) /\ Authentic(item.rec)
         THEN /\ unprocessed' = unprocessed \ {item}
              /\ bitmap' = dtls1_record_bitmap_update(item.rec.seq, bitmap)
              /\ processed' = Buffered(processed, item)
              /\ rbuf' = RbufAfter(processed, item.rest)
         ELSE UNCHANGED <<unprocessed, bitmap, processed, rbuf>>
    /\ UNCHANGED <<r_epoch, next_bitmap, unproc_epoch, app, handshakeVars,
                   handed, pc, ierr>>

(* One record of the loop: decrypt it and queue it in processed_rcds, or   *)
(* dump it.  After dtls1_copy_record and the reset of packet_length the    *)
(* next read starts with a header.                                         *)
ProcessOne ==
    /\ pc = "loop"
    /\ rstate' = "HEADER"
    /\ \E item \in First(unprocessed) :
       LET rec == item.rec
           replayok == dtls1_record_replay_check(rec.seq, bitmap)
       IN  /\ unprocessed' = unprocessed \ {item}
           /\ \/ /\ ~InCurrentEpoch(rec)          \* "Should not happen"
                 /\ ierr' = ierr \cup {"bitmap"}
                 /\ rrec' = rec
                 /\ stale' = TRUE
                 /\ rbuf' = item.rest
                 /\ pc' = "idle"
                 /\ UNCHANGED <<bitmap, processed>>
              \/ /\ InCurrentEpoch(rec)
                 /\ ~replayok \/ ~Authentic(rec)
                 /\ EmptyRrec
                 /\ rbuf' = item.rest
                 /\ UNCHANGED <<bitmap, processed, ierr, pc>>
              \/ /\ InCurrentEpoch(rec)
                 /\ replayok
                 /\ Authentic(rec)
                 /\ bitmap' = dtls1_record_bitmap_update(rec.seq, bitmap)
                 /\ processed' = Buffered(processed, item)
                 /\ InternalError(processed, rec, "processed")
                 /\ rbuf' = RbufAfter(processed, item.rest)
                 /\ EmptyRrec
                 /\ pc' = IF BufferFails(processed, rec) THEN "idle" ELSE pc
    /\ UNCHANGED <<r_epoch, next_bitmap, unproc_epoch, app, handshakeVars,
                   handed>>

ProcessDone ==
    /\ pc = "loop"
    /\ unprocessed = {}
    /\ unproc_epoch' = r_epoch + 1
    /\ pc' = "fetch"
    /\ UNCHANGED <<windowVars, unprocessed, processed, app, rbuf, recordVars,
                   handshakeVars, ierr, handed>>

(* dtls1_get_processed_record: dtls1_copy_record replaces rbuf as well. *)
GetProcessed ==
    /\ pc = "fetch"
    /\ \E item \in First(processed) :
           /\ processed' = processed \ {item}
           /\ rrec' = item.rec
           /\ rbuf' = item.rest
    /\ stale' = FALSE
    /\ rstate' = "HEADER"
    /\ pc' = "have"
    /\ UNCHANGED <<windowVars, unprocessed, unproc_epoch, app, handshakeVars,
                   ierr, handed>>

(* The bare `goto again': rr->length and the rest of rrec stay. *)
Discard(rec, rest) ==
    /\ rrec' = rec
    /\ stale' = TRUE
    /\ rbuf' = rest
    /\ pc' = "again"
    /\ UNCHANGED <<bitmap, unprocessed, ierr>>

(* `rr->length = 0' before the `goto again'. *)
Dump(rest) ==
    /\ EmptyRrec
    /\ rbuf' = rest
    /\ pc' = "again"
    /\ UNCHANGED <<bitmap, unprocessed, ierr>>

BufferNextEpoch(rec, rest) ==
    LET item == [rec |-> rec, rest |-> rest, stale |-> FALSE]
    IN  /\ rbuf' = RbufAfter(unprocessed, rest)
        /\ unprocessed' = Buffered(unprocessed, item)
        /\ InternalError(unprocessed, rec, "unprocessed")
        /\ EmptyRrec
        /\ pc' = IF BufferFails(unprocessed, rec) THEN "idle" ELSE "again"
        /\ UNCHANGED bitmap

AcceptRecord(rec, rest) ==
    /\ bitmap' = dtls1_record_bitmap_update(rec.seq, bitmap)
    /\ rrec' = rec
    /\ stale' = FALSE
    /\ rbuf' = rest
    /\ pc' = "have"
    /\ UNCHANGED <<unprocessed, ierr>>

(* From dtls1_get_bitmap on, for a record followed by rest in its          *)
(* datagram.  With no window rr->seq_num is not set and stays what it was. *)
ProcessBody(rec, rest) ==
    \/ /\ ~InCurrentEpoch(rec)
       /\ ~IsNextEpoch(rec)
       /\ \E n \in Seqs : Discard([rec EXCEPT !.seq = n], rest)
    \/ /\ IsNextEpoch(rec)
       /\ IF dtls1_record_replay_check(rec.seq, next_bitmap)
          THEN IF hs # "ok" THEN BufferNextEpoch(rec, rest) ELSE Dump(rest)
          ELSE Discard(rec, rest)
    \/ /\ InCurrentEpoch(rec)
       /\ IF dtls1_record_replay_check(rec.seq, bitmap)
          THEN IF Authentic(rec) THEN AcceptRecord(rec, rest) ELSE Dump(rest)
          ELSE Discard(rec, rest)

(* The datagram can exist by now: the peer sends its ChangeCipherSpec, and *)
(* then records of the next epoch, only in answer to a handshake that we   *)
(* have begun.                                                             *)
Causal(d) ==
    \A i \in 1 .. Len(d) :
        /\ d[i].epoch <= started
        /\ d[i].type = "CCS" => d[i].epoch < started

(* The header is read and then the body, which must be in the same         *)
(* datagram.  Neither the version check nor the check for a partial record *)
(* takes rstate back to SSL_ST_READ_HEADER.                                *)
ReadHeader(d) ==
    /\ pc = "fetch"
    /\ processed = {}
    /\ rstate = "HEADER"
    /\ \/ d = rbuf
       \/ rbuf = << >> /\ d \in Dgrams /\ Causal(d)
    /\ d # << >>
    /\ IF Head(d).ver /\ Head(d).whole
       THEN /\ ProcessBody(Head(d), Tail(d))
            /\ UNCHANGED rstate
       ELSE /\ Discard(Head(d), IF Head(d).whole THEN d ELSE << >>)
            /\ rstate' = "BODY"
    /\ UNCHANGED <<r_epoch, next_bitmap, unproc_epoch, processed, app,
                   handshakeVars, handed>>

(* With rstate = SSL_ST_READ_BODY the header is taken as read.  When the   *)
(* datagram has no more bytes ssl3_read_n returns 0 and the loop goes on.  *)
ReadBody ==
    /\ pc = "fetch"
    /\ processed = {}
    /\ rstate = "BODY"
    /\ IF rbuf # << >>
       THEN /\ ProcessBody(Head(rbuf), Tail(rbuf))
            /\ rstate' = "HEADER"
       ELSE /\ pc' = "again"
            /\ UNCHANGED <<bitmap, unprocessed, rbuf, recordVars, ierr>>
    /\ UNCHANGED <<r_epoch, next_bitmap, unproc_epoch, processed, app,
                   handshakeVars, handed>>

(* The socket has nothing: BIO_read fails with a retry, or times out. *)
ReadNothing ==
    /\ ~Waits
    /\ pc = "fetch"
    /\ processed = {}
    /\ rstate = "HEADER"
    /\ rbuf = << >>
    /\ pc' = "idle"
    /\ UNCHANGED <<windowVars, unprocessed, unproc_epoch, processed, app, rbuf,
                   recordVars, handshakeVars, ierr, handed>>

-----------------------------------------------------------------------------
(* dtls1_read_bytes: what becomes of the record in rrec *)

HandUp ==
    IF stale
    THEN /\ ierr' = ierr \cup {"discarded"}
         /\ UNCHANGED handed
    ELSE /\ handed' = [handed EXCEPT ![rrec.epoch][rrec.seq] = @ + 1]
         /\ UNCHANGED ierr

(* dtls1_read_bytes takes whatever rrec holds, also on entry. *)
Consumed ==
    /\ pc \in {"idle", "have"}
    /\ rrec # NoRec
    /\ EmptyRrec
    /\ pc' = "idle"
    /\ UNCHANGED <<unprocessed, unproc_epoch, processed, rstate>>

(* Back in SSL_ST_OK: records kept since the handshake come first. *)
PopAppData ==
    /\ pc = "idle"
    /\ rrec = NoRec
    /\ hs = "ok"
    /\ \E item \in First(app) :
           /\ app' = app \ {item}
           /\ rrec' = item.rec
           /\ stale' = item.stale
           /\ rbuf' = item.rest
    /\ pc' = "have"
    /\ UNCHANGED <<windowVars, unprocessed, unproc_epoch, processed, rstate,
                   handshakeVars, ierr, handed>>

(* Anything but handshake data between ChangeCipherSpec and Finished. *)
KeepForLater ==
    /\ ccs
    /\ rrec.type # "HM"
    /\ Consumed
    /\ app' = Buffered(app, [rec |-> rrec, rest |-> rbuf, stale |-> stale])
    /\ InternalError(app, rrec, "app")
    /\ rbuf' = RbufAfter(app, rbuf)
    /\ UNCHANGED <<windowVars, handshakeVars, handed>>

(* Handshake data for dtls1_get_message.  After the ChangeCipherSpec it    *)
(* can complete the Finished, which ends the wait (ssl3_get_finished).     *)
DeliverHandshake ==
    /\ rrec.type = "HM"
    /\ hs # "ok"
    /\ Consumed
    /\ HandUp
    /\ \/ UNCHANGED <<hs, ccs>>
       \/ /\ hs = "wait"
          /\ ccs
          /\ ~stale
          /\ hs' = "ok"
          /\ ccs' = FALSE
    /\ UNCHANGED <<windowVars, app, rbuf, started, ccs_ok>>

(* Application data for SSL_read, also while renegotiating: the handshake  *)
(* returns with in_read_app_data = 2 and ssl3_read_internal asks again.    *)
DeliverAppData ==
    /\ rrec.type = "APP"
    /\ ~ccs
    /\ r_epoch > 0                \* enc_read_ctx # NULL
    /\ Consumed
    /\ HandUp
    /\ UNCHANGED <<windowVars, app, rbuf, handshakeVars>>

DeliverAlert ==
    /\ rrec.type = "ALERT"
    /\ ~ccs
    /\ Consumed
    /\ HandUp
    /\ UNCHANGED <<windowVars, app, rbuf, handshakeVars>>

(* dtls1_reset_seq_numbers for reading. *)
dtls1_reset_seq_numbers ==
    /\ r_epoch' = r_epoch + 1
    /\ bitmap' = next_bitmap
    /\ next_bitmap' = EmptyBitmap

(* Mutant: change_cipher_spec_ok is not looked at. *)
ChangeCipherSpecAnyTime ==
    /\ rrec.type = "CCS"
    /\ ~ccs
    /\ Consumed
    /\ HandUp
    /\ r_epoch < MaxEpoch
    /\ ccs_ok' = FALSE
    /\ ccs' = TRUE
    /\ dtls1_reset_seq_numbers
    /\ UNCHANGED <<app, rbuf, hs, started>>

(* A ChangeCipherSpec is dropped unless the handshake awaits it.  What is  *)
(* left of a sealed one does not have the length of one.                   *)
ChangeCipherSpec ==
    /\ rrec.type = "CCS"
    /\ ~ccs
    /\ stale => rrec.epoch = 0
    /\ Consumed
    /\ HandUp
    /\ IF ccs_ok
       THEN /\ r_epoch < MaxEpoch
            /\ ccs_ok' = FALSE
            /\ ccs' = TRUE
            /\ dtls1_reset_seq_numbers
       ELSE UNCHANGED <<ccs_ok, ccs, windowVars>>
    /\ UNCHANGED <<app, rbuf, hs, started>>

(* Such a leftover fails the call, and stays where it is. *)
BadChangeCipherSpec ==
    /\ pc \in {"idle", "have"}
    /\ rrec.type = "CCS"
    /\ ~ccs
    /\ stale
    /\ rrec.epoch > 0
    /\ pc' = "idle"
    /\ UNCHANGED <<windowVars, unprocessed, unproc_epoch, processed, app, rbuf,
                   recordVars, handshakeVars, ierr, handed>>

(* dtls1_connect and dtls1_accept begin a handshake with a clean slate. *)
BeginHandshake ==
    /\ hs' = "early"
    /\ started' = started + 1
    /\ ccs_ok' = FALSE
    /\ ccs' = FALSE

(* A handshake record while reading application data: a stale or repeated  *)
(* message is dropped, a new one starts a renegotiation.                   *)
UnexpectedHandshake ==
    /\ rrec.type = "HM"
    /\ hs = "ok"
    /\ Consumed
    /\ HandUp
    /\ \/ UNCHANGED handshakeVars
       \/ rrec.epoch = r_epoch /\ started < MaxEpoch /\ BeginHandshake
    /\ UNCHANGED <<windowVars, app, rbuf>>

-----------------------------------------------------------------------------
(* The handshake, between two calls of dtls1_read_bytes *)

Renegotiate ==
    /\ pc = "idle"
    /\ hs = "ok"
    /\ started < MaxEpoch
    /\ BeginHandshake
    /\ UNCHANGED <<windowVars, unprocessed, unproc_epoch, processed, app, rbuf,
                   recordVars, pc, ierr, handed>>

(* SSL3_ST_CR_FINISHED and SSL3_ST_SR_FINISHED, entered again on every     *)
(* retry: the client always allows a ChangeCipherSpec, the server unless   *)
(* it has had one.                                                         *)
AwaitFinished ==
    /\ pc = "idle"
    /\ hs # "ok"
    /\ hs' = "wait"
    /\ ccs_ok' = (ccs_ok \/ Client \/ ~ccs)
    /\ UNCHANGED <<windowVars, unprocessed, unproc_epoch, processed, app, rbuf,
                   recordVars, pc, started, ccs, ierr, handed>>

(* The reader: the application keeps calling SSL_read or the handshake. *)
Reader ==
    \/ ProcessBuffered \/ ProcessOne \/ ProcessDone
    \/ GetProcessed
    \/ \E d \in Dgrams \cup {rbuf} : ReadHeader(d)
    \/ ReadBody \/ ReadNothing
    \/ PopAppData \/ KeepForLater
    \/ DeliverHandshake \/ DeliverAppData \/ DeliverAlert
    \/ ChangeCipherSpec \/ BadChangeCipherSpec \/ UnexpectedHandshake

Next == Reader \/ Renegotiate \/ AwaitFinished

Spec == Init /\ [][Next]_vars

FairSpec == Spec /\ WF_vars(Reader)

-----------------------------------------------------------------------------
(* Properties *)

Bitmaps == [max : Seqs, map : SUBSET (0 .. W - 1)]

(* Every variable keeps the type its C declaration gives it. *)
TypeOK ==
    /\ r_epoch \in Epochs
    /\ bitmap \in Bitmaps
    /\ next_bitmap \in Bitmaps
    /\ unprocessed \in SUBSET Items
    /\ unproc_epoch \in 0 .. MaxEpoch + 1
    /\ processed \in SUBSET Items
    /\ app \in SUBSET Items
    /\ rbuf \in Seq(Records)
    /\ rrec \in Records \cup {NoRec}
    /\ stale \in BOOLEAN
    /\ rstate \in {"HEADER", "BODY"}
    /\ pc \in {"idle", "again", "loop", "fetch", "have"}
    /\ hs \in {"early", "wait", "ok"}
    /\ started \in Nat
    /\ ccs_ok \in BOOLEAN
    /\ ccs \in BOOLEAN
    /\ ierr \subseteq {"bitmap", "processed", "unprocessed", "app", "discarded"}
    /\ handed \in [Epochs -> [Seqs -> Nat]]

(* Anti-replay: however often and in whatever order the network delivers a *)
(* record, and whether it goes through unprocessed_rcds, processed_rcds,   *)
(* buffered_app_data or straight to the caller, it is accepted and acted   *)
(* upon by dtls1_read_bytes at most once.                                  *)
NoReplay == \A e \in Epochs, n \in Seqs : handed[e][n] <= 1

(* What dtls1_get_record returns has been authenticated under the keys of  *)
(* its own epoch: never a record of an epoch not yet switched to, also     *)
(* when it has waited in a queue across a ChangeCipherSpec.                *)
ActsOnAuthentic ==
    pc = "have" /\ ~stale => rrec.epoch <= r_epoch /\ Authentic(rrec)

(* dtls1_process_buffered_records never meets a record for which           *)
(* dtls1_get_bitmap returns NULL ("Should not happen"), and never finds    *)
(* the number of the record already in processed_rcds.                     *)
BufferedRecordsFit == ierr \cap {"bitmap", "processed"} = {}

(* A record in unprocessed_rcds can still be processed: its queue belongs  *)
(* to the current epoch or the next one, so no pair of epoch changes       *)
(* leaves it behind for ever.                                              *)
QueueNotStranded ==
    unprocessed # {} =>
        /\ unproc_epoch \in {r_epoch, r_epoch + 1}
        /\ \A x \in unprocessed : x.rec.epoch = unproc_epoch

(* The read epoch advances only while the handshake waits for the peer's   *)
(* Finished, in particular never on a ChangeCipherSpec that overtook the   *)
(* messages before it.                                                     *)
EpochAdvancesWhenAwaited == [][r_epoch' # r_epoch => hs = "wait"]_vars

(* Records buffered for the next epoch are taken up once the epoch is      *)
(* current.                                                                *)
BufferedRecordsSurface ==
    (unprocessed # {} /\ unproc_epoch = r_epoch) ~> unprocessed = {}

(* The comments in dtls1_get_record: a packet without a window is "dropped *)
(* on the floor", a repeated one is not processed.  Nothing of a discarded *)
(* record reaches the caller of dtls1_read_bytes.                          *)
DiscardedNotUsed == "discarded" \notin ierr
====
