-------------------------- MODULE DtlsRecordProofs --------------------------
(***************************************************************************)
(* DtlsRecord for every window width, clamp, queue limit and set of        *)
(* datagrams: type correctness, anti-replay and authenticity.              *)
(***************************************************************************)
EXTENDS DtlsRecord, TLAPS

USE ConstantsAssumption

-----------------------------------------------------------------------------
(* The replay window *)

(* What dtls1_record_replay_check refuses, free of satsub64be: the clamp   *)
(* does not show because it is no smaller than the window.                 *)
Refused(n, b) == n <= b.max /\ (b.max - n >= W \/ b.max - n \in b.map)

(* dtls1_record_replay_check through the clamped difference decides        *)
(* exactly the exact window test.                                          *)
LEMMA ReplayCheckExact ==
    ASSUME NEW n \in Seqs, NEW b \in Bitmaps
    PROVE  dtls1_record_replay_check(n, b) <=> ~Refused(n, b)
  BY DEF Seqs, Bitmaps, dtls1_record_replay_check, satsub64be, Refused

(* dtls1_record_bitmap_update keeps the window well-formed. *)
LEMMA BitmapUpdateType ==
    ASSUME NEW n \in Seqs, NEW b \in Bitmaps
    PROVE  dtls1_record_bitmap_update(n, b) \in Bitmaps
<1>1. CASE satsub64be(n, b.max) > 0
  BY <1>1 DEF Seqs, Bitmaps, dtls1_record_bitmap_update
<1>2. CASE ~(satsub64be(n, b.max) > 0)
  BY <1>2, Zenon DEF Seqs, Bitmaps, dtls1_record_bitmap_update
<1> QED BY <1>1, <1>2, Zenon

(* A record number that dtls1_record_bitmap_update has recorded is refused *)
(* from then on.                                                           *)
LEMMA BitmapRecords ==
    ASSUME NEW n \in Seqs, NEW b \in Bitmaps
    PROVE  Refused(n, dtls1_record_bitmap_update(n, b))
<1> DEFINE c == satsub64be(n, b.max)
           u == dtls1_record_bitmap_update(n, b)
<1>1. CASE c > 0
  <2>1. u.max = n /\ 0 \in u.map
    BY <1>1, Zenon DEF dtls1_record_bitmap_update
  <2> QED BY <2>1 DEF Refused, Seqs
<1>2. CASE ~(c > 0)
  <2>1. u.max = b.max /\ u.map = b.map \cup {i \in 0 .. W - 1 : i = -c}
    BY <1>2, Zenon DEF dtls1_record_bitmap_update, Bitmaps
  <2>2. n <= b.max
    BY <1>2 DEF satsub64be, Seqs, Bitmaps
  <2>3. CASE b.max - n >= W
    BY <2>1, <2>2, <2>3, Zenon DEF Refused
  <2>4. CASE b.max - n < W
    <3>1. -c = b.max - n /\ b.max - n \in 0 .. W - 1
      BY <2>2, <2>4 DEF satsub64be, Seqs, Bitmaps
    <3> QED BY <2>1, <2>2, <3>1, Zenon DEF Refused
  <2> QED BY <2>3, <2>4, <2>2 DEF Seqs, Bitmaps
<1> QED BY <1>1, <1>2, Zenon

(* A record number once refused stays refused while the window moves on.   *)
LEMMA BitmapMonotone ==
    ASSUME NEW m \in Seqs, NEW n \in Seqs, NEW b \in Bitmaps, Refused(n, b)
    PROVE  Refused(n, dtls1_record_bitmap_update(m, b))
<1> DEFINE c == satsub64be(m, b.max)
           u == dtls1_record_bitmap_update(m, b)
<1>1. CASE c > 0
  <2>1. u.max = m /\ u.map = {0} \cup {i \in 1 .. W - 1 : i - c \in b.map}
    BY <1>1, Zenon DEF dtls1_record_bitmap_update
  <2>2. m > b.max /\ n <= b.max
    BY <1>1 DEF satsub64be, Refused, Seqs, Bitmaps
  <2>3. CASE m - n >= W
    BY <2>1, <2>2, <2>3 DEF Refused, Seqs, Bitmaps
  <2>4. CASE m - n < W
    <3>1. c = m - b.max
      BY <2>2, <2>4 DEF satsub64be, Seqs, Bitmaps
    <3>2. b.max - n \in b.map
      BY <2>2, <2>4 DEF Refused, Seqs, Bitmaps
    <3>3. m - n \in 1 .. W - 1 /\ (m - n) - c = b.max - n
      BY <2>2, <2>4, <3>1 DEF Seqs, Bitmaps
    <3> QED BY <2>1, <2>2, <3>2, <3>3 DEF Refused, Seqs, Bitmaps
  <2> QED BY <2>3, <2>4 DEF Seqs
<1>2. CASE ~(c > 0)
  <2>1. u.max = b.max /\ u.map = b.map \cup {i \in 0 .. W - 1 : i = -c}
    BY <1>2, Zenon DEF dtls1_record_bitmap_update, Bitmaps
  <2> QED BY <2>1, Zenon DEF Refused
<1> QED BY <1>1, <1>2, Zenon

-----------------------------------------------------------------------------
(* Type correctness *)

(* dtls1_buffer_record keeps a queue a set of records. *)
LEMMA BufferedType ==
    ASSUME NEW q \in SUBSET Items, NEW item \in Items
    PROVE  Buffered(q, item) \in SUBSET Items
  BY Zenon DEF Buffered

(* What dtls1_buffer_record leaves in rbuf is a sequence of records. *)
LEMMA RbufAfterType ==
    ASSUME NEW q, NEW rest \in Seq(Records)
    PROVE  RbufAfter(q, rest) \in Seq(Records)
  BY DEF RbufAfter

(* The empty rrec is not a record. *)
LEMMA NoRecNotRecord == NoRec \notin Records
  BY DEF NoRec, Records, Epochs

(* A record under another sequence number is a record. *)
LEMMA RenumberedType ==
    ASSUME NEW rec \in Records, NEW n \in Seqs
    PROVE  [rec EXCEPT !.seq = n] \in Records
  BY Zenon DEF Records

(* dtls1_get_record returns 1 with a record in rrec. *)
HaveInv == pc = "have" => rrec # NoRec

(* Handing a record up keeps the types. *)
LEMMA HandUpType ==
    ASSUME TypeOK, HandUp, rrec # NoRec
    PROVE  /\ handed' \in [Epochs -> [Seqs -> Nat]]
           /\ ierr' \subseteq
                {"bitmap", "processed", "unprocessed", "app", "discarded"}
<1>1. rrec.epoch \in Epochs /\ rrec.seq \in Seqs
  BY Zenon DEF TypeOK, Records
<1>2. CASE stale
  BY <1>2, Zenon DEF HandUp, TypeOK
<1>3. CASE ~stale
  <2>1. handed' = [handed EXCEPT ![rrec.epoch][rrec.seq] = @ + 1]
        /\ ierr' = ierr
    BY <1>3, Zenon DEF HandUp
  <2> QED BY <1>1, <2>1 DEF TypeOK
<1> QED BY <1>2, <1>3, Zenon

(* Types through dtls1_get_record from dtls1_get_bitmap on. *)
LEMMA ProcessBodyType ==
    ASSUME TypeOK, NEW rec \in Records, NEW rest \in Seq(Records),
           ProcessBody(rec, rest)
    PROVE  /\ bitmap' \in Bitmaps
           /\ unprocessed' \in SUBSET Items
           /\ rbuf' \in Seq(Records)
           /\ rrec' \in Records \cup {NoRec}
           /\ stale' \in BOOLEAN
           /\ pc' \in {"idle", "again", "have"}
           /\ ierr' \subseteq
                {"bitmap", "processed", "unprocessed", "app", "discarded"}
           /\ HaveInv'
<1> USE NoRecNotRecord DEF HaveInv
<1>1. rec.seq \in Seqs
  BY Zenon DEF Records
<1>2. CASE \E n \in Seqs : Discard([rec EXCEPT !.seq = n], rest)
  <2> PICK n \in Seqs : Discard([rec EXCEPT !.seq = n], rest)
    BY <1>2, Zenon
  <2> QED BY RenumberedType, Zenon DEF Discard, TypeOK
<1>3. CASE Discard(rec, rest)
  BY <1>3, Zenon DEF Discard, TypeOK
<1>4. CASE Dump(rest)
  BY <1>4, Zenon DEF Dump, EmptyRrec, TypeOK
<1>5. CASE BufferNextEpoch(rec, rest)
  <2> DEFINE item == [rec |-> rec, rest |-> rest, stale |-> FALSE]
  <2>1. item \in Items
    BY Zenon DEF Items
  <2>2. /\ unprocessed' = Buffered(unprocessed, item)
        /\ rbuf' = RbufAfter(unprocessed, rest)
        /\ InternalError(unprocessed, rec, "unprocessed")
        /\ EmptyRrec /\ bitmap' = bitmap
        /\ pc' \in {"idle", "again"}
    BY <1>5, Zenon DEF BufferNextEpoch
  <2> HIDE DEF item
  <2>3. unprocessed' \in SUBSET Items
    BY <2>1, <2>2, BufferedType, Zenon DEF TypeOK
  <2>4. rbuf' \in Seq(Records)
    BY <2>2, RbufAfterType, Zenon
  <2> QED BY <2>2, <2>3, <2>4, Zenon DEF InternalError, EmptyRrec, TypeOK
<1>6. CASE AcceptRecord(rec, rest)
  BY <1>1, <1>6, BitmapUpdateType, Zenon DEF AcceptRecord, TypeOK
<1> QED BY <1>2, <1>3, <1>4, <1>5, <1>6, Zenon DEF ProcessBody

(* Every step keeps every variable in its type. *)
LEMMA TypeOKStep ==
    TypeOK /\ HaveInv /\ [Next]_vars => TypeOK' /\ HaveInv'
<1> SUFFICES ASSUME TypeOK, HaveInv, [Next]_vars
             PROVE  TypeOK' /\ HaveInv'
  BY Zenon
<1> USE NoRecNotRecord DEF HaveInv, recordVars
<1>1. CASE ProcessBuffered
  BY <1>1 DEF TypeOK, ProcessBuffered, handshakeVars, windowVars, Epochs
<1>2. CASE ProcessOne
  <2>0. PICK item \in First(unprocessed) : ProcessOne!3!(item)
    BY <1>2, Zenon DEF ProcessOne
  <2>1. item \in Items /\ item.rec \in Records /\ item.rest \in Seq(Records)
    BY Zenon DEF First, TypeOK, Items
  <2>2. item.rec.seq \in Seqs
    BY <2>1, Zenon DEF Records
  <2>3. UNCHANGED <<r_epoch, next_bitmap, unproc_epoch, app, handshakeVars,
                    handed>> /\ pc = "loop" /\ rstate' = "HEADER"
    BY <1>2, Zenon DEF ProcessOne
  <2>4. bitmap' \in Bitmaps
    BY <2>0, <2>2, BitmapUpdateType, Zenon DEF TypeOK
  <2>5. processed' \in SUBSET Items /\ unprocessed' \in SUBSET Items
    BY <2>0, <2>1, BufferedType, Zenon DEF TypeOK
  <2>6. rbuf' \in Seq(Records)
    BY <2>0, <2>1, RbufAfterType DEF TypeOK
  <2>7. ierr' \subseteq
          {"bitmap", "processed", "unprocessed", "app", "discarded"}
    BY <2>0, Zenon DEF TypeOK, InternalError
  <2>8. /\ rrec' \in Records \cup {NoRec} /\ stale' \in BOOLEAN
        /\ pc' \in {"idle", "loop"}
    BY <2>0, <2>1, <2>3, Zenon DEF EmptyRrec
  <2> QED
    BY <2>3, <2>4, <2>5, <2>6, <2>7, <2>8, Zenon DEF TypeOK, handshakeVars
<1>3. CASE ProcessDone
  BY <1>3 DEF TypeOK, ProcessDone, handshakeVars, windowVars, Epochs
<1>4. CASE GetProcessed
  BY <1>4, Zenon DEF TypeOK, GetProcessed, handshakeVars, windowVars, First, Items
<1>5. CASE \E d \in Dgrams \cup {rbuf} : ReadHeader(d)
  <2> PICK d \in Dgrams \cup {rbuf} : ReadHeader(d)
    BY <1>5, Zenon
  <2>1. d \in Seq(Records) /\ d # << >>
    BY Zenon DEF ReadHeader, TypeOK
  <2>2. Head(d) \in Records /\ Tail(d) \in Seq(Records)
    BY <2>1
  <2>3. UNCHANGED <<r_epoch, next_bitmap, unproc_epoch, processed, app,
                    handshakeVars, handed>> /\ rstate' \in {"HEADER", "BODY"}
    BY Zenon DEF ReadHeader
  <2>4. CASE ProcessBody(Head(d), Tail(d))
    BY <2>2, <2>3, <2>4, ProcessBodyType, Zenon DEF TypeOK, handshakeVars
  <2>5. CASE Discard(Head(d), IF Head(d).whole THEN d ELSE << >>)
    BY <2>1, <2>2, <2>3, <2>5 DEF Discard, TypeOK, handshakeVars
  <2> QED BY <2>4, <2>5, Zenon DEF ReadHeader
<1>6. CASE ReadBody
  <2>1. UNCHANGED <<r_epoch, next_bitmap, unproc_epoch, processed, app,
                    handshakeVars, handed>>
    BY <1>6, Zenon DEF ReadBody
  <2>2. CASE rbuf # << >>
    <3>1. Head(rbuf) \in Records /\ Tail(rbuf) \in Seq(Records)
      BY <2>2 DEF TypeOK
    <3>2. ProcessBody(Head(rbuf), Tail(rbuf)) /\ rstate' = "HEADER"
      BY <1>6, <2>2, Zenon DEF ReadBody
    <3> QED BY <2>1, <3>1, <3>2, ProcessBodyType, Zenon DEF TypeOK, handshakeVars
  <2>3. CASE rbuf = << >>
    BY <1>6, <2>1, <2>3, Zenon DEF ReadBody, TypeOK, handshakeVars
  <2> QED BY <2>2, <2>3, Zenon
<1>7. CASE ReadNothing
  BY <1>7, Zenon DEF TypeOK, ReadNothing, handshakeVars, windowVars
<1>8. CASE PopAppData
  BY <1>8, Zenon DEF TypeOK, PopAppData, handshakeVars, windowVars, First, Items
<1>9. CASE KeepForLater
  <2>1. [rec |-> rrec, rest |-> rbuf, stale |-> stale] \in Items
    BY <1>9, Zenon DEF KeepForLater, Consumed, TypeOK, Items
  <2> QED
    BY <1>9, <2>1, BufferedType, RbufAfterType, Zenon
    DEF TypeOK, KeepForLater, Consumed, EmptyRrec, InternalError, handshakeVars,
        windowVars
<1>10. CASE DeliverHandshake
  BY <1>10, HandUpType, Zenon
  DEF TypeOK, DeliverHandshake, Consumed, EmptyRrec, windowVars
<1>11. CASE DeliverAppData
  BY <1>11, HandUpType, Zenon
  DEF TypeOK, DeliverAppData, Consumed, EmptyRrec, windowVars, handshakeVars
<1>12. CASE DeliverAlert
  BY <1>12, HandUpType, Zenon
  DEF TypeOK, DeliverAlert, Consumed, EmptyRrec, windowVars, handshakeVars
<1>13. CASE ChangeCipherSpec
  <2>1. /\ UNCHANGED <<unprocessed, unproc_epoch, processed, rstate, app, rbuf,
                       hs, started>>
        /\ EmptyRrec /\ pc' = "idle" /\ rrec # NoRec /\ HandUp
    BY <1>13, Zenon DEF ChangeCipherSpec, Consumed
  <2>2. CASE ccs_ok
    <3>1. /\ ccs_ok' = FALSE
          /\ ccs' = TRUE
          /\ r_epoch' \in Epochs
          /\ bitmap' = next_bitmap
          /\ next_bitmap' = EmptyBitmap
      BY <1>13, <2>2
      DEF ChangeCipherSpec, dtls1_reset_seq_numbers, TypeOK, Epochs
    <3>2. EmptyBitmap \in Bitmaps
      BY DEF EmptyBitmap, Bitmaps, Seqs
    <3> QED BY <2>1, <3>1, <3>2, HandUpType, Zenon DEF TypeOK, EmptyRrec
  <2>3. CASE ~ccs_ok
    <3>1. UNCHANGED <<ccs_ok, ccs, windowVars>>
      BY <1>13, <2>3, Zenon DEF ChangeCipherSpec
    <3> QED BY <2>1, <3>1, HandUpType, Zenon DEF TypeOK, windowVars, EmptyRrec
  <2> QED BY <2>2, <2>3, Zenon
<1>14. CASE BadChangeCipherSpec
  BY <1>14, Zenon DEF BadChangeCipherSpec, TypeOK, handshakeVars, windowVars
<1>15. ASSUME BeginHandshake
       PROVE  /\ hs' \in {"early", "wait", "ok"} /\ started' \in Nat
              /\ ccs_ok' \in BOOLEAN /\ ccs' \in BOOLEAN
  <2>1. started' \in Nat
    BY <1>15 DEF BeginHandshake, TypeOK
  <2> QED BY <1>15, <2>1, Zenon DEF BeginHandshake
<1>16. CASE UnexpectedHandshake
  <2>1. /\ UNCHANGED <<unprocessed, unproc_epoch, processed, rstate, windowVars,
                       app, rbuf>>
        /\ EmptyRrec /\ pc' = "idle" /\ rrec # NoRec /\ HandUp
    BY <1>16, Zenon DEF UnexpectedHandshake, Consumed
  <2>2. CASE UNCHANGED handshakeVars
    BY <2>1, <2>2, HandUpType, Zenon DEF TypeOK, windowVars, handshakeVars, EmptyRrec
  <2>3. CASE BeginHandshake
    BY <1>15, <2>1, <2>3, HandUpType, Zenon DEF TypeOK, windowVars, EmptyRrec
  <2> QED BY <1>16, <2>2, <2>3, Zenon DEF UnexpectedHandshake
<1>17. CASE Renegotiate
  BY <1>15, <1>17, Zenon DEF TypeOK, Renegotiate, windowVars
<1>18. CASE AwaitFinished
  <2>1. ccs_ok' \in BOOLEAN
    BY <1>18, Zenon DEF AwaitFinished
  <2>2. hs' = "wait" /\ ccs' = ccs /\ started' = started
    BY <1>18, Zenon DEF AwaitFinished
  <2>3. UNCHANGED <<windowVars, unprocessed, unproc_epoch, processed, app, rbuf,
                    recordVars, pc, ierr, handed>>
    BY <1>18, Zenon DEF AwaitFinished
  <2> QED BY <2>1, <2>2, <2>3, Zenon DEF TypeOK, windowVars
<1>19. CASE UNCHANGED vars
  BY <1>19 DEF TypeOK, vars
<1> QED
  BY <1>1, <1>2, <1>3, <1>4, <1>5, <1>6, <1>7, <1>8, <1>9, <1>10, <1>11, <1>12,
     <1>13, <1>14, <1>16, <1>17, <1>18, <1>19, Zenon DEF Next, Reader

-----------------------------------------------------------------------------
(* The inductive invariant behind anti-replay and authenticity.  NoReplay  *)
(* alone is not inductive: a record is also on its way in rrec, in         *)
(* processed_rcds and in buffered_app_data, and what keeps it from being   *)
(* accepted again is the window.  Leftovers of discarded records carry no  *)
(* claim.                                                                  *)

Fresh == rrec # NoRec /\ ~stale
Waiting == {x \in processed \cup app : ~x.stale}
SameId(r1, r2) == r1.epoch = r2.epoch /\ r1.seq = r2.seq

(* Record n of epoch e would not be accepted any more. *)
Spent(e, n) == e < r_epoch \/ (e = r_epoch /\ Refused(n, bitmap))

(* unprocessed_rcds: what dtls1_process_buffered_records takes from it is  *)
(* of the epoch it checked.  A queue left two epochs behind is never       *)
(* looked at again.                                                        *)
QueueInv ==
    /\ next_bitmap = EmptyBitmap
    /\ unproc_epoch <= r_epoch + 1
    /\ unproc_epoch >= r_epoch =>
           \A x \in unprocessed : x.rec.epoch = unproc_epoch
    /\ \A x \in unprocessed \cup processed : ~x.stale
    /\ pc = "fetch" /\ unprocessed = {} => unproc_epoch = r_epoch + 1
    /\ pc = "loop" => unproc_epoch = r_epoch
    /\ "bitmap" \notin ierr

(* Everything accepted is authentic and spent. *)
AcceptedInv ==
    /\ Fresh => Authentic(rrec) /\ Spent(rrec.epoch, rrec.seq)
    /\ \A x \in Waiting : Authentic(x.rec) /\ Spent(x.rec.epoch, x.rec.seq)
    /\ \A e \in Epochs, n \in Seqs : handed[e][n] > 0 => Spent(e, n)

(* Every accepted record is in one place. *)
OnceInv ==
    /\ NoReplay
    /\ Fresh => handed[rrec.epoch][rrec.seq] = 0
    /\ Fresh => \A x \in Waiting : ~SameId(rrec, x.rec)
    /\ \A x \in Waiting : handed[x.rec.epoch][x.rec.seq] = 0
    /\ \A x, y \in Waiting : SameId(x.rec, y.rec) => x = y
    /\ processed \cap app = {}

IInv == TypeOK /\ HaveInv /\ QueueInv /\ AcceptedInv /\ OnceInv

(* The invariant holds before the first datagram. *)
LEMMA IInvInit == Init => IInv
<1> SUFFICES ASSUME Init PROVE IInv
  BY Zenon
<1>1. EmptyBitmap \in Bitmaps
  BY DEF EmptyBitmap, Bitmaps, Seqs
<1>2. handed \in [Epochs -> [Seqs -> Nat]]
      /\ \A e \in Epochs, n \in Seqs : handed[e][n] = 0
  BY Zenon DEF Init
<1>3. TypeOK
  BY <1>1, <1>2 DEF Init, TypeOK, Epochs
<1>4. HaveInv /\ QueueInv
  BY DEF Init, HaveInv, QueueInv
<1>5. AcceptedInv /\ OnceInv
  BY <1>2 DEF Init, AcceptedInv, OnceInv, NoReplay, Waiting, Fresh
<1> QED BY <1>3, <1>4, <1>5, Zenon DEF IInv

(* What is spent stays spent while the window moves on. *)
LEMMA SpentUpdate ==
    ASSUME TypeOK, NEW m \in Seqs, r_epoch' = r_epoch,
           bitmap' = dtls1_record_bitmap_update(m, bitmap),
           NEW e \in Epochs, NEW n \in Seqs, Spent(e, n)
    PROVE  Spent(e, n)'
  BY BitmapMonotone, Zenon DEF Spent, TypeOK

(* What waits in a queue has a proper identity. *)
LEMMA WaitingTyped ==
    ASSUME IInv, NEW x \in Waiting
    PROVE  x.rec \in Records /\ x.rec.epoch \in Epochs /\ x.rec.seq \in Seqs
  BY Zenon DEF Waiting, IInv, TypeOK, Items, Records

(* A step that accepts no record and hands none up; it may lose some. *)
LEMMA QuietStep ==
    ASSUME IInv, UNCHANGED <<r_epoch, bitmap, handed>>,
           Waiting' \subseteq Waiting,
           Fresh' => Fresh /\ rrec' = rrec,
           processed' \cap app' = {}
    PROVE  AcceptedInv' /\ OnceInv'
<1>1. \A e, n : Spent(e, n) <=> Spent(e, n)'
  BY Zenon DEF Spent, Refused
<1>2. AcceptedInv'
  BY <1>1, Zenon DEF IInv, AcceptedInv, Authentic
<1>3. OnceInv'
  BY Zenon DEF IInv, OnceInv, NoReplay, SameId
<1> QED BY <1>2, <1>3, Zenon

(* A record that passes the replay check is nowhere yet. *)
LEMMA NewRecord ==
    ASSUME IInv, NEW rec \in Records, rec.epoch = r_epoch,
           dtls1_record_replay_check(rec.seq, bitmap)
    PROVE  /\ handed[rec.epoch][rec.seq] = 0
           /\ \A x \in Waiting : ~SameId(rec, x.rec)
           /\ Fresh => ~SameId(rec, rrec)
<1>1. rec.seq \in Seqs /\ rec.epoch \in Epochs /\ bitmap \in Bitmaps
  BY Zenon DEF IInv, TypeOK, Records
<1>2. ~Spent(rec.epoch, rec.seq)
  BY <1>1, ReplayCheckExact DEF Spent, Epochs
<1>3. handed[rec.epoch][rec.seq] \in Nat
  BY <1>1, Zenon DEF IInv, TypeOK
<1> QED BY <1>1, <1>2, <1>3 DEF IInv, AcceptedInv, SameId

(* A record is accepted, into rrec or into a queue. *)
LEMMA AcceptStep ==
    ASSUME IInv, NEW rec \in Records, rec.epoch = r_epoch,
           dtls1_record_replay_check(rec.seq, bitmap), Authentic(rec),
           bitmap' = dtls1_record_bitmap_update(rec.seq, bitmap),
           UNCHANGED <<r_epoch, handed>>, processed' \cap app' = {},
           \/ Fresh' /\ rrec' = rec /\ Waiting' \subseteq Waiting
           \/ /\ ~Fresh'
              /\ \E item : item.rec = rec /\ Waiting' \subseteq Waiting \cup {item}
    PROVE  AcceptedInv' /\ OnceInv'
<1>1. /\ handed[rec.epoch][rec.seq] = 0
      /\ \A x \in Waiting : ~SameId(rec, x.rec)
  BY NewRecord, Zenon
<1>2. rec.seq \in Seqs /\ bitmap \in Bitmaps
  BY Zenon DEF Records, IInv, TypeOK
<1>3. Spent(rec.epoch, rec.seq)'
  BY <1>2, BitmapRecords, Zenon DEF Spent
<1>4. \A e \in Epochs, n \in Seqs : Spent(e, n) => Spent(e, n)'
  BY <1>2, SpentUpdate, Zenon DEF IInv
<1>5. \A x \in Waiting :
        Authentic(x.rec)' /\ Spent(x.rec.epoch, x.rec.seq)'
  BY <1>4, WaitingTyped, Zenon DEF IInv, AcceptedInv, Authentic
<1>6. \A e \in Epochs, n \in Seqs : handed'[e][n] > 0 => Spent(e, n)'
  BY <1>4, Zenon DEF IInv, AcceptedInv
<1>7. CASE Fresh' /\ rrec' = rec /\ Waiting' \subseteq Waiting
  <2>1. AcceptedInv'
    BY <1>3, <1>5, <1>6, <1>7, Zenon DEF AcceptedInv, Authentic
  <2>2. OnceInv'
    BY <1>1, <1>7, Zenon DEF IInv, OnceInv, NoReplay, SameId
  <2> QED BY <2>1, <2>2, Zenon
<1>8. CASE /\ ~Fresh'
           /\ \E item : item.rec = rec /\ Waiting' \subseteq Waiting \cup {item}
  <2> PICK item : item.rec = rec /\ Waiting' \subseteq Waiting \cup {item}
    BY <1>8, Zenon
  <2>1. AcceptedInv'
    BY <1>3, <1>5, <1>6, <1>8, Zenon DEF AcceptedInv, Authentic
  <2>2. OnceInv'
    BY <1>1, <1>8, Zenon DEF IInv, OnceInv, NoReplay, SameId
  <2> QED BY <2>1, <2>2, Zenon
<1> QED BY <1>7, <1>8, Zenon

(* A record leaves its queue for rrec. *)
LEMMA PopStep ==
    ASSUME IInv, NEW item \in Waiting, rrec' = item.rec,
           Waiting' = Waiting \ {item}, processed' \cap app' = {},
           UNCHANGED <<r_epoch, bitmap, handed>>
    PROVE  AcceptedInv' /\ OnceInv'
<1>1. \A e, n : Spent(e, n) <=> Spent(e, n)'
  BY Zenon DEF Spent, Refused
<1>2. AcceptedInv'
  BY <1>1, Zenon DEF IInv, AcceptedInv, Authentic
<1>3. OnceInv'
  BY Zenon DEF IInv, OnceInv, NoReplay, SameId
<1> QED BY <1>2, <1>3, Zenon

(* The record in rrec is acted upon, and the epoch may change. *)
LEMMA HandUpStep ==
    ASSUME IInv, rrec # NoRec, EmptyRrec, HandUp, UNCHANGED <<processed, app>>,
           UNCHANGED <<r_epoch, bitmap>> \/ r_epoch' = r_epoch + 1
    PROVE  AcceptedInv' /\ OnceInv'
<1>1. rrec.epoch \in Epochs /\ rrec.seq \in Seqs
  BY Zenon DEF IInv, TypeOK, Records
<1>2. \A e \in Epochs, n \in Seqs : Spent(e, n) => Spent(e, n)'
  BY DEF Spent, Refused, IInv, TypeOK, Epochs
<1>3. \A e \in Epochs, n \in Seqs :
        handed'[e][n] = IF ~stale /\ e = rrec.epoch /\ n = rrec.seq
                        THEN handed[e][n] + 1 ELSE handed[e][n]
  <2>1. CASE stale
    BY <2>1, Zenon DEF HandUp
  <2>2. CASE ~stale
    BY <1>1, <2>2 DEF HandUp, IInv, TypeOK
  <2> QED BY <2>1, <2>2, Zenon
<1>4. Waiting' = Waiting /\ ~Fresh'
  BY Zenon DEF Waiting, Fresh, EmptyRrec
<1>5. AcceptedInv'
  <2>1. \A x \in Waiting' :
          Authentic(x.rec)' /\ Spent(x.rec.epoch, x.rec.seq)'
    BY <1>2, <1>4, WaitingTyped, Zenon DEF IInv, AcceptedInv, Authentic
  <2>2. \A e \in Epochs, n \in Seqs : handed'[e][n] > 0 => Spent(e, n)'
    BY <1>1, <1>2, <1>3, Zenon DEF IInv, AcceptedInv, Fresh
  <2> QED BY <1>4, <2>1, <2>2, Zenon DEF AcceptedInv
<1>6. OnceInv'
  <2>1. NoReplay'
    BY <1>1, <1>3 DEF IInv, OnceInv, NoReplay, Fresh
  <2>2. \A x \in Waiting' : handed'[x.rec.epoch][x.rec.seq] = 0
    BY <1>3, <1>4, WaitingTyped DEF IInv, OnceInv, SameId, Fresh
  <2> QED BY <1>4, <2>1, <2>2, Zenon DEF IInv, OnceInv, SameId
<1> QED BY <1>5, <1>6, Zenon

(* The body of dtls1_get_record preserves the invariant. *)
LEMMA ProcessBodyStep ==
    ASSUME IInv, pc = "fetch", NEW rec \in Records, NEW rest \in Seq(Records),
           ProcessBody(rec, rest),
           UNCHANGED <<r_epoch, next_bitmap, unproc_epoch, processed, app, handed>>
    PROVE  QueueInv' /\ AcceptedInv' /\ OnceInv'
<1>0. Waiting' = Waiting /\ processed' \cap app' = {}
  BY Zenon DEF Waiting, IInv, OnceInv
<1>1. CASE \E n \in Seqs : Discard([rec EXCEPT !.seq = n], rest)
  <2>1. QueueInv'
    BY <1>1, Zenon DEF Discard, IInv, QueueInv
  <2>2. ~Fresh' /\ bitmap' = bitmap
    BY <1>1, Zenon DEF Discard, Fresh
  <2> QED BY <1>0, <2>1, <2>2, QuietStep, Zenon
<1>2. CASE Discard(rec, rest)
  <2>1. QueueInv'
    BY <1>2, Zenon DEF Discard, IInv, QueueInv
  <2> QED BY <1>0, <1>2, <2>1, QuietStep, Zenon DEF Discard, Fresh
<1>3. CASE Dump(rest)
  <2>1. QueueInv'
    BY <1>3, Zenon DEF Dump, IInv, QueueInv
  <2> QED BY <1>0, <1>3, <2>1, QuietStep, Zenon DEF Dump, EmptyRrec, Fresh
<1>4. CASE IsNextEpoch(rec) /\ BufferNextEpoch(rec, rest)
  <2> DEFINE item == [rec |-> rec, rest |-> rest, stale |-> FALSE]
  <2>1. unproc_epoch >= r_epoch => rec.epoch = unproc_epoch
    BY <1>4 DEF IsNextEpoch, IInv, QueueInv, TypeOK, Epochs
  <2>2. unprocessed' \subseteq unprocessed \cup {item}
    BY <1>4, Zenon DEF BufferNextEpoch, Buffered
  <2>3. item.rec = rec /\ ~item.stale
    BY Zenon
  <2>4. "bitmap" \notin ierr' /\ pc' \in {"idle", "again"}
    BY <1>4, Zenon DEF BufferNextEpoch, InternalError, IInv, QueueInv
  <2> HIDE DEF item
  <2>5. QueueInv'
    BY <2>1, <2>2, <2>3, <2>4, Zenon DEF IInv, QueueInv
  <2> QED BY <1>0, <1>4, <2>5, QuietStep, Zenon DEF BufferNextEpoch, EmptyRrec, Fresh
<1>5. CASE /\ InCurrentEpoch(rec)
           /\ dtls1_record_replay_check(rec.seq, bitmap)
           /\ Authentic(rec)
           /\ AcceptRecord(rec, rest)
  <2>1. Fresh' /\ rrec' = rec
    BY <1>5, NoRecNotRecord, Zenon DEF AcceptRecord, Fresh
  <2>2. AcceptedInv' /\ OnceInv'
    BY <1>0, <1>5, <2>1, AcceptStep, Zenon DEF AcceptRecord, InCurrentEpoch
  <2>3. QueueInv'
    BY <1>5, Zenon DEF AcceptRecord, IInv, QueueInv
  <2> QED BY <2>2, <2>3, Zenon
<1> QED BY <1>1, <1>2, <1>3, <1>4, <1>5, Zenon DEF ProcessBody

(* Every step preserves the inductive invariant. *)
LEMMA IInvStep == IInv /\ [Next]_vars => IInv'
<1> SUFFICES ASSUME IInv, [Next]_vars PROVE IInv'
  BY Zenon
<1>0. TypeOK' /\ HaveInv'
  BY TypeOKStep, Zenon DEF IInv
<1> SUFFICES QueueInv' /\ AcceptedInv' /\ OnceInv'
  BY <1>0, Zenon DEF IInv
<1>a. UNCHANGED <<processed, app>> =>
        Waiting' = Waiting /\ processed' \cap app' = {}
  BY Zenon DEF Waiting, IInv, OnceInv
<1>1. CASE ProcessBuffered
  <2>1. QueueInv'
    BY <1>1 DEF ProcessBuffered, NeedsRecord, IInv, QueueInv, TypeOK, Epochs,
                windowVars
  <2> QED BY <1>a, <1>1, <2>1, QuietStep, Zenon
          DEF ProcessBuffered, windowVars, recordVars, Fresh
<1>2. CASE ProcessOne
  <2>0. PICK item \in First(unprocessed) : ProcessOne!3!(item)
    BY <1>2, Zenon DEF ProcessOne
  <2> DEFINE rec == item.rec
  <2>1. /\ item \in unprocessed /\ item \in Items
        /\ rec \in Records /\ rec.seq \in Seqs /\ rec.epoch \in Epochs
    BY Zenon DEF First, IInv, TypeOK, Items, Records
  <2>2. /\ UNCHANGED <<r_epoch, next_bitmap, unproc_epoch, app, handed>>
        /\ pc = "loop"
    BY <1>2, Zenon DEF ProcessOne
  <2>3. rec.epoch = r_epoch /\ ~item.stale
    BY <2>1, <2>2 DEF IInv, QueueInv, TypeOK, Epochs
  <2>4. /\ pc' \in {"loop", "idle"} /\ unprocessed' = unprocessed \ {item}
        /\ EmptyRrec
    BY <2>0, <2>2, <2>3, Zenon DEF InCurrentEpoch
  <2>5. processed' \subseteq processed \cup {item}
    BY <2>0, <2>3, Zenon DEF InCurrentEpoch, Buffered
  <2>6. "bitmap" \notin ierr'
    BY <2>0, <2>3 DEF InCurrentEpoch, InternalError, IInv, QueueInv
  <2>7. QueueInv'
    BY <2>2, <2>3, <2>4, <2>5, <2>6, Zenon DEF IInv, QueueInv
  <2>8. CASE UNCHANGED <<bitmap, processed>>
    BY <1>a, <2>2, <2>4, <2>7, <2>8, QuietStep, Zenon DEF EmptyRrec, Fresh
  <2>9. CASE /\ dtls1_record_replay_check(rec.seq, bitmap)
             /\ Authentic(rec)
             /\ bitmap' = dtls1_record_bitmap_update(rec.seq, bitmap)
    <3>1. item \notin Waiting
      BY <2>1, <2>3, <2>9, NewRecord, Zenon DEF SameId
    <3>2. item \notin app
      BY <2>3, <3>1, Zenon DEF Waiting
    <3>3. Waiting' \subseteq Waiting \cup {item} /\ processed' \cap app' = {}
      BY <2>2, <2>5, <3>2, Zenon DEF Waiting, IInv, OnceInv
    <3>4. ~Fresh'
      BY <2>4, Zenon DEF EmptyRrec, Fresh
    <3> HIDE DEF rec
    <3>5. rec = item.rec
      BY Zenon DEF rec
    <3>6. AcceptedInv' /\ OnceInv'
      BY <2>1, <2>2, <2>3, <2>9, <3>3, <3>4, <3>5, AcceptStep, Zenon
    <3> QED BY <2>7, <3>6, Zenon
  <2> QED BY <2>0, <2>3, <2>8, <2>9, Zenon DEF InCurrentEpoch
<1>3. CASE ProcessDone
  <2>1. QueueInv'
    BY <1>3 DEF ProcessDone, IInv, QueueInv, TypeOK, Epochs, windowVars
  <2> QED BY <1>a, <1>3, <2>1, QuietStep, Zenon
          DEF ProcessDone, windowVars, recordVars, Fresh
<1>4. CASE GetProcessed
  <2> PICK item \in First(processed) :
        processed' = processed \ {item} /\ rrec' = item.rec
    BY <1>4, Zenon DEF GetProcessed
  <2>1. item \in processed /\ item \notin app /\ ~item.stale
    BY Zenon DEF First, IInv, OnceInv, QueueInv
  <2>2. /\ UNCHANGED <<windowVars, unprocessed, unproc_epoch, app, ierr, handed>>
        /\ pc' = "have"
    BY <1>4, Zenon DEF GetProcessed
  <2>3. Waiting' = Waiting \ {item} /\ item \in Waiting
    BY <2>1, <2>2, Zenon DEF Waiting
  <2>4. processed' \cap app' = {}
    BY <2>2, Zenon DEF IInv, OnceInv
  <2>5. AcceptedInv' /\ OnceInv'
    BY <2>2, <2>3, <2>4, PopStep, Zenon DEF windowVars
  <2>6. QueueInv'
    BY <2>2, Zenon DEF IInv, QueueInv, windowVars
  <2> QED BY <2>5, <2>6, Zenon
<1>5. CASE \E d \in Dgrams \cup {rbuf} : ReadHeader(d)
  <2> PICK d \in Dgrams \cup {rbuf} : ReadHeader(d)
    BY <1>5, Zenon
  <2>1. d \in Seq(Records) /\ d # << >>
    BY Zenon DEF ReadHeader, IInv, TypeOK
  <2>2. Head(d) \in Records /\ Tail(d) \in Seq(Records)
    BY <2>1
  <2>3. /\ UNCHANGED <<r_epoch, next_bitmap, unproc_epoch, processed, app,
                       handed>>
        /\ pc = "fetch"
    BY Zenon DEF ReadHeader
  <2>4. CASE ProcessBody(Head(d), Tail(d))
    BY <2>2, <2>3, <2>4, ProcessBodyStep, Zenon
  <2>5. CASE Discard(Head(d), IF Head(d).whole THEN d ELSE << >>)
    <3>1. ~Fresh' /\ bitmap' = bitmap /\ pc' = "again"
          /\ UNCHANGED <<unprocessed, ierr>>
      BY <2>5, Zenon DEF Discard, Fresh
    <3>2. QueueInv'
      BY <2>3, <3>1, Zenon DEF IInv, QueueInv
    <3> QED BY <1>a, <2>3, <3>1, <3>2, QuietStep, Zenon
  <2> QED BY <2>4, <2>5, Zenon DEF ReadHeader
<1>6. CASE ReadBody
  <2>1. /\ UNCHANGED <<r_epoch, next_bitmap, unproc_epoch, processed, app,
                       handed>>
        /\ pc = "fetch"
    BY <1>6, Zenon DEF ReadBody
  <2>2. CASE rbuf # << >>
    <3>1. Head(rbuf) \in Records /\ Tail(rbuf) \in Seq(Records)
      BY <2>2 DEF IInv, TypeOK
    <3>2. ProcessBody(Head(rbuf), Tail(rbuf))
      BY <1>6, <2>2, Zenon DEF ReadBody
    <3> QED BY <2>1, <3>1, <3>2, ProcessBodyStep, Zenon
  <2>3. CASE rbuf = << >>
    <3>1. pc' = "again" /\ UNCHANGED <<bitmap, unprocessed, rrec, stale, ierr>>
      BY <1>6, <2>3, Zenon DEF ReadBody, recordVars
    <3>2. QueueInv'
      BY <2>1, <3>1, Zenon DEF IInv, QueueInv
    <3> QED BY <1>a, <2>1, <3>1, <3>2, QuietStep, Zenon DEF Fresh
  <2> QED BY <2>2, <2>3, Zenon
<1>7. CASE ReadNothing
  <2>1. QueueInv'
    BY <1>7, Zenon DEF ReadNothing, IInv, QueueInv, windowVars
  <2> QED BY <1>a, <1>7, <2>1, QuietStep, Zenon
          DEF ReadNothing, windowVars, recordVars, Fresh
<1>8. CASE PopAppData
  <2> PICK item \in First(app) :
        app' = app \ {item} /\ rrec' = item.rec /\ stale' = item.stale
    BY <1>8, Zenon DEF PopAppData
  <2>1. item \in app /\ item \notin processed
    BY Zenon DEF First, IInv, OnceInv
  <2>2. /\ UNCHANGED <<windowVars, unprocessed, unproc_epoch, processed, ierr,
                       handed>>
        /\ pc' = "have"
    BY <1>8, Zenon DEF PopAppData
  <2>3. processed' \cap app' = {} /\ Waiting' = Waiting \ {item}
    BY <2>1, <2>2, Zenon DEF IInv, OnceInv, Waiting
  <2>4. CASE item.stale
    BY <2>2, <2>3, <2>4, QuietStep, Zenon DEF Fresh, windowVars, IInv, QueueInv
  <2>5. CASE ~item.stale
    <3>1. item \in Waiting
      BY <2>1, <2>5, Zenon DEF Waiting
    <3>2. AcceptedInv' /\ OnceInv'
      BY <2>2, <2>3, <3>1, PopStep, Zenon DEF windowVars
    <3> QED BY <2>2, <3>2, Zenon DEF IInv, QueueInv, windowVars
  <2> QED BY <2>4, <2>5, Zenon
<1>9. CASE KeepForLater
  <2> DEFINE item == [rec |-> rrec, rest |-> rbuf, stale |-> stale]
  <2>1. /\ UNCHANGED <<windowVars, unprocessed, unproc_epoch, processed, handed>>
        /\ rrec # NoRec /\ EmptyRrec /\ pc' = "idle"
        /\ app' = Buffered(app, item)
        /\ InternalError(app, rrec, "app")
    BY <1>9, Zenon DEF KeepForLater, Consumed
  <2>2. app' \subseteq app \cup {item}
    BY <2>1, Zenon DEF Buffered
  <2>3. item.rec = rrec /\ item.stale = stale
    BY Zenon
  <2> HIDE DEF item
  <2>4. QueueInv'
    BY <2>1, Zenon DEF IInv, QueueInv, InternalError, windowVars
  <2>5. item \notin processed
    BY <2>1, <2>3, Zenon DEF IInv, OnceInv, QueueInv, SameId, Waiting, Fresh
  <2>6. processed' \cap app' = {} /\ ~Fresh'
    BY <2>1, <2>2, <2>5, Zenon DEF IInv, OnceInv, Fresh, EmptyRrec
  <2>7. CASE stale
    <3>1. Waiting' \subseteq Waiting
      BY <2>1, <2>2, <2>3, <2>7, Zenon DEF Waiting
    <3> QED BY <2>1, <2>4, <2>6, <3>1, QuietStep, Zenon DEF windowVars
  <2>8. CASE ~stale
    <3>1. Waiting' \subseteq Waiting \cup {item} /\ Fresh
      BY <2>1, <2>2, <2>8, Zenon DEF Waiting, Fresh
    <3>2. \A e, n : Spent(e, n) <=> Spent(e, n)'
      BY <2>1, Zenon DEF Spent, Refused, windowVars
    <3>3. AcceptedInv'
      BY <2>1, <2>3, <2>6, <3>1, <3>2, Zenon DEF IInv, AcceptedInv, Authentic
    <3>4. OnceInv'
      BY <2>1, <2>3, <2>6, <3>1, Zenon DEF IInv, OnceInv, NoReplay, SameId
    <3> QED BY <2>4, <3>3, <3>4, Zenon
  <2> QED BY <2>7, <2>8, Zenon
<1>10. ASSUME Consumed, HandUp, UNCHANGED <<windowVars, app>>
       PROVE  QueueInv' /\ AcceptedInv' /\ OnceInv'
  <2>1. QueueInv'
    BY <1>10 DEF IInv, QueueInv, Consumed, HandUp, windowVars
  <2> QED BY <1>10, <2>1, HandUpStep, Zenon DEF Consumed, windowVars
<1>11. CASE DeliverHandshake
  BY <1>10, <1>11, Zenon DEF DeliverHandshake
<1>12. CASE DeliverAppData
  BY <1>10, <1>12, Zenon DEF DeliverAppData
<1>13. CASE DeliverAlert
  BY <1>10, <1>13, Zenon DEF DeliverAlert
<1>14. CASE ChangeCipherSpec
  <2>1. CASE ccs_ok
    <3>1. /\ UNCHANGED <<unprocessed, unproc_epoch, processed, app>>
          /\ rrec # NoRec /\ EmptyRrec /\ pc' = "idle" /\ HandUp
      BY <1>14, Zenon DEF ChangeCipherSpec, Consumed
    <3>2. r_epoch' = r_epoch + 1 /\ next_bitmap' = EmptyBitmap
      BY <1>14, <2>1, Zenon DEF ChangeCipherSpec, dtls1_reset_seq_numbers
    <3>3. "bitmap" \notin ierr'
      BY <3>1 DEF HandUp, IInv, QueueInv
    <3>4. QueueInv'
      BY <3>1, <3>2, <3>3 DEF IInv, QueueInv, TypeOK, Epochs
    <3> QED BY <3>1, <3>2, <3>4, HandUpStep, Zenon
  <2>2. CASE ~ccs_ok
    BY <1>10, <1>14, <2>2, Zenon DEF ChangeCipherSpec
  <2> QED BY <2>1, <2>2, Zenon
<1>15. CASE BadChangeCipherSpec
  <2>1. QueueInv'
    BY <1>15, Zenon DEF BadChangeCipherSpec, IInv, QueueInv, windowVars
  <2> QED BY <1>a, <1>15, <2>1, QuietStep, Zenon
          DEF BadChangeCipherSpec, windowVars, recordVars, Fresh
<1>16. CASE UnexpectedHandshake
  BY <1>10, <1>16, Zenon DEF UnexpectedHandshake
<1>17. CASE Renegotiate
  <2>1. QueueInv'
    BY <1>17, Zenon DEF Renegotiate, IInv, QueueInv, windowVars
  <2> QED BY <1>a, <1>17, <2>1, QuietStep, Zenon
          DEF Renegotiate, windowVars, recordVars, Fresh
<1>18. CASE AwaitFinished
  <2>1. QueueInv'
    BY <1>18, Zenon DEF AwaitFinished, IInv, QueueInv, windowVars
  <2> QED BY <1>a, <1>18, <2>1, QuietStep, Zenon
          DEF AwaitFinished, windowVars, recordVars, Fresh
<1>19. CASE UNCHANGED vars
  <2>1. QueueInv'
    BY <1>19, Zenon DEF IInv, QueueInv, vars
  <2> QED BY <1>a, <1>19, <2>1, QuietStep, Zenon DEF vars, Fresh
<1> QED
  BY <1>1, <1>2, <1>3, <1>4, <1>5, <1>6, <1>7, <1>8, <1>9, <1>11, <1>12, <1>13,
     <1>14, <1>15, <1>16, <1>17, <1>18, <1>19, Zenon DEF Next, Reader

-----------------------------------------------------------------------------

(* The inductive invariant holds throughout. *)
LEMMA IInvAlways == Spec => []IInv
  BY IInvInit, IInvStep, PTL DEF Spec

(* Type correctness of the receiving record layer. *)
THEOREM TypeCorrect == Spec => []TypeOK
<1>1. IInv => TypeOK
  BY Zenon DEF IInv
<1> QED BY <1>1, IInvAlways, PTL

(* Whatever datagrams arrive, in whatever order and however often, and     *)
(* whatever path a record takes through the queues, it is accepted and     *)
(* acted upon by dtls1_read_bytes at most once.  The only assumption on    *)
(* the sizes is that the clamp of satsub64be is not smaller than the       *)
(* window.                                                                 *)
THEOREM AntiReplay == Spec => []NoReplay
<1>1. IInv => NoReplay
  BY Zenon DEF IInv, OnceInv
<1> QED BY <1>1, IInvAlways, PTL

(* dtls1_get_record returns only records that were authenticated in their  *)
(* own epoch, never one that was taken from unprocessed_rcds unchecked.    *)
THEOREM Authenticity == Spec => []ActsOnAuthentic
<1>1. IInv => ActsOnAuthentic
  <2> SUFFICES ASSUME IInv, pc = "have", ~stale
               PROVE  rrec.epoch <= r_epoch /\ Authentic(rrec)
    BY Zenon DEF ActsOnAuthentic
  <2>1. rrec.epoch \in Epochs /\ Fresh
    BY Zenon DEF IInv, HaveInv, TypeOK, Records, Fresh
  <2> QED BY <2>1 DEF IInv, AcceptedInv, Spent, TypeOK, Epochs
<1> QED BY <1>1, IInvAlways, PTL

(* The "Should not happen" branch of dtls1_process_buffered_records is     *)
(* never taken, whatever the datagrams.                                    *)
THEOREM NullBitmapNever == Spec => []("bitmap" \notin ierr)
<1>1. IInv => "bitmap" \notin ierr
  BY Zenon DEF IInv, QueueInv
<1> QED BY <1>1, IInvAlways, PTL
-----------------------------------------------------------------------------
(* processed_rcds: dtls1_process_buffered_records fills it in one go, from *)
(* records of the current epoch, and nothing is put into unprocessed_rcds  *)
(* before it has been emptied again.                                       *)
FitInv ==
    /\ pc # "loop" /\ processed # {} => unprocessed = {}
    /\ pc = "loop" => \A x \in processed : x.rec.epoch = r_epoch
    /\ "processed" \notin ierr

(* dtls1_get_record from dtls1_get_bitmap on finds processed_rcds empty.   *)
LEMMA ProcessBodyFits ==
    ASSUME FitInv, pc = "fetch", processed = {}, processed' = processed,
           NEW rec, NEW rest, ProcessBody(rec, rest)
    PROVE  FitInv'
<1>1. pc' \in {"idle", "again", "have"}
  BY Zenon DEF ProcessBody, Discard, Dump, BufferNextEpoch, AcceptRecord
<1>2. "processed" \notin ierr'
  BY DEF ProcessBody, Discard, Dump, BufferNextEpoch, AcceptRecord,
         InternalError, FitInv
<1> QED BY <1>1, <1>2, Zenon DEF FitInv

(* A record that is read, discarded or acted upon leaves both queues.      *)
LEMMA FitUnchanged ==
    ASSUME FitInv, pc # "loop", pc' # "loop", UNCHANGED unprocessed,
           processed' \subseteq processed, "processed" \notin ierr'
    PROVE  FitInv'
  BY Zenon DEF FitInv

(* The record that dtls1_process_buffered_records has accepted was in none *)
(* of the queues, so pqueue_insert takes it.                               *)
LEMMA ProcessOneFits ==
    ASSUME IInv, FitInv, ProcessOne
    PROVE  FitInv'
<1>0. PICK item \in First(unprocessed) : ProcessOne!3!(item)
  BY Zenon DEF ProcessOne
<1> DEFINE rec == item.rec
<1>1. /\ item \in unprocessed /\ rec \in Records
      /\ pc = "loop" /\ r_epoch' = r_epoch
  BY Zenon DEF First, IInv, TypeOK, Items, ProcessOne
<1>2. rec.epoch = r_epoch
  BY <1>1 DEF IInv, QueueInv, TypeOK, Epochs
<1>3. CASE UNCHANGED <<processed, ierr, pc>>
  BY <1>1, <1>3, Zenon DEF FitInv
<1>4. CASE /\ dtls1_record_replay_check(rec.seq, bitmap)
           /\ processed' = Buffered(processed, item)
           /\ InternalError(processed, rec, "processed")
           /\ pc' = IF BufferFails(processed, rec) THEN "idle" ELSE pc
  <2>1. \A x \in processed : x \in Waiting /\ x.rec.epoch = r_epoch
    BY <1>1, Zenon DEF Waiting, IInv, QueueInv, FitInv
  <2>2. ~HasPriority(processed, rec.seq)
    BY <1>1, <1>2, <1>4, <2>1, NewRecord, Zenon DEF HasPriority, SameId
  <2>3. pc' = "loop" /\ ierr' = ierr
    BY <1>1, <1>4, <2>2, Zenon DEF BufferFails, InternalError
  <2>4. processed' \subseteq processed \cup {item}
    BY <1>4, Zenon DEF Buffered
  <2> QED BY <1>1, <1>2, <2>3, <2>4, Zenon DEF FitInv
<1> QED BY <1>0, <1>2, <1>3, <1>4, Zenon DEF InCurrentEpoch

(* Every step keeps the queues apart.                                      *)
LEMMA FitStep == IInv /\ FitInv /\ [Next]_vars => FitInv'
<1> SUFFICES ASSUME IInv, FitInv, [Next]_vars PROVE FitInv'
  BY Zenon
<1>1. CASE ProcessBuffered
  BY <1>1, Zenon DEF ProcessBuffered, NeedsRecord, FitInv, windowVars
<1>2. CASE ProcessOne
  BY <1>2, ProcessOneFits, Zenon
<1>3. CASE ProcessDone
  BY <1>3, Zenon DEF ProcessDone, FitInv, windowVars
<1>4. CASE GetProcessed
  BY <1>4, FitUnchanged, Zenon DEF GetProcessed, FitInv
<1>5. CASE \E d \in Dgrams \cup {rbuf} : ReadHeader(d)
  <2> PICK d \in Dgrams \cup {rbuf} : ReadHeader(d)
    BY <1>5, Zenon
  <2>1. pc = "fetch" /\ processed = {} /\ processed' = processed
    BY Zenon DEF ReadHeader
  <2>2. CASE ProcessBody(Head(d), Tail(d))
    BY <2>1, <2>2, ProcessBodyFits, Zenon
  <2>3. CASE Discard(Head(d), IF Head(d).whole THEN d ELSE << >>)
    BY <2>1, <2>3, FitUnchanged, Zenon DEF Discard, FitInv
  <2> QED BY <2>2, <2>3, Zenon DEF ReadHeader
<1>6. CASE ReadBody
  <2>1. pc = "fetch" /\ processed = {} /\ processed' = processed
    BY <1>6, Zenon DEF ReadBody
  <2>2. CASE rbuf # << >>
    BY <1>6, <2>1, <2>2, ProcessBodyFits, Zenon DEF ReadBody
  <2>3. CASE rbuf = << >>
    BY <1>6, <2>1, <2>3, FitUnchanged, Zenon DEF ReadBody, FitInv
  <2> QED BY <2>2, <2>3, Zenon
<1>7. CASE ReadNothing
  BY <1>7, FitUnchanged, Zenon DEF ReadNothing, FitInv
<1>8. CASE PopAppData
  BY <1>8, FitUnchanged, Zenon DEF PopAppData, FitInv
<1>9. CASE KeepForLater
  BY <1>9, FitUnchanged, Zenon DEF KeepForLater, Consumed, InternalError, FitInv
<1>10. ASSUME Consumed, HandUp
       PROVE  FitInv'
  BY <1>10, FitUnchanged DEF Consumed, HandUp, FitInv
<1>11. CASE DeliverHandshake \/ DeliverAppData \/ DeliverAlert
  BY <1>10, <1>11, Zenon DEF DeliverHandshake, DeliverAppData, DeliverAlert
<1>12. CASE ChangeCipherSpec \/ UnexpectedHandshake
  BY <1>10, <1>12, Zenon DEF ChangeCipherSpec, UnexpectedHandshake
<1>13. CASE BadChangeCipherSpec
  BY <1>13, FitUnchanged, Zenon DEF BadChangeCipherSpec, FitInv
<1>14. CASE Renegotiate
  BY <1>14, FitUnchanged, Zenon DEF Renegotiate, FitInv
<1>15. CASE AwaitFinished
  BY <1>15, FitUnchanged, Zenon DEF AwaitFinished, FitInv
<1>16. CASE UNCHANGED vars
  BY <1>16, Zenon DEF FitInv, vars
<1> QED
  BY <1>1, <1>2, <1>3, <1>4, <1>5, <1>6, <1>7, <1>8, <1>9, <1>11, <1>12, <1>13,
     <1>14, <1>15, <1>16, Zenon DEF Next, Reader

(* dtls1_process_buffered_records meets neither a record without a window  *)
(* nor one whose number is in processed_rcds already, whatever the         *)
(* datagrams and whether or not the socket waits.                          *)
THEOREM BufferedAlwaysFit == Spec => []BufferedRecordsFit
<1>1. Init => FitInv
  BY Zenon DEF Init, FitInv
<1>2. IInv /\ FitInv => BufferedRecordsFit
  BY Zenon DEF IInv, QueueInv, FitInv, BufferedRecordsFit
<1> QED BY <1>1, <1>2, FitStep, IInvAlways, PTL DEF Spec

-----------------------------------------------------------------------------
(* A socket that waits.  When BIO_read returns only with a datagram,       *)
(* dtls1_get_record never leaves with a discarded record in rrec, and the  *)
(* epochs follow the handshakes.                                           *)

(* What was discarded is gone when dtls1_get_record returns.               *)
StaleInv ==
    /\ pc \in {"idle", "have"} => ~stale
    /\ pc = "idle" => rrec = NoRec
    /\ \A x \in app : ~x.stale
    /\ "discarded" \notin ierr

(* The epoch changes once in every handshake.                              *)
EpochInv ==
    /\ hs = "ok" => ~ccs
    /\ r_epoch = IF hs # "ok" /\ ~ccs THEN started - 1 ELSE started
    /\ ccs_ok => hs # "early"

CcsBefore(s, e) == \A i \in 1 .. Len(s) : s[i].type = "CCS" => s[i].epoch < e

(* A ChangeCipherSpec belongs to a handshake that was begun before it was  *)
(* sent, and it does not go through a queue.                               *)
CcsInv ==
    /\ CcsBefore(rbuf, started)
    /\ \A x \in unprocessed \cup processed \cup app :
          x.rec.type # "CCS" /\ CcsBefore(x.rest, started)
    /\ Fresh /\ rrec.type = "CCS" => rrec.epoch = r_epoch /\ r_epoch < started

(* Records of the current epoch wait in unprocessed_rcds only as long as   *)
(* the datagram at hand has records, none of which can end the epoch.      *)
DrainInv ==
    unprocessed # {} =>
        /\ unproc_epoch >= r_epoch
        /\ unproc_epoch = r_epoch =>
             /\ CcsBefore(rbuf, r_epoch)
             /\ \A x \in unprocessed \cup app : CcsBefore(x.rest, r_epoch)
             /\ Fresh => rrec.type # "CCS"
             /\ pc = "fetch" => rbuf # << >>

WaitInv == StaleInv /\ EpochInv /\ CcsInv /\ DrainInv

(* The rest of a datagram has no ChangeCipherSpec that all of it has not.  *)
LEMMA CcsBeforeTail ==
    ASSUME NEW s \in Seq(Records), s # << >>, NEW e \in Int, CcsBefore(s, e)
    PROVE  /\ CcsBefore(Tail(s), e)
           /\ Head(s).type = "CCS" => Head(s).epoch < e
<1>1. /\ Len(s) \in Nat /\ Len(s) # 0 /\ Len(Tail(s)) = Len(s) - 1
      /\ Head(s) = s[1]
      /\ \A i \in 1 .. Len(Tail(s)) : Tail(s)[i] = s[i + 1]
  OBVIOUS
<1> QED BY <1>1, SMTT(30) DEF CcsBefore

(* Later bounds are weaker. *)
LEMMA CcsBeforeMono ==
    ASSUME NEW s \in Seq(Records), NEW e \in Int, NEW f \in Int, e <= f,
           CcsBefore(s, e)
    PROVE  CcsBefore(s, f)
<1> SUFFICES ASSUME NEW i \in 1 .. Len(s), s[i].type = "CCS"
             PROVE  s[i].epoch < f
  BY Zenon DEF CcsBefore
<1>1. s[i] \in Records
  OBVIOUS
<1>2. s[i].epoch \in Int /\ s[i].epoch < e
  BY <1>1 DEF CcsBefore, Records, Epochs
<1> QED BY <1>2

(* Nothing is left of a datagram. *)
LEMMA CcsBeforeEmpty == \A e : CcsBefore(<< >>, e)
  BY DEF CcsBefore

(* What dtls1_buffer_record leaves in rbuf is what was there, or nothing.  *)
LEMMA CcsBeforeRbufAfter ==
    ASSUME NEW q, NEW rest, NEW e, CcsBefore(rest, e)
    PROVE  CcsBefore(RbufAfter(q, rest), e)
  BY CcsBeforeEmpty, Zenon DEF RbufAfter

(* dtls1_get_record from dtls1_get_bitmap on, for a record of a datagram   *)
(* that can exist by now.                                                  *)
LEMMA ProcessBodyWaits ==
    ASSUME IInv, WaitInv, pc = "fetch",
           NEW rec \in Records, NEW rest \in Seq(Records),
           CcsBefore(rest, started),
           rec.type = "CCS" => rec.epoch < started,
           unprocessed # {} /\ unproc_epoch = r_epoch =>
               CcsBefore(rest, r_epoch) /\ (rec.type = "CCS" => rec.epoch < r_epoch),
           ProcessBody(rec, rest),
           UNCHANGED <<r_epoch, unproc_epoch, processed, app, handshakeVars>>
    PROVE  WaitInv'
<1>1. EpochInv'
  BY Zenon DEF WaitInv, EpochInv, handshakeVars
<1>2. ASSUME Fresh' => rrec' = rec /\ rec.epoch = r_epoch,
             pc' # "fetch", pc' = "idle" => rrec' = NoRec,
             pc' \in {"idle", "have"} => ~stale',
             CcsBefore(rbuf', started),
             unprocessed # {} /\ unproc_epoch = r_epoch => CcsBefore(rbuf', r_epoch),
             "discarded" \notin ierr'
      PROVE  StaleInv' /\ (unprocessed' = unprocessed => CcsInv' /\ DrainInv')
  <2>1. StaleInv'
    BY <1>2, Zenon DEF WaitInv, StaleInv
  <2>2. unprocessed' = unprocessed => CcsInv'
    BY <1>2, Zenon DEF WaitInv, CcsInv, CcsBefore, handshakeVars
  <2>3. unprocessed' = unprocessed => DrainInv'
    BY <1>2, SMTT(30) DEF WaitInv, DrainInv, CcsBefore, IInv, TypeOK, Epochs
  <2> QED BY <2>1, <2>2, <2>3, Zenon
<1>3. CASE \E n \in Seqs : Discard([rec EXCEPT !.seq = n], rest)
  BY <1>1, <1>2, <1>3, Zenon DEF Discard, Fresh, WaitInv, StaleInv
<1>4. CASE Discard(rec, rest)
  BY <1>1, <1>2, <1>4, Zenon DEF Discard, Fresh, WaitInv, StaleInv
<1>5. CASE Dump(rest)
  BY <1>1, <1>2, <1>5, Zenon DEF Dump, EmptyRrec, Fresh, WaitInv, StaleInv
<1>6. CASE InCurrentEpoch(rec) /\ AcceptRecord(rec, rest)
  BY <1>1, <1>2, <1>6, Zenon DEF AcceptRecord, InCurrentEpoch, Fresh, WaitInv, StaleInv
<1>7. CASE IsNextEpoch(rec) /\ BufferNextEpoch(rec, rest)
  <2> DEFINE item == [rec |-> rec, rest |-> rest, stale |-> FALSE]
  <2>1. /\ rbuf' = RbufAfter(unprocessed, rest)
        /\ unprocessed' = Buffered(unprocessed, item)
        /\ InternalError(unprocessed, rec, "unprocessed")
        /\ EmptyRrec /\ pc' \in {"idle", "again"}
    BY <1>7, Zenon DEF BufferNextEpoch
  <2>2. item.rec = rec /\ item.rest = rest
    BY Zenon
  <2>3. unprocessed' \subseteq unprocessed \cup {item}
    BY <2>1, Zenon DEF Buffered
  <2> HIDE DEF item
  <2>4. rec.type # "CCS" /\ unproc_epoch # r_epoch
    BY <1>7, Zenon DEF IsNextEpoch
  <2>5. CcsBefore(rbuf', started)
    BY <2>1, CcsBeforeRbufAfter, Zenon
  <2>6. StaleInv'
    BY <2>1, Zenon DEF WaitInv, StaleInv, EmptyRrec, InternalError
  <2>7. CcsInv'
    BY <2>1, <2>2, <2>3, <2>4, <2>5, SMTT(30)
    DEF WaitInv, CcsInv, CcsBefore, handshakeVars, EmptyRrec, Fresh
  <2>8. DrainInv'
    BY <2>4, SMTT(30) DEF WaitInv, DrainInv, IInv, QueueInv, TypeOK, Epochs
  <2> QED BY <1>1, <2>6, <2>7, <2>8, Zenon DEF WaitInv
<1> QED BY <1>3, <1>4, <1>5, <1>6, <1>7, Zenon DEF ProcessBody

(* A record in rrec is acted upon and the epoch stays.                     *)
LEMMA ConsumedWaits ==
    ASSUME WaitInv, Consumed, HandUp, UNCHANGED <<r_epoch, app, rbuf>>,
           EpochInv', started' >= started, started \in Nat, started' \in Nat,
           rbuf \in Seq(Records),
           \A x \in unprocessed \cup processed \cup app : x.rest \in Seq(Records)
    PROVE  WaitInv'
<1>1. /\ UNCHANGED <<unprocessed, unproc_epoch, processed>>
      /\ rrec' = NoRec /\ stale' = FALSE /\ pc' = "idle" /\ ~stale
  BY Zenon DEF Consumed, EmptyRrec, WaitInv, StaleInv
<1>2. StaleInv'
  BY <1>1, Zenon DEF HandUp, WaitInv, StaleInv
<1>3. CcsInv'
  BY <1>1, CcsBeforeMono DEF WaitInv, CcsInv, Fresh
<1>4. DrainInv'
  BY <1>1, Zenon DEF WaitInv, DrainInv, Fresh, CcsBefore
<1> QED BY <1>2, <1>3, <1>4, Zenon DEF WaitInv

(* The ChangeCipherSpec that ends an epoch is the one the handshake awaits.*)
LEMMA ChangeWaits ==
    ASSUME IInv, WaitInv, ChangeCipherSpec, ccs_ok
    PROVE  WaitInv' /\ hs = "wait"
<1>1. /\ UNCHANGED <<unprocessed, unproc_epoch, processed, app, rbuf, hs, started>>
      /\ rrec' = NoRec /\ stale' = FALSE /\ pc' = "idle"
      /\ pc \in {"idle", "have"} /\ rrec # NoRec /\ HandUp
      /\ rrec.type = "CCS" /\ ~ccs
  BY Zenon DEF ChangeCipherSpec, Consumed, EmptyRrec
<1>2. /\ ccs_ok' = FALSE /\ ccs' = TRUE /\ r_epoch' = r_epoch + 1
  BY Zenon DEF ChangeCipherSpec, dtls1_reset_seq_numbers
<1>3. ~stale /\ Fresh
  BY <1>1, Zenon DEF WaitInv, StaleInv, Fresh
<1>4. r_epoch \in Nat /\ started \in Nat /\ r_epoch < started
  BY <1>1, <1>3 DEF IInv, TypeOK, Epochs, WaitInv, CcsInv
<1>5. hs # "ok" /\ r_epoch' = started /\ hs = "wait"
  BY <1>1, <1>2, <1>4 DEF WaitInv, EpochInv, IInv, TypeOK
<1>6. StaleInv'
  BY <1>1, <1>3, Zenon DEF HandUp, WaitInv, StaleInv
<1>7. EpochInv'
  BY <1>1, <1>2, <1>5, Zenon DEF EpochInv
<1>8. CcsInv'
  BY <1>1, Zenon DEF WaitInv, CcsInv, Fresh
<1>9. DrainInv'
  <2>1. unprocessed # {} => unproc_epoch = r_epoch + 1
    BY <1>1, <1>3 DEF WaitInv, DrainInv, IInv, QueueInv, TypeOK, Epochs
  <2>2. CcsBefore(rbuf, started) /\ \A x \in unprocessed \cup app : CcsBefore(x.rest, started)
    BY Zenon DEF WaitInv, CcsInv
  <2> QED BY <1>1, <1>2, <1>4, <1>5, <2>1, <2>2 DEF DrainInv, Fresh
<1> QED BY <1>5, <1>6, <1>7, <1>8, <1>9, Zenon DEF WaitInv

(* A record is taken out of unprocessed_rcds.                              *)
LEMMA ProcessOneWaits ==
    ASSUME IInv, WaitInv, ProcessOne
    PROVE  WaitInv'
<1>0. PICK item \in First(unprocessed) : ProcessOne!3!(item)
  BY Zenon DEF ProcessOne
<1>1. /\ item \in unprocessed
      /\ pc = "loop" /\ UNCHANGED <<r_epoch, unproc_epoch, app, handshakeVars>>
  BY Zenon DEF First, ProcessOne
<1>2. item.rec.epoch = r_epoch
  BY <1>1 DEF IInv, QueueInv, TypeOK, Epochs
<1>3. /\ rrec' = NoRec /\ stale' = FALSE /\ pc' \in {"idle", "loop"}
      /\ unprocessed' \subseteq unprocessed
      /\ processed' \subseteq processed \cup {item}
  BY <1>0, <1>1, <1>2, Zenon DEF InCurrentEpoch, EmptyRrec, Buffered
<1>4. rbuf' \in {item.rest, << >>}
  BY <1>0, <1>2, Zenon DEF InCurrentEpoch, RbufAfter
<1>5. "discarded" \notin ierr'
  BY <1>0, <1>2 DEF InCurrentEpoch, InternalError, WaitInv, StaleInv
<1>6. StaleInv'
  BY <1>1, <1>3, <1>5, Zenon DEF WaitInv, StaleInv
<1>7. EpochInv'
  BY <1>1, Zenon DEF WaitInv, EpochInv, handshakeVars
<1>8. CcsInv'
  BY <1>1, <1>3, <1>4, CcsBeforeEmpty, Zenon DEF WaitInv, CcsInv, Fresh, handshakeVars
<1>9. DrainInv'
  BY <1>1, <1>3, <1>4, CcsBeforeEmpty, Zenon DEF WaitInv, DrainInv, Fresh
<1> QED BY <1>6, <1>7, <1>8, <1>9, Zenon DEF WaitInv

(* The datagram that is read next can exist by now, and while records of   *)
(* the current epoch wait it is the one at hand.                           *)
LEMMA ReadHeaderWaits ==
    ASSUME IInv, WaitInv, NEW d \in Dgrams \cup {rbuf}, ReadHeader(d)
    PROVE  WaitInv'
<1>1. d \in Seq(Records) /\ d # << >> /\ pc = "fetch"
  BY Zenon DEF ReadHeader, IInv, TypeOK
<1>2. Head(d) \in Records /\ Tail(d) \in Seq(Records)
  BY <1>1
<1>3. CcsBefore(d, started)
  BY Zenon DEF ReadHeader, Causal, CcsBefore, WaitInv, CcsInv
<1>4. unprocessed # {} /\ unproc_epoch = r_epoch => CcsBefore(d, r_epoch)
  BY <1>1, Zenon DEF ReadHeader, WaitInv, DrainInv
<1>5. UNCHANGED <<r_epoch, unproc_epoch, processed, app, handshakeVars>>
  BY Zenon DEF ReadHeader
<1>6. started \in Int /\ r_epoch \in Int
  BY DEF IInv, TypeOK, Epochs
<1>7. CASE ProcessBody(Head(d), Tail(d))
  BY <1>1, <1>2, <1>3, <1>4, <1>5, <1>6, <1>7, CcsBeforeTail, ProcessBodyWaits, Zenon
<1>8. CASE Discard(Head(d), IF Head(d).whole THEN d ELSE << >>)
  <2>1. /\ rbuf' \in {d, << >>} /\ stale' = TRUE /\ pc' = "again"
        /\ UNCHANGED <<unprocessed, ierr>>
    BY <1>8, Zenon DEF Discard
  <2>2. StaleInv' /\ EpochInv'
    BY <1>5, <2>1, Zenon DEF WaitInv, StaleInv, EpochInv, handshakeVars
  <2>3. CcsInv'
    BY <1>3, <1>5, <2>1, CcsBeforeEmpty, Zenon DEF WaitInv, CcsInv, Fresh, handshakeVars
  <2>4. DrainInv'
    BY <1>4, <1>5, <2>1, CcsBeforeEmpty, Zenon DEF WaitInv, DrainInv, Fresh
  <2> QED BY <2>2, <2>3, <2>4, Zenon DEF WaitInv
<1> QED BY <1>7, <1>8, Zenon DEF ReadHeader

(* The same where the header was read before.                              *)
LEMMA ReadBodyWaits ==
    ASSUME IInv, WaitInv, ReadBody
    PROVE  WaitInv'
<1>1. /\ pc = "fetch" /\ rbuf \in Seq(Records)
      /\ started \in Int /\ r_epoch \in Int
  BY DEF ReadBody, IInv, TypeOK, Epochs
<1>2. UNCHANGED <<r_epoch, unproc_epoch, processed, app, handshakeVars>>
  BY Zenon DEF ReadBody
<1>3. CASE rbuf # << >>
  <2>1. Head(rbuf) \in Records /\ Tail(rbuf) \in Seq(Records)
    BY <1>1, <1>3
  <2>2. CcsBefore(rbuf, started)
        /\ (unprocessed # {} /\ unproc_epoch = r_epoch => CcsBefore(rbuf, r_epoch))
    BY Zenon DEF WaitInv, CcsInv, DrainInv
  <2>3. ProcessBody(Head(rbuf), Tail(rbuf))
    BY <1>3, Zenon DEF ReadBody
  <2> QED BY <1>1, <1>2, <1>3, <2>1, <2>2, <2>3, CcsBeforeTail, ProcessBodyWaits, Zenon
<1>4. CASE rbuf = << >>
  <2>1. pc' = "again" /\ UNCHANGED <<unprocessed, rbuf, rrec, stale, ierr>>
    BY <1>4, Zenon DEF ReadBody, recordVars
  <2> QED
    BY <1>1, <1>2, <2>1, Zenon
    DEF WaitInv, StaleInv, EpochInv, CcsInv, DrainInv, Fresh, handshakeVars
<1> QED BY <1>3, <1>4, Zenon

(* Every step of a reader that waits for datagrams preserves the epochs    *)
(* and the queues, and changes the epoch only while Finished is awaited.   *)
LEMMA WaitStep ==
    ASSUME Waits
    PROVE  IInv /\ FitInv /\ WaitInv /\ [Next]_vars =>
               WaitInv' /\ (r_epoch' # r_epoch => hs = "wait")
<1> SUFFICES ASSUME IInv, FitInv, WaitInv, [Next]_vars
             PROVE  WaitInv' /\ (r_epoch' # r_epoch => hs = "wait")
  BY Zenon
<1>0. /\ started \in Nat /\ r_epoch \in Nat /\ rbuf \in Seq(Records)
      /\ \A x \in unprocessed \cup processed \cup app : x.rest \in Seq(Records)
  BY DEF IInv, TypeOK, Epochs, Items
<1> DEFINE Kept == StaleInv' /\ EpochInv' /\ CcsInv'
<1>1. CASE ProcessBuffered
  <2>1. UNCHANGED <<r_epoch, unprocessed, processed, app, rbuf, rrec, stale,
                    hs, started, ccs_ok, ccs, ierr>> /\ pc' \in {"fetch", "loop"}
    BY <1>1, Zenon DEF ProcessBuffered, windowVars, recordVars, handshakeVars
  <2>2. Kept
    BY <2>1, Zenon DEF WaitInv, StaleInv, EpochInv, CcsInv, Fresh
  <2>3. DrainInv'
    BY <1>1, <2>1, Zenon DEF ProcessBuffered, WaitInv, DrainInv, Fresh
  <2> QED BY <2>1, <2>2, <2>3, Zenon DEF WaitInv
<1>2. CASE ProcessOne
  BY <1>2, ProcessOneWaits, Zenon DEF ProcessOne
<1>3. CASE ProcessDone
  <2>1. UNCHANGED <<r_epoch, unprocessed, processed, app, rbuf, rrec, stale,
                    hs, started, ccs_ok, ccs, ierr>> /\ pc' = "fetch"
        /\ unprocessed = {}
    BY <1>3, Zenon DEF ProcessDone, windowVars, recordVars, handshakeVars
  <2> QED BY <2>1, Zenon DEF WaitInv, StaleInv, EpochInv, CcsInv, DrainInv, Fresh
<1>4. CASE GetProcessed
  <2> PICK item \in First(processed) :
        processed' = processed \ {item} /\ rrec' = item.rec /\ rbuf' = item.rest
    BY <1>4, Zenon DEF GetProcessed
  <2>1. UNCHANGED <<r_epoch, unprocessed, app, hs, started, ccs_ok, ccs, ierr>>
        /\ stale' = FALSE /\ pc' = "have" /\ pc = "fetch" /\ item \in processed
    BY <1>4, Zenon DEF GetProcessed, windowVars, handshakeVars, First
  <2>2. unprocessed = {}
    BY <2>1, Zenon DEF FitInv
  <2> QED
    BY <2>1, <2>2, Zenon DEF WaitInv, StaleInv, EpochInv, CcsInv, DrainInv, Fresh
<1>5. CASE \E d \in Dgrams \cup {rbuf} : ReadHeader(d)
  BY <1>5, ReadHeaderWaits, Zenon DEF ReadHeader
<1>6. CASE ReadBody
  BY <1>6, ReadBodyWaits, Zenon DEF ReadBody
<1>7. CASE ReadNothing
  BY <1>7, Zenon DEF ReadNothing
<1>8. CASE PopAppData
  <2> PICK item \in First(app) :
        /\ app' = app \ {item} /\ rrec' = item.rec /\ rbuf' = item.rest
        /\ stale' = item.stale
    BY <1>8, Zenon DEF PopAppData
  <2>1. UNCHANGED <<r_epoch, unprocessed, unproc_epoch, processed, hs, started,
                    ccs_ok, ccs, ierr>>
        /\ pc' = "have" /\ item \in app
    BY <1>8, Zenon DEF PopAppData, windowVars, handshakeVars, First
  <2>2. StaleInv' /\ EpochInv'
    BY <2>1, Zenon DEF WaitInv, StaleInv, EpochInv
  <2>3. CcsInv' /\ DrainInv'
    BY <2>1, Zenon DEF WaitInv, CcsInv, DrainInv
  <2> QED BY <2>1, <2>2, <2>3, Zenon DEF WaitInv
<1>9. CASE KeepForLater
  <2> DEFINE item == [rec |-> rrec, rest |-> rbuf, stale |-> stale]
  <2>1. /\ UNCHANGED <<r_epoch, unprocessed, unproc_epoch, processed, hs, started,
                       ccs_ok, ccs>>
        /\ pc \in {"idle", "have"} /\ rrec # NoRec /\ ccs
        /\ rrec' = NoRec /\ stale' = FALSE /\ pc' = "idle"
        /\ app' = Buffered(app, item) /\ InternalError(app, rrec, "app")
        /\ rbuf' \in {rbuf, << >>}
    BY <1>9, Zenon DEF KeepForLater, Consumed, EmptyRrec, windowVars, handshakeVars,
                RbufAfter
  <2>2. app' \subseteq app \cup {item}
    BY <2>1, Zenon DEF Buffered
  <2>3. item.rec = rrec /\ item.rest = rbuf /\ item.stale = stale
    BY Zenon
  <2> HIDE DEF item
  <2>4. ~stale /\ rrec.type # "CCS"
    BY <1>0, <2>1, SMTT(30) DEF WaitInv, StaleInv, EpochInv, CcsInv, Fresh
  <2>5. StaleInv' /\ EpochInv'
    BY <2>1, <2>2, <2>3, <2>4, Zenon DEF WaitInv, StaleInv, EpochInv, InternalError
  <2>6. CcsInv'
    BY <2>1, <2>2, <2>3, <2>4, CcsBeforeEmpty, Zenon DEF WaitInv, CcsInv, Fresh
  <2>7. DrainInv'
    BY <2>1, <2>2, <2>3, CcsBeforeEmpty, Zenon DEF WaitInv, DrainInv, Fresh
  <2> QED BY <2>1, <2>5, <2>6, <2>7, Zenon DEF WaitInv
<1>10. CASE DeliverHandshake
  <2>1. Consumed /\ HandUp /\ UNCHANGED <<r_epoch, app, rbuf, started, ccs_ok>>
    BY <1>10, Zenon DEF DeliverHandshake, windowVars
  <2>2. EpochInv'
    BY <1>10, <2>1 DEF DeliverHandshake, WaitInv, EpochInv
  <2> QED BY <1>0, <2>1, <2>2, ConsumedWaits
<1>11. CASE DeliverAppData \/ DeliverAlert
  <2>1. Consumed /\ HandUp /\ UNCHANGED <<r_epoch, app, rbuf, handshakeVars>>
    BY <1>11, Zenon DEF DeliverAppData, DeliverAlert, windowVars
  <2>2. EpochInv' /\ started' = started
    BY <2>1, Zenon DEF WaitInv, EpochInv, handshakeVars
  <2> QED BY <1>0, <2>1, <2>2, ConsumedWaits
<1>12. CASE ChangeCipherSpec
  <2>1. CASE ccs_ok
    BY <1>12, <2>1, ChangeWaits, Zenon
  <2>2. CASE ~ccs_ok
    <3>1. Consumed /\ HandUp /\ UNCHANGED <<r_epoch, app, rbuf, handshakeVars>>
      BY <1>12, <2>2, Zenon DEF ChangeCipherSpec, windowVars, handshakeVars
    <3>2. EpochInv' /\ started' = started
      BY <3>1, Zenon DEF WaitInv, EpochInv, handshakeVars
    <3> QED BY <1>0, <3>1, <3>2, ConsumedWaits
  <2> QED BY <2>1, <2>2, Zenon
<1>13. CASE BadChangeCipherSpec
  BY <1>13, Zenon DEF BadChangeCipherSpec, WaitInv, StaleInv
<1>14. ASSUME BeginHandshake, hs = "ok", r_epoch' = r_epoch
       PROVE  EpochInv' /\ started' >= started /\ started' \in Nat
  BY <1>0, <1>14 DEF BeginHandshake, WaitInv, EpochInv
<1>15. CASE UnexpectedHandshake
  <2>1. Consumed /\ HandUp /\ UNCHANGED <<r_epoch, app, rbuf>>
    BY <1>15, Zenon DEF UnexpectedHandshake, windowVars
  <2>2. EpochInv' /\ started' >= started /\ started' \in Nat
    <3>1. CASE UNCHANGED handshakeVars
      BY <1>0, <2>1, <3>1 DEF WaitInv, EpochInv, handshakeVars
    <3>2. CASE BeginHandshake
      BY <1>14, <1>15, <2>1, <3>2, Zenon DEF UnexpectedHandshake
    <3> QED BY <1>15, <3>1, <3>2, Zenon DEF UnexpectedHandshake
  <2> QED BY <1>0, <2>1, <2>2, ConsumedWaits, Zenon
<1>16. CASE Renegotiate
  <2>1. /\ UNCHANGED <<r_epoch, unprocessed, unproc_epoch, processed, app, rbuf,
                       rrec, stale, pc, ierr>>
        /\ pc = "idle" /\ hs = "ok" /\ BeginHandshake
    BY <1>16, Zenon DEF Renegotiate, windowVars, recordVars
  <2>2. EpochInv' /\ started' >= started /\ started' \in Nat
    BY <1>14, <2>1, Zenon
  <2>3. StaleInv' /\ DrainInv'
    BY <2>1, Zenon DEF WaitInv, StaleInv, DrainInv, Fresh
  <2>4. CcsInv'
    BY <1>0, <2>1, <2>2, CcsBeforeMono, SMTT(30) DEF WaitInv, StaleInv, CcsInv, Fresh
  <2> QED BY <2>1, <2>2, <2>3, <2>4, Zenon DEF WaitInv
<1>17. CASE AwaitFinished
  <2>1. /\ UNCHANGED <<r_epoch, unprocessed, unproc_epoch, processed, app, rbuf,
                       rrec, stale, pc, ierr, started, ccs>>
        /\ hs # "ok" /\ hs' = "wait"
    BY <1>17, Zenon DEF AwaitFinished, windowVars, recordVars
  <2> QED
    BY <2>1, Zenon DEF WaitInv, StaleInv, EpochInv, CcsInv, DrainInv, Fresh
<1>18. CASE UNCHANGED vars
  BY <1>18, Zenon DEF vars, WaitInv, StaleInv, EpochInv, CcsInv, DrainInv, Fresh
<1> QED
  BY <1>1, <1>2, <1>3, <1>4, <1>5, <1>6, <1>7, <1>8, <1>9, <1>10, <1>11, <1>12,
     <1>13, <1>15, <1>16, <1>17, <1>18, Zenon DEF Next, Reader

(* Nothing has arrived yet.                                                *)
LEMMA WaitInit == Init => WaitInv
  BY CcsBeforeEmpty, SMTT(30)
  DEF Init, WaitInv, StaleInv, EpochInv, CcsInv, DrainInv, Fresh

(* The queues always fit, whether the socket waits or not.                 *)
LEMMA FitAlways == Spec => [](IInv /\ FitInv)
<1>1. Init => FitInv
  BY Zenon DEF Init, FitInv
<1> QED BY <1>1, FitStep, IInvAlways, PTL DEF Spec

(* With a socket that waits, the epochs and the queues are always as they  *)
(* should be.                                                              *)
LEMMA WaitAlways ==
    ASSUME Waits
    PROVE  Spec => [](IInv /\ FitInv /\ WaitInv)
  BY WaitInit, WaitStep, FitAlways, PTL DEF Spec

(* With a socket that waits, no pair of epoch changes leaves a record      *)
(* behind in unprocessed_rcds, for any datagrams that the peer can have    *)
(* produced and any interleaving of reads and renegotiations.              *)
THEOREM NeverStranded ==
    ASSUME Waits
    PROVE  Spec => []QueueNotStranded
<1>1. IInv /\ WaitInv => QueueNotStranded
  BY DEF IInv, TypeOK, Epochs, QueueInv, WaitInv, DrainInv, QueueNotStranded
<1> QED BY <1>1, WaitAlways, PTL

(* With a socket that waits, the read epoch changes only while the         *)
(* handshake waits for Finished (the client as well as the server, which   *)
(* allow a ChangeCipherSpec on different conditions).                      *)
THEOREM EpochOnlyWhenAwaited ==
    ASSUME Waits
    PROVE  Spec => EpochAdvancesWhenAwaited
<1>1. IInv /\ FitInv /\ WaitInv /\ [Next]_vars => [r_epoch' # r_epoch => hs = "wait"]_vars
  BY WaitStep, Zenon
<1> QED BY <1>1, WaitAlways, PTL DEF Spec, EpochAdvancesWhenAwaited

(* With a socket that waits, what the comments in dtls1_get_record promise *)
(* holds: nothing of a discarded record reaches the caller.                *)
THEOREM DiscardedNeverUsed ==
    ASSUME Waits
    PROVE  Spec => []DiscardedNotUsed
<1>1. WaitInv => DiscardedNotUsed
  BY Zenon DEF WaitInv, StaleInv, DiscardedNotUsed
<1> QED BY <1>1, WaitAlways, PTL
====
