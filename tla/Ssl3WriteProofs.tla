--------------------------- MODULE Ssl3WriteProofs ---------------------------
(***************************************************************************)
(* Proofs about Ssl3Write: whatever alerts, handshakes and shutdowns come  *)
(* between two repetitions of SSL_write, the stream of application data is *)
(* neither torn nor repeated.                                              *)
(***************************************************************************)
EXTENDS Ssl3Write, TLAPS

Sent == "sent" \in shutdown
Client == "hello_request" \in Events

(* How much of the unfinished SSL_write is in records that are written.    *)
Position == IF pc \in {"start", "loop"} THEN tot ELSE wnum

(* A handshake that finds something else in the buffer never ends.  This   *)
(* is the only way to lose wnum, and no data is written after it.          *)
Stuck == hs # 0 /\ left # 0 /\ wpend.type # "handshake"

(* wpend describes the record in the buffer. *)
BufferInv ==
    /\ wpend.type = "app" <=> rec.type = "app"
    /\ wpend.type = "handshake" <=> rec.type = "handshake"
    /\ wpend.type = "alert" <=> rec.type \in Alerts
    /\ wpend.type = "app" => wpend.tot = rec.count /\ rec.count > 0
    /\ left # 0 => wpend.type # "none"
    /\ left # 0 /\ wpend.type = "handshake" => hs # 0

(* What only one of the two ends does. *)
RoleInv ==
    /\ ~Client => ~renegotiate /\ (hs # 0 => ~Sent)
    /\ Client => /\ alert_dispatch \/ rec.type \in Alerts => Sent
                 /\ wnum # 0 => left # 0 /\ wpend.type = "app"

(* close_notify is sent by SSL_shutdown only. *)
CloseInv ==
    /\ "close_notify" \in written => Sent
    /\ rec.type = "close_notify" => Sent
    /\ alert_dispatch /\ send_alert = "close_notify" => Sent

(* Where a call can be. *)
CallInv ==
    /\ pc \in {"start", "loop"} => wnum = 0 /\ wlen # 0 /\ ~Sent
    /\ pc = "loop" => hs = 0 /\ left = 0 /\ tot < wlen
    /\ pc = "read" => hs # 0
    /\ wnum # 0 => wlen # 0 /\ (left # 0 \/ Sent)
    /\ hs # 0 /\ ~Stuck => Position = 0

(* The position in the stream. *)
StreamInv ==
    /\ acked <= put - Unwritten
    /\ wlen = 0 => acked = put
    /\ acked + wlen <= StreamLength
    /\ put <= acked + wlen
    /\ ~Stuck => put = acked + Position + Unwritten
WriteInv == TypeOK /\ BufferInv /\ RoleInv /\ CloseInv /\ CallInv /\ StreamInv

(* TypeOK without the flags and the history of records. *)
TypeRest ==
    /\ mode \in Modes
    /\ pc \in {"idle", "start", "loop", "read"}
    /\ left \in 0 .. Units
    /\ rec \in Records
    /\ wpend \in Pending
    /\ wnum \in Nat
    /\ tot \in Nat
    /\ send_alert \in Alerts
    /\ hs \in 0 .. HsMessages
    /\ shutdown \subseteq {"sent", "received"}
    /\ wlen \in 0 .. StreamLength
    /\ acked \in 0 .. StreamLength
    /\ put \in 0 .. StreamLength
    /\ shut \in {-1, 0, 1}

Kinds == {"app", "handshake"} \cup Alerts

-----------------------------------------------------------------------------

(* A fragment has at least one byte and no more than are left: Chunk, from *)
(* the lengths ssl3_write_bytes computes.                                  *)
LEMMA ChunkBounds ==
    ASSUME NEW n \in Nat \ {0}
    PROVE  Chunk(n) \in 1 .. n
BY WriteAssumption DEF Chunk

(* Only records that were made are counted as written by Account, the end  *)
(* of ssl3_write_pending.                                                  *)
LEMMA AccountKinds ==
    ASSUME written \subseteq Kinds,
           UNCHANGED written \/ (Account /\ (left' = 0 => rec'.type \in Kinds))
    PROVE  written' \subseteq Kinds
BY DEF Account

(* SSL_write starts from wnum; at a client it may begin a handshake, but   *)
(* only with an empty buffer, and then wnum is 0.                          *)
LEMMA WriteStartKeeps ==
    ASSUME NEW len \in 1 .. StreamLength, WriteInv, WriteStart(len)
    PROVE  WriteInv'
<1>1. TypeOK'
  <2>1. (alert_dispatch \in BOOLEAN /\ renegotiate \in BOOLEAN)'
    BY Zenon DEF WriteInv, TypeOK, WriteStart, RenegotiateCheck
  <2>2. (written \subseteq Kinds)'
    BY DEF WriteInv, TypeOK, Kinds, WriteStart, RenegotiateCheck
  <2>3. TypeRest'
    BY WriteAssumption DEF WriteInv, TypeOK, TypeRest, BufferInv, CallInv,
           StreamInv, Position, Stuck, Unwritten, Records, Pending, Alerts,
           WriteStart, RenegotiateCheck
  <2> QED BY <2>1, <2>2, <2>3 DEF TypeOK, TypeRest, Kinds
<1>2. BufferInv'
  BY WriteAssumption DEF WriteInv, TypeOK, BufferInv, CallInv, Records,
         Pending, Alerts, WriteStart, RenegotiateCheck
<1>3. RoleInv'
  BY WriteAssumption DEF WriteInv, TypeOK, BufferInv, RoleInv, CallInv, Sent,
         Client, Alerts, WriteStart, RenegotiateCheck
<1>4. CloseInv'
  BY WriteAssumption DEF WriteInv, CloseInv, CallInv, Sent, Alerts,
         WriteStart, RenegotiateCheck
<1>5. CallInv'
  BY WriteAssumption DEF WriteInv, TypeOK, BufferInv, RoleInv, CallInv, Sent,
         Client, Position, Stuck, WriteStart, RenegotiateCheck
<1>6. StreamInv'
  BY WriteAssumption DEF WriteInv, TypeOK, BufferInv, CallInv, StreamInv,
         Position, Stuck, Unwritten, Pending, Records, WriteStart,
         RenegotiateCheck
<1> QED BY <1>1, <1>2, <1>3, <1>4, <1>5, <1>6 DEF WriteInv

(* The record in the buffer is the fragment at tot, or the call fails.     *)
LEMMA WritePendingKeeps ==
    ASSUME WriteInv, WritePending
    PROVE  WriteInv'
<1>1. TypeOK'
  <2>1. (alert_dispatch \in BOOLEAN /\ renegotiate \in BOOLEAN)'
    BY Zenon DEF WriteInv, TypeOK, WritePending, write_pending, BadRetry,
           Fails, Returns, Account, wvars
  <2>2. (written \subseteq Kinds)'
    <3>1. UNCHANGED written \/ (Account /\ (left' = 0 => rec'.type \in Kinds))
      BY WriteAssumption DEF WriteInv, TypeOK, BufferInv, CallInv, Kinds,
             Records, Pending, Alerts, WritePending, write_pending, BadRetry,
             Fails, Returns, Account, wvars
    <3>2. written \subseteq Kinds
      BY DEF WriteInv, TypeOK, Kinds
    <3> QED BY <3>1, <3>2, AccountKinds
  <2>3. TypeRest'
    BY WriteAssumption DEF WriteInv, TypeOK, TypeRest, BufferInv, CallInv,
           StreamInv, Position, Stuck, Unwritten, Records, Pending, Alerts,
           WritePending, write_pending, BadRetry, Fails, Returns, Account,
           wvars
  <2> QED BY <2>1, <2>2, <2>3 DEF TypeOK, TypeRest, Kinds
<1>2. BufferInv'
  BY WriteAssumption DEF WriteInv, TypeOK, BufferInv, CallInv, Records,
         Pending, Alerts, WritePending, write_pending, BadRetry, Fails,
         Returns, Account, wvars
<1>3. RoleInv'
  BY WriteAssumption DEF WriteInv, TypeOK, BufferInv, RoleInv, CallInv, Sent,
         Client, Alerts, Pending, Records, WritePending, write_pending,
         BadRetry, Fails, Returns, Account, wvars
<1>4. CloseInv'
  BY WriteAssumption DEF WriteInv, CloseInv, CallInv, Sent, Alerts,
         WritePending, write_pending, BadRetry, Fails, Returns, Account, wvars
<1>5. CallInv'
  BY WriteAssumption DEF WriteInv, TypeOK, BufferInv, RoleInv, CallInv, Sent,
         Client, Position, Stuck, StreamInv, Unwritten, Pending, Records,
         WritePending, write_pending, BadRetry, Fails, Returns, Account, wvars
<1>6. StreamInv'
  BY WriteAssumption DEF WriteInv, TypeOK, BufferInv, CallInv, StreamInv,
         Position, Stuck, Unwritten, Pending, Records, WritePending,
         write_pending, BadRetry, Fails, Returns, Account, wvars
<1> QED BY <1>1, <1>2, <1>3, <1>4, <1>5, <1>6 DEF WriteInv

(* An alert between two fragments moves neither tot nor put.               *)
LEMMA WriteAlertKeeps ==
    ASSUME WriteInv, WriteAlert
    PROVE  WriteInv'
<1>1. TypeOK'
  <2>1. (alert_dispatch \in BOOLEAN /\ renegotiate \in BOOLEAN)'
    BY Zenon DEF WriteInv, TypeOK, WriteAlert, ssl3_dispatch_alert, NewRecord,
           BadRetry, write_pending, Account, Fails, wvars
  <2>2. (written \subseteq Kinds)'
    <3>1. UNCHANGED written \/ (Account /\ (left' = 0 => rec'.type \in Kinds))
      BY WriteAssumption DEF WriteInv, TypeOK, BufferInv, CallInv, Kinds,
             Records, Pending, Alerts, WriteAlert, ssl3_dispatch_alert,
             NewRecord, BadRetry, write_pending, Account, Fails, wvars
    <3>2. written \subseteq Kinds
      BY DEF WriteInv, TypeOK, Kinds
    <3> QED BY <3>1, <3>2, AccountKinds
  <2>3. TypeRest'
    BY WriteAssumption DEF WriteInv, TypeOK, TypeRest, BufferInv, CallInv,
           StreamInv, Position, Stuck, Unwritten, Records, Pending, Alerts,
           WriteAlert, ssl3_dispatch_alert, NewRecord, BadRetry,
           write_pending, Account, Fails, wvars
  <2> QED BY <2>1, <2>2, <2>3 DEF TypeOK, TypeRest, Kinds
<1>2. BufferInv'
  BY WriteAssumption DEF WriteInv, TypeOK, BufferInv, CallInv, Records,
         Pending, Alerts, WriteAlert, ssl3_dispatch_alert, NewRecord,
         BadRetry, write_pending, Account, Fails, wvars
<1>3. RoleInv'
  BY WriteAssumption DEF WriteInv, TypeOK, BufferInv, RoleInv, CallInv, Sent,
         Client, Alerts, WriteAlert, ssl3_dispatch_alert, NewRecord, BadRetry,
         write_pending, Account, Fails, wvars
<1>4. CloseInv'
  BY WriteAssumption DEF WriteInv, CloseInv, CallInv, Sent, Alerts,
         WriteAlert, ssl3_dispatch_alert, NewRecord, BadRetry, write_pending,
         Account, Fails, wvars
<1>5. CallInv'
  BY WriteAssumption DEF WriteInv, TypeOK, BufferInv, RoleInv, CallInv, Sent,
         Client, Position, Stuck, WriteAlert, ssl3_dispatch_alert, NewRecord,
         BadRetry, write_pending, Account, Fails, wvars
<1>6. StreamInv'
  BY WriteAssumption DEF WriteInv, TypeOK, BufferInv, CallInv, StreamInv,
         Position, Stuck, Unwritten, Pending, Records, WriteAlert,
         ssl3_dispatch_alert, NewRecord, BadRetry, write_pending, Account,
         Fails, wvars
<1> QED BY <1>1, <1>2, <1>3, <1>4, <1>5, <1>6 DEF WriteInv

(* A fragment begins where the stream stands.                              *)
LEMMA WriteFragmentKeeps ==
    ASSUME WriteInv, WriteFragment
    PROVE  WriteInv'
<1>1. TypeOK'
  <2>1. (alert_dispatch \in BOOLEAN /\ renegotiate \in BOOLEAN)'
    BY Zenon DEF WriteInv, TypeOK, WriteFragment, NewRecord, Account, Fails,
           Returns
  <2>2. (written \subseteq Kinds)'
    <3>1. UNCHANGED written \/ (Account /\ (left' = 0 => rec'.type \in Kinds))
      BY WriteAssumption DEF WriteInv, TypeOK, BufferInv, CallInv, Kinds,
             Records, Pending, Alerts, WriteFragment, NewRecord, Account,
             Fails, Returns
    <3>2. written \subseteq Kinds
      BY DEF WriteInv, TypeOK, Kinds
    <3> QED BY <3>1, <3>2, AccountKinds
  <2>3. TypeRest'
    BY WriteAssumption, ChunkBounds DEF WriteInv, TypeOK, TypeRest, BufferInv,
           CallInv, StreamInv, Position, Stuck, Unwritten, Records, Pending,
           Alerts, WriteFragment, NewRecord, Account, Fails, Returns
  <2> QED BY <2>1, <2>2, <2>3 DEF TypeOK, TypeRest, Kinds
<1>2. BufferInv'
  BY WriteAssumption, ChunkBounds DEF WriteInv, TypeOK, BufferInv, CallInv,
         Records, Pending, Alerts, WriteFragment, NewRecord, Account, Fails,
         Returns
<1>3. RoleInv'
  BY WriteAssumption, ChunkBounds DEF WriteInv, TypeOK, BufferInv, RoleInv,
         CallInv, Sent, Client, Alerts, WriteFragment, NewRecord, Account,
         Fails, Returns
<1>4. CloseInv'
  BY WriteAssumption, ChunkBounds DEF WriteInv, CloseInv, CallInv, Sent,
         Alerts, WriteFragment, NewRecord, Account, Fails, Returns
<1>5. CallInv'
  BY WriteAssumption, ChunkBounds DEF WriteInv, TypeOK, BufferInv, RoleInv,
         CallInv, Sent, Client, Position, Stuck, WriteFragment, NewRecord,
         Account, Fails, Returns
<1>6. StreamInv'
  BY WriteAssumption, ChunkBounds DEF WriteInv, TypeOK, BufferInv, CallInv,
         StreamInv, Position, Stuck, Unwritten, Pending, Records,
         WriteFragment, NewRecord, Account, Fails, Returns
<1> QED BY <1>1, <1>2, <1>3, <1>4, <1>5, <1>6 DEF WriteInv

(* A handshake message loses wnum only if it is stuck.                     *)
LEMMA HandshakeWriteKeeps ==
    ASSUME WriteInv, HandshakeWrite
    PROVE  WriteInv'
<1>1. TypeOK'
  <2>1. (alert_dispatch \in BOOLEAN /\ renegotiate \in BOOLEAN)'
    BY Zenon DEF WriteInv, TypeOK, HandshakeWrite, Handshaking,
           HandshakeFails, MessageSent, ssl3_dispatch_alert, NewRecord,
           BadRetry, write_pending, Account, wvars
  <2>2. (written \subseteq Kinds)'
    <3>1. UNCHANGED written \/ (Account /\ (left' = 0 => rec'.type \in Kinds))
      <4>1. CASE left = 0
        BY <4>1 DEF WriteInv, TypeOK, Kinds, Alerts, HandshakeWrite,
               Handshaking, HandshakeFails, MessageSent, ssl3_dispatch_alert,
               NewRecord, BadRetry, write_pending, Account, wvars
      <4>2. CASE left # 0
        BY <4>2 DEF WriteInv, TypeOK, BufferInv, Kinds, Records, Pending,
               Alerts, HandshakeWrite, Handshaking, HandshakeFails,
               MessageSent, ssl3_dispatch_alert, NewRecord, BadRetry,
               write_pending, Account, wvars
      <4> QED BY <4>1, <4>2
    <3>2. written \subseteq Kinds
      BY DEF WriteInv, TypeOK, Kinds
    <3> QED BY <3>1, <3>2, AccountKinds
  <2>3. TypeRest'
    BY WriteAssumption DEF WriteInv, TypeOK, TypeRest, BufferInv, CallInv,
           StreamInv, Position, Stuck, Unwritten, Records, Pending, Alerts,
           HandshakeWrite, Handshaking, HandshakeFails, MessageSent,
           ssl3_dispatch_alert, NewRecord, BadRetry, write_pending, Account,
           wvars
  <2> QED BY <2>1, <2>2, <2>3 DEF TypeOK, TypeRest, Kinds
<1>2. BufferInv'
  BY WriteAssumption DEF WriteInv, TypeOK, BufferInv, CallInv, Records,
         Pending, Alerts, HandshakeWrite, Handshaking, HandshakeFails,
         MessageSent, ssl3_dispatch_alert, NewRecord, BadRetry, write_pending,
         Account, wvars
<1>3. RoleInv'
  BY WriteAssumption DEF WriteInv, TypeOK, BufferInv, RoleInv, CallInv, Sent,
         Client, Alerts, HandshakeWrite, Handshaking, HandshakeFails,
         MessageSent, ssl3_dispatch_alert, NewRecord, BadRetry, write_pending,
         Account, wvars
<1>4. CloseInv'
  BY WriteAssumption DEF WriteInv, CloseInv, CallInv, Sent, Alerts,
         HandshakeWrite, Handshaking, HandshakeFails, MessageSent,
         ssl3_dispatch_alert, NewRecord, BadRetry, write_pending, Account,
         wvars
<1>5. CallInv'
  BY WriteAssumption DEF WriteInv, TypeOK, BufferInv, RoleInv, CallInv, Sent,
         Client, Position, Stuck, HandshakeWrite, Handshaking, HandshakeFails,
         MessageSent, ssl3_dispatch_alert, NewRecord, BadRetry, write_pending,
         Account, wvars
<1>6. StreamInv'
  BY WriteAssumption DEF WriteInv, TypeOK, BufferInv, CallInv, StreamInv,
         Position, Stuck, Unwritten, Pending, Records, HandshakeWrite,
         Handshaking, HandshakeFails, MessageSent, ssl3_dispatch_alert,
         NewRecord, BadRetry, write_pending, Account, wvars
<1> QED BY <1>1, <1>2, <1>3, <1>4, <1>5, <1>6 DEF WriteInv

(* A handshake that waits keeps the buffer as it is.                       *)
LEMMA HandshakeWaitsKeeps ==
    ASSUME WriteInv, HandshakeWaits
    PROVE  WriteInv'
<1>1. TypeOK'
  BY WriteAssumption DEF WriteInv, TypeOK, BufferInv, CallInv, StreamInv,
         Unwritten, Records, Pending, Alerts, HandshakeWaits, Handshaking,
         HandshakeFails
<1>2. BufferInv'
  BY WriteAssumption DEF WriteInv, TypeOK, BufferInv, CallInv, Records,
         Pending, Alerts, HandshakeWaits, Handshaking, HandshakeFails
<1>3. RoleInv'
  BY WriteAssumption DEF WriteInv, TypeOK, BufferInv, RoleInv, CallInv, Sent,
         Client, Alerts, HandshakeWaits, Handshaking, HandshakeFails
<1>4. CloseInv'
  BY WriteAssumption DEF WriteInv, CloseInv, CallInv, Sent, Alerts,
         HandshakeWaits, Handshaking, HandshakeFails
<1>5. CallInv'
  BY WriteAssumption DEF WriteInv, TypeOK, BufferInv, RoleInv, CallInv, Sent,
         Client, Position, Stuck, HandshakeWaits, Handshaking, HandshakeFails
<1>6. StreamInv'
  BY WriteAssumption DEF WriteInv, TypeOK, BufferInv, CallInv, StreamInv,
         Position, Stuck, Unwritten, Pending, Records, HandshakeWaits,
         Handshaking, HandshakeFails
<1> QED BY <1>1, <1>2, <1>3, <1>4, <1>5, <1>6 DEF WriteInv

(* SSL_read goes on with a handshake or starts one, with an empty buffer.  *)
LEMMA ReadHandshakeKeeps ==
    ASSUME WriteInv, ReadHandshake
    PROVE  WriteInv'
<1>1. TypeOK'
  <2>1. (alert_dispatch \in BOOLEAN /\ renegotiate \in BOOLEAN)'
    BY Zenon DEF WriteInv, TypeOK, ReadHandshake, RenegotiateCheck
  <2>2. (written \subseteq Kinds)'
    BY DEF WriteInv, TypeOK, Kinds, ReadHandshake, RenegotiateCheck
  <2>3. TypeRest'
    BY WriteAssumption DEF WriteInv, TypeOK, TypeRest, BufferInv, CallInv,
           StreamInv, Position, Stuck, Unwritten, Records, Pending, Alerts,
           ReadHandshake, RenegotiateCheck
  <2> QED BY <2>1, <2>2, <2>3 DEF TypeOK, TypeRest, Kinds
<1>2. BufferInv'
  BY WriteAssumption DEF WriteInv, TypeOK, BufferInv, CallInv, Records,
         Pending, Alerts, ReadHandshake, RenegotiateCheck
<1>3. RoleInv'
  BY WriteAssumption DEF WriteInv, TypeOK, BufferInv, RoleInv, CallInv, Sent,
         Client, Alerts, ReadHandshake, RenegotiateCheck
<1>4. CloseInv'
  BY WriteAssumption DEF WriteInv, CloseInv, CallInv, Sent, Alerts,
         ReadHandshake, RenegotiateCheck
<1>5. CallInv'
  BY WriteAssumption DEF WriteInv, TypeOK, BufferInv, RoleInv, CallInv, Sent,
         Client, Position, Stuck, ReadHandshake, RenegotiateCheck
<1>6. StreamInv'
  BY WriteAssumption DEF WriteInv, TypeOK, BufferInv, CallInv, StreamInv,
         Position, Stuck, Unwritten, Pending, Records, ReadHandshake,
         RenegotiateCheck
<1> QED BY <1>1, <1>2, <1>3, <1>4, <1>5, <1>6 DEF WriteInv

(* The warning takes an empty buffer or waits.                             *)
LEMMA ReadRefusedKeeps ==
    ASSUME WriteInv, ReadRefused
    PROVE  WriteInv'
<1>1. TypeOK'
  <2>1. (alert_dispatch \in BOOLEAN /\ renegotiate \in BOOLEAN)'
    BY Zenon DEF WriteInv, TypeOK, ReadRefused, Reading, ssl3_send_alert,
           NewRecord, Account
  <2>2. (written \subseteq Kinds)'
    <3>1. UNCHANGED written \/ (Account /\ (left' = 0 => rec'.type \in Kinds))
      BY WriteAssumption DEF WriteInv, TypeOK, BufferInv, CallInv, Kinds,
             Records, Pending, Alerts, ReadRefused, Reading, ssl3_send_alert,
             NewRecord, Account
    <3>2. written \subseteq Kinds
      BY DEF WriteInv, TypeOK, Kinds
    <3> QED BY <3>1, <3>2, AccountKinds
  <2>3. TypeRest'
    BY WriteAssumption DEF WriteInv, TypeOK, TypeRest, BufferInv, CallInv,
           StreamInv, Position, Stuck, Unwritten, Records, Pending, Alerts,
           ReadRefused, Reading, ssl3_send_alert, NewRecord, Account
  <2> QED BY <2>1, <2>2, <2>3 DEF TypeOK, TypeRest, Kinds
<1>2. BufferInv'
  BY WriteAssumption DEF WriteInv, TypeOK, BufferInv, CallInv, Records,
         Pending, Alerts, ReadRefused, Reading, ssl3_send_alert, NewRecord,
         Account
<1>3. RoleInv'
  BY WriteAssumption DEF WriteInv, TypeOK, BufferInv, RoleInv, CallInv, Sent,
         Client, Alerts, ReadRefused, Reading, ssl3_send_alert, NewRecord,
         Account
<1>4. CloseInv'
  BY WriteAssumption DEF WriteInv, CloseInv, CallInv, Sent, Alerts,
         ReadRefused, Reading, ssl3_send_alert, NewRecord, Account
<1>5. CallInv'
  BY WriteAssumption DEF WriteInv, TypeOK, BufferInv, RoleInv, CallInv, Sent,
         Client, Position, Stuck, ReadRefused, Reading, ssl3_send_alert,
         NewRecord, Account
<1>6. StreamInv'
  BY WriteAssumption DEF WriteInv, TypeOK, BufferInv, CallInv, StreamInv,
         Position, Stuck, Unwritten, Pending, Records, ReadRefused, Reading,
         ssl3_send_alert, NewRecord, Account
<1> QED BY <1>1, <1>2, <1>3, <1>4, <1>5, <1>6 DEF WriteInv

(* The handshake of a server is stuck at once if the buffer is in use.     *)
LEMMA ReadClientHelloKeeps ==
    ASSUME WriteInv, ReadClientHello
    PROVE  WriteInv'
<1>1. TypeOK'
  BY WriteAssumption DEF WriteInv, TypeOK, BufferInv, CallInv, StreamInv,
         Unwritten, Records, Pending, Alerts, ReadClientHello, Reading
<1>2. BufferInv'
  BY WriteAssumption DEF WriteInv, TypeOK, BufferInv, CallInv, Records,
         Pending, Alerts, ReadClientHello, Reading
<1>3. RoleInv'
  BY WriteAssumption DEF WriteInv, TypeOK, BufferInv, RoleInv, CallInv, Sent,
         Client, Alerts, ReadClientHello, Reading
<1>4. CloseInv'
  BY WriteAssumption DEF WriteInv, CloseInv, CallInv, Sent, Alerts,
         ReadClientHello, Reading
<1>5. CallInv'
  BY WriteAssumption DEF WriteInv, TypeOK, BufferInv, RoleInv, CallInv, Sent,
         Client, Position, Stuck, ReadClientHello, Reading
<1>6. StreamInv'
  BY WriteAssumption DEF WriteInv, TypeOK, BufferInv, CallInv, StreamInv,
         Position, Stuck, Unwritten, Pending, Records, ReadClientHello,
         Reading
<1> QED BY <1>1, <1>2, <1>3, <1>4, <1>5, <1>6 DEF WriteInv

(* A client starts the handshake with an empty buffer or later.            *)
LEMMA ReadHelloRequestKeeps ==
    ASSUME WriteInv, ReadHelloRequest
    PROVE  WriteInv'
<1>1. TypeOK'
  <2>1. (alert_dispatch \in BOOLEAN /\ renegotiate \in BOOLEAN)'
    BY Zenon DEF WriteInv, TypeOK, ReadHelloRequest, Reading
  <2>2. (written \subseteq Kinds)'
    BY DEF WriteInv, TypeOK, Kinds, ReadHelloRequest, Reading
  <2>3. TypeRest'
    BY WriteAssumption DEF WriteInv, TypeOK, TypeRest, BufferInv, CallInv,
           StreamInv, Position, Stuck, Unwritten, Records, Pending, Alerts,
           ReadHelloRequest, Reading
  <2> QED BY <2>1, <2>2, <2>3 DEF TypeOK, TypeRest, Kinds
<1>2. BufferInv'
  BY WriteAssumption DEF WriteInv, TypeOK, BufferInv, CallInv, Records,
         Pending, Alerts, ReadHelloRequest, Reading
<1>3. RoleInv'
  BY WriteAssumption DEF WriteInv, TypeOK, BufferInv, RoleInv, CallInv, Sent,
         Client, Alerts, ReadHelloRequest, Reading
<1>4. CloseInv'
  BY WriteAssumption DEF WriteInv, CloseInv, CallInv, Sent, Alerts,
         ReadHelloRequest, Reading
<1>5. CallInv'
  BY WriteAssumption DEF WriteInv, TypeOK, BufferInv, RoleInv, CallInv, Sent,
         Client, Position, Stuck, ReadHelloRequest, Reading
<1>6. StreamInv'
  BY WriteAssumption DEF WriteInv, TypeOK, BufferInv, CallInv, StreamInv,
         Position, Stuck, Unwritten, Pending, Records, ReadHelloRequest,
         Reading
<1> QED BY <1>1, <1>2, <1>3, <1>4, <1>5, <1>6 DEF WriteInv

(* The peer's close_notify touches nothing of the writing side.            *)
LEMMA ReadCloseNotifyKeeps ==
    ASSUME WriteInv, ReadCloseNotify
    PROVE  WriteInv'
<1>1. TypeOK'
  BY WriteAssumption DEF WriteInv, TypeOK, BufferInv, CallInv, StreamInv,
         Unwritten, Records, Pending, Alerts, ReadCloseNotify, Reading
<1>2. BufferInv'
  BY WriteAssumption DEF WriteInv, TypeOK, BufferInv, CallInv, Records,
         Pending, Alerts, ReadCloseNotify, Reading
<1>3. RoleInv'
  BY WriteAssumption DEF WriteInv, TypeOK, BufferInv, RoleInv, CallInv, Sent,
         Client, Alerts, ReadCloseNotify, Reading
<1>4. CloseInv'
  BY WriteAssumption DEF WriteInv, CloseInv, CallInv, Sent, Alerts,
         ReadCloseNotify, Reading
<1>5. CallInv'
  BY WriteAssumption DEF WriteInv, TypeOK, BufferInv, RoleInv, CallInv, Sent,
         Client, Position, Stuck, ReadCloseNotify, Reading
<1>6. StreamInv'
  BY WriteAssumption DEF WriteInv, TypeOK, BufferInv, CallInv, StreamInv,
         Position, Stuck, Unwritten, Pending, Records, ReadCloseNotify,
         Reading
<1> QED BY <1>1, <1>2, <1>3, <1>4, <1>5, <1>6 DEF WriteInv

(* close_notify takes an empty buffer or waits.                            *)
LEMMA ShutdownSendKeeps ==
    ASSUME WriteInv, ShutdownSend
    PROVE  WriteInv'
<1>1. TypeOK'
  <2>1. (alert_dispatch \in BOOLEAN /\ renegotiate \in BOOLEAN)'
    BY Zenon DEF WriteInv, TypeOK, ShutdownSend, ssl3_send_alert, NewRecord,
           Account, ShutdownResult
  <2>2. (written \subseteq Kinds)'
    <3>1. UNCHANGED written \/ (Account /\ (left' = 0 => rec'.type \in Kinds))
      BY WriteAssumption DEF WriteInv, TypeOK, BufferInv, CallInv, Kinds,
             Records, Pending, Alerts, ShutdownSend, ssl3_send_alert,
             NewRecord, Account, ShutdownResult
    <3>2. written \subseteq Kinds
      BY DEF WriteInv, TypeOK, Kinds
    <3> QED BY <3>1, <3>2, AccountKinds
  <2>3. TypeRest'
    BY WriteAssumption DEF WriteInv, TypeOK, TypeRest, BufferInv, CallInv,
           StreamInv, Position, Stuck, Unwritten, Records, Pending, Alerts,
           ShutdownSend, ssl3_send_alert, NewRecord, Account, ShutdownResult
  <2> QED BY <2>1, <2>2, <2>3 DEF TypeOK, TypeRest, Kinds
<1>2. BufferInv'
  BY WriteAssumption DEF WriteInv, TypeOK, BufferInv, CallInv, Records,
         Pending, Alerts, ShutdownSend, ssl3_send_alert, NewRecord, Account,
         ShutdownResult
<1>3. RoleInv'
  BY WriteAssumption DEF WriteInv, TypeOK, BufferInv, RoleInv, CallInv, Sent,
         Client, Alerts, ShutdownSend, ssl3_send_alert, NewRecord, Account,
         ShutdownResult
<1>4. CloseInv'
  BY WriteAssumption DEF WriteInv, CloseInv, CallInv, Sent, Alerts,
         ShutdownSend, ssl3_send_alert, NewRecord, Account, ShutdownResult
<1>5. CallInv'
  BY WriteAssumption DEF WriteInv, TypeOK, BufferInv, RoleInv, CallInv, Sent,
         Client, Position, Stuck, ShutdownSend, ssl3_send_alert, NewRecord,
         Account, ShutdownResult
<1>6. StreamInv'
  BY WriteAssumption DEF WriteInv, TypeOK, BufferInv, CallInv, StreamInv,
         Position, Stuck, Unwritten, Pending, Records, ShutdownSend,
         ssl3_send_alert, NewRecord, Account, ShutdownResult
<1> QED BY <1>1, <1>2, <1>3, <1>4, <1>5, <1>6 DEF WriteInv

(* Only an alert is flushed.                                               *)
LEMMA ShutdownResendKeeps ==
    ASSUME WriteInv, ShutdownResend
    PROVE  WriteInv'
<1>1. TypeOK'
  <2>1. (alert_dispatch \in BOOLEAN /\ renegotiate \in BOOLEAN)'
    BY Zenon DEF WriteInv, TypeOK, ShutdownResend, ssl3_dispatch_alert,
           NewRecord, BadRetry, write_pending, Account, ShutdownResult, wvars
  <2>2. (written \subseteq Kinds)'
    <3>1. UNCHANGED written \/ (Account /\ (left' = 0 => rec'.type \in Kinds))
      BY WriteAssumption DEF WriteInv, TypeOK, BufferInv, CallInv, Kinds,
             Records, Pending, Alerts, ShutdownResend, ssl3_dispatch_alert,
             NewRecord, BadRetry, write_pending, Account, ShutdownResult,
             wvars
    <3>2. written \subseteq Kinds
      BY DEF WriteInv, TypeOK, Kinds
    <3> QED BY <3>1, <3>2, AccountKinds
  <2>3. TypeRest'
    BY WriteAssumption DEF WriteInv, TypeOK, TypeRest, BufferInv, CallInv,
           StreamInv, Position, Stuck, Unwritten, Records, Pending, Alerts,
           ShutdownResend, ssl3_dispatch_alert, NewRecord, BadRetry,
           write_pending, Account, ShutdownResult, wvars
  <2> QED BY <2>1, <2>2, <2>3 DEF TypeOK, TypeRest, Kinds
<1>2. BufferInv'
  BY WriteAssumption DEF WriteInv, TypeOK, BufferInv, CallInv, Records,
         Pending, Alerts, ShutdownResend, ssl3_dispatch_alert, NewRecord,
         BadRetry, write_pending, Account, ShutdownResult, wvars
<1>3. RoleInv'
  BY WriteAssumption DEF WriteInv, TypeOK, BufferInv, RoleInv, CallInv, Sent,
         Client, Alerts, ShutdownResend, ssl3_dispatch_alert, NewRecord,
         BadRetry, write_pending, Account, ShutdownResult, wvars
<1>4. CloseInv'
  BY WriteAssumption DEF WriteInv, CloseInv, CallInv, Sent, Alerts,
         ShutdownResend, ssl3_dispatch_alert, NewRecord, BadRetry,
         write_pending, Account, ShutdownResult, wvars
<1>5. CallInv'
  BY WriteAssumption DEF WriteInv, TypeOK, BufferInv, RoleInv, CallInv, Sent,
         Client, Position, Stuck, ShutdownResend, ssl3_dispatch_alert,
         NewRecord, BadRetry, write_pending, Account, ShutdownResult, wvars
<1>6. StreamInv'
  BY WriteAssumption DEF WriteInv, TypeOK, BufferInv, CallInv, StreamInv,
         Position, Stuck, Unwritten, Pending, Records, ShutdownResend,
         ssl3_dispatch_alert, NewRecord, BadRetry, write_pending, Account,
         ShutdownResult, wvars
<1> QED BY <1>1, <1>2, <1>3, <1>4, <1>5, <1>6 DEF WriteInv

(* Waiting for the peer touches nothing of the writing side.               *)
LEMMA ShutdownWaitKeeps ==
    ASSUME WriteInv, ShutdownWait
    PROVE  WriteInv'
<1>1. TypeOK'
  BY WriteAssumption DEF WriteInv, TypeOK, BufferInv, CallInv, StreamInv,
         Unwritten, Records, Pending, Alerts, ShutdownWait
<1>2. BufferInv'
  BY WriteAssumption DEF WriteInv, TypeOK, BufferInv, CallInv, Records,
         Pending, Alerts, ShutdownWait
<1>3. RoleInv'
  BY WriteAssumption DEF WriteInv, TypeOK, BufferInv, RoleInv, CallInv, Sent,
         Client, Alerts, ShutdownWait
<1>4. CloseInv'
  BY WriteAssumption DEF WriteInv, CloseInv, CallInv, Sent, Alerts,
         ShutdownWait
<1>5. CallInv'
  BY WriteAssumption DEF WriteInv, TypeOK, BufferInv, RoleInv, CallInv, Sent,
         Client, Position, Stuck, ShutdownWait
<1>6. StreamInv'
  BY WriteAssumption DEF WriteInv, TypeOK, BufferInv, CallInv, StreamInv,
         Position, Stuck, Unwritten, Pending, Records, ShutdownWait
<1> QED BY <1>1, <1>2, <1>3, <1>4, <1>5, <1>6 DEF WriteInv

-----------------------------------------------------------------------------

(* The inductive step: every action of Next keeps WriteInv. *)
LEMMA Induction == WriteInv /\ [Next]_vars => WriteInv'
<1> SUFFICES ASSUME WriteInv, [Next]_vars PROVE WriteInv'
    OBVIOUS
<1>1. ASSUME NEW len \in 1 .. StreamLength, WriteStart(len) PROVE WriteInv'
    BY <1>1, WriteStartKeeps
<1>2. CASE WritePending \/ WriteAlert \/ WriteFragment
    BY <1>2, WritePendingKeeps, WriteAlertKeeps, WriteFragmentKeeps
<1>3. CASE HandshakeWrite \/ HandshakeWaits \/ ReadHandshake
    BY <1>3, HandshakeWriteKeeps, HandshakeWaitsKeeps, ReadHandshakeKeeps
<1>4. CASE ReadRefused \/ ReadClientHello \/ ReadHelloRequest \/ ReadCloseNotify
    BY <1>4, ReadRefusedKeeps, ReadClientHelloKeeps, ReadHelloRequestKeeps,
       ReadCloseNotifyKeeps, Zenon
<1>5. CASE ShutdownSend \/ ShutdownResend \/ ShutdownWait
    BY <1>5, ShutdownSendKeeps, ShutdownResendKeeps, ShutdownWaitKeeps
<1>6. CASE UNCHANGED vars
    BY <1>6 DEF vars, WriteInv, TypeOK, BufferInv, RoleInv, CloseInv, CallInv,
       StreamInv, Sent, Client, Position, Stuck, Unwritten
<1> QED BY <1>1, <1>2, <1>3, <1>4, <1>5, <1>6 DEF Next

(* WriteInv holds from the first SSL_write of a connection on. *)
THEOREM Invariance == Spec => []WriteInv
<1>1. ASSUME Init PROVE WriteInv
  <2>1. TypeOK
    <3>1. alert_dispatch \in BOOLEAN /\ renegotiate \in BOOLEAN
      BY <1>1, Zenon DEF Init
    <3>2. TypeRest /\ written \subseteq Kinds
      BY <1>1, WriteAssumption DEF Init, TypeRest, Kinds, Records, Pending, Alerts
    <3> QED BY <3>1, <3>2 DEF TypeOK, TypeRest, Kinds
  <2>2. BufferInv /\ RoleInv /\ CloseInv
    BY <1>1 DEF Init, BufferInv, RoleInv, CloseInv, Sent, Alerts
  <2>3. CallInv /\ StreamInv
    BY <1>1, WriteAssumption DEF Init, CallInv, StreamInv, Position, Stuck, Unwritten
  <2> QED BY <2>1, <2>2, <2>3 DEF WriteInv
<1> QED BY <1>1, Induction, PTL DEF Spec

(* The variables of the writing side keep their types; above all no more   *)
(* bytes are put into records than the application handed to SSL_write.    *)
THEOREM TypeCorrect == Spec => []TypeOK
<1>1. WriteInv => TypeOK
    BY DEF WriteInv
<1> QED BY <1>1, Invariance, PTL

(* What SSL_write reports as written has left the buffer, and when a call  *)
(* has succeeded nothing beyond it was sent.                               *)
THEOREM AlwaysAckedIsWritten == Spec => []AckedIsWritten
<1>1. WriteInv => AckedIsWritten
    BY DEF WriteInv, StreamInv, AckedIsWritten
<1> QED BY <1>1, Invariance, PTL

(* A repeated SSL_write neither skips nor repeats a byte: each record that *)
(* ssl3_write_bytes makes begins after the last byte of the one before.    *)
THEOREM AlwaysStreamContinues == Spec => StreamContinues
<1>1. WriteInv /\ [Next]_vars => [WriteFragment => rec'.first = put + 1]_vars
    BY DEF WriteInv, TypeOK, CallInv, StreamInv, Position, Stuck, Unwritten,
       WriteFragment, NewRecord
<1> QED BY <1>1, Invariance, PTL DEF Spec, StreamContinues

(* do_ssl3_write makes a new record only in an empty buffer. *)
THEOREM AlwaysRecordsComplete == Spec => RecordsComplete
<1>1. ASSUME WriteInv, [Next]_vars PROVE [rec' # rec => left = 0]_vars
  <2>1. CASE WriteFragment \/ WriteAlert
    BY <1>1, <2>1 DEF WriteInv, CallInv, WriteFragment, WriteAlert
  <2>2. CASE ReadRefused \/ ShutdownSend \/ ShutdownResend
    BY <2>2 DEF ReadRefused, ShutdownSend, ShutdownResend, ssl3_send_alert,
       ssl3_dispatch_alert, write_pending, wvars
  <2>3. CASE HandshakeWrite \/ WritePending
    BY <2>3 DEF HandshakeWrite, WritePending, write_pending, wvars
  <2>4. CASE ~(WriteFragment \/ WriteAlert \/ ReadRefused \/ ShutdownSend
               \/ ShutdownResend \/ HandshakeWrite \/ WritePending)
    BY <1>1, <2>4 DEF Next, vars, WriteStart, HandshakeWaits, ReadHandshake,
       ReadClientHello, ReadHelloRequest, ReadCloseNotify, ShutdownWait
  <2> QED BY <2>1, <2>2, <2>3, <2>4
<1> QED BY <1>1, Invariance, PTL DEF Spec, RecordsComplete

(* No application data follows close_notify, because SSL_write looks at    *)
(* SSL_SENT_SHUTDOWN and SSL_shutdown sets it before the alert goes out.   *)
THEOREM AlwaysNoDataAfterClose == Spec => NoDataAfterClose
<1>1. ASSUME WriteInv, [Next]_vars
      PROVE  [rec'.type = "app" => rec' = rec \/ "close_notify" \notin written]_vars
  <2>1. CASE WriteFragment
    BY <1>1, <2>1 DEF WriteInv, CallInv, CloseInv, Sent, WriteFragment
  <2>2. CASE WriteAlert \/ ReadRefused \/ ShutdownSend \/ ShutdownResend
    BY <1>1, <2>2 DEF WriteInv, TypeOK, Alerts, WriteAlert, ReadRefused, ShutdownSend,
       ShutdownResend, ssl3_send_alert, ssl3_dispatch_alert, NewRecord, write_pending, wvars
  <2>3. CASE HandshakeWrite
    BY <1>1, <2>3 DEF WriteInv, TypeOK, Alerts, HandshakeWrite, ssl3_dispatch_alert,
       NewRecord, write_pending, wvars
  <2>4. CASE ~(WriteFragment \/ WriteAlert \/ ReadRefused \/ ShutdownSend
               \/ ShutdownResend \/ HandshakeWrite)
    BY <1>1, <2>4 DEF Next, vars, WriteStart, WritePending, write_pending, wvars,
       HandshakeWaits, ReadHandshake, ReadClientHello, ReadHelloRequest,
       ReadCloseNotify, ShutdownWait
  <2> QED BY <2>1, <2>2, <2>3, <2>4
<1> QED BY <1>1, Invariance, PTL DEF Spec, NoDataAfterClose
====
