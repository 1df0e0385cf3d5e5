----------------------------- MODULE Ssl3Write -----------------------------
(***************************************************************************)
(* The writing side of a TLS connection over a transport that may accept   *)
(* only a part of what it is given (ssl/s3_pkt.c, ssl/s3_lib.c).  There is *)
(* one buffer, wbuf, for the record that is being written; application     *)
(* data, alerts and handshake messages share it.                           *)
(*                                                                         *)
(* The application writes a stream of bytes, numbered from 1, and repeats  *)
(* SSL_write with the same arguments until it succeeds, as SSL_write.pod   *)
(* demands.  A byte is known by its number and a buffer by the number of   *)
(* its first byte.  One call is a sequence of steps, between two of which  *)
(* no other call is made.                                                  *)
(***************************************************************************)
EXTENDS Integers

CONSTANTS MaxFragment,  \* s->max_send_fragment
          Units,        \* a record reaches the transport in so many pieces
          Modes,        \* the values of s->mode the application may set
          HsMessages,   \* messages this side sends in a renegotiation
          HsLength,     \* their length
          Events,       \* what happens besides SSL_write
          StreamLength  \* bound: the bytes the application has to write

ASSUME WriteAssumption ==
    /\ MaxFragment \in Nat \ {0}
    /\ Units \in Nat \ {0}
    /\ HsMessages \in Nat \ {0}
    /\ HsLength \in Nat \ {0}
    /\ StreamLength \in Nat
    /\ Modes \subseteq SUBSET {"partial", "moving"}
    /\ Events \subseteq {"shutdown", "refused", "hello", "hello_request"}
    /\ \/ "hello_request" \notin Events          \* this side is a server
       \/ {"refused", "hello"} \cap Events = {}  \* or a client

VARIABLES mode,           \* s->mode, set before the first SSL_write
          pc,             \* where the current call is
          left,           \* wbuf.left, in pieces
          rec,            \* the record in wbuf
          wpend,          \* wpend_type, wpend_buf and wpend_tot
          wnum,           \* bytes of an unfinished SSL_write already written
          tot,            \* the local variable of ssl3_write_bytes
          alert_dispatch,
          send_alert,
          hs,             \* messages to send before SSL_in_init is over
          renegotiate,    \* s->s3->renegotiate
          shutdown,       \* s->shutdown
          wlen,           \* length of the unfinished SSL_write, 0 if none
          acked,          \* history: bytes SSL_write said are written
          put,            \* history: bytes that were put into records
          written,        \* history: the kinds of records wholly written
          shut            \* history: what SSL_shutdown returned last

wvars == <<left, rec, wpend>>
vars == <<mode, pc, left, rec, wpend, wnum, tot, alert_dispatch, send_alert, hs,
          renegotiate, shutdown, wlen, acked, put, written, shut>>

PartialWrite == "partial" \in mode  \* SSL_MODE_ENABLE_PARTIAL_WRITE
MovingBuffer == "moving" \in mode   \* SSL_MODE_ACCEPT_MOVING_WRITE_BUFFER

Alerts == {"close_notify", "no_renegotiation"}
Records == [type : {"none", "app", "handshake"} \cup Alerts, first : Nat, count : Nat]
Pending == [type : {"none", "app", "handshake", "alert"}, buf : Nat, tot : Nat]

Init ==
    /\ mode \in Modes
    /\ pc = "idle"
    /\ left = 0
    /\ rec = [type |-> "none", first |-> 0, count |-> 0]
    /\ wpend = [type |-> "none", buf |-> 0, tot |-> 0]
    /\ wnum = 0
    /\ tot = 0
    /\ alert_dispatch = FALSE
    /\ send_alert = "close_notify"
    /\ hs = 0
    /\ renegotiate = FALSE
    /\ shutdown = {}
    /\ wlen = 0
    /\ acked = 0
    /\ put = 0
    /\ written = {}
    /\ shut = 0

-----------------------------------------------------------------------------
(* One record *)

(* The test in ssl3_write_pending: SSL_R_BAD_WRITE_RETRY. *)
BadRetry(type, buf, len) ==
    \/ wpend.tot > len
    \/ wpend.buf # buf /\ ~MovingBuffer
    \/ wpend.type # type

(* The loop of ssl3_write_pending, until the transport has taken all or    *)
(* takes no more.                                                          *)
write_pending ==
    /\ left' \in 0 .. left
    /\ UNCHANGED <<rec, wpend>>

(* The end of do_ssl3_write: a record is made and goes out. *)
NewRecord(type, kind, first, count, len) ==
    /\ rec' = [type |-> kind, first |-> first, count |-> count]
    /\ wpend' = [type |-> type, buf |-> first, tot |-> len]
    /\ left' \in 0 .. Units

(* Nothing is left to write: the record reached the transport. *)
Account ==
    written' = IF left' = 0 THEN written \cup {rec'.type} ELSE written

(* Mutant: an alert takes the buffer whatever is in it. *)
DispatchOverwrites ==
    /\ NewRecord("alert", send_alert, 0, 0, 2)
    /\ alert_dispatch' = (left' # 0)
    /\ Account

(* The alert goes out unless something else is still in the buffer.  If    *)
(* that is an alert too, do_ssl3_write takes it for this one.              *)
ssl3_dispatch_alert ==
    /\ IF left = 0 THEN NewRecord("alert", send_alert, 0, 0, 2)
       ELSE IF BadRetry("alert", 0, 2) THEN UNCHANGED wvars
       ELSE write_pending
    /\ alert_dispatch' = (left' # 0)
    /\ Account

(* ssl3_send_alert; the alert waits while the buffer is in use. *)
ssl3_send_alert(desc) ==
    /\ send_alert' = desc
    /\ IF left = 0
       THEN /\ NewRecord("alert", desc, 0, 0, 2)
            /\ alert_dispatch' = (left' # 0)
            /\ Account
       ELSE /\ alert_dispatch' = TRUE
            /\ UNCHANGED <<left, rec, wpend, written>>

-----------------------------------------------------------------------------
(* SSL_write *)

(* Mutant: a handshake starts while data is still being written out. *)
RenegotiateAnyTime ==
    \/ /\ renegotiate
       /\ hs = 0
       /\ hs' = HsMessages
       /\ renegotiate' = FALSE
    \/ UNCHANGED <<hs, renegotiate>>

(* ssl3_renegotiate_check; there may be unread data in rbuf. *)
RenegotiateCheck ==
    \/ /\ renegotiate
       /\ left = 0
       /\ hs = 0
       /\ hs' = HsMessages
       /\ renegotiate' = FALSE
    \/ UNCHANGED <<hs, renegotiate>>

(* Mutant: SSL_write does not look at SSL_SENT_SHUTDOWN. *)
WriteStartAfterClose(len) ==
    /\ pc = "idle"
    /\ wlen \in {0, len}
    /\ acked + len <= StreamLength
    /\ RenegotiateCheck
    /\ wlen' = len
    /\ tot' = wnum
    /\ wnum' = 0
    /\ pc' = "start"
    /\ UNCHANGED <<mode, left, rec, wpend, alert_dispatch, send_alert, shutdown, acked,
                   put, written, shut>>

(* A new call, or the repetition of one that did not succeed. *)
WriteStart(len) ==
    /\ pc = "idle"
    /\ "sent" \notin shutdown
    /\ wlen \in {0, len}
    /\ acked + len <= StreamLength
    /\ RenegotiateCheck
    /\ wlen' = len
    /\ tot' = wnum
    /\ wnum' = 0
    /\ pc' = "start"
    /\ UNCHANGED <<mode, left, rec, wpend, alert_dispatch, send_alert, shutdown, acked,
                   put, written, shut>>

(* ssl3_write_bytes returns n bytes. *)
Returns(n) ==
    /\ pc' = "idle"
    /\ wlen' = 0
    /\ acked' = acked + n
    /\ wnum' = 0
    /\ UNCHANGED tot

(* Mutant: what was already written is forgotten. *)
FailsForgets ==
    /\ pc' = "idle"
    /\ wnum' = 0
    /\ UNCHANGED <<wlen, acked, tot>>

(* Mutant: what was already written is reported, and kept in wnum as well. *)
FailsReports ==
    /\ pc' = "idle"
    /\ wnum' = tot
    /\ wlen' = IF tot = 0 THEN wlen ELSE 0
    /\ acked' = acked + tot
    /\ UNCHANGED tot

(* ssl3_write_bytes returns what do_ssl3_write or ssl3_write_pending       *)
(* returned, 0 or less.                                                    *)
Fails ==
    /\ pc' = "idle"
    /\ wnum' = tot
    /\ UNCHANGED <<wlen, acked, tot>>

(* "first check if there is a SSL3_BUFFER still being written out" *)
WritePending ==
    /\ pc = "start"
    /\ hs = 0
    /\ IF left # 0 /\ BadRetry("app", acked + 1 + tot, wpend.tot)
       THEN Fails /\ UNCHANGED wvars
       ELSE /\ write_pending
            /\ LET now == IF left = 0 THEN tot ELSE tot + wpend.tot
               IN  IF left' # 0 THEN Fails
                   ELSE IF now = wlen THEN Returns(now)
                   ELSE pc' = "loop" /\ tot' = now /\ UNCHANGED <<wlen, acked, wnum>>
    /\ IF left # 0 THEN Account ELSE UNCHANGED written
    /\ UNCHANGED <<mode, alert_dispatch, send_alert, hs, renegotiate, shutdown, put, shut>>

(* The loop meets a waiting alert. *)
WriteAlert ==
    /\ pc = "loop"
    /\ alert_dispatch
    /\ ssl3_dispatch_alert
    /\ IF left' # 0 THEN Fails ELSE UNCHANGED <<pc, wnum, tot, wlen, acked>>
    /\ UNCHANGED <<mode, send_alert, hs, renegotiate, shutdown, put, shut>>

(* How much of the n bytes that are left goes into one record. *)
Chunk(n) == IF n > MaxFragment THEN MaxFragment ELSE n

WriteFragment ==
    /\ pc = "loop"
    /\ ~alert_dispatch
    /\ LET nw == Chunk(wlen - tot)
           first == acked + 1 + tot
       IN  /\ NewRecord("app", "app", first, nw, nw)
           /\ put' = first + nw - 1
           /\ IF left' # 0 THEN Fails
              ELSE IF tot + nw = wlen \/ PartialWrite THEN Returns(tot + nw)
              ELSE tot' = tot + nw /\ UNCHANGED <<pc, wlen, acked, wnum>>
    /\ Account
    /\ UNCHANGED <<mode, alert_dispatch, send_alert, hs, renegotiate, shutdown, shut>>

-----------------------------------------------------------------------------
(* Renegotiation.  handshake_func is called from SSL_write (pc is "start") *)
(* or from SSL_read (pc is "read").                                        *)

Handshaking == pc \in {"start", "read"} /\ hs # 0

(* SSL_write forgot wnum before it called handshake_func. *)
HandshakeFails ==
    /\ pc' = "idle"
    /\ UNCHANGED <<hs, tot>>

MessageSent ==
    /\ hs' = hs - 1
    /\ pc' = IF hs = 1 /\ pc = "read" THEN "idle" ELSE pc

(* ssl3_do_write of one message, which is one record.  ssl3_write_bytes    *)
(* uses the wnum it finds.                                                 *)
HandshakeWrite ==
    /\ Handshaking
    /\ IF HsLength < wnum
       THEN HandshakeFails /\ wnum' = 0 /\ UNCHANGED <<left, rec, wpend, alert_dispatch, written>>
       ELSE IF left # 0 /\ BadRetry("handshake", 0, wpend.tot)
       THEN HandshakeFails /\ UNCHANGED <<wnum, left, rec, wpend, alert_dispatch, written>>
       ELSE IF left = 0 /\ alert_dispatch
       THEN /\ ssl3_dispatch_alert
            /\ IF left' # 0 THEN HandshakeFails ELSE UNCHANGED <<pc, hs, tot>>
            /\ UNCHANGED wnum
       ELSE /\ IF left = 0 THEN NewRecord("handshake", "handshake", 0, 0, HsLength)
                           ELSE write_pending
            /\ IF left' # 0 THEN HandshakeFails ELSE MessageSent /\ UNCHANGED tot
            /\ Account
            /\ UNCHANGED <<wnum, alert_dispatch>>
    /\ UNCHANGED <<mode, send_alert, renegotiate, shutdown, wlen, acked, put, shut>>

(* A message of the peer is not there yet. *)
HandshakeWaits ==
    /\ Handshaking
    /\ HandshakeFails
    /\ UNCHANGED <<mode, left, rec, wpend, wnum, alert_dispatch, send_alert, renegotiate,
                   shutdown, wlen, acked, put, written, shut>>

(* SSL_read while a handshake is under way or about to start. *)
ReadHandshake ==
    /\ pc = "idle"
    /\ "received" \notin shutdown
    /\ RenegotiateCheck
    /\ hs' # 0
    /\ pc' = "read"
    /\ UNCHANGED <<mode, left, rec, wpend, wnum, tot, alert_dispatch, send_alert,
                   shutdown, wlen, acked, put, written, shut>>

-----------------------------------------------------------------------------
(* What SSL_read finds *)

Reading == pc = "idle" /\ hs = 0 /\ "received" \notin shutdown

(* The server does not renegotiate: a warning, which may come after our    *)
(* own close_notify.                                                       *)
ReadRefused ==
    /\ "refused" \in Events
    /\ Reading
    /\ ssl3_send_alert("no_renegotiation")
    /\ UNCHANGED <<mode, pc, wnum, tot, hs, renegotiate, shutdown, wlen, acked, put, shut>>

(* "Unexpected handshake message (Client Hello ...)" at a server. *)
ReadClientHello ==
    /\ "hello" \in Events
    /\ Reading
    /\ "sent" \notin shutdown
    /\ hs' = HsMessages
    /\ pc' = "read"
    /\ UNCHANGED <<mode, left, rec, wpend, wnum, tot, alert_dispatch, send_alert,
                   renegotiate, shutdown, wlen, acked, put, written, shut>>

(* "If we are a client, check for an incoming 'Hello Request'".  The       *)
(* handshake starts at once or is left to a later call.                    *)
ReadHelloRequest ==
    /\ "hello_request" \in Events
    /\ Reading
    /\ ~renegotiate
    /\ \/ left = 0 /\ hs' = HsMessages /\ pc' = "read" /\ UNCHANGED renegotiate
       \/ renegotiate' = TRUE /\ UNCHANGED <<hs, pc>>
    /\ UNCHANGED <<mode, left, rec, wpend, wnum, tot, alert_dispatch, send_alert,
                   shutdown, wlen, acked, put, written, shut>>

(* The peer's close_notify. *)
ReadCloseNotify ==
    /\ "shutdown" \in Events
    /\ Reading
    /\ shutdown' = shutdown \cup {"received"}
    /\ UNCHANGED <<mode, pc, left, rec, wpend, wnum, tot, alert_dispatch, send_alert, hs,
                   renegotiate, wlen, acked, put, written, shut>>

-----------------------------------------------------------------------------
(* SSL_shutdown *)

ShutdownResult ==
    IF shutdown' = {"sent", "received"} /\ ~alert_dispatch' THEN 1 ELSE 0

(* The first call sends close_notify. *)
ShutdownSend ==
    /\ "shutdown" \in Events
    /\ pc = "idle"
    /\ hs = 0
    /\ "sent" \notin shutdown
    /\ shutdown' = shutdown \cup {"sent"}
    /\ ssl3_send_alert("close_notify")
    /\ shut' = IF alert_dispatch' THEN -1 ELSE ShutdownResult
    /\ UNCHANGED <<mode, pc, wnum, tot, hs, renegotiate, wlen, acked, put>>

(* "resend it if not sent".  Only -1 from the transport is returned at     *)
(* once; after 0 the result is computed as usual.                          *)
ShutdownResend ==
    /\ pc = "idle"
    /\ hs = 0
    /\ "sent" \in shutdown
    /\ alert_dispatch
    /\ ssl3_dispatch_alert
    /\ UNCHANGED shutdown
    /\ shut' \in {ShutdownResult} \cup (IF left' # 0 THEN {-1} ELSE {})
    /\ UNCHANGED <<mode, pc, wnum, tot, send_alert, hs, renegotiate, wlen, acked, put>>

(* The call that waits for the peer's close_notify, or finds it there.     *)
(* Other records that ssl3_read_bytes meets first are the Read actions.    *)
ShutdownWait ==
    /\ pc = "idle"
    /\ hs = 0
    /\ "sent" \in shutdown
    /\ ~alert_dispatch
    /\ shutdown' \in {shutdown, shutdown \cup {"received"}}
    /\ shut' = IF "received" \in shutdown' THEN 1 ELSE -1
    /\ UNCHANGED <<mode, pc, left, rec, wpend, wnum, tot, alert_dispatch, send_alert, hs,
                   renegotiate, wlen, acked, put, written>>

Next ==
    \/ \E len \in 1 .. StreamLength : WriteStart(len)
    \/ WritePending \/ WriteAlert \/ WriteFragment
    \/ HandshakeWrite \/ HandshakeWaits \/ ReadHandshake
    \/ ReadRefused \/ ReadClientHello \/ ReadHelloRequest \/ ReadCloseNotify
    \/ ShutdownSend \/ ShutdownResend \/ ShutdownWait

Spec == Init /\ [][Next]_vars

(* The application repeats a call that did not succeed, a call runs to its *)
(* end, neither the transport nor the peer blocks for ever, and the peer   *)
(* does not ask for one renegotiation after another without end.           *)
FairSpec ==
    /\ Spec
    /\ SF_vars(wlen # 0 /\ WriteStart(wlen))
    /\ WF_vars(WritePending \/ WriteAlert \/ WriteFragment \/ HandshakeWrite)
    /\ SF_vars(ReadHandshake)
    /\ SF_vars(WritePending /\ left' = 0)
    /\ SF_vars(WriteAlert /\ left' = 0)
    /\ SF_vars(WriteFragment /\ left' = 0)
    /\ SF_vars(HandshakeWrite /\ left' = 0)
    /\ SF_vars(ShutdownResend)
    /\ SF_vars(ShutdownResend /\ left' = 0)
    /\ <>[][~ReadHelloRequest]_vars

-----------------------------------------------------------------------------
(* Properties *)

(* Every variable has its type; no more bytes are put into records or      *)
(* reported as written than the application handed to SSL_write.           *)
TypeOK ==
    /\ mode \in Modes
    /\ pc \in {"idle", "start", "loop", "read"}
    /\ left \in 0 .. Units
    /\ rec \in Records
    /\ wpend \in Pending
    /\ wnum \in Nat
    /\ tot \in Nat
    /\ alert_dispatch \in BOOLEAN
    /\ send_alert \in Alerts
    /\ hs \in 0 .. HsMessages
    /\ renegotiate \in BOOLEAN
    /\ shutdown \subseteq {"sent", "received"}
    /\ wlen \in 0 .. StreamLength
    /\ acked \in 0 .. StreamLength
    /\ put \in 0 .. StreamLength
    /\ written \subseteq {"app", "handshake"} \cup Alerts
    /\ shut \in {-1, 0, 1}

(* The bytes of the record that is still in the buffer. *)
Unwritten == IF left # 0 /\ rec.type = "app" THEN rec.count ELSE 0

(* What SSL_write reported as written has reached the transport, and once  *)
(* a call has succeeded nothing else has: wnum, wpend and the buffer agree *)
(* whatever alerts and handshakes were attempted between two repetitions.  *)
AckedIsWritten ==
    /\ acked <= put - Unwritten
    /\ wlen = 0 => acked = put

(* A record of application data continues the stream where the last one    *)
(* ended: no byte is skipped or sent twice by a repeated SSL_write.        *)
StreamContinues == [][WriteFragment => rec'.first = put + 1]_vars

(* A record is not replaced in wbuf before the transport has all of it.    *)
RecordsComplete == [][rec' # rec => left = 0]_vars

(* No application data follows close_notify. *)
NoDataAfterClose ==
    [][rec'.type = "app" => rec' = rec \/ "close_notify" \notin written]_vars

(* SSL_write succeeds if it is repeated. *)
WriteCompletes == wlen # 0 ~> wlen = 0

(* SSL_write.pod: "If the peer requests a re-negotiation, it will be       *)
(* performed transparently during the SSL_write() operation."              *)
RenegotiationPerformed == hs # 0 ~> hs = 0

(* SSL_shutdown.pod on the value 1: "The "close notify" alert was sent and *)
(* the peer's "close notify" alert was received."                          *)
ShutdownMeansSent == shut = 1 => "close_notify" \in written
====
