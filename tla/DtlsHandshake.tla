--------------------------- MODULE DtlsHandshake ---------------------------
(***************************************************************************)
(* The DTLS handshake (ssl/d1_clnt.c, d1_srvr.c, d1_both.c, d1_lib.c and   *)
(* the parts of d1_pkt.c that serve it): flights of messages cut into      *)
(* fragments, message reassembly and reordering, and retransmission on a   *)
(* timeout or on a repeated Finished, between a client and a server of     *)
(* this library over a network that loses, delays and reorders records.    *)
(* A record is delivered at most once: the replay window that drops the    *)
(* copies is the subject of DtlsRecord.  Every datagram holds one record.  *)
(***************************************************************************)
EXTENDS Integers, Sequences, FiniteSets, SequencesExt

CONSTANTS
    Configs,               \* the situations a run starts from
    DTLS1_TMO_ALERT_COUNT  \* retransmissions before the handshake is given up

VARIABLES
    cfg,     \* see ConfigType; never changes
    ssl,     \* the SSL object of either end
    net,     \* the records on their way to either end
    lost,    \* how many records the network has lost
    early,   \* how many timers expired while records were on their way
    asked,   \* the ends whose application has asked for a renegotiation
    used     \* the record numbers either end has used, with their epochs

vars == <<cfg, ssl, net, lost, early, asked, used>>

End == {"client", "server"}
Peer(e) == IF e = "client" THEN "server" ELSE "client"

\* What the client asks to resume, the optional messages of the server's
\* flight, whether a NewSessionTicket is sent, how a cookie is demanded, the
\* kind of cipher, in how many fragments Certificate travels, who renegotiates,
\* and the faults of the network.
ConfigType ==
    [hit : BOOLEAN, opts : SUBSET {"CERT", "STATUS", "SKE", "CERT_REQ"},
     ticket : BOOLEAN, cookie : {"no", "option", "listen"}, aead : BOOLEAN,
     certParts : Nat \ {0}, reneg : SUBSET End,
     careful : BOOLEAN, lost : Nat, early : Nat]

Reading ==
    {"CR_SRVR_HELLO", "CR_HELLO_VERIFY", "CR_CERT", "CR_CERT_STATUS",
     "CR_KEY_EXCH", "CR_CERT_REQ", "CR_SRVR_DONE", "CR_SESSION_TICKET",
     "CR_FINISHED", "SR_CLNT_HELLO", "SR_CERT", "SR_KEY_EXCH", "SR_CERT_VRFY",
     "SR_FINISHED"}

\* SSL_in_init: the states between the start of a handshake and SSL_ST_OK.
SSL_in_init(x) == x.state \in Reading

Fail(x) == [x EXCEPT !.state = "ERR"]

-----------------------------------------------------------------------------
(* Writing *)

Parts(type) == IF type = "CERT" THEN cfg.certParts ELSE 1

\* The content of a message as far as the other end looks at it: the random of
\* a ClientHello, with the cookie if there is one, and the digest of a Finished.
Body(x, type) ==
    CASE type = "CH" -> <<x.random>> \o (IF x.cookie THEN <<"cookie">> ELSE <<>>)
      [] type = "FIN" -> x.mac
      [] OTHER -> <<>>

\* The key a record is protected with: the write contexts of the epoch, but an
\* AEAD context, of which there is only the current one, comes first.
WriteKey(x, epoch) == IF cfg.aead THEN x.w_epoch ELSE epoch

\* Mutant: the numbers used in the old epoch are not written back.
DoWriteForgets(x, m, epoch) ==
    LET old == epoch = x.w_epoch - 1
        n   == IF old THEN x.last_write_sequence ELSE x.write_sequence
    IN [x EXCEPT
          !.out = @ \cup {[epoch |-> epoch, num |-> n + i - 1, part |-> i,
                           key |-> WriteKey(x, epoch), msg |-> m] : i \in 1 .. m.parts},
          !.write_sequence = IF old THEN @ ELSE n + m.parts]

\* dtls1_do_write in the write state of the given epoch, which is the current
\* one or, in a retransmission, the one before.
dtls1_do_write(x, m, epoch) ==
    LET old == epoch = x.w_epoch - 1
        n   == IF old THEN x.last_write_sequence ELSE x.write_sequence
    IN [x EXCEPT
          !.out = @ \cup {[epoch |-> epoch, num |-> n + i - 1, part |-> i,
                           key |-> WriteKey(x, epoch), msg |-> m] : i \in 1 .. m.parts},
          !.last_write_sequence = IF old THEN n + m.parts ELSE @,
          !.write_sequence = IF old THEN @ ELSE n + m.parts]

\* Mutant: ChangeCipherSpec and Finished have the same priority.
BufferMessageSamePriority(x, m) ==
    IF \E item \in x.sent_messages : item.prio = m.seq * 2
    THEN x
    ELSE [x EXCEPT !.sent_messages =
              @ \cup {[prio |-> m.seq * 2, msg |-> m, epoch |-> x.w_epoch]}]

\* dtls1_buffer_message: the queue refuses a second message of one priority.
dtls1_buffer_message(x, m) ==
    LET prio == m.seq * 2 - (IF m.type = "CCS" THEN 1 ELSE 0)
    IN IF \E item \in x.sent_messages : item.prio = prio
       THEN x
       ELSE [x EXCEPT !.sent_messages =
                 @ \cup {[prio |-> prio, msg |-> m, epoch |-> x.w_epoch]}]

\* tls1_finish_mac over one message.
tls1_finish_mac(x, m) ==
    [x EXCEPT !.mac = Append(@, IF m.type = "CH" THEN m.body[1] ELSE m.type)]

\* A handshake message is numbered, buffered for retransmission, written and
\* added to the Finished digest; only HelloVerifyRequest is not buffered, and
\* while listening the numbers stand still.
Send(x, type) ==
    LET m == [type |-> type, seq |-> x.next_handshake_write_seq,
              parts |-> Parts(type), body |-> Body(x, type)]
        y == [x EXCEPT !.next_handshake_write_seq = IF x.listen THEN @ ELSE @ + 1]
        z == IF type = "HVR" THEN y ELSE dtls1_buffer_message(y, m)
    IN tls1_finish_mac(dtls1_do_write(z, m, z.w_epoch), m)

\* ChangeCipherSpec takes the number of the message that follows it.  Then the
\* write state changes and the record numbers start again.
SendCCS(x) ==
    LET m == [type |-> "CCS", seq |-> x.next_handshake_write_seq,
              parts |-> 1, body |-> <<>>]
        y == dtls1_do_write(dtls1_buffer_message(x, m), m, x.w_epoch)
    IN [y EXCEPT !.last_write_sequence = y.write_sequence,
                 !.write_sequence = 0, !.w_epoch = @ + 1]

SendFlight(x, types) ==
    FoldLeft(LAMBDA y, t : IF t = "CCS" THEN SendCCS(y) ELSE Send(y, t), x, types)

dtls1_start_timer(x) == [x EXCEPT !.timer = TRUE]

\* Mutant: the timer goes on.
StopTimerRuns(x) == [x EXCEPT !.num_alerts = 0, !.sent_messages = {}]

\* dtls1_stop_timer forgets what was sent.
dtls1_stop_timer(x) ==
    [x EXCEPT !.timer = FALSE, !.num_alerts = 0, !.sent_messages = {}]

\* dtls1_retransmit_buffered_messages, in the order of the queue, each message
\* in the write state it was first sent in.
dtls1_retransmit_buffered_messages(x) ==
    FoldLeft(LAMBDA y, item : dtls1_do_write(y, item.msg, item.epoch), x,
             SetToSortSeq(x.sent_messages, LAMBDA a, b : a.prio < b.prio))

\* dtls1_check_timeout_num; beyond the limit the count no longer matters.
TooManyTimeouts(x) == x.num_alerts + 1 > DTLS1_TMO_ALERT_COUNT

RetransmitUnlessTooMany(x) ==
    IF TooManyTimeouts(x)
    THEN x
    ELSE dtls1_retransmit_buffered_messages([x EXCEPT !.num_alerts = @ + 1])

-----------------------------------------------------------------------------
(* The flights *)

When(c, types) == IF c THEN types ELSE <<>>

Hit(x) == cfg.hit /\ x.random = "r1"

\* The client's ClientHello; every one resets the Finished digest.
ClientHello(x) ==
    LET y == dtls1_start_timer([x EXCEPT !.mac = <<>>])
    IN [Send(y, "CH") EXCEPT !.state = "CR_SRVR_HELLO"]

\* SSL3_ST_CW_CERT_A to SSL3_ST_CW_FINISHED_B; when a session is resumed the
\* flight ends the handshake and has no timer.
ClientFlight(x) ==
    IF Hit(x)
    THEN SendFlight(x, <<"CCS", "FIN">>)
    ELSE SendFlight(dtls1_start_timer(x),
             When(x.cert_req, <<"CERT">>) \o <<"CKE">> \o When(x.cert_req, <<"CV">>)
               \o <<"CCS", "FIN">>)

\* SSL3_ST_SW_SRVR_HELLO_A to SSL3_ST_SW_SRVR_DONE_B, or to the server's
\* Finished when a session is resumed.
ServerFlight(x) ==
    SendFlight(dtls1_start_timer(x),
        <<"SH">> \o
        IF Hit(x)
        THEN When(cfg.ticket, <<"NST">>) \o <<"CCS", "FIN">>
        ELSE When("CERT" \in cfg.opts, <<"CERT">>)
             \o When({"CERT", "STATUS"} \subseteq cfg.opts, <<"STATUS">>)
             \o When("SKE" \in cfg.opts, <<"SKE">>)
             \o When("CERT_REQ" \in cfg.opts, <<"CERT_REQ">>) \o <<"DONE">>)

\* The server's last flight has no timer: a repeated Finished brings it back.
ServerFinish(x) == SendFlight(x, When(cfg.ticket, <<"NST">>) \o <<"CCS", "FIN">>)

\* Entering a state that reads Finished allows ChangeCipherSpec; a server that
\* has already had one does not allow another.
AwaitFinished(x, e) ==
    IF e = "client"
    THEN [x EXCEPT !.state = "CR_FINISHED", !.change_cipher_spec_ok = TRUE]
    ELSE [x EXCEPT !.state = "SR_FINISHED",
                   !.change_cipher_spec_ok = @ \/ ~x.change_cipher_spec]

AwaitServerFinished(x) ==
    IF cfg.ticket THEN [x EXCEPT !.state = "CR_SESSION_TICKET"]
                  ELSE AwaitFinished(x, "client")

\* SSL_ST_OK: the message numbers start again.
Finish(x) ==
    [x EXCEPT !.state = "OK", !.handshake_read_seq = 0,
              !.next_handshake_write_seq = 0, !.buffered_messages = {}]

-----------------------------------------------------------------------------
(* What the state machines do with a message *)

\* ssl3_get_finished: ChangeCipherSpec must have come, and the digest is the
\* one taken when it came.
FinishedGood(x, m) ==
    m.type = "FIN" /\ x.change_cipher_spec /\ m.body = x.peer_finish_md

\* The first end to read Finished answers with its own flight.
ClientGotFinished(x, m) ==
    LET y == dtls1_stop_timer([x EXCEPT !.change_cipher_spec = FALSE])
    IN IF ~FinishedGood(x, m) THEN Fail(x)
       ELSE Finish(IF Hit(x) THEN ClientFlight(y) ELSE y)

ServerGotFinished(x, m) ==
    LET y == dtls1_stop_timer([x EXCEPT !.change_cipher_spec = FALSE])
    IN IF ~FinishedGood(x, m) THEN Fail(x)
       ELSE Finish(IF Hit(x) THEN y ELSE ServerFinish(y))

\* dtls1_connect from a message on; an optional message that is not there
\* leaves the message for the next state (reuse_message).
RECURSIVE ClientGot(_, _)
ClientGot(x, m) ==
    LET To(st) == [x EXCEPT !.state = st]
    IN CASE x.state = "CR_SRVR_HELLO" ->
              IF m.type = "HVR"
              THEN IF x.send_cookie THEN Fail(x) ELSE ClientGot(To("CR_HELLO_VERIFY"), m)
              ELSE IF m.type # "SH" THEN Fail(x)
              ELSE IF Hit(x) THEN AwaitServerFinished(x)
              ELSE To("CR_HELLO_VERIFY")
         [] x.state = "CR_HELLO_VERIFY" ->
              LET y == dtls1_stop_timer(x)
              IN IF m.type = "HVR"
                 THEN ClientHello([y EXCEPT !.send_cookie = TRUE, !.cookie = TRUE])
                 ELSE ClientGot([y EXCEPT !.send_cookie = FALSE, !.state = "CR_CERT"], m)
         [] x.state = "CR_CERT" ->
              IF "CERT" \notin cfg.opts THEN ClientGot(To("CR_KEY_EXCH"), m)
              ELSE IF m.type # "CERT" THEN Fail(x)
              ELSE To(IF "STATUS" \in cfg.opts THEN "CR_CERT_STATUS" ELSE "CR_KEY_EXCH")
         [] x.state = "CR_CERT_STATUS" ->
              IF m.type = "STATUS" THEN To("CR_KEY_EXCH")
                                   ELSE ClientGot(To("CR_KEY_EXCH"), m)
         [] x.state = "CR_KEY_EXCH" ->
              IF m.type = "SKE" THEN To("CR_CERT_REQ") ELSE ClientGot(To("CR_CERT_REQ"), m)
         [] x.state = "CR_CERT_REQ" ->
              IF m.type = "CERT_REQ" THEN [To("CR_SRVR_DONE") EXCEPT !.cert_req = TRUE]
              ELSE IF m.type = "DONE"
              THEN ClientGot([To("CR_SRVR_DONE") EXCEPT !.cert_req = FALSE], m)
              ELSE Fail(x)
         [] x.state = "CR_SRVR_DONE" ->
              IF m.type # "DONE" THEN Fail(x)
              ELSE AwaitServerFinished(ClientFlight(dtls1_stop_timer(x)))
         [] x.state = "CR_SESSION_TICKET" ->
              IF m.type # "NST" THEN Fail(x) ELSE AwaitFinished(x, "client")
         [] x.state = "CR_FINISHED" ->
              ClientGotFinished(x, m)

\* ClientHello: the answer is HelloVerifyRequest if a cookie is missing.  A
\* listening server takes the record number of the ClientHello for its own, and
\* goes on with the message numbers that follow a HelloVerifyRequest.
ServerGotClientHello(x, m) ==
    LET y == dtls1_stop_timer(x)
        z == IF x.listen THEN [y EXCEPT !.write_sequence = x.read_sequence] ELSE y
        u == IF x.listen THEN [z EXCEPT !.listen = FALSE, !.handshake_read_seq = 2,
                                        !.next_handshake_write_seq = 1]
                         ELSE z
        v == ServerFlight([u EXCEPT !.random = m.body[1]])
    IN IF m.type # "CH" THEN Fail(x)
       ELSE IF cfg.cookie # "no" /\ Len(m.body) = 1
       THEN [Send(z, "HVR") EXCEPT !.mac = <<>>]
       ELSE IF Hit(v) THEN AwaitFinished(v, "server")
       ELSE [v EXCEPT !.state = IF "CERT_REQ" \in cfg.opts THEN "SR_CERT"
                                                           ELSE "SR_KEY_EXCH"]

\* dtls1_accept from a message on.
ServerGot(x, m) ==
    LET To(st) == [x EXCEPT !.state = st]
    IN CASE x.state = "SR_CLNT_HELLO" ->
              ServerGotClientHello(x, m)
         [] x.state = "SR_CERT" ->
              IF m.type # "CERT" THEN Fail(x) ELSE To("SR_KEY_EXCH")
         [] x.state = "SR_KEY_EXCH" ->
              IF m.type # "CKE" THEN Fail(x)
              ELSE IF "CERT_REQ" \in cfg.opts THEN To("SR_CERT_VRFY")
              ELSE AwaitFinished(x, "server")
         [] x.state = "SR_CERT_VRFY" ->
              IF m.type # "CV" THEN Fail(x) ELSE AwaitFinished(x, "server")
         [] x.state = "SR_FINISHED" ->
              ServerGotFinished(x, m)

\* dtls1_get_message: a whole message enters the digest and the numbering, and
\* the state machine goes on with it.
dtls1_get_message(x, m, e) ==
    LET y == tls1_finish_mac([x EXCEPT !.handshake_read_seq =
                                 IF x.listen THEN @ ELSE @ + 1], m)
    IN IF e = "client" THEN ClientGot(y, m) ELSE ServerGot(y, m)

-----------------------------------------------------------------------------
(* Reading *)

Item(m) == [seq |-> m.seq, msg |-> m, got |-> {}]

Complete(item) == item.got = 1 .. item.msg.parts

\* dtls1_reassemble_fragment, and for a message in one piece the insertion at
\* the end of dtls1_process_out_of_seq_message.
Reassemble(x, m, part) ==
    LET old  == {i \in x.buffered_messages : i.seq = m.seq}
        item == IF old = {} THEN Item(m) ELSE CHOOSE i \in old : TRUE
    IN [x EXCEPT !.buffered_messages =
            (@ \ old) \cup {[item EXCEPT !.got = @ \cup {part}]}]

\* dtls1_process_out_of_seq_message: stale, far ahead, already there whole, or
\* a Finished before anything else are discarded.
dtls1_process_out_of_seq_message(x, m, part) ==
    IF \/ m.seq <= x.handshake_read_seq
       \/ m.seq > x.handshake_read_seq + 10
       \/ m.parts = 1 /\ \E i \in x.buffered_messages : i.seq = m.seq
       \/ x.handshake_read_seq = 0 /\ m.type = "FIN"
    THEN x
    ELSE Reassemble(x, m, part)

\* dtls1_retrieve_buffered_fragment until the message awaited is not there.
RECURSIVE Retrieve(_, _)
Retrieve(x, e) ==
    LET next == {i \in x.buffered_messages : i.seq = x.handshake_read_seq /\ Complete(i)}
    IN IF ~SSL_in_init(x) \/ next = {}
       THEN x
       ELSE LET item == CHOOSE i \in next : TRUE
                y == [x EXCEPT !.buffered_messages =
                          {i \in @ : i.seq > x.handshake_read_seq}]
            IN Retrieve(dtls1_get_message(y, item.msg, e), e)

\* Mutant: only a message of the future is out of sequence.
StaleInSequence(x, m, part, e) ==
    IF m.seq > x.handshake_read_seq /\ ~(x.listen /\ m.seq = 1)
    THEN dtls1_process_out_of_seq_message(x, m, part)
    ELSE IF m.parts > 1 THEN Retrieve(Reassemble(x, m, part), e)
    ELSE IF e = "client" /\ m.type = "HR" THEN x
    ELSE Retrieve(dtls1_get_message(x, m, e), e)

\* dtls1_get_message_fragment for the fragment of one record, and what the
\* handshake goes on to do before it needs another.
dtls1_get_message_fragment(x, m, part, e) ==
    IF m.seq # x.handshake_read_seq /\ ~(x.listen /\ m.seq = 1)
    THEN dtls1_process_out_of_seq_message(x, m, part)
    ELSE IF m.parts > 1 THEN Retrieve(Reassemble(x, m, part), e)
    ELSE IF e = "client" /\ m.type = "HR" THEN x
    ELSE Retrieve(dtls1_get_message(x, m, e), e)

\* The beginning of dtls1_connect and dtls1_accept.
StartHandshake(x, e) ==
    LET y == [x EXCEPT !.change_cipher_spec_ok = FALSE, !.change_cipher_spec = FALSE,
                       !.mac = <<>>]
    IN IF e = "client"
       THEN ClientHello([y EXCEPT !.send_cookie = FALSE, !.random = "r2"])
       ELSE [y EXCEPT !.state = "SR_CLNT_HELLO"]

\* A handshake record read while the application reads data: its header goes
\* to handshake_fragment.  HelloRequest makes the client renegotiate; a
\* repeated Finished has the last flight sent again and its header stays in
\* storage; anything else starts a handshake that reads the header there.
UnexpectedHandshake(x, m, part, e) ==
    IF e = "client" /\ m.type = "HR"
    THEN StartHandshake([x EXCEPT !.handshake_fragment = "none",
                                  !.handshake_read_seq = @ + 1], e)
    ELSE IF m.type = "FIN"
    THEN RetransmitUnlessTooMany([x EXCEPT !.handshake_fragment = m.type])
    ELSE dtls1_get_message_fragment(
             StartHandshake([x EXCEPT !.handshake_fragment = "none"], e), m, part, e)

\* dtls1_read_bytes for a record of the current epoch; only a listening server
\* looks at the number of the record read.
ReadRecord(x, r, e) ==
    CASE r.msg.type = "CCS" ->
           IF ~x.change_cipher_spec_ok THEN x
           ELSE [x EXCEPT !.change_cipher_spec_ok = FALSE, !.change_cipher_spec = TRUE,
                          !.peer_finish_md = x.mac, !.r_epoch = @ + 1,
                          !.buffered_messages = {}]
      [] x.state = "OK" -> UnexpectedHandshake(x, r.msg, r.part, e)
      [] SSL_in_init(x) ->
           dtls1_get_message_fragment(
               [x EXCEPT !.read_sequence = IF x.listen THEN r.num ELSE @], r.msg, r.part, e)
      [] OTHER -> x

\* dtls1_process_buffered_records once the epoch has changed.
dtls1_process_buffered_records(x, e) ==
    LET mine == {r \in x.unprocessed_rcds : r.epoch = x.r_epoch}
    IN FoldLeft(LAMBDA y, r : ReadRecord(y, r, e),
                [x EXCEPT !.unprocessed_rcds = @ \ mine],
                SetToSortSeq(mine, LAMBDA a, b : a.num < b.num))

\* dtls1_get_record: a record of the current epoch is read, one of the next
\* epoch is kept while a handshake goes on, any other is dropped.  A record
\* protected with other keys than those of its epoch is dropped too, except
\* that in epoch 0 its ciphertext is read as a message with a senseless header.
dtls1_get_record(x, r, e) ==
    IF r.epoch = x.r_epoch /\ r.key # r.epoch
    THEN IF r.epoch = 0 THEN Fail(x) ELSE x
    ELSE IF r.epoch = x.r_epoch
    THEN LET y == ReadRecord(x, r, e)
         IN IF y.r_epoch = x.r_epoch THEN y ELSE dtls1_process_buffered_records(y, e)
    ELSE IF r.epoch = x.r_epoch + 1 /\ r.msg.type # "CCS" /\ SSL_in_init(x) /\ ~x.listen
    THEN [x EXCEPT !.unprocessed_rcds = @ \cup {r}]
    ELSE x

-----------------------------------------------------------------------------
(* The two ends and the network *)

Numbers(records) == {<<r.epoch, r.num>> : r \in records}

\* End e becomes y, whose output goes on its way.
Become(e, y, arrived) ==
    /\ ssl' = [ssl EXCEPT ![e] = [y EXCEPT !.out = {}]]
    /\ net' = [net EXCEPT ![e] = @ \ arrived, ![Peer(e)] = @ \cup y.out]
    /\ used' = [used EXCEPT ![e] = @ \cup Numbers(y.out)]

Deliver(e, r) ==
    /\ r \in net[e]
    /\ Become(e, dtls1_get_record(ssl[e], r, e), {r})
    /\ UNCHANGED <<cfg, lost, early, asked>>

Lose(e, r) ==
    /\ lost < cfg.lost
    /\ r \in net[e]
    /\ net' = [net EXCEPT ![e] = @ \ {r}]
    /\ lost' = lost + 1
    /\ UNCHANGED <<cfg, ssl, early, asked, used>>

\* The timers of both ends start at a second and double, so a timer that
\* expires when nothing is on its way has not overtaken the other's.
Quiet(e) ==
    /\ net["client"] = {} /\ net["server"] = {}
    /\ ssl[Peer(e)].timer => ssl[e].num_alerts <= ssl[Peer(e)].num_alerts

\* dtls1_handle_timeout with the timer expired, in a call that reads.  Once
\* there were too many timeouts a call only returns an error.
dtls1_handle_timeout(e) ==
    /\ ssl[e].timer /\ SSL_in_init(ssl[e]) /\ ~TooManyTimeouts(ssl[e])
    /\ Quiet(e) \/ early < cfg.early
    /\ early' = IF Quiet(e) THEN early ELSE early + 1
    /\ Become(e, RetransmitUnlessTooMany(ssl[e]), {})
    /\ UNCHANGED <<cfg, lost, asked>>

\* A handshake call that returned to the application is made again: entering
\* SSL3_ST_CR_FINISHED_A allows ChangeCipherSpec once more.
CallAgain(e) ==
    /\ ssl[e].state \in {"CR_FINISHED", "SR_FINISHED"}
    /\ AwaitFinished(ssl[e], e) # ssl[e]
    /\ Become(e, AwaitFinished(ssl[e], e), {})
    /\ UNCHANGED <<cfg, lost, early, asked>>

\* SSL_renegotiate and the handshake call that follows it, once by either end,
\* after data from the other end has shown that it finished the first handshake.
\* A careful application does so only where no flight was sent twice and the
\* other end has not asked.  A header left in handshake_fragment is what the
\* handshake reads first: it claims more than the rest of the record holds.
Renegotiate(e) ==
    /\ e \in cfg.reneg \ asked
    /\ ssl[e].state = "OK" /\ (asked = {} => ssl[Peer(e)].state = "OK")
    /\ cfg.careful => /\ asked = {}
                      /\ \A d \in End : net[d] = {} /\ ssl[d].handshake_fragment = "none"
    /\ asked' = asked \cup {e}
    /\ LET x == [ssl[e] EXCEPT !.handshake_fragment = "none"]
           y == IF e = "client"
                THEN StartHandshake(x, e)
                ELSE [Send(dtls1_start_timer([StartHandshake(x, e) EXCEPT
                                                !.sent_messages = {}]), "HR")
                        EXCEPT !.mac = <<>>]
       IN Become(e, IF ssl[e].handshake_fragment = "none" THEN y ELSE Fail(y), {})
    /\ UNCHANGED <<cfg, lost, early>>

-----------------------------------------------------------------------------
Blank(c) ==
    [state |-> "BEFORE", r_epoch |-> 0, w_epoch |-> 0, handshake_read_seq |-> 0,
     next_handshake_write_seq |-> 0, read_sequence |-> 0, write_sequence |-> 0,
     last_write_sequence |-> 0, buffered_messages |-> {}, sent_messages |-> {},
     unprocessed_rcds |-> {}, timer |-> FALSE, num_alerts |-> 0,
     change_cipher_spec_ok |-> FALSE, change_cipher_spec |-> FALSE, mac |-> <<>>,
     peer_finish_md |-> <<>>, handshake_fragment |-> "none", send_cookie |-> FALSE,
     cookie |-> FALSE, cert_req |-> FALSE, listen |-> c.cookie = "listen",
     random |-> "r1", out |-> {}]

\* The client has sent its ClientHello and the server waits for it.
Init ==
    /\ cfg \in Configs
    /\ LET hello == ClientHello([Blank(cfg) EXCEPT !.listen = FALSE])
       IN /\ ssl = [client |-> [hello EXCEPT !.out = {}],
                    server |-> [Blank(cfg) EXCEPT !.state = "SR_CLNT_HELLO"]]
          /\ net = [client |-> {}, server |-> hello.out]
          /\ used = [client |-> Numbers(hello.out), server |-> {}]
    /\ lost = 0 /\ early = 0 /\ asked = {}

Next ==
    \E e \in End :
        \/ \E r \in net[e] : Deliver(e, r) \/ Lose(e, r)
        \/ dtls1_handle_timeout(e)
        \/ CallAgain(e)
        \/ Renegotiate(e)

\* Weak fairness of the steps that neither lose a record, nor are a premature
\* timeout, nor start a renegotiation: records that stay on their way arrive,
\* and applications go on calling, so that a timer that runs expires.  The
\* formula is WF_vars of those steps with its ENABLED written as Pending.
Pending ==
    \E e \in End :
        \/ net[e] # {}
        \/ ssl[e].timer /\ SSL_in_init(ssl[e]) /\ Quiet(e) /\ ~TooManyTimeouts(ssl[e])

Fairness == []<>~Pending \/ []<><<UNCHANGED <<lost, early, asked>>>>_vars

Spec == Init /\ [][Next]_vars /\ Fairness

-----------------------------------------------------------------------------
(* Properties *)

\* The states, counts and numbers are in their ranges; a timer runs only while
\* a handshake does.
TypeOK ==
    /\ cfg \in ConfigType
    /\ lost \in 0 .. cfg.lost /\ early \in 0 .. cfg.early /\ asked \subseteq cfg.reneg
    /\ \A e \in End :
         /\ ssl[e].state \in Reading \cup {"OK", "ERR"}
         /\ ssl[e].num_alerts \in 0 .. DTLS1_TMO_ALERT_COUNT
         /\ ssl[e].handshake_fragment \in {"none", "FIN"}
         /\ ssl[e].timer => ssl[e].state # "OK"
         /\ \A r \in net[e] : r.epoch \in 0 .. ssl[Peer(e)].w_epoch

\* Between two ends of this library no check of the handshake ever fails,
\* whatever the network loses, delays and reorders: no message comes where
\* another one is awaited (dtls1_get_message), Finished comes after
\* ChangeCipherSpec and has the digest taken then (ssl3_get_finished), and no
\* header is left in storage (have_handshake_fragment).
NoSpuriousFailure == \A e \in End : ssl[e].state # "ERR"

\* No end uses a record number twice in an epoch, although a retransmission
\* goes back to the epoch before (dtls1_retransmit_message) and a listening
\* server takes its numbers from the client (dtls1_accept): a receiver's replay
\* window would drop the second record.  The net is a set: a record that is the
\* same in all its fields as one still under way counts as its duplicate.
NumbersFresh ==
    [][\A e \in End :
         LET new == net'[Peer(e)] \ net[Peer(e)]
         IN /\ Numbers(new) \cap used[e] = {}
            /\ Cardinality(Numbers(new)) = Cardinality(new)]_vars

\* Both ends finish their handshakes, the renegotiation included, before they
\* run out of timeouts, although the last flight of a handshake has no timer
\* and depends on the other end repeating its own (dtls1_read_bytes).
Completes == <>[](\A e \in End : ssl[e].state = "OK")

\* A record is protected in the write state of the epoch it names:
\* dtls1_retransmit_message says it restores the "state in which the message
\* was originally sent".
RetransmittedAsSent == \A e \in End : \A r \in net[e] : r.key = r.epoch

=============================================================================
