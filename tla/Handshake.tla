----------------------------- MODULE Handshake -----------------------------
(***************************************************************************)
(* The TLS handshake of one connection: ssl3_connect (src/ssl/s3_clnt.c)   *)
(* at one end, ssl3_accept (src/ssl/s3_srvr.c) at the other, and between   *)
(* them two reliable byte streams.  Full and resumed handshakes, client    *)
(* authentication, tickets, certificate status, next protocol negotiation  *)
(* and renegotiation asked for by either end.                              *)
(*                                                                         *)
(* An SSL is a record whose fields have the source's names; the states     *)
(* SSL3_ST_xx_A and SSL3_ST_xx_B, which only tell whether a message is     *)
(* half written or half read, are one state.  A handler is an operator     *)
(* from the SSL before to the SSL after.  A message is [type, body], a     *)
(* record [type, key, msg], where key is the key it was encrypted under.   *)
(* A digest is what was fed to it.                                         *)
(***************************************************************************)
EXTENDS Integers, Sequences

CONSTANTS
    NULL,
    Configs,   \* what the two applications have set up, see Init
    MaxData    \* how many records of application data an end writes

ASSUME BoundsAssumption == MaxData \in Nat

VARIABLES
    ssl,       \* the two SSLs
    cfg,       \* the member of Configs at work
    hellos,    \* ClientHellos so far: names the randoms of a handshake
    renegs     \* calls of SSL_renegotiate so far

vars == <<ssl, cfg, hellos, renegs>>

Sides == {"client", "server"}

Peer(s) == CHOOSE p \in Sides : p # s

\* A fatal alert ends the connection at both ends.
Running == \A s \in Sides : ssl[s].state # "ERR"

(***************************************************************************)
(* The digests of the handshake messages (src/ssl/t1_enc.c): they are kept *)
(* in handshake_buffer until it is known which digests are needed, then in *)
(* handshake_dgst; with `keep' (TLS1_FLAGS_KEEP_HANDSHAKE) in both.        *)
(***************************************************************************)

Fail(c, why) ==
    [c EXCEPT !.state = "ERR", !.failed = IF @ = NULL THEN why ELSE @]

To(c, st) == IF c.state = "ERR" THEN c ELSE [c EXCEPT !.state = st]

tls1_init_finished_mac(c) ==
    [c EXCEPT !.handshake_buffer = <<>>, !.handshake_dgst = NULL]

\* What a message adds to the transcript.  Finished and CertificateVerify are
\* themselves computed from it, and the renegotiation extension is compared
\* on its own: their contents add nothing.
Digested(m) ==
    CASE m.type \in {"Finished", "CertificateVerify"} -> [m EXCEPT !.body = NULL]
      [] m.type \in {"ClientHello", "ServerHello"} -> [m EXCEPT !.body.binding = NULL]
      [] OTHER -> m

tls1_finish_mac(c, m) ==
    IF c.handshake_buffer # NULL /\ ~c.keep
    THEN [c EXCEPT !.handshake_buffer = Append(@, Digested(m))]
    ELSE IF c.handshake_dgst = NULL THEN Fail(c, "no digest to feed")
    ELSE [c EXCEPT !.handshake_dgst = Append(@, Digested(m))]

tls1_digest_cached_records(c) ==
    IF c.handshake_buffer \in {NULL, <<>>} THEN Fail(c, "bad handshake length")
    ELSE [c EXCEPT !.handshake_dgst = c.handshake_buffer,
                   !.handshake_buffer = IF c.keep THEN @ ELSE NULL]

DigestIfCached(c) ==
    IF c.handshake_buffer # NULL THEN tls1_digest_cached_records(c) ELSE c

\* The hash that the Finished of side s holds, over the digest of c.
tls1_final_finish_mac(c, s) ==
    [by |-> s, master |-> c.session.master,
     transcript |-> DigestIfCached(c).handshake_dgst]

(***************************************************************************)
(* Keys.                                                                   *)
(***************************************************************************)

tls1_setup_key_block(c) ==
    IF c.key_block # NULL THEN c
    ELSE [c EXCEPT !.key_block = [master |-> c.session.master, random |-> c.random]]

\* ssl3_do_change_cipher_spec after the checks ssl3_read_bytes makes of a
\* ChangeCipherSpec record.
ChangeReadCipher(c, s) ==
    IF c.change_cipher_spec THEN Fail(c, "data between ccs and finished")
    ELSE IF c.new_cipher = NULL \/ ~c.ccs_ok THEN Fail(c, "ccs received early")
    ELSE IF c.key_block = NULL /\ c.session.master = NULL
    THEN Fail(c, "ccs received early")
    ELSE LET k == tls1_setup_key_block(
                      IF c.key_block # NULL THEN c
                      ELSE [c EXCEPT !.session.cipher = c.new_cipher])
             d == DigestIfCached(k)
         IN  [d EXCEPT !.ccs_ok = FALSE, !.change_cipher_spec = TRUE,
                       !.read_key = d.key_block,
                       !.peer_finish_md = tls1_final_finish_mac(d, Peer(s))]

(***************************************************************************)
(* Output.  During a handshake records go to the buffering BIO once it is  *)
(* pushed; it passes them on when it is full or flushed, and what it still *)
(* holds when it is freed or reset is gone.  A record that does not fit    *)
(* pushes out what was there, and may stay itself, with its last bytes at  *)
(* least ("part"), or be written through ("all").                          *)
(***************************************************************************)

Put(c, rec, spill) ==
    IF ~c.pushed \/ spill = "all"
    THEN [c EXCEPT !.out = Append(@ \o c.bbio, rec), !.bbio = <<>>]
    ELSE IF spill = "part"
    THEN [c EXCEPT !.out = @ \o c.bbio, !.bbio = <<rec>>]
    ELSE [c EXCEPT !.bbio = Append(@, rec)]

Spills(s) == IF ssl[s].pushed THEN {"no", "part", "all"} ELSE {"no"}

ssl3_do_write(c, type, body, spill) ==
    LET m == [type |-> type, body |-> body]
    IN  tls1_finish_mac(
            Put(c, [type |-> "handshake", key |-> c.write_key, msg |-> m], spill), m)

ssl3_send_change_cipher_spec(c, spill) ==
    Put(c, [type |-> "ccs", key |-> c.write_key, msg |-> NULL], spill)

ssl_free_wbio_buffer(c) == [c EXCEPT !.bbio = <<>>, !.pushed = FALSE]

BIO_flush(c) == [c EXCEPT !.out = @ \o c.bbio, !.bbio = <<>>]

\* The sessions the server may find by their id.
ssl_update_cache(c, s) ==
    IF s = "server" /\ ~c.hit /\ c.session.id # NULL THEN c.cache \cup {c.session}
                                                    ELSE c.cache

(* Mutant: the key block of the last handshake is kept. *)
FinishKeepsKeys(c, s) ==
    LET d == ssl_free_wbio_buffer(c)
    IN  IF s = "server" /\ d.renegotiate # 2 THEN To(d, "OK")
        ELSE To([d EXCEPT !.renegotiate = 0, !.new_session = FALSE,
                          !.cache = ssl_update_cache(d, s)],
                "OK")

(* Mutant: a client forgets to note that the renegotiation is over. *)
FinishPending(c, s) ==
    LET d == ssl_free_wbio_buffer([c EXCEPT !.key_block = NULL])
    IN  IF d.renegotiate # 2 THEN To(d, "OK")
        ELSE To([d EXCEPT !.renegotiate = 0, !.new_session = FALSE,
                          !.cache = ssl_update_cache(d, s)],
                "OK")

\* The state SSL_ST_OK of ssl3_connect and ssl3_accept.
Finish(c, s) ==
    LET d == ssl_free_wbio_buffer([c EXCEPT !.key_block = NULL])
    IN  IF s = "server" /\ d.renegotiate # 2 THEN To(d, "OK")
        ELSE To([d EXCEPT !.renegotiate = 0, !.new_session = FALSE,
                          !.cache = ssl_update_cache(d, s)],
                "OK")

Goto(c, s, st) == IF st = "OK" /\ c.state # "ERR" THEN Finish(c, s) ELSE To(c, st)

(***************************************************************************)
(* Input.                                                                  *)
(***************************************************************************)

In(s) == ssl[Peer(s)].out

ReadStates ==
    {"CR_SRVR_HELLO", "CR_CERT", "CR_CERT_STATUS", "CR_KEY_EXCH", "CR_CERT_REQ",
     "CR_SRVR_DONE", "CR_SESSION_TICKET", "CR_FINISHED", "SR_CLNT_HELLO",
     "SR_CERT", "SR_KEY_EXCH", "SR_CERT_VRFY", "SR_NEXT_PROTO", "SR_FINISHED"}

\* The states of a reading step that go on without a message.
Skips(c) ==
    \/ c.state = "CR_CERT" /\ c.new_cipher.anon
    \/ c.state = "SR_CERT" /\ c.cert_req = 0
    \/ c.state = "SR_CERT_VRFY" /\ ~c.session.peer

Reading(c) == c.state \in ReadStates /\ ~Skips(c)

\* Where ssl3_connect and ssl3_accept allow a ChangeCipherSpec before they read.
AllowCcs(c) ==
    IF \/ c.state = "CR_FINISHED"
       \/ c.state \in {"SR_NEXT_PROTO", "SR_FINISHED"} /\ ~c.change_cipher_spec
    THEN [c EXCEPT !.ccs_ok = TRUE] ELSE c

Decrypt(c, rec) == IF rec.key # c.read_key THEN Fail(c, "bad record mac") ELSE c

ssl3_take_mac(c, s) ==
    IF c.new_cipher = NULL THEN c
    ELSE LET d == DigestIfCached(c)
         IN  [d EXCEPT !.peer_finish_md = tls1_final_finish_mac(d, Peer(s))]

(* Mutant: the hash for Finished is the one taken at the ChangeCipherSpec. *)
GetMessageNoMac(c, s, m) == tls1_finish_mac(c, m)

ssl3_get_message(c, s, m) ==
    tls1_finish_mac(IF m.type = "Finished" THEN ssl3_take_mac(c, s) ELSE c, m)

Expect(c, m, type) ==
    IF m.type = type THEN c ELSE Fail(c, "unexpected message")

Reuse(c, m) == [c EXCEPT !.reuse_message = m]

HelloRequested(s) ==
    s = "client" /\ Head(In(s)).msg.type = "HelloRequest"

\* A reading step in state st, whose handler is H.
Get(s, st, H(_, _)) ==
    /\ Running
    /\ ssl[s].state = st
    /\ Reading(ssl[s])
    /\ \/ /\ ssl[s].reuse_message # NULL
          /\ ssl' = [ssl EXCEPT ![s] = H([@ EXCEPT !.reuse_message = NULL],
                                         @.reuse_message)]
       \/ /\ ssl[s].reuse_message = NULL
          /\ In(s) # <<>>
          /\ Head(In(s)).type = "handshake"
          /\ ~HelloRequested(s)
          /\ LET rec == Head(In(s))
                 c == Decrypt(AllowCcs(ssl[s]), rec)
             IN  ssl' = [ssl EXCEPT
                           ![s] = H(ssl3_get_message(c, s, rec.msg), rec.msg),
                           ![Peer(s)].out = Tail(@)]
    /\ UNCHANGED <<cfg, hellos, renegs>>

\* A step without a message, from state st.
Step(s, st, H(_)) ==
    /\ Running
    /\ ssl[s].state = st
    /\ ssl' = [ssl EXCEPT ![s] = H(@)]
    /\ UNCHANGED <<cfg, hellos, renegs>>

ssl3_get_finished(c, s, m) ==
    LET d == Expect(c, m, "Finished")
    IN  IF d.state = "ERR" THEN d
        ELSE IF ~d.change_cipher_spec THEN Fail(d, "got a fin before a ccs")
        ELSE IF m.body # d.peer_finish_md THEN Fail(d, "digest check failed")
        ELSE IF s = "server"
        THEN [d EXCEPT !.change_cipher_spec = FALSE, !.previous_client_finished = m.body]
        ELSE [d EXCEPT !.change_cipher_spec = FALSE, !.previous_server_finished = m.body]

ssl3_send_finished(c, s, spill) ==
    LET d == DigestIfCached(c)
        md == tls1_final_finish_mac(d, s)
        e == IF s = "client" THEN [d EXCEPT !.previous_client_finished = md]
             ELSE [d EXCEPT !.previous_server_finished = md]
    IN  ssl3_do_write([e EXCEPT !.finish_md_len = 1], "Finished", md, spill)

(***************************************************************************)
(* The client.                                                             *)
(***************************************************************************)

\* peer: whether the client's certificate is in it; tick: the session that
\* the ticket encrypts.
NewSession(id) ==
    [id |-> id, master |-> NULL, cipher |-> NULL, peer |-> FALSE, tick |-> NULL]

\* SSL_ST_CONNECT and SSL_ST_RENEGOTIATE.
StartConnect ==
    \E st \in {"CONNECT", "RENEGOTIATE"} :
        Step("client", st, LAMBDA c :
            To([tls1_init_finished_mac(ssl_free_wbio_buffer(c)) EXCEPT
                   !.renegotiate = IF st = "RENEGOTIATE" THEN 1 ELSE @,
                   !.ccs_ok = FALSE, !.change_cipher_spec = FALSE],
               "CW_CLNT_HELLO"))

\* The buffering BIO is pushed only after the hello.
SendClientHello ==
    LET c == ssl["client"]
        d == [c EXCEPT !.session = IF @ = NULL THEN NewSession(NULL) ELSE @,
                       !.random = hellos + 1]
        body == [random |-> hellos + 1,
                 offer |-> IF c.new_session THEN NULL ELSE d.session.id,
                 tick |-> IF c.new_session THEN NULL ELSE d.session.tick,
                 binding |-> c.previous_client_finished]
    IN  /\ Running
        /\ c.state = "CW_CLNT_HELLO"
        /\ hellos' = hellos + 1
        /\ ssl' = [ssl EXCEPT !["client"] =
                      To([ssl3_do_write(d, "ClientHello", body, "no")
                             EXCEPT !.pushed = TRUE],
                         "CR_SRVR_HELLO")]
        /\ UNCHANGED <<cfg, renegs>>

ssl3_get_server_hello(c, m) ==
    LET hit == m.body.id # NULL /\ m.body.id = c.session.id
        d == [c EXCEPT !.hit = hit, !.new_cipher = m.body.cipher,
                       !.session = IF hit THEN @
                                   ELSE IF @.id # NULL THEN NewSession(m.body.id)
                                   ELSE [@ EXCEPT !.id = m.body.id],
                       !.ticket_expected = @ \/ m.body.ticket,
                       !.status_expected = @ \/ m.body.status,
                       !.next_proto_neg_seen = m.body.npn /\ c.finish_md_len = 0]
    IN  IF m.type # "ServerHello" THEN Fail(c, "unexpected message")
        ELSE IF m.body.binding # <<c.previous_client_finished,
                                   c.previous_server_finished>>
        THEN Fail(c, "renegotiation mismatch")
        ELSE IF hit /\ c.session.cipher # m.body.cipher
        THEN Fail(c, "old session cipher not returned")
        ELSE IF cfg.sigalgs THEN d
        ELSE tls1_digest_cached_records(d)

GetServerHello ==
    Get("client", "CR_SRVR_HELLO", LAMBDA c, m :
        LET d == ssl3_get_server_hello(c, m)
        IN  To(d, IF ~d.hit THEN "CR_CERT"
                  ELSE IF d.ticket_expected THEN "CR_SESSION_TICKET"
                  ELSE "CR_FINISHED"))

SkipServerCertificate ==
    /\ Skips(ssl["client"])
    /\ Step("client", "CR_CERT", LAMBDA c : To(c, "CR_KEY_EXCH"))

GetServerCertificate ==
    Get("client", "CR_CERT", LAMBDA c, m :
        To(IF m.type = "ServerKeyExchange" THEN Reuse(c, m)
           ELSE Expect(c, m, "Certificate"),
           IF c.status_expected THEN "CR_CERT_STATUS" ELSE "CR_KEY_EXCH"))

GetCertStatus ==
    Get("client", "CR_CERT_STATUS", LAMBDA c, m :
        To(IF m.type # "CertificateStatus" THEN Reuse(c, m) ELSE c, "CR_KEY_EXCH"))

GetServerKeyExchange ==
    Get("client", "CR_KEY_EXCH", LAMBDA c, m :
        To(IF m.type = "ServerKeyExchange" THEN c
           ELSE IF c.new_cipher.eph THEN Fail(c, "unexpected message")
           ELSE Reuse(c, m), "CR_CERT_REQ"))

ssl3_get_certificate_request(c, m) ==
    IF m.type = "ServerHelloDone"
    THEN DigestIfCached([Reuse(c, m) EXCEPT !.cert_req = 0])
    ELSE IF m.type # "CertificateRequest" THEN Fail(c, "unexpected message")
    ELSE IF c.new_cipher.anon THEN Fail(c, "certificate requested by an anonymous server")
    ELSE [c EXCEPT !.cert_req = 1]

GetCertificateRequest ==
    Get("client", "CR_CERT_REQ", LAMBDA c, m :
        To(ssl3_get_certificate_request(c, m), "CR_SRVR_DONE"))

GetServerDone ==
    Get("client", "CR_SRVR_DONE", LAMBDA c, m :
        To(Expect(c, m, "ServerHelloDone"),
           IF c.cert_req # 0 THEN "CW_CERT" ELSE "CW_KEY_EXCH"))

SendClientCertificate ==
    \E spill \in Spills("client") :
        Step("client", "CW_CERT", LAMBDA c :
            To(ssl3_do_write([c EXCEPT !.cert_req = IF cfg.cert THEN 1 ELSE 2],
                             "Certificate", cfg.cert, spill),
               "CW_KEY_EXCH"))

\* The premaster secret, and with it the master secret, is new: it is named
\* after the handshake.
SendClientKeyExchange ==
    \E spill \in Spills("client") :
        Step("client", "CW_KEY_EXCH", LAMBDA c :
            To([ssl3_do_write(c, "ClientKeyExchange", c.random, spill)
                   EXCEPT !.session.master = c.random],
               IF c.cert_req = 1 THEN "CW_CERT_VRFY" ELSE "CW_CHANGE"))

\* With signature algorithms the signature is over the cached messages.
ssl3_send_client_verify(c, spill) ==
    LET d == DigestIfCached(c)
    IN  IF ~cfg.sigalgs
        THEN ssl3_do_write(d, "CertificateVerify", d.handshake_dgst, spill)
        ELSE ssl3_do_write(tls1_digest_cached_records(c), "CertificateVerify",
                           c.handshake_buffer, spill)

SendClientVerify ==
    \E spill \in Spills("client") :
        Step("client", "CW_CERT_VRFY", LAMBDA c :
            To(ssl3_send_client_verify(c, spill), "CW_CHANGE"))

SendClientChange ==
    \E spill \in Spills("client") :
        Step("client", "CW_CHANGE", LAMBDA c :
            LET d == tls1_setup_key_block([ssl3_send_change_cipher_spec(c, spill)
                         EXCEPT !.session.cipher = c.new_cipher])
            IN  To([d EXCEPT !.write_key = d.key_block],
                   IF c.next_proto_neg_seen THEN "CW_NEXT_PROTO" ELSE "CW_FINISHED"))

SendNextProto ==
    \E spill \in Spills("client") :
        Step("client", "CW_NEXT_PROTO", LAMBDA c :
            To(ssl3_do_write(c, "NextProto", NULL, spill), "CW_FINISHED"))

SendClientFinished ==
    \E spill \in Spills("client") :
        Step("client", "CW_FINISHED", LAMBDA c :
            To([ssl3_send_finished(c, "client", spill) EXCEPT
                   !.ccs_ok = TRUE,
                   !.next_state = IF c.hit THEN "OK"
                                  ELSE IF c.ticket_expected THEN "CR_SESSION_TICKET"
                                  ELSE "CR_FINISHED"],
               "CW_FLUSH"))

ClientFlush ==
    Step("client", "CW_FLUSH", LAMBDA c : Goto(BIO_flush(c), "client", c.next_state))

\* The session takes the ticket's hash for its id.
ssl3_get_new_session_ticket(c, m) ==
    IF m.type # "NewSessionTicket" THEN Fail(c, "unexpected message")
    ELSE [c EXCEPT !.session.tick = m.body.session, !.session.id = m.body.hash]

GetNewSessionTicket ==
    Get("client", "CR_SESSION_TICKET", LAMBDA c, m :
        To(ssl3_get_new_session_ticket(c, m), "CR_FINISHED"))

GetServerFinished ==
    Get("client", "CR_FINISHED", LAMBDA c, m :
        Goto(ssl3_get_finished(c, "client", m), "client",
             IF c.hit THEN "CW_CHANGE" ELSE "OK"))

(***************************************************************************)
(* The server.                                                             *)
(***************************************************************************)

StartAccept ==
    Step("server", "ACCEPT", LAMBDA c :
        To([tls1_init_finished_mac(ssl_free_wbio_buffer(c)) EXCEPT
               !.pushed = TRUE, !.ccs_ok = FALSE, !.change_cipher_spec = FALSE],
           "SR_CLNT_HELLO"))

StartHelloRequest ==
    Step("server", "RENEGOTIATE", LAMBDA c :
        To([c EXCEPT !.renegotiate = 1, !.ccs_ok = FALSE, !.change_cipher_spec = FALSE],
           "SW_HELLO_REQ"))

\* The HelloRequest is fed to the digest and the digest started again.
SendHelloRequest ==
    Step("server", "SW_HELLO_REQ", LAMBDA c :
        To([tls1_init_finished_mac(ssl3_do_write(c, "HelloRequest", NULL, FALSE))
               EXCEPT !.next_state = "OK"],
           "SW_FLUSH"))

\* The sessions ssl_get_prev_session can find for a hello: the one the ticket
\* holds, under the id that came with it, or else the one cached under the id.
Resumable(c, m) ==
    IF m.body.tick # NULL THEN {[m.body.tick EXCEPT !.id = m.body.offer]}
    ELSE {x \in c.cache : x.id # NULL /\ x.id = m.body.offer}

\* ch is what the server settles on; prev the session it resumes, or NULL.
ssl3_get_client_hello(c, m, ch, prev) ==
    LET ticket == \/ cfg.tickets = "always"
                  \/ cfg.tickets = "full" /\ (prev = NULL \/ m.body.tick = NULL)
        id == IF ticket THEN NULL ELSE <<"id", m.body.random>>
        d == [c EXCEPT !.hit = prev # NULL, !.random = m.body.random,
                       !.session = IF prev # NULL THEN prev ELSE NewSession(id),
                       !.new_cipher = IF prev # NULL THEN prev.cipher ELSE ch.cipher,
                       !.ticket_expected = ticket,
                       !.status_expected = ch.status /\ ~ch.cipher.anon,
                       !.next_proto_neg_seen = ch.npn /\ c.finish_md_len = 0,
                       !.renegotiate = 2]
    IN  IF m.type # "ClientHello" THEN Fail(c, "unexpected message")
        ELSE IF m.body.binding # c.previous_client_finished
        THEN Fail(c, "renegotiation mismatch")
        ELSE IF cfg.sigalgs /\ cfg.verify THEN d
        ELSE tls1_digest_cached_records(d)

GetClientHello ==
    \E ch \in cfg.choices :
        \/ Get("server", "SR_CLNT_HELLO", LAMBDA c, m :
               To(ssl3_get_client_hello(c, m, ch, NULL), "SW_SRVR_HELLO"))
        \/ /\ In("server") # <<>>
           /\ Head(In("server")).type = "handshake"
           /\ Head(In("server")).msg.type = "ClientHello"
           /\ \E prev \in Resumable(ssl["server"], Head(In("server")).msg) :
                 Get("server", "SR_CLNT_HELLO", LAMBDA c, m :
                     To(ssl3_get_client_hello(c, m, ch, prev), "SW_SRVR_HELLO"))

SendServerHello ==
    \E spill \in Spills("server") :
        Step("server", "SW_SRVR_HELLO", LAMBDA c :
            To(ssl3_do_write(c, "ServerHello",
                   [id |-> c.session.id, cipher |-> c.new_cipher,
                    ticket |-> c.ticket_expected,
                    status |-> c.status_expected,
                    npn |-> c.next_proto_neg_seen,
                    binding |-> <<c.previous_client_finished,
                                  c.previous_server_finished>>], spill),
               IF ~c.hit THEN "SW_CERT"
               ELSE IF c.ticket_expected THEN "SW_SESSION_TICKET"
               ELSE "SW_CHANGE"))

SendServerCertificate ==
    \E spill \in Spills("server") :
        Step("server", "SW_CERT", LAMBDA c :
            IF c.new_cipher.anon THEN To(c, "SW_KEY_EXCH")
            ELSE To(ssl3_do_write(c, "Certificate", NULL, spill),
                    IF c.status_expected THEN "SW_CERT_STATUS" ELSE "SW_KEY_EXCH"))

SendCertStatus ==
    \E spill \in Spills("server") :
        Step("server", "SW_CERT_STATUS", LAMBDA c :
            To(ssl3_do_write(c, "CertificateStatus", NULL, spill), "SW_KEY_EXCH"))

SendServerKeyExchange ==
    \E spill \in Spills("server") :
        Step("server", "SW_KEY_EXCH", LAMBDA c :
            To(IF c.new_cipher.eph THEN ssl3_do_write(c, "ServerKeyExchange", NULL, spill)
               ELSE c, "SW_CERT_REQ"))

WantsNoCertificate(c) ==
    \/ ~cfg.verify
    \/ c.finish_md_len # 0 /\ cfg.once
    \/ c.new_cipher.anon /\ ~cfg.require

SendCertificateRequest ==
    \E spill \in Spills("server") :
        Step("server", "SW_CERT_REQ", LAMBDA c :
            To(IF WantsNoCertificate(c) THEN DigestIfCached([c EXCEPT !.cert_req = 0])
               ELSE ssl3_do_write([c EXCEPT !.cert_req = 1], "CertificateRequest", NULL, spill),
               "SW_SRVR_DONE"))

SendServerDone ==
    \E spill \in Spills("server") :
        Step("server", "SW_SRVR_DONE", LAMBDA c :
            To([ssl3_do_write(c, "ServerHelloDone", NULL, spill) EXCEPT !.next_state = "SR_CERT"],
               "SW_FLUSH"))

ServerFlush ==
    Step("server", "SW_FLUSH", LAMBDA c : Goto(BIO_flush(c), "server", c.next_state))

SkipClientCertificate ==
    /\ Skips(ssl["server"])
    /\ Step("server", "SR_CERT", LAMBDA c : To(c, "SR_KEY_EXCH"))

ssl3_get_client_certificate(c, m) ==
    IF m.type # "Certificate" THEN Fail(c, "unexpected message")
    ELSE IF m.body THEN [c EXCEPT !.session.peer = TRUE]
    ELSE IF cfg.verify /\ cfg.require THEN Fail(c, "peer did not return a certificate")
    ELSE DigestIfCached([c EXCEPT !.session.peer = FALSE])

GetClientCertificate ==
    Get("server", "SR_CERT", LAMBDA c, m :
        To(ssl3_get_client_certificate(c, m), "SR_KEY_EXCH"))

\* What ssl3_accept does after the key exchange to have the hash that the
\* CertificateVerify signs.
PrepareVerify(c) ==
    LET d == DigestIfCached(c)
    IN  IF ~cfg.sigalgs THEN [d EXCEPT !.cert_verify_md = d.handshake_dgst]
        ELSE IF ~c.session.peer THEN c
        ELSE IF c.handshake_buffer = NULL THEN Fail(c, "internal error")
        ELSE tls1_digest_cached_records([c EXCEPT !.keep = TRUE])

GetClientKeyExchange ==
    Get("server", "SR_KEY_EXCH", LAMBDA c, m :
        To(PrepareVerify([Expect(c, m, "ClientKeyExchange") EXCEPT !.session.master = m.body]),
           "SR_CERT_VRFY"))

(* Mutant: TLS1_FLAGS_KEEP_HANDSHAKE stays set. *)
DropCachedKeep(c) == [c EXCEPT !.handshake_buffer = NULL]

\* The end of ssl3_get_cert_verify.
DropCached(c) ==
    IF c.handshake_buffer = NULL THEN c
    ELSE [c EXCEPT !.handshake_buffer = NULL, !.keep = FALSE]

AfterVerify(c) == IF c.next_proto_neg_seen THEN "SR_NEXT_PROTO" ELSE "SR_FINISHED"

SkipCertVerify ==
    /\ Skips(ssl["server"])
    /\ Step("server", "SR_CERT_VRFY", LAMBDA c : To(DropCached(c), AfterVerify(c)))

ssl3_get_cert_verify(c, m) ==
    LET signed == IF cfg.sigalgs THEN c.handshake_buffer ELSE c.cert_verify_md
    IN  IF m.type # "CertificateVerify" THEN Fail(c, "unexpected message")
        ELSE IF m.body # signed THEN Fail(c, "bad signature")
        ELSE c

GetCertVerify ==
    Get("server", "SR_CERT_VRFY", LAMBDA c, m :
        To(DropCached(ssl3_get_cert_verify(c, m)), AfterVerify(c)))

GetNextProto ==
    Get("server", "SR_NEXT_PROTO", LAMBDA c, m :
        To(IF ~c.change_cipher_spec THEN Fail(c, "got next proto before a ccs")
           ELSE Expect(c, m, "NextProto"), "SR_FINISHED"))

GetClientFinished ==
    Get("server", "SR_FINISHED", LAMBDA c, m :
        Goto(ssl3_get_finished(c, "server", m), "server",
             IF c.hit THEN "OK"
             ELSE IF c.ticket_expected THEN "SW_SESSION_TICKET"
             ELSE "SW_CHANGE"))

\* The ticket is the session as it is now; i2d_SSL_SESSION needs its cipher.
SendNewSessionTicket ==
    \E spill \in Spills("server") :
        Step("server", "SW_SESSION_TICKET", LAMBDA c :
            IF c.session.cipher = NULL THEN Fail(c, "no cipher in the ticket")
            ELSE To(ssl3_do_write(c, "NewSessionTicket",
                        [hash |-> <<"ticket", c.random>>, session |-> c.session], spill),
                    "SW_CHANGE"))

SendServerChange ==
    \E spill \in Spills("server") :
        Step("server", "SW_CHANGE", LAMBDA c :
            LET d == ssl3_send_change_cipher_spec(
                         tls1_setup_key_block([c EXCEPT !.session.cipher = c.new_cipher]), spill)
            IN  To([d EXCEPT !.write_key = d.key_block], "SW_FINISHED"))

SendServerFinished ==
    \E spill \in Spills("server") :
        Step("server", "SW_FINISHED", LAMBDA c :
            To([ssl3_send_finished(c, "server", spill) EXCEPT
                   !.next_state = IF c.hit THEN AfterVerify(c) ELSE "OK"],
               "SW_FLUSH"))

(***************************************************************************)
(* Either end: ssl3_read_bytes outside the messages of a handshake, and    *)
(* the calls of the application.                                           *)
(***************************************************************************)

\* A record at hand, while a handshake waits for one or (SSL_read) after it.
Incoming(s, type) ==
    /\ Running
    /\ ssl[s].reuse_message = NULL
    /\ In(s) # <<>>
    /\ Head(In(s)).type = type

Receive(s, c) ==
    /\ ssl' = [ssl EXCEPT ![s] = c, ![Peer(s)].out = Tail(@)]
    /\ UNCHANGED <<cfg, hellos, renegs>>

ReadChangeCipherSpec(s) ==
    /\ Reading(ssl[s]) /\ Incoming(s, "ccs")
    /\ LET c == Decrypt(AllowCcs(ssl[s]), Head(In(s)))
       IN  Receive(s, IF c.state = "ERR" THEN c ELSE ChangeReadCipher(c, s))

\* A HelloRequest during a handshake.
SkipHelloRequest ==
    /\ Reading(ssl["client"]) /\ Incoming("client", "handshake")
    /\ HelloRequested("client")
    /\ Receive("client", Decrypt(ssl["client"], Head(In("client"))))

\* ssl3_renegotiate_check, where no read-ahead and no unwritten record is left.
ssl3_renegotiate_check(c) ==
    To([c EXCEPT !.s3_renegotiate = FALSE, !.total_renegotiations = 1], "RENEGOTIATE")

\* A renegotiation the application has asked for would have come first.
ReadHelloRequest ==
    /\ ssl["client"].state = "OK" /\ ~ssl["client"].s3_renegotiate
    /\ Incoming("client", "handshake") /\ HelloRequested("client")
    /\ Receive("client",
               ssl3_renegotiate_check(Decrypt(ssl["client"], Head(In("client")))))

\* A ClientHello; ssl3_accept reads it.
ReadUnexpectedHandshake ==
    /\ Incoming("server", "handshake")
    /\ ~ssl["server"].s3_renegotiate
    /\ Step("server", "OK", LAMBDA c :
           [c EXCEPT !.state = "ACCEPT", !.renegotiate = 1, !.new_session = TRUE])

ReadData(s) ==
    /\ ssl[s].state = "OK" /\ ~ssl[s].s3_renegotiate
    /\ Incoming(s, "data")
    /\ Receive(s, Decrypt([ssl[s] EXCEPT !.in_read_app_data = 0], Head(In(s))))

\* Application data where a handshake message is due.  The handshake runs
\* inside SSL_read, which then returns the data, or (call) inside SSL_write or
\* SSL_do_handshake.  in_read_app_data stays 2 until the next SSL_read.
ReadDataInHandshake(s, call) ==
    LET c == Decrypt(ssl[s], Head(In(s)))
        allowed == /\ c.total_renegotiations # 0
                   /\ c.state \in {"CR_SRVR_HELLO", "SR_CLNT_HELLO"}
    IN  /\ Reading(ssl[s]) /\ Incoming(s, "data")
        /\ call = "SSL_read" \/ c.in_read_app_data = 0
        /\ Receive(s,
             IF c.change_cipher_spec THEN Fail(c, "data between ccs and finished")
             ELSE IF call # "SSL_read" THEN Fail(c, "data outside SSL_read")
             ELSE IF ~allowed THEN Fail(c, "unexpected record")
             ELSE [c EXCEPT !.in_read_app_data = 2])

\* An SSL_read that finds nothing.
ReadNothing(s) ==
    /\ Running
    /\ ssl[s].in_read_app_data = 2
    /\ In(s) = <<>>
    /\ ssl' = [ssl EXCEPT ![s].in_read_app_data = 0]
    /\ UNCHANGED <<cfg, hellos, renegs>>

WriteData(s) ==
    /\ Running
    /\ ssl[s].state = "OK" /\ ~ssl[s].s3_renegotiate
    /\ s \in cfg.writers /\ ssl[s].written < MaxData
    /\ ssl' = [ssl EXCEPT ![s] =
                  Put([ssl[s] EXCEPT !.written = @ + 1],
                      [type |-> "data", key |-> ssl[s].write_key, msg |-> NULL], "no")]
    /\ UNCHANGED <<cfg, hellos, renegs>>

\* SSL_renegotiate, and SSL_renegotiate_abbreviated.
SSL_renegotiate(s, new_session) ==
    /\ Running
    /\ renegs < cfg.renegs
    /\ renegs' = renegs + 1
    /\ ssl' = [ssl EXCEPT ![s].renegotiate = IF @ = 0 THEN 1 ELSE @,
                          ![s].new_session = new_session,
                          ![s].s3_renegotiate = TRUE]
    /\ UNCHANGED <<cfg, hellos>>

RenegotiateCheck(s) ==
    /\ ssl[s].s3_renegotiate
    /\ Step(s, "OK", ssl3_renegotiate_check)

(***************************************************************************)
(* The specification.                                                      *)
(***************************************************************************)

\* An SSL before its first handshake; resumed is the session that
\* SSL_set_session has given the client, cache what the server has kept.
New(st, resumed, cache) ==
    [state |-> st, next_state |-> NULL, reuse_message |-> NULL, failed |-> NULL,
     handshake_buffer |-> NULL, handshake_dgst |-> NULL, keep |-> FALSE,
     peer_finish_md |-> NULL, cert_verify_md |-> NULL, finish_md_len |-> 0,
     previous_client_finished |-> NULL, previous_server_finished |-> NULL,
     ccs_ok |-> FALSE, change_cipher_spec |-> FALSE, key_block |-> NULL,
     read_key |-> NULL, write_key |-> NULL, random |-> NULL,
     hit |-> FALSE, new_cipher |-> NULL, session |-> resumed, cache |-> cache,
     ticket_expected |-> FALSE, status_expected |-> FALSE,
     next_proto_neg_seen |-> FALSE, cert_req |-> 0,
     renegotiate |-> 0, s3_renegotiate |-> FALSE, new_session |-> FALSE,
     total_renegotiations |-> 0, in_read_app_data |-> 0, written |-> 0,
     bbio |-> <<>>, pushed |-> FALSE, out |-> <<>>]

\* The session of an earlier connection, as the server and the client have it.
Earlier(cipher) ==
    [NewSession(<<"id", 0>>) EXCEPT
        !.master = 0, !.cipher = cipher,
        !.peer = cfg.verify /\ cfg.cert /\ ~cipher.anon]

\* cfg: sigalgs, TLS 1.2; verify, require and once, the SSL_VERIFY_ flags of
\* the server; cert, the client has a certificate; tickets, when the server
\* issues tickets ("never", "full": by default, "always": with a callback that
\* renews them); choices, what the server may settle on in a handshake, each
\* [cipher, status, npn] with a cipher [anon, eph]; resume, what the client
\* resumes ("no", "id", "ticket"); renegs, the calls of SSL_renegotiate;
\* writers, the ends that write application data.
Init ==
    /\ cfg \in Configs
    /\ \E ch \in cfg.choices :
          LET e == Earlier(ch.cipher)
              kept == IF cfg.resume = "ticket"
                      THEN [e EXCEPT !.id = <<"ticket", 0>>, !.tick = [e EXCEPT !.id = NULL]]
                      ELSE e
          IN  /\ cfg.resume # "no" /\ cfg.verify /\ cfg.require => e.peer
              /\ ssl = [client |-> New("CONNECT", IF cfg.resume = "no" THEN NULL ELSE kept, {}),
                        server |-> New("ACCEPT", NULL, IF cfg.resume = "id" THEN {e} ELSE {})]
    /\ hellos = 0
    /\ renegs = 0

ClientStep ==
    \/ StartConnect \/ SendClientHello \/ GetServerHello
    \/ SkipServerCertificate \/ GetServerCertificate \/ GetCertStatus
    \/ GetServerKeyExchange \/ GetCertificateRequest \/ GetServerDone
    \/ SendClientCertificate \/ SendClientKeyExchange \/ SendClientVerify
    \/ SendClientChange \/ SendNextProto \/ SendClientFinished \/ ClientFlush
    \/ GetNewSessionTicket \/ GetServerFinished
    \/ SkipHelloRequest \/ ReadHelloRequest

ServerStep ==
    \/ StartAccept \/ StartHelloRequest \/ SendHelloRequest \/ GetClientHello
    \/ SendServerHello \/ SendServerCertificate \/ SendCertStatus
    \/ SendServerKeyExchange \/ SendCertificateRequest \/ SendServerDone
    \/ ServerFlush \/ SkipClientCertificate \/ GetClientCertificate
    \/ GetClientKeyExchange \/ SkipCertVerify \/ GetCertVerify \/ GetNextProto
    \/ GetClientFinished \/ SendNewSessionTicket \/ SendServerChange
    \/ SendServerFinished \/ ReadUnexpectedHandshake

ReadStep(s) ==
    \/ ReadChangeCipherSpec(s) \/ ReadData(s) \/ RenegotiateCheck(s)
    \/ ReadDataInHandshake(s, "SSL_read")

CallStep(s) ==
    \/ ReadDataInHandshake(s, "SSL_write") \/ ReadNothing(s) \/ WriteData(s)
    \/ \E full \in BOOLEAN : SSL_renegotiate(s, full)

Next ==
    \/ ClientStep \/ ServerStep
    \/ \E s \in Sides : ReadStep(s) \/ CallStep(s)

\* Both applications go on calling SSL_read until they have nothing to do.
Progress == ClientStep \/ ServerStep \/ \E s \in Sides : ReadStep(s)

Fairness == WF_vars(Progress)

Spec == Init /\ [][Next]_vars /\ Fairness

(***************************************************************************)
(* Properties.                                                             *)
(***************************************************************************)

States ==
    ReadStates \cup
    {"CONNECT", "ACCEPT", "RENEGOTIATE", "OK", "ERR", "CW_CLNT_HELLO", "CW_CERT",
     "CW_KEY_EXCH", "CW_CERT_VRFY", "CW_CHANGE", "CW_NEXT_PROTO", "CW_FINISHED",
     "CW_FLUSH", "SW_HELLO_REQ", "SW_SRVR_HELLO", "SW_CERT", "SW_CERT_STATUS",
     "SW_KEY_EXCH", "SW_CERT_REQ", "SW_SRVR_DONE", "SW_FLUSH",
     "SW_SESSION_TICKET", "SW_CHANGE", "SW_FINISHED"}

\* The fields have their types, and what the source says of them together: a
\* frozen handshake_buffer (TLS1_FLAGS_KEEP_HANDSHAKE) has a digest beside it,
\* and the buffering BIO holds nothing while it is not in use.
TypeOK ==
    /\ cfg \in Configs
    /\ \A s \in Sides :
          /\ ssl[s].state \in States
          /\ ssl[s].renegotiate \in 0..2
          /\ ssl[s].cert_req \in 0..2
          /\ ssl[s].keep => /\ ssl[s].handshake_buffer # NULL
                            /\ ssl[s].handshake_dgst # NULL
          /\ ~ssl[s].pushed => ssl[s].bbio = <<>>

\* Two ends of this library complete every handshake: none of the checks of
\* ssl3_connect, ssl3_accept and ssl3_read_bytes (of the message type, the
\* ChangeCipherSpec, the Finished hash, the record's key, the signature, the
\* renegotiation binding, the digests at hand) fails, but for what the server
\* insists on (SSL_VERIFY_FAIL_IF_NO_PEER_CERT) and application data that
\* meets a renegotiation outside SSL_read.  This is said of the configurations
\* of the run, which leave out a renegotiation with a server that sends tickets
\* in full handshakes only: its client may then wait for a ticket that does not
\* come (TicketAwaitedIsSent).
NoSpuriousFailure ==
    \A s \in Sides : ssl[s].failed # NULL =>
        \/ /\ ssl[s].failed = "peer did not return a certificate"
           /\ cfg.require /\ ~cfg.cert
        \/ /\ ssl[s].failed = "certificate requested by an anonymous server"
           /\ cfg.require
        \/ ssl[s].failed = "data outside SSL_read"

Quiet ==
    \A s \in Sides : ssl[s].state = "OK" /\ ssl[s].out = <<>>

\* When both ends have finished and nothing is under way, they agree on the
\* session, on whether it was resumed, on the keys of each direction and on
\* the two Finished hashes (and so on everything said), and the server holds
\* the certificate that it required.
Agreement ==
    LET c == ssl["client"]
        s == ssl["server"]
    IN  Quiet => /\ c.session.master = s.session.master
                 /\ c.session.cipher = s.session.cipher
                 /\ c.hit <=> s.hit
                 /\ c.write_key = s.read_key
                 /\ c.read_key = s.write_key
                 /\ c.write_key.master = c.session.master
                 /\ c.previous_client_finished = s.previous_client_finished
                 /\ c.previous_server_finished = s.previous_server_finished
                 /\ cfg.verify /\ cfg.require /\ ~cfg.once => s.session.peer

AtRest ==
    Quiet /\ \A s \in Sides : ssl[s].renegotiate = 0 /\ ~ssl[s].s3_renegotiate

\* Neither end waits for ever for the other, in a first handshake or in one
\* that an application asks for at whatever moment: after the last call of
\* SSL_renegotiate both come to rest in SSL_ST_OK with nothing left on the way
\* (the buffering BIO is flushed before an end waits or drops it).  Then, as
\* ssl_lib.c says of SSL_renegotiate_pending, it is "false again once a
\* handshake has finished".
ComesToRest == <>[](AtRest \/ ~Running)

\* ssl.h on tlsext_ticket_expected: "session ticket expected to be received or
\* sent".  A client that waits for a NewSessionTicket has a server that sends
\* one.
TicketAwaitedIsSent ==
    ssl["client"].state = "CR_SESSION_TICKET" => ssl["server"].ticket_expected

====
