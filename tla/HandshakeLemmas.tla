-------------------------- MODULE HandshakeLemmas --------------------------
(***************************************************************************)
(* The invariant with which HandshakeProofs shows that two ends that come  *)
(* to rest agree, whatever the applications have configured and however    *)
(* often they renegotiate, and the steps of an end that take no message.   *)
(*                                                                         *)
(* No part of the invariant says which states the two ends can be in       *)
(* together.  Each end by itself (Local) has, as far as it has come, a     *)
(* transcript that begins with the hellos it has gone by, keys of its own  *)
(* secrets, and Finished hashes of both; between the ends (Shared) the     *)
(* last Finished sent is on its way, or waits at the other end, or has     *)
(* been accepted.  A Finished hash tells the master secret, the randoms,   *)
(* the cipher and whether the handshake was a full one, so that two ends   *)
(* with the same hashes have the same of all of them.                      *)
(***************************************************************************)
EXTENDS Handshake, TLAPS

IsSequence(q) == \E S : q \in Seq(S)

\* NULL is no sequence and no message, as the model value that TLC takes for it.
NullApart ==
    /\ \A S : NULL \notin Seq(S)
    /\ \A t, b : NULL # [type |-> t, body |-> b]

Fields ==
    {"state", "next_state", "reuse_message", "failed", "handshake_buffer",
     "handshake_dgst", "keep", "peer_finish_md", "cert_verify_md", "finish_md_len",
     "previous_client_finished", "previous_server_finished", "ccs_ok",
     "change_cipher_spec", "key_block", "read_key", "write_key", "random", "hit",
     "new_cipher", "session", "cache", "ticket_expected", "status_expected",
     "next_proto_neg_seen", "cert_req", "renegotiate", "s3_renegotiate",
     "new_session", "total_renegotiations", "in_read_app_data", "written", "bbio",
     "pushed", "out"}

IsSSL(c) == DOMAIN c = Fields

SessionFields == {"id", "master", "cipher", "peer", "tick"}

IsSession(x) == DOMAIN x = SessionFields

----------------------------------------------------------------------------
(* Types.                                                                  *)

FlushStates == {"CW_FLUSH", "SW_FLUSH"}

NextStates ==
    {"OK", "CR_SESSION_TICKET", "CR_FINISHED", "SR_CERT", "SR_NEXT_PROTO", "SR_FINISHED"}

\* The fields of an end by themselves.
Base(c) ==
    /\ IsSSL(c)
    /\ c.renegotiate \in 0..2
    /\ c.cert_req \in 0..2
    /\ c.handshake_buffer # NULL => IsSequence(c.handshake_buffer)
    /\ c.handshake_dgst # NULL => IsSequence(c.handshake_dgst)
    /\ c.keep => /\ c.handshake_buffer # NULL /\ c.handshake_buffer # <<>>
                 /\ c.handshake_dgst # NULL
    /\ ~c.pushed => c.bbio = <<>>

\* And with its state.
Typed(c) ==
    /\ Base(c)
    /\ c.state \in States
    /\ c.state \in FlushStates => c.next_state \in NextStates
    /\ c.keep => c.state \in {"SR_CERT_VRFY", "ERR"}

TypeInv ==
    /\ cfg \in Configs
    /\ ssl = [s \in Sides |-> ssl[s]]
    /\ \A s \in Sides : Typed(ssl[s])
    /\ ssl["server"].reuse_message = NULL

----------------------------------------------------------------------------
(* The transcript and what it says.                                        *)

T(c) == IF c.handshake_buffer # NULL /\ ~c.keep THEN c.handshake_buffer
        ELSE c.handshake_dgst

HasDone(t) == \E n \in 1 .. Len(t) : t[n].type = "ServerHelloDone"

\* A ClientHello and a ServerHello that chose these.
Begins(t, random, cipher) ==
    /\ IsSequence(t) /\ Len(t) >= 2
    /\ t[1].body.random = random
    /\ t[2].body.cipher = cipher

\* A Finished hash that tells the master secret, the randoms and the cipher of
\* c, and whether it resumes.
Matches(c, md) ==
    /\ md.master = c.session.master
    /\ Begins(md.transcript, c.random, c.new_cipher)
    /\ HasDone(md.transcript) <=> ~c.hit

Key(c) == [master |-> c.session.master, random |-> c.random]

----------------------------------------------------------------------------
(* Where an end is in its handshake; flushing belongs to what follows.     *)

At(c) == IF c.state \in FlushStates THEN c.next_state ELSE c.state

Idle == {"OK", "RENEGOTIATE", "SW_HELLO_REQ"}
Start == {"CONNECT", "ACCEPT"}
Opening == {"CW_CLNT_HELLO", "SR_CLNT_HELLO"}
Helloed == {"CR_SRVR_HELLO", "SW_SRVR_HELLO"}
Offered ==
    {"CR_CERT", "CR_CERT_STATUS", "CR_KEY_EXCH", "CR_CERT_REQ", "CR_SRVR_DONE",
     "SW_CERT", "SW_CERT_STATUS", "SW_KEY_EXCH", "SW_CERT_REQ", "SW_SRVR_DONE"}
Answered ==
    {"CW_CERT", "CW_KEY_EXCH", "CW_CERT_VRFY", "SR_CERT", "SR_KEY_EXCH", "SR_CERT_VRFY"}
Ending ==
    {"CW_CHANGE", "CW_NEXT_PROTO", "CW_FINISHED", "CR_SESSION_TICKET", "CR_FINISHED",
     "SR_NEXT_PROTO", "SR_FINISHED", "SW_SESSION_TICKET", "SW_CHANGE", "SW_FINISHED"}
Early == Opening \cup Helloed \cup Offered \cup Answered

Writing ==
    {"CW_KEY_EXCH", "CW_CERT_VRFY", "CW_CHANGE", "CW_NEXT_PROTO", "CW_FINISHED", "CW_FLUSH",
     "SW_SRVR_HELLO", "SW_CERT", "SW_CERT_STATUS", "SW_KEY_EXCH", "SW_CERT_REQ",
     "SW_SRVR_DONE", "SW_SESSION_TICKET", "SW_CHANGE", "SW_FINISHED", "SW_FLUSH"}

\* The peer's Finished has been accepted.
Got(c) ==
    \/ At(c) \in Idle
    \/ c.hit /\ At(c) \in {"CW_CHANGE", "CW_NEXT_PROTO", "CW_FINISHED"}
    \/ ~c.hit /\ At(c) \in {"SW_SESSION_TICKET", "SW_CHANGE", "SW_FINISHED"}

\* The own Finished has been sent.
Sent(c) ==
    \/ At(c) \in Idle
    \/ ~c.hit /\ At(c) \in {"CR_SESSION_TICKET", "CR_FINISHED"}
    \/ c.hit /\ At(c) \in {"SR_NEXT_PROTO", "SR_FINISHED"}

\* The own ChangeCipherSpec has been sent.
Changed(c) == Sent(c) \/ At(c) \in {"CW_NEXT_PROTO", "CW_FINISHED", "SW_FINISHED"}

Own(s, c) == IF s = "client" THEN c.previous_client_finished ELSE c.previous_server_finished

(* What an end has, as far as it has come. *)

\* The digests, and a message that waits to be handled.
Digests(c) ==
    /\ At(c) \in Opening => c.handshake_buffer = <<>>
    /\ At(c) \in Helloed =>
           /\ IsSequence(T(c)) /\ Len(T(c)) = 1
           /\ T(c)[1].type = "ClientHello" /\ T(c)[1].body.random = c.random
    /\ At(c) \in Offered \cup Answered \cup Ending => Begins(T(c), c.random, c.new_cipher)
    /\ At(c) \in Answered \cup Ending => (HasDone(T(c)) <=> ~c.hit)

Waiting(c) ==
    c.reuse_message # NULL =>
        /\ c.state \in {"CR_CERT_STATUS", "CR_KEY_EXCH", "CR_CERT_REQ", "CR_SRVR_DONE"}
        /\ c.reuse_message.type = "ServerHelloDone" => HasDone(T(c))
        /\ c.reuse_message.type = "Finished" => c.state # "CR_SRVR_DONE"

\* The server knows by then whether it still needs the messages themselves.
Cached(c) ==
    /\ At(c) \in {"SW_SRVR_DONE", "SR_CERT"} /\ c.cert_req = 0 => c.handshake_buffer = NULL
    /\ At(c) = "SR_KEY_EXCH" /\ ~c.session.peer => c.handshake_buffer = NULL
    /\ At(c) = "SR_CERT_VRFY" /\ c.handshake_buffer # NULL => c.keep

Keys(s, c) ==
    /\ At(c) \in Offered \cup Answered => ~c.hit
    /\ At(c) \in Early => ~c.ccs_ok /\ ~c.change_cipher_spec /\ c.key_block = NULL
    /\ c.state \in Start \cup Idle => c.key_block = NULL
    /\ At(c) \in Ending => /\ c.key_block # NULL => c.key_block = Key(c)
                           /\ c.change_cipher_spec => c.read_key = Key(c) /\ c.new_cipher # NULL
    /\ Got(c) => c.read_key = Key(c) /\ Matches(c, Own(Peer(s), c))
    /\ Changed(c) => c.write_key = Key(c) /\ c.session.cipher = c.new_cipher
    /\ Sent(c) => Matches(c, Own(s, c))

Buffers(c) ==
    /\ IsSequence(c.out) /\ IsSequence(c.bbio)
    /\ c.state \notin Writing => c.bbio = <<>>
    /\ c.state \in {"OK", "CW_CLNT_HELLO"} => ~c.pushed

\* A server that insists on a certificate.
Strict(k) == k.verify /\ k.require /\ ~k.once

\* A session that can be resumed.
Resumes(k, x) == IsSession(x) /\ (Strict(k) => x.peer = TRUE)

Sessioned(k, s, c) ==
    /\ \/ c.session = NULL /\ c.state \in Start \cup Opening
       \/ /\ IsSession(c.session)
          /\ s = "client" => c.session.tick = NULL \/ Resumes(k, c.session.tick)
    /\ s = "server" =>
          /\ \A x \in c.cache : Resumes(k, x)
          /\ \/ At(c) \in Idle \cup Ending \cup {"SR_KEY_EXCH", "SR_CERT_VRFY"}
             \/ c.hit /\ At(c) \in Helloed
             => Resumes(k, c.session)
          /\ Strict(k) /\ At(c) \in {"SW_SRVR_DONE", "SR_CERT"} => c.cert_req # 0

Local(k, s, c) ==
    Digests(c) /\ Waiting(c) /\ Cached(c) /\ Keys(s, c) /\ Buffers(c) /\ Sessioned(k, s, c)

----------------------------------------------------------------------------
(* What is under way.                                                      *)

Q(c) == c.out \o c.bbio

IsMessage(k, m) ==
    /\ m = [type |-> m.type, body |-> m.body]
    /\ m.type = "ClientHello" =>
           /\ DOMAIN m.body = {"random", "offer", "tick", "binding"}
           /\ m.body.tick = NULL \/ Resumes(k, m.body.tick)
    /\ m.type = "ServerHello" =>
           DOMAIN m.body = {"id", "cipher", "ticket", "status", "npn", "binding"}
    /\ m.type = "NewSessionTicket" => Resumes(k, m.body.session)

WellFormed(k, q) == \A n \in 1 .. Len(q) : q[n].type = "handshake" => IsMessage(k, q[n].msg)

IsFinished(rec) == rec.type = "handshake" /\ rec.msg.type = "Finished"

\* The last Finished on the way has hash md, or the other end has it.
Carries(q, md, got) ==
    \/ \E n \in 1 .. Len(q) :
          /\ IsFinished(q[n]) /\ q[n].msg.body = md
          /\ \A k \in 1 .. Len(q) : k > n => ~IsFinished(q[k])
    \/ md = got /\ \A n \in 1 .. Len(q) : ~IsFinished(q[n])

Held(c) == c.reuse_message # NULL /\ c.reuse_message.type = "Finished"

\* From end s to its peer.
Shared(k, s, c, p) ==
    /\ WellFormed(k, Q(c))
    /\ Carries(Q(c), Own(s, c), Own(s, p)) \/ Held(p)

Inv == TypeInv /\ (Running => \A s \in Sides : /\ Local(cfg, s, ssl[s])
                                              /\ Shared(cfg, s, ssl[s], ssl[Peer(s)]))

----------------------------------------------------------------------------
(* The fields of an end.                                                   *)

\* d is c but for the fields in F.
Same(c, d, F) == IsSSL(d) /\ \A f \in Fields \ F : d[f] = c[f]

\* The names of the fields of an SSL.
LEMMA IsField ==
    /\ "state" \in Fields /\ "failed" \in Fields /\ "next_state" \in Fields
    /\ "reuse_message" \in Fields /\ "handshake_buffer" \in Fields
    /\ "handshake_dgst" \in Fields /\ "keep" \in Fields /\ "peer_finish_md" \in Fields
    /\ "cert_verify_md" \in Fields /\ "finish_md_len" \in Fields
    /\ "previous_client_finished" \in Fields /\ "previous_server_finished" \in Fields
    /\ "ccs_ok" \in Fields /\ "change_cipher_spec" \in Fields /\ "key_block" \in Fields
    /\ "read_key" \in Fields /\ "write_key" \in Fields /\ "random" \in Fields
    /\ "hit" \in Fields /\ "new_cipher" \in Fields /\ "session" \in Fields
    /\ "cache" \in Fields /\ "ticket_expected" \in Fields /\ "status_expected" \in Fields
    /\ "next_proto_neg_seen" \in Fields /\ "cert_req" \in Fields /\ "renegotiate" \in Fields
    /\ "s3_renegotiate" \in Fields /\ "new_session" \in Fields
    /\ "total_renegotiations" \in Fields /\ "in_read_app_data" \in Fields
    /\ "written" \in Fields /\ "bbio" \in Fields /\ "pushed" \in Fields /\ "out" \in Fields
  BY DEF Fields

----------------------------------------------------------------------------
(* Sequences of anything.                                                  *)

\* A sequence that is appended to.
LEMMA Appended ==
    ASSUME NEW q, IsSequence(q), NEW x
    PROVE  /\ IsSequence(Append(q, x))
           /\ Len(q) \in Nat /\ Len(Append(q, x)) = Len(q) + 1
           /\ \A n \in 1 .. Len(q) : Append(q, x)[n] = q[n]
           /\ Append(q, x)[Len(q) + 1] = x
           /\ Append(q, x) # <<>>
<1>1. PICK S : q \in Seq(S)
  BY Zenon DEF IsSequence
<1>2. q \in Seq(S \cup {x})
  BY <1>1
<1>3. Append(q, x) \in Seq(S \cup {x})
  BY <1>2
<1> QED
  BY <1>2, <1>3 DEF IsSequence

\* A second element.
LEMMA AppendedSecond ==
    ASSUME NEW q, IsSequence(q), Len(q) = 1, NEW x
    PROVE  /\ IsSequence(Append(q, x)) /\ Len(Append(q, x)) = 2
           /\ Append(q, x)[1] = q[1] /\ Append(q, x)[2] = x
<1>1. PICK S : q \in Seq(S)
  BY Zenon DEF IsSequence
<1>2. q \in Seq(S \cup {x})
  BY <1>1
<1>3. Append(q, x) \in Seq(S \cup {x})
  BY <1>2
<1>4. IsSequence(Append(q, x))
  BY <1>3, Zenon DEF IsSequence
<1>5. /\ Len(Append(q, x)) = Len(q) + 1 /\ Append(q, x)[Len(q) + 1] = x
      /\ \A n \in 1 .. Len(q) : Append(q, x)[n] = q[n]
  BY ONLY <1>2
<1>6. Len(q) + 1 = 2 /\ 1 \in 1 .. Len(q)
  OBVIOUS
<1> QED
  BY ONLY <1>4, <1>5, <1>6

\* Two sequences have elements of one set.
LEMMA Common ==
    ASSUME NEW q, NEW r, IsSequence(q), IsSequence(r), NEW x
    PROVE  \E S : x \in S /\ q \in Seq(S) /\ r \in Seq(S)
<1>1. PICK S : q \in Seq(S)
  BY Zenon DEF IsSequence
<1>2. PICK R : r \in Seq(R)
  BY Zenon DEF IsSequence
<1>3. q \in Seq(S \cup R \cup {x}) /\ r \in Seq(S \cup R \cup {x})
  BY <1>1, <1>2
<1> QED
  BY <1>3, Zenon

\* What goes to the buffering BIO comes last.
LEMMA Buffered ==
    ASSUME NEW q, NEW r, IsSequence(q), IsSequence(r), NEW x
    PROVE  /\ IsSequence(q \o r)
           /\ q \o Append(r, x) = Append(q \o r, x)
           /\ q \o <<>> = q
<1>1. PICK S : x \in S /\ q \in Seq(S) /\ r \in Seq(S)
  BY Common, Zenon
<1> DEFINE a == q \o Append(r, x)
           b == Append(q \o r, x)
<1>2. q \o r \in Seq(S) /\ Append(r, x) \in Seq(S)
  BY <1>1
<1>3. a \in Seq(S) /\ b \in Seq(S)
  BY <1>1, <1>2
<1>4. Len(a) = Len(b) /\ Len(b) = Len(q) + Len(r) + 1 /\ Len(q) \in Nat /\ Len(r) \in Nat
  BY <1>1, <1>2
<1>5. ASSUME NEW i \in 1 .. Len(b)
      PROVE  a[i] = b[i]
  <2>1. CASE i \in 1 .. Len(q)
    BY <1>1, <1>2, <1>4, <2>1
  <2>2. CASE i \in Len(q) + 1 .. Len(q) + Len(r)
    BY <1>1, <1>2, <1>4, <2>2
  <2>3. CASE i = Len(q) + Len(r) + 1
    BY <1>1, <1>2, <1>4, <2>3
  <2> QED
    BY <1>4, <2>1, <2>2, <2>3
<1>6. ASSUME NEW u \in Seq(S), NEW v \in Seq(S), Len(u) = Len(v),
             \A i \in 1 .. Len(v) : u[i] = v[i]
      PROVE  u = v
  BY <1>6
<1>7. q \o <<>> = q
  BY <1>1
<1> HIDE DEF a, b
<1>8. a = b
  BY <1>3, <1>4, <1>5, <1>6, Zenon
<1> QED
  BY <1>2, <1>7, <1>8, Zenon DEF IsSequence, a, b

\* What is read is what went out first.
LEMMA ReadFirst ==
    ASSUME NEW q, NEW r, IsSequence(q), IsSequence(r), q # <<>>
    PROVE  LET all == q \o r
               rest == Tail(q) \o r
           IN  /\ IsSequence(Tail(q))
               /\ Len(rest) \in Nat /\ Len(all) = Len(rest) + 1
               /\ all[1] = Head(q)
               /\ \A n \in 1 .. Len(rest) : rest[n] = all[n + 1]
<1>1. PICK S : q \in Seq(S) /\ r \in Seq(S)
  BY Common, Zenon
<1>2. Tail(q) \in Seq(S) /\ Len(Tail(q)) = Len(q) - 1 /\ Len(q) \in Nat /\ Len(q) > 0 /\ Len(r) \in Nat
  BY <1>1
<1> QED
  BY <1>1, <1>2 DEF IsSequence

\* No sequence is NULL.
LEMMA NotNull ==
    ASSUME NullApart
    PROVE  NULL # <<>> /\ \A q : IsSequence(q) => q # NULL
<1>1. \A S : NULL \notin Seq(S)
  BY Zenon DEF NullApart
<1>2. <<>> \in Seq({})
  OBVIOUS
<1>3. ASSUME NEW q, IsSequence(q) PROVE q # NULL
  <2>1. PICK S : q \in Seq(S)
    BY <1>3, Zenon DEF IsSequence
  <2>2. NULL \notin Seq(S)
    BY <1>1, Zenon
  <2> QED
    BY <2>1, <2>2, Zenon
<1>4. NULL \notin Seq({})
  BY <1>1, Zenon
<1> QED
  BY <1>2, <1>3, <1>4, Zenon

----------------------------------------------------------------------------
(* What is under way, when a record is sent or read.                       *)

----------------------------------------------------------------------------
(* The steps of an end and the whole.                                      *)

\* The two ends are each other's peers.
LEMMA Peers ==
    /\ Sides = {"client", "server"}
    /\ Peer("client") = "server" /\ Peer("server") = "client"
    /\ \A s \in Sides : Peer(s) \in Sides /\ Peer(s) # s /\ Peer(Peer(s)) = s
<1>1. \E p \in Sides : p # "client"
  BY Zenon DEF Sides
<1>2. \E p \in Sides : p # "server"
  BY Zenon DEF Sides
<1>3. Peer("client") = "server"
  BY <1>1, Zenon DEF Sides, Peer
<1>4. Peer("server") = "client"
  BY <1>2, Zenon DEF Sides, Peer
<1> QED
  BY <1>3, <1>4, Zenon DEF Sides

\* An end after a step.
Fits(s, e) ==
    /\ Typed(e)
    /\ s = "server" => e.reuse_message = NULL
    /\ e.state # "ERR" => Local(cfg, s, e)

\* What it has sent: nothing, or a record.
Output(s, c, e) ==
    \/ Q(e) = Q(c) /\ Own(s, e) = Own(s, c)
    \/ \E rec : /\ Q(e) = Append(Q(c), rec)
                /\ rec.type = "handshake" => IsMessage(cfg, rec.msg)
                /\ IF IsFinished(rec) THEN Own(s, e) = rec.msg.body
                   ELSE Own(s, e) = Own(s, c)

\* A step of one end that reads no record.
LEMMA OutputStep ==
    ASSUME Inv, Running, NEW s \in Sides, NEW e, ssl' = [ssl EXCEPT ![s] = e], cfg' = cfg,
           Fits(s, e),
           e.state # "ERR" => /\ Own(Peer(s), e) = Own(Peer(s), ssl[s])
                              /\ Held(ssl[s]) => Held(e)
                              /\ Output(s, ssl[s], e)
    PROVE  Inv'
\* A record that is no Finished is sent.
<1>SendCarries.
      ASSUME NEW q, IsSequence(q), NEW rec, NEW md, NEW got,
             Carries(q, md, got), ~IsFinished(rec)
      PROVE  Carries(Append(q, rec), md, got)
  <2> USE <1>SendCarries
  <2>1. /\ Len(q) \in Nat /\ Len(Append(q, rec)) = Len(q) + 1
        /\ \A n \in 1 .. Len(q) : Append(q, rec)[n] = q[n]
        /\ Append(q, rec)[Len(q) + 1] = rec
    BY Appended
  <2> QED
    BY <2>1 DEF Carries
\* A Finished is sent.
<1>SendFinished.
      ASSUME NEW q, IsSequence(q), NEW rec, NEW md, NEW got, IsFinished(rec), rec.msg.body = md
      PROVE  Carries(Append(q, rec), md, got)
  <2> USE <1>SendFinished
  <2>1. /\ Len(q) \in Nat /\ Len(Append(q, rec)) = Len(q) + 1
        /\ Append(q, rec)[Len(q) + 1] = rec
    BY Appended, Zenon
  <2> QED
    BY <2>1 DEF Carries
\* The records under way are as they were sent.
<1>SendWellFormed.
      ASSUME NEW k, NEW q, IsSequence(q), NEW rec, WellFormed(k, q),
             rec.type = "handshake" => IsMessage(k, rec.msg)
      PROVE  WellFormed(k, Append(q, rec))
  <2> USE <1>SendWellFormed
  <2>1. /\ Len(q) \in Nat /\ Len(Append(q, rec)) = Len(q) + 1
        /\ \A n \in 1 .. Len(q) : Append(q, rec)[n] = q[n]
        /\ Append(q, rec)[Len(q) + 1] = rec
    BY Appended
  <2> QED
    BY <2>1 DEF WellFormed
<1> DEFINE p == Peer(s)
<1>1. p \in Sides /\ p # s /\ Peer(p) = s /\ \A t \in Sides : t = s \/ t = p
  BY Peers, Zenon
<1>2. ssl = [t \in Sides |-> ssl[t]]
  BY Zenon DEF Inv, TypeInv
<1>3. ssl'[s] = e /\ ssl'[p] = ssl[p] /\ ssl' = [t \in Sides |-> ssl'[t]]
  BY <1>1, <1>2, Zenon
<1>4. TypeInv'
  BY <1>1, <1>3, Peers, Zenon DEF Inv, TypeInv, Fits
<1>5. ASSUME Running'
      PROVE  \A t \in Sides : Local(cfg, t, ssl'[t]) /\ Shared(cfg, t, ssl'[t], ssl'[Peer(t)])
  <2>1. e.state # "ERR" /\ Local(cfg, s, e)
    BY <1>3, <1>5, Zenon DEF Running, Fits
  <2>2. /\ Local(cfg, p, ssl[p]) /\ Shared(cfg, p, ssl[p], ssl[s])
        /\ Local(cfg, s, ssl[s]) /\ Shared(cfg, s, ssl[s], ssl[p])
    BY <1>1, Zenon DEF Inv
  <2>3. Shared(cfg, p, ssl[p], e)
    BY <2>1, <2>2, Zenon DEF Shared
  <2>4. Shared(cfg, s, e, ssl[p])
    <3>1. IsSequence(Q(ssl[s]))
      BY <2>2, Buffered, Zenon DEF Local, Buffers, Q
    <3>2. CASE Q(e) = Q(ssl[s]) /\ Own(s, e) = Own(s, ssl[s])
      BY <2>2, <3>2, Zenon DEF Shared
    <3>3. CASE \E rec : /\ Q(e) = Append(Q(ssl[s]), rec)
                        /\ rec.type = "handshake" => IsMessage(cfg, rec.msg)
                        /\ IF IsFinished(rec) THEN Own(s, e) = rec.msg.body
                           ELSE Own(s, e) = Own(s, ssl[s])
      <4>1. PICK rec : /\ Q(e) = Append(Q(ssl[s]), rec)
                       /\ rec.type = "handshake" => IsMessage(cfg, rec.msg)
                       /\ IF IsFinished(rec) THEN Own(s, e) = rec.msg.body
                          ELSE Own(s, e) = Own(s, ssl[s])
        BY <3>3, Zenon
      <4>2. WellFormed(cfg, Q(e))
        BY <2>2, <3>1, <4>1, <1>SendWellFormed, Zenon DEF Shared
      <4>3. Carries(Q(e), Own(s, e), Own(s, ssl[p])) \/ Held(ssl[p])
        BY <2>2, <3>1, <4>1, <1>SendFinished, <1>SendCarries, Zenon DEF Shared
      <4> QED
        BY <4>2, <4>3, Zenon DEF Shared
    <3> QED
      BY <2>1, <3>2, <3>3, Zenon DEF Output
  <2> QED
    BY <1>1, <1>3, <2>1, <2>2, <2>3, <2>4, Zenon
<1> QED
  BY <1>4, <1>5, Zenon DEF Inv

\* The other end's records are fewer by one.
LEMMA PeerRead ==
    ASSUME NEW k, NEW p, NEW c, Typed(c), c.state # "ERR" => Local(k, p, c), IsSequence(c.out), c.out # <<>>
    PROVE  LET d == [c EXCEPT !.out = Tail(c.out)]
           IN  /\ Typed(d) /\ d.state = c.state /\ d.out = Tail(c.out) /\ d.bbio = c.bbio
               /\ d.reuse_message = c.reuse_message
               /\ \A s : Own(s, d) = Own(s, c)
               /\ d.state # "ERR" => Local(k, p, d)
<1> DEFINE d == [c EXCEPT !.out = Tail(c.out)]
<1>1. Same(c, d, {"out"}) /\ d.out = Tail(c.out)
  BY IsField, Zenon DEF Same, Typed, Base, IsSSL
<1> HIDE DEF d
<1>2. /\ d.state = c.state /\ d.next_state = c.next_state /\ d.reuse_message = c.reuse_message
      /\ d.handshake_buffer = c.handshake_buffer /\ d.handshake_dgst = c.handshake_dgst
      /\ d.keep = c.keep /\ d.bbio = c.bbio /\ d.pushed = c.pushed
      /\ d.renegotiate = c.renegotiate /\ d.cert_req = c.cert_req
      /\ d.previous_client_finished = c.previous_client_finished
      /\ d.previous_server_finished = c.previous_server_finished
      /\ d.ccs_ok = c.ccs_ok /\ d.change_cipher_spec = c.change_cipher_spec
      /\ d.key_block = c.key_block /\ d.read_key = c.read_key /\ d.write_key = c.write_key
      /\ d.random = c.random /\ d.hit = c.hit /\ d.new_cipher = c.new_cipher
      /\ d.session = c.session /\ d.cache = c.cache
  BY <1>1, IsField, Zenon DEF Same
<1>3. IsSequence(Tail(c.out))
  BY ReadFirst, Zenon
<1>4. Typed(d)
  BY <1>1, <1>2, Zenon DEF Typed, Base, Same
<1>5. At(d) = At(c) /\ T(d) = T(c) /\ Key(d) = Key(c)
  BY <1>2, Zenon DEF At, T, Key
<1>6. ASSUME d.state # "ERR" PROVE Local(k, p, d)
  <2>1. Local(k, p, c)
    BY <1>2, <1>6, Zenon
  <2>2. Digests(d) /\ Waiting(d)
    BY <1>2, <1>5, <2>1, Zenon DEF Local, Digests, Waiting
  <2>3. Keys(p, d)
    BY <1>2, <1>5, <2>1, Zenon DEF Local, Keys, Got, Sent, Changed, Matches, Own
  <2>4. Buffers(d)
    BY <1>1, <1>2, <1>3, <2>1, Zenon DEF Local, Buffers
  <2>5. Sessioned(k, p, d)
    BY <1>2, <1>5, <2>1, Zenon DEF Local, Sessioned
  <2>6. Cached(d)
    BY <1>2, <1>5, <2>1, Zenon DEF Local, Cached
  <2> QED
    BY <2>2, <2>3, <2>4, <2>5, <2>6, Zenon DEF Local
<1> QED
  BY <1>1, <1>2, <1>4, <1>6, Zenon DEF Own, d

\* A step of one end that reads a record.
LEMMA InputStep ==
    ASSUME Inv, Running, NEW s \in Sides, NEW e, In(s) # <<>>, cfg' = cfg,
           ssl' = [ssl EXCEPT ![s] = e, ![Peer(s)].out = Tail(@)],
           Fits(s, e),
           e.state # "ERR" => /\ Q(e) = Q(ssl[s]) /\ Own(s, e) = Own(s, ssl[s])
                              /\ IF IsFinished(Head(In(s)))
                                 THEN Own(Peer(s), e) = Head(In(s)).msg.body \/ Held(e)
                                 ELSE Own(Peer(s), e) = Own(Peer(s), ssl[s])
                              /\ Held(ssl[s]) => Held(e)
    PROVE  Inv'
\* A record is read; if it is a Finished the reader takes its hash.
<1>ReadCarries.
      ASSUME NEW q, NEW r, IsSequence(q), IsSequence(r), q # <<>>, NEW md, NEW got, NEW now,
             Carries(q \o r, md, got),
             now = IF IsFinished(Head(q)) THEN Head(q).msg.body ELSE got
      PROVE  Carries(Tail(q) \o r, md, now)
  <2> USE <1>ReadCarries
  <2> DEFINE all == q \o r
             rest == Tail(q) \o r
  <2>1. /\ Len(rest) \in Nat /\ Len(all) = Len(rest) + 1 /\ all[1] = Head(q)
        /\ \A n \in 1 .. Len(rest) : rest[n] = all[n + 1]
    BY ReadFirst
  <2> HIDE DEF all, rest
  <2>2. CASE /\ md = got
             /\ \A n \in 1 .. Len(all) : ~IsFinished(all[n])
    <3>1. now = md /\ \A n \in 1 .. Len(rest) : ~IsFinished(rest[n])
      BY <2>1, <2>2
    <3> QED
      BY <3>1, Zenon DEF Carries, rest
  <2>3. CASE \E n \in 1 .. Len(all) : /\ IsFinished(all[n]) /\ all[n].msg.body = md
                                      /\ \A k \in 1 .. Len(all) : k > n => ~IsFinished(all[k])
    <3>1. PICK n \in 1 .. Len(all) : /\ IsFinished(all[n]) /\ all[n].msg.body = md
                                     /\ \A k \in 1 .. Len(all) : k > n => ~IsFinished(all[k])
      BY <2>3, Zenon
    <3>2. CASE n = 1
      <4>1. now = md
        BY <2>1, <3>1, <3>2, Zenon
      <4>2. \A k \in 1 .. Len(rest) : ~IsFinished(rest[k])
        BY <2>1, <3>1, <3>2
      <4> QED
        BY <4>1, <4>2, Zenon DEF Carries, rest
    <3>3. CASE n # 1
      <4>1. n - 1 \in 1 .. Len(rest) /\ rest[n - 1] = all[n]
        BY <2>1, <3>3
      <4>2. \A k \in 1 .. Len(rest) : k > n - 1 => ~IsFinished(rest[k])
        <5> SUFFICES ASSUME NEW k \in 1 .. Len(rest), k > n - 1 PROVE ~IsFinished(rest[k])
          BY Zenon
        <5>1. k + 1 \in 1 .. Len(all) /\ k + 1 > n /\ rest[k] = all[k + 1]
          BY <2>1
        <5> QED
          BY <3>1, <5>1, Zenon
      <4> QED
        BY <3>1, <4>1, <4>2, Zenon DEF Carries, rest
    <3> QED
      BY <3>2, <3>3, Zenon
  <2> QED
    BY <2>2, <2>3, Zenon DEF Carries, all
\* They are read as they were sent.
<1>ReadWellFormed.
      ASSUME NEW k, NEW q, NEW r, IsSequence(q), IsSequence(r), q # <<>>, WellFormed(k, q \o r)
      PROVE  /\ WellFormed(k, Tail(q) \o r)
             /\ Head(q).type = "handshake" => IsMessage(k, Head(q).msg)
  <2> USE <1>ReadWellFormed
  <2> DEFINE all == q \o r
             rest == Tail(q) \o r
  <2>1. /\ Len(rest) \in Nat /\ Len(all) = Len(rest) + 1 /\ all[1] = Head(q)
        /\ \A n \in 1 .. Len(rest) : rest[n] = all[n + 1]
    BY ReadFirst
  <2> HIDE DEF all, rest
  <2>2. 1 \in 1 .. Len(all) /\ \A n \in 1 .. Len(rest) : n + 1 \in 1 .. Len(all)
    BY <2>1
  <2> QED
    BY <2>1, <2>2, Zenon DEF WellFormed, all, rest
<1> DEFINE p == Peer(s)
           d == [ssl[p] EXCEPT !.out = Tail(ssl[p].out)]
<1>1. p \in Sides /\ p # s /\ Peer(p) = s /\ \A t \in Sides : t = s \/ t = p
  BY Peers, Zenon
<1>2. ssl = [t \in Sides |-> ssl[t]] /\ In(s) = ssl[p].out
  BY Zenon DEF Inv, TypeInv, In
<1>3. ssl'[s] = e /\ ssl'[p] = d /\ ssl' = [t \in Sides |-> ssl'[t]]
  BY <1>1, <1>2, Zenon
<1>4. /\ Local(cfg, p, ssl[p]) /\ Shared(cfg, p, ssl[p], ssl[s]) /\ Typed(ssl[p])
      /\ Local(cfg, s, ssl[s]) /\ Shared(cfg, s, ssl[s], ssl[p])
  BY <1>1, Zenon DEF Inv, TypeInv
<1>5. IsSequence(ssl[p].out) /\ IsSequence(ssl[p].bbio)
  BY <1>4, Zenon DEF Local, Buffers
<1>6. /\ Typed(d) /\ d.state = ssl[p].state /\ d.out = Tail(ssl[p].out) /\ d.bbio = ssl[p].bbio
      /\ d.reuse_message = ssl[p].reuse_message
      /\ \A t : Own(t, d) = Own(t, ssl[p])
      /\ d.state # "ERR" => Local(cfg, p, d)
  BY <1>2, <1>4, <1>5, PeerRead, Zenon
<1> HIDE DEF d
<1>7. TypeInv'
  BY <1>1, <1>3, <1>6, Peers, Zenon DEF Inv, TypeInv, Fits
<1>8. ASSUME Running'
      PROVE  \A t \in Sides : Local(cfg, t, ssl'[t]) /\ Shared(cfg, t, ssl'[t], ssl'[Peer(t)])
  <2>1. e.state # "ERR" /\ Local(cfg, s, e) /\ Local(cfg, p, d)
    BY <1>1, <1>3, <1>6, <1>8, Zenon DEF Running, Fits
  <2>2. Shared(cfg, s, e, d)
    BY <1>4, <1>6, <2>1, Zenon DEF Shared, Held
  <2>3. WellFormed(cfg, Q(d))
    BY <1>2, <1>4, <1>5, <1>6, <1>ReadWellFormed, Zenon DEF Shared, Q
  <2>4. Carries(Q(d), Own(p, d), Own(p, e)) \/ Held(e)
    <3>1. CASE Held(ssl[s])
      BY <2>1, <3>1, Zenon
    <3>2. CASE ~Held(ssl[s])
      <4>1. Carries(Q(ssl[p]), Own(p, d), Own(p, ssl[s]))
        BY <1>4, <1>6, <3>2, Zenon DEF Shared
      <4>2. \/ Held(e)
            \/ Own(p, e) = IF IsFinished(Head(ssl[p].out)) THEN Head(ssl[p].out).msg.body
                           ELSE Own(p, ssl[s])
        BY <1>2, <2>1, Zenon
      <4> QED
        BY <1>2, <1>5, <1>6, <4>1, <4>2, <1>ReadCarries, Zenon DEF Q
    <3> QED
      BY <3>1, <3>2, Zenon
  <2> QED
    BY <1>1, <1>3, <2>1, <2>2, <2>3, <2>4, Zenon DEF Shared
<1> QED
  BY <1>7, <1>8, Zenon DEF Inv

----------------------------------------------------------------------------
(* What the functions do to an end.                                        *)

\* A failure (f_err, with an alert) sets the state and nothing else that counts.
LEMMA FailIs ==
    ASSUME NEW c, IsSSL(c), NEW why
    PROVE  Same(c, Fail(c, why), {"state", "failed"}) /\ Fail(c, why).state = "ERR"
  BY IsField, Zenon DEF Fail, Same, IsSSL

\* The switch of ssl3_connect and ssl3_accept assigns s->state, unless the
\* handler has failed.
LEMMA ToIs ==
    ASSUME NEW c, IsSSL(c), NEW st
    PROVE  /\ Same(c, To(c, st), {"state"})
           /\ To(c, st).state = IF c.state = "ERR" THEN "ERR" ELSE st
  BY IsField, Zenon DEF To, Same, IsSSL

\* The fields that Base and the transcript are about.
SameBase(c, d) ==
    /\ d.renegotiate = c.renegotiate /\ d.cert_req = c.cert_req
    /\ d.handshake_buffer = c.handshake_buffer /\ d.handshake_dgst = c.handshake_dgst
    /\ d.keep = c.keep /\ d.pushed = c.pushed /\ d.bbio = c.bbio

\* What these fields say stays if they do.
LEMMA BaseStays ==
    ASSUME NEW c, NEW d, Base(c), IsSSL(d), SameBase(c, d)
    PROVE  Base(d) /\ T(d) = T(c)
  BY Zenon DEF Base, SameBase, T

\* Failing and changing the state.
LEMMA BaseFails ==
    ASSUME NEW c, Base(c), NEW x
    PROVE  /\ Base(Fail(c, x)) /\ T(Fail(c, x)) = T(c)
           /\ Base(To(c, x)) /\ T(To(c, x)) = T(c)
<1>0. IsSSL(c)
  BY Zenon DEF Base
<1>1. SameBase(c, Fail(c, x)) /\ IsSSL(Fail(c, x))
  <2>1. Same(c, Fail(c, x), {"state", "failed"})
    BY <1>0, FailIs, Zenon
  <2> QED
    BY <2>1, IsField, Zenon DEF Same, SameBase
<1>2. SameBase(c, To(c, x)) /\ IsSSL(To(c, x))
  <2>1. Same(c, To(c, x), {"state"})
    BY <1>0, ToIs, Zenon
  <2> QED
    BY <2>1, IsField, Zenon DEF Same, SameBase
<1> QED
  BY <1>1, <1>2, BaseStays, Zenon

\* A message is fed to the digest.
LEMMA FinishMacIs ==
    ASSUME NullApart, NEW c, Base(c), NEW m
    PROVE  LET d == tls1_finish_mac(c, m)
           IN  /\ Same(c, d, {"handshake_buffer", "handshake_dgst", "state", "failed"})
               /\ Base(d)
               /\ d.state \in {c.state, "ERR"}
               /\ d.state # "ERR" => T(d) = Append(T(c), Digested(m)) /\ IsSequence(T(c))
               /\ c.state = "ERR" => d.state = "ERR"
               /\ d.handshake_buffer = NULL <=> c.handshake_buffer = NULL
               /\ ~c.keep => d.handshake_buffer # <<>>
<1> DEFINE d == tls1_finish_mac(c, m)
           x == Digested(m)
<1>0. IsSSL(c)
  BY Zenon DEF Base
<1>1. CASE c.handshake_buffer # NULL /\ ~c.keep
  <2>1. IsSequence(c.handshake_buffer)
    BY <1>1, Zenon DEF Base
  <2>2. /\ IsSequence(Append(c.handshake_buffer, x)) /\ Append(c.handshake_buffer, x) # NULL
        /\ Append(c.handshake_buffer, x) # <<>>
    BY <2>1, Appended, NotNull, Zenon
  <2>3. d = [c EXCEPT !.handshake_buffer = Append(c.handshake_buffer, x)]
    BY <1>1, Zenon DEF tls1_finish_mac
  <2>4. /\ Same(c, d, {"handshake_buffer"}) /\ d.handshake_buffer = Append(c.handshake_buffer, x)
    BY <1>0, <2>3, IsField, Zenon DEF Same, IsSSL
  <2> HIDE DEF d, x
  <2>5. /\ d.state = c.state /\ d.handshake_dgst = c.handshake_dgst /\ d.keep = c.keep
        /\ d.renegotiate = c.renegotiate /\ d.cert_req = c.cert_req /\ d.pushed = c.pushed
        /\ d.bbio = c.bbio /\ IsSSL(d)
    BY <2>4, IsField, Zenon DEF Same
  <2>6. Base(d)
    BY <1>1, <2>2, <2>4, <2>5, Zenon DEF Base
  <2>7. T(d) = Append(T(c), x) /\ T(c) = c.handshake_buffer
    BY <1>1, <2>2, <2>4, <2>5, Zenon DEF T
  <2>8. Same(c, d, {"handshake_buffer", "handshake_dgst", "state", "failed"})
    BY <2>4, Zenon DEF Same
  <2> QED
    BY <1>1, <2>1, <2>2, <2>4, <2>5, <2>6, <2>7, <2>8, Zenon DEF d, x
<1>2. CASE ~(c.handshake_buffer # NULL /\ ~c.keep) /\ c.handshake_dgst = NULL
  <2>1. d = Fail(c, "no digest to feed")
    BY <1>2, Zenon DEF tls1_finish_mac
  <2>2. Same(c, d, {"state", "failed"}) /\ d.state = "ERR"
    BY <1>0, <2>1, FailIs, Zenon
  <2>3. Base(d)
    BY <2>1, BaseFails, Zenon
  <2> HIDE DEF d, x
  <2>4. Same(c, d, {"handshake_buffer", "handshake_dgst", "state", "failed"})
    BY <2>2, Zenon DEF Same
  <2>5. d.handshake_buffer = c.handshake_buffer
    BY <2>2, IsField, Zenon DEF Same
  <2>6. ~c.keep => c.handshake_buffer = NULL
    BY <1>2, Zenon
  <2>7. NULL # <<>>
    BY NotNull, Zenon
  <2> QED
    BY <2>2, <2>3, <2>4, <2>5, <2>6, <2>7, Zenon DEF d, x
<1>3. CASE ~(c.handshake_buffer # NULL /\ ~c.keep) /\ c.handshake_dgst # NULL
  <2>1. IsSequence(c.handshake_dgst)
    BY <1>3, Zenon DEF Base
  <2>2. /\ IsSequence(Append(c.handshake_dgst, x)) /\ Append(c.handshake_dgst, x) # NULL
    BY <2>1, Appended, NotNull, Zenon
  <2>3. d = [c EXCEPT !.handshake_dgst = Append(c.handshake_dgst, x)]
    BY <1>3, Zenon DEF tls1_finish_mac
  <2>4. /\ Same(c, d, {"handshake_dgst"}) /\ d.handshake_dgst = Append(c.handshake_dgst, x)
    BY <1>0, <2>3, IsField, Zenon DEF Same, IsSSL
  <2> HIDE DEF d, x
  <2>5. /\ d.state = c.state /\ d.handshake_buffer = c.handshake_buffer /\ d.keep = c.keep
        /\ d.renegotiate = c.renegotiate /\ d.cert_req = c.cert_req /\ d.pushed = c.pushed
        /\ d.bbio = c.bbio /\ IsSSL(d)
    BY <2>4, IsField, Zenon DEF Same
  <2>6. Base(d)
    BY <1>3, <2>2, <2>4, <2>5, Zenon DEF Base
  <2>7. T(d) = Append(T(c), x) /\ T(c) = c.handshake_dgst
    BY <1>3, <2>2, <2>4, <2>5, Zenon DEF T
  <2>8. Same(c, d, {"handshake_buffer", "handshake_dgst", "state", "failed"})
    BY <2>4, Zenon DEF Same
  <2>9. NULL # <<>> /\ (~c.keep => c.handshake_buffer = NULL)
    BY <1>3, NotNull, Zenon
  <2> QED
    BY <2>1, <2>5, <2>6, <2>7, <2>8, <2>9, Zenon DEF d, x
<1> QED
  BY <1>1, <1>2, <1>3, Zenon

\* The digests are computed from what was kept.
LEMMA DigestCachedIs ==
    ASSUME NullApart, NEW c, Base(c)
    PROVE  LET d == tls1_digest_cached_records(c)
           IN  /\ Same(c, d, {"handshake_buffer", "handshake_dgst", "state", "failed"})
               /\ Base(d)
               /\ d.state \in {c.state, "ERR"}
               /\ c.state = "ERR" => d.state = "ERR"
               /\ ~c.keep /\ d.state # "ERR" => T(d) = T(c) /\ d.handshake_dgst = T(c)
                                                /\ d.handshake_buffer = NULL
               /\ ~c.keep /\ T(c) # <<>> /\ c.handshake_buffer # NULL => d.handshake_dgst = T(c)
<1> DEFINE d == tls1_digest_cached_records(c)
           b == IF c.keep THEN c.handshake_buffer ELSE NULL
<1>0. IsSSL(c)
  BY Zenon DEF Base
<1>1. CASE c.handshake_buffer \in {NULL, <<>>}
  <2>1. d = Fail(c, "bad handshake length")
    BY <1>1, Zenon DEF tls1_digest_cached_records
  <2>2. Same(c, d, {"state", "failed"}) /\ d.state = "ERR" /\ Base(d) /\ T(d) = T(c)
    BY <1>0, <2>1, FailIs, BaseFails, Zenon
  <2> HIDE DEF d
  <2>3. Same(c, d, {"handshake_buffer", "handshake_dgst", "state", "failed"})
    BY <2>2, Zenon DEF Same
  <2>4. ~(~c.keep /\ T(c) # <<>> /\ c.handshake_buffer # NULL)
    BY <1>1, Zenon DEF T
  <2> QED
    BY <2>2, <2>3, <2>4, Zenon DEF d
<1>2. CASE c.handshake_buffer \notin {NULL, <<>>}
  <2>1. d = [c EXCEPT !.handshake_dgst = c.handshake_buffer, !.handshake_buffer = b]
    BY <1>2, Zenon DEF tls1_digest_cached_records
  <2>2. /\ Same(c, d, {"handshake_buffer", "handshake_dgst"})
        /\ d.handshake_dgst = c.handshake_buffer /\ d.handshake_buffer = b
    BY <1>0, <2>1, IsField, Zenon DEF Same, IsSSL
  <2> HIDE DEF d
  <2>3. /\ d.state = c.state /\ d.keep = c.keep
        /\ d.renegotiate = c.renegotiate /\ d.cert_req = c.cert_req /\ d.pushed = c.pushed
        /\ d.bbio = c.bbio /\ IsSSL(d)
    BY <2>2, IsField, Zenon DEF Same
  <2>4. IsSequence(c.handshake_buffer)
    BY <1>2, Zenon DEF Base
  <2>5. Base(d)
    BY <1>2, <2>2, <2>3, <2>4, Zenon DEF Base
  <2>6. ~c.keep => T(d) = T(c) /\ d.handshake_dgst = T(c) /\ d.handshake_buffer = NULL
    BY <1>2, <2>2, <2>3, Zenon DEF T
  <2>7. Same(c, d, {"handshake_buffer", "handshake_dgst", "state", "failed"})
    BY <2>2, Zenon DEF Same
  <2> QED
    BY <2>3, <2>5, <2>6, <2>7, Zenon DEF d
<1> QED
  BY <1>1, <1>2, Zenon

\* The same, for a handler that digests only what is still cached.
LEMMA DigestIfCachedIs ==
    ASSUME NullApart, NEW c, Base(c)
    PROVE  LET d == DigestIfCached(c)
           IN  /\ Same(c, d, {"handshake_buffer", "handshake_dgst", "state", "failed"})
               /\ Base(d)
               /\ d.state \in {c.state, "ERR"}
               /\ c.state = "ERR" => d.state = "ERR"
               /\ ~c.keep /\ d.state # "ERR" => T(d) = T(c) /\ d.handshake_dgst = T(c)
                                                /\ d.handshake_buffer = NULL
               /\ ~c.keep /\ T(c) # <<>> => d.handshake_dgst = T(c)
<1>1. CASE c.handshake_buffer # NULL
  <2>1. DigestIfCached(c) = tls1_digest_cached_records(c)
    BY <1>1, Zenon DEF DigestIfCached
  <2> QED
    BY <1>1, <2>1, DigestCachedIs, Zenon
<1>2. CASE c.handshake_buffer = NULL
  <2>1. DigestIfCached(c) = c
    BY <1>2, Zenon DEF DigestIfCached
  <2>2. Same(c, c, {"handshake_buffer", "handshake_dgst", "state", "failed"})
    BY Zenon DEF Same, Base
  <2>3. T(c) = c.handshake_dgst
    BY <1>2, Zenon DEF T
  <2> QED
    BY <1>2, <2>1, <2>2, <2>3, Zenon
<1> QED
  BY <1>1, <1>2, Zenon

\* The hash in a Finished is over the transcript.
LEMMA FinalMacIs ==
    ASSUME NullApart, NEW c, Base(c), NEW s, ~c.keep, T(c) # <<>>
    PROVE  tls1_final_finish_mac(c, s) = [by |-> s, master |-> c.session.master, transcript |-> T(c)]
<1>1. DigestIfCached(c).handshake_dgst = T(c)
  BY DigestIfCachedIs, Zenon
<1> QED
  BY <1>1, Zenon DEF tls1_final_finish_mac

\* tls1_setup_key_block leaves the key block of the secrets at hand, made now
\* or before.
LEMMA SetupKeyIs ==
    ASSUME NEW c, IsSSL(c), c.key_block # NULL => c.key_block = Key(c)
    PROVE  LET d == tls1_setup_key_block(c)
           IN  Same(c, d, {"key_block"}) /\ d.key_block = Key(c)
  BY IsField, Zenon DEF tls1_setup_key_block, Key, Same, IsSSL

\* What a message adds to the transcript.
LEMMA DigestedIs ==
    ASSUME NEW k, NEW m, IsMessage(k, m)
    PROVE  /\ Digested(m).type = m.type
           /\ m.type = "ClientHello" => Digested(m).body.random = m.body.random
           /\ m.type = "ServerHello" => Digested(m).body.cipher = m.body.cipher
<1>1. m = [type |-> m.type, body |-> m.body]
  BY Zenon DEF IsMessage
<1>2. CASE m.type \in {"Finished", "CertificateVerify"}
  <2>1. Digested(m) = [m EXCEPT !.body = NULL]
    BY <1>2, Zenon DEF Digested
  <2> QED
    BY <1>1, <1>2, <2>1, Zenon
<1>3. CASE m.type \in {"ClientHello", "ServerHello"}
  <2>1. Digested(m) = [m EXCEPT !.body = [m.body EXCEPT !.binding = NULL]]
    BY <1>3, Zenon DEF Digested
  <2>2. /\ m.type = "ClientHello" => "random" \in DOMAIN m.body
        /\ m.type = "ServerHello" => "cipher" \in DOMAIN m.body
    BY Zenon DEF IsMessage
  <2>3. Digested(m).body = [m.body EXCEPT !.binding = NULL] /\ Digested(m).type = m.type
    BY <1>1, <2>1, Zenon
  <2> QED
    BY <1>3, <2>2, <2>3, Zenon
<1>4. CASE m.type \notin {"Finished", "CertificateVerify", "ClientHello", "ServerHello"}
  <2>1. Digested(m) = m
    BY <1>4, Zenon DEF Digested
  <2> QED
    BY <2>1, Zenon
<1> QED
  BY <1>2, <1>3, <1>4, Zenon

\* A record is written.
LEMMA PutIs ==
    ASSUME NEW c, Base(c), NEW rec, NEW spill, IsSequence(c.out), IsSequence(c.bbio)
    PROVE  LET d == Put(c, rec, spill)
           IN  /\ Same(c, d, {"bbio", "out"})
               /\ Base(d) /\ T(d) = T(c)
               /\ IsSequence(d.out) /\ IsSequence(d.bbio)
               /\ Q(d) = Append(Q(c), rec)
               /\ ~c.pushed => d.bbio = <<>>
<1> DEFINE d == Put(c, rec, spill)
<1>0. IsSSL(c)
  BY Zenon DEF Base
<1>1. /\ Same(c, d, {"bbio", "out"})
      /\ \/ c.pushed /\ d.out = c.out /\ d.bbio = Append(c.bbio, rec)
         \/ c.pushed /\ d.out = c.out \o c.bbio /\ d.bbio = <<rec>>
         \/ d.out = Append(c.out \o c.bbio, rec) /\ d.bbio = <<>>
  BY <1>0, IsField, Zenon DEF Put, Same, IsSSL
<1> HIDE DEF d
<1>2. /\ IsSequence(c.out \o c.bbio) /\ c.out \o Append(c.bbio, rec) = Append(c.out \o c.bbio, rec)
  <2>1. \A q, r : IsSequence(q) /\ IsSequence(r) => IsSequence(q \o r)
    BY Buffered, Zenon
  <2>2. ASSUME NEW q, NEW r, IsSequence(q), IsSequence(r)
        PROVE  q \o Append(r, rec) = Append(q \o r, rec)
    BY <2>2, Buffered
  <2>3. c.out \o Append(c.bbio, rec) = Append(c.out \o c.bbio, rec)
    BY <2>2, Zenon
  <2> QED
    BY <2>1, <2>3, Zenon
<1>3. IsSequence(Append(c.out \o c.bbio, rec)) /\ IsSequence(Append(c.bbio, rec))
  BY <1>2, Appended, Zenon
<1>4. IsSequence(<<>>) /\ IsSequence(<<rec>>)
  <2>1. <<>> \in Seq({}) /\ <<rec>> \in Seq({rec})
    OBVIOUS
  <2> QED
    BY <2>1, Zenon DEF IsSequence
<1>5. IsSequence(d.out) /\ IsSequence(d.bbio)
  BY <1>1, <1>2, <1>3, <1>4, Zenon
<1>6. Q(d) = Append(Q(c), rec)
  <2>1. ASSUME NEW q, IsSequence(q)
        PROVE  q \o <<rec>> = Append(q, rec)
    BY <2>1 DEF IsSequence
  <2>2. (c.out \o c.bbio) \o <<rec>> = Append(c.out \o c.bbio, rec)
    BY <1>2, <2>1, Zenon
  <2> QED
    BY <1>1, <1>2, <1>3, <1>4, <2>2, Buffered, Zenon DEF Q
<1>7. /\ d.handshake_buffer = c.handshake_buffer /\ d.handshake_dgst = c.handshake_dgst
      /\ d.keep = c.keep /\ d.renegotiate = c.renegotiate /\ d.cert_req = c.cert_req
      /\ d.pushed = c.pushed /\ IsSSL(d)
  BY <1>1, IsField, Zenon DEF Same
<1>8. Base(d) /\ T(d) = T(c)
  BY <1>1, <1>7, Zenon DEF Base, T
<1> QED
  BY <1>1, <1>5, <1>6, <1>8, Zenon DEF d

\* d is c after the message m was written.
Wrote(c, d, m) ==
    /\ Same(c, d, {"bbio", "out", "handshake_buffer", "handshake_dgst", "state", "failed"})
    /\ Base(d) /\ IsSequence(d.out) /\ IsSequence(d.bbio)
    /\ d.state \in {c.state, "ERR"}
    /\ c.state = "ERR" => d.state = "ERR"
    /\ d.state # "ERR" => T(d) = Append(T(c), Digested(m)) /\ IsSequence(T(c))
    /\ d.handshake_buffer = NULL <=> c.handshake_buffer = NULL
    /\ \E rec : rec.type = "handshake" /\ rec.msg = m /\ Q(d) = Append(Q(c), rec)

\* d is c after end s has sent its Finished.
WroteFinished(s, c, d) ==
    /\ Same(c, d, {"bbio", "out", "handshake_buffer", "handshake_dgst", "state", "failed",
                   "previous_client_finished", "previous_server_finished", "finish_md_len"})
    /\ Base(d) /\ d.state \in {c.state, "ERR"} /\ IsSequence(d.out) /\ IsSequence(d.bbio)
    /\ Own(Peer(s), d) = Own(Peer(s), c)
    /\ d.state # "ERR" => /\ \E x : T(d) = Append(T(c), x) /\ x.type = "Finished"
                          /\ Own(s, d).master = c.session.master
                          /\ Own(s, d).transcript = T(c)
    /\ \E rec : /\ rec.type = "handshake" /\ IsMessage(cfg, rec.msg)
                /\ rec.msg.type = "Finished" /\ rec.msg.body = Own(s, d)
                /\ Q(d) = Append(Q(c), rec)

\* A transcript with two hellos is not empty.
LEMMA BegunIsSome ==
  ASSUME NEW t, NEW random, NEW cipher, Begins(t, random, cipher)
  PROVE  t # <<>> /\ IsSequence(t)
  BY DEF Begins

\* ssl3_do_write writes the message and digests it.
LEMMA WriteIs ==
    ASSUME NullApart, NEW c, Base(c), IsSequence(c.out), IsSequence(c.bbio),
           NEW type, NEW body, NEW spill
    PROVE  Wrote(c, ssl3_do_write(c, type, body, spill), [type |-> type, body |-> body])
<1> DEFINE m == [type |-> type, body |-> body]
           rec == [type |-> "handshake", key |-> c.write_key, msg |-> m]
           p == Put(c, rec, spill)
           d == tls1_finish_mac(p, m)
<1>0. ssl3_do_write(c, type, body, spill) = d
  BY Zenon DEF ssl3_do_write
<1>1. /\ Same(c, p, {"bbio", "out"})
      /\ Base(p) /\ T(p) = T(c)
      /\ IsSequence(p.out) /\ IsSequence(p.bbio)
      /\ Q(p) = Append(Q(c), rec)
  BY PutIs, Zenon
<1>2. rec.type = "handshake" /\ rec.msg = m
  BY Zenon
<1> HIDE DEF p, rec, m
<1>3. /\ Same(p, d, {"handshake_buffer", "handshake_dgst", "state", "failed"})
      /\ Base(d) /\ d.state \in {p.state, "ERR"}
      /\ d.state # "ERR" => T(d) = Append(T(p), Digested(m)) /\ IsSequence(T(p))
      /\ p.state = "ERR" => d.state = "ERR"
      /\ d.handshake_buffer = NULL <=> p.handshake_buffer = NULL
  BY <1>1, FinishMacIs, Zenon
<1> HIDE DEF d
<1>4. d.out = p.out /\ d.bbio = p.bbio /\ p.state = c.state
      /\ p.handshake_buffer = c.handshake_buffer
  BY <1>1, <1>3, IsField, Zenon DEF Same
<1>5. Q(d) = Append(Q(c), rec)
  BY <1>1, <1>4, Zenon DEF Q
<1>6. Same(c, d, {"bbio", "out", "handshake_buffer", "handshake_dgst", "state", "failed"})
  BY <1>1, <1>3, Zenon DEF Same
<1>7. Wrote(c, d, m)
  BY <1>1, <1>2, <1>3, <1>4, <1>5, <1>6, Zenon DEF Wrote
<1> QED
  BY <1>0, <1>7, Zenon DEF m

\* The transcript goes on.
LEMMA BeginsOn ==
    ASSUME NEW t, IsSequence(t), NEW x, NEW random, NEW cipher
    PROVE  /\ Begins(t, random, cipher) => Begins(Append(t, x), random, cipher)
           /\ HasDone(Append(t, x)) <=> HasDone(t) \/ x.type = "ServerHelloDone"
<1>1. /\ IsSequence(Append(t, x))
      /\ Len(t) \in Nat /\ Len(Append(t, x)) = Len(t) + 1
      /\ \A n \in 1 .. Len(t) : Append(t, x)[n] = t[n]
      /\ Append(t, x)[Len(t) + 1] = x
  BY Appended
<1> DEFINE u == Append(t, x)
<1> HIDE DEF u
<1>2. Begins(t, random, cipher) => Begins(u, random, cipher)
  BY <1>1 DEF Begins, u
<1>3. HasDone(t) => HasDone(u)
  BY <1>1 DEF HasDone, u
<1>4. x.type = "ServerHelloDone" => HasDone(u)
  BY <1>1 DEF HasDone, u
<1>5. HasDone(u) => HasDone(t) \/ x.type = "ServerHelloDone"
  BY <1>1 DEF HasDone, u
<1> QED
  BY <1>2, <1>3, <1>4, <1>5, Zenon DEF u

\* Nothing changes in keys, session and hashes.
KeysSame(c, e) ==
    /\ e.previous_client_finished = c.previous_client_finished
    /\ e.previous_server_finished = c.previous_server_finished
    /\ e.change_cipher_spec = c.change_cipher_spec
    /\ e.key_block = c.key_block /\ e.read_key = c.read_key /\ e.write_key = c.write_key
    /\ e.random = c.random /\ e.hit = c.hit /\ e.new_cipher = c.new_cipher
    /\ e.session = c.session

\* From state a to state b within a handshake, without a ChangeCipherSpec or a
\* Finished.
Goes(a, b) ==
    \/ a \in Offered /\ b \in Offered \cup Answered
    \/ a \in Answered /\ b \in Answered
    \/ a \in Answered /\ b \in {"CW_CHANGE", "SR_NEXT_PROTO", "SR_FINISHED"}
    \/ a = "CW_NEXT_PROTO" /\ b = "CW_FINISHED"
    \/ a = "CR_SESSION_TICKET" /\ b = "CR_FINISHED"
    \/ a = "SR_NEXT_PROTO" /\ b = "SR_FINISHED"
    \/ a = "SW_SESSION_TICKET" /\ b = "SW_CHANGE"

\* The keys stay right from one state to the next (ssl3_connect, ssl3_accept),
\* as long as nothing they depend on is changed.
LEMMA KeysGo ==
    ASSUME NEW s, NEW c, NEW e, Keys(s, c), KeysSame(c, e), e.state \notin Start \cup Idle,
           Goes(At(c), At(e)), At(e) \in Early => e.ccs_ok = c.ccs_ok
    PROVE  Keys(s, e)
<1>1. Key(e) = Key(c) /\ \A md : Matches(e, md) = Matches(c, md)
  BY Zenon DEF KeysSame, Key, Matches
<1>2. Own(s, e) = Own(s, c) /\ Own(Peer(s), e) = Own(Peer(s), c)
  BY Zenon DEF KeysSame, Own
<1>3. /\ At(e) \in Offered \cup Answered => At(c) \in Offered \cup Answered
      /\ At(e) \in Early => At(c) \in Early
      /\ At(e) \in Ending => At(c) \in Ending \/ At(c) \in Offered \cup Answered
      /\ At(c) \in Offered \cup Answered => At(c) \in Early
  BY Zenon DEF Goes, Offered, Answered, Ending, Early, Opening, Helloed
<1>4. At(c) \in Offered \cup Answered => ~c.hit
  BY Zenon DEF Keys
<1>5. Got(e) => Got(c)
  BY <1>4, Zenon DEF Goes, Got, KeysSame, Offered, Answered, Idle
<1>6. Sent(e) => Sent(c)
  BY <1>4, Zenon DEF Goes, Sent, KeysSame, Offered, Answered, Idle
<1>7. Changed(e) => Changed(c)
  BY <1>6, Zenon DEF Goes, Changed, Offered, Answered
<1> QED
  BY <1>1, <1>2, <1>3, <1>5, <1>6, <1>7, Zenon DEF Keys, KeysSame

\* And the digests, if the handler has digested at most its message.
LEMMA DigestsGo ==
    ASSUME NEW c, NEW e, Digests(c), KeysSame(c, e), Goes(At(c), At(e)),
           \/ T(e) = T(c)
           \/ \E x : /\ T(e) = Append(T(c), x)
                     /\ x.type = "ServerHelloDone" => At(c) \in Offered,
           At(c) \in Offered /\ At(e) \in Answered => (HasDone(T(e)) <=> ~e.hit)
    PROVE  Digests(e)
<1>1. /\ At(c) \in Offered \cup Answered \cup Ending
      /\ At(e) \in Offered \cup Answered \cup Ending
      /\ At(e) \in Answered \cup Ending =>
            \/ At(c) \in Answered \cup Ending
            \/ At(c) \in Offered /\ At(e) \in Answered
      /\ At(e) \notin Opening \cup Helloed
      /\ At(c) \in Answered \cup Ending => At(c) \notin Offered
  BY DEF Goes, Offered, Answered, Ending, Opening, Helloed
<1>2. Begins(T(c), c.random, c.new_cipher) /\ IsSequence(T(c))
  BY <1>1, Zenon DEF Digests, Begins
<1>3. Begins(T(e), c.random, c.new_cipher)
  BY <1>2, BeginsOn, Zenon
<1>4. At(c) \in Answered \cup Ending => (HasDone(T(e)) <=> HasDone(T(c)))
  <2>1. ASSUME NEW x, T(e) = Append(T(c), x), x.type # "ServerHelloDone"
        PROVE  HasDone(T(e)) <=> HasDone(T(c))
    <3>1. HasDone(Append(T(c), x)) <=> HasDone(T(c)) \/ x.type = "ServerHelloDone"
      BY <1>2, BeginsOn, Zenon
    <3> QED
      BY <2>1, <3>1, Zenon
  <2> QED
    BY <1>1, <2>1, Zenon
<1>5. e.random = c.random /\ e.new_cipher = c.new_cipher /\ e.hit = c.hit
  BY Zenon DEF KeysSame
<1> QED
  BY <1>1, <1>3, <1>4, <1>5, Zenon DEF Digests

----------------------------------------------------------------------------
(* Steps that send a message or nothing.                                   *)

\* What an end is while it prepares a message.
Prepared(b, c) ==
    /\ Same(b, c, {"cert_req", "handshake_buffer", "handshake_dgst", "state", "failed"})
    /\ Base(c)
    /\ c.state \in {b.state, "ERR"}
    /\ c.state # "ERR" => T(c) = T(b)

\* What the end has by the time that it comes to st.
Provides(s, c, st) ==
    /\ s = "server" =>
          /\ st \in Ending \cup {"SR_KEY_EXCH"} => Resumes(cfg, ssl[s].session)
          /\ Strict(cfg) /\ st = "SW_SRVR_DONE" => c.cert_req # 0
    /\ c.state # "ERR" /\ st = "SW_SRVR_DONE" => c.cert_req # 0 \/ c.handshake_buffer = NULL
    /\ c.state # "ERR" /\ st = "SR_KEY_EXCH" => c.handshake_buffer = NULL

\* What Inv says of an end.
LEMMA Ends ==
    ASSUME NullApart, Inv, Running, NEW s \in Sides
    PROVE  /\ Typed(ssl[s]) /\ Base(ssl[s]) /\ IsSSL(ssl[s]) /\ ssl[s].state # "ERR"
           /\ Local(cfg, s, ssl[s]) /\ Prepared(ssl[s], ssl[s])
           /\ IsSequence(ssl[s].out) /\ IsSequence(ssl[s].bbio)
           /\ ssl[s].state \notin {"CR_CERT_STATUS", "CR_KEY_EXCH", "CR_CERT_REQ", "CR_SRVR_DONE"} =>
                 ssl[s].reuse_message = NULL
           /\ ssl[s].state # "SR_CERT_VRFY" => ~ssl[s].keep
<1>1. Typed(ssl[s]) /\ Local(cfg, s, ssl[s]) /\ ssl[s].state # "ERR"
  BY Zenon DEF Inv, TypeInv, Running
<1>2. Base(ssl[s]) /\ IsSSL(ssl[s]) /\ (ssl[s].state # "SR_CERT_VRFY" => ~ssl[s].keep)
  BY <1>1, Zenon DEF Typed, Base
<1>3. Prepared(ssl[s], ssl[s])
  BY <1>2, Zenon DEF Prepared, Same
<1>4. IsSequence(ssl[s].out) /\ IsSequence(ssl[s].bbio)
  BY <1>1, Zenon DEF Local, Buffers
<1>5. ssl[s].state \notin {"CR_CERT_STATUS", "CR_KEY_EXCH", "CR_CERT_REQ", "CR_SRVR_DONE"} =>
         ssl[s].reuse_message = NULL
  BY <1>1, Zenon DEF Local, Waiting
<1> QED
  BY <1>1, <1>2, <1>3, <1>4, <1>5, Zenon

\* From one state to the next with a message, or with none.
Passes(a, st) ==
    /\ Goes(a, st)
    /\ a \in Offered => st \in Offered
    /\ a \notin FlushStates \cup {"CR_CERT_STATUS", "CR_KEY_EXCH", "CR_CERT_REQ",
                                  "CR_SRVR_DONE", "SR_CERT_VRFY"}
    /\ st \in States \ (FlushStates \cup Start \cup Idle) /\ st \notin {"SR_CERT", "SR_CERT_VRFY"}

\* A message that is not special.
Ordinary(type, body) ==
    /\ IsMessage(cfg, [type |-> type, body |-> body])
    /\ type \notin {"Finished", "ServerHelloDone"}

\* The messages that change nothing but what is sent and digested, and the
\* optional ones that are left out (ssl3_connect, ssl3_accept).
LEMMA PlainSendsKeep ==
    ASSUME NullApart, Inv,
           \/ SkipServerCertificate \/ SendClientCertificate \/ SendClientVerify
           \/ SendNextProto \/ SendServerCertificate \/ SendCertStatus
           \/ SendServerKeyExchange \/ SendCertificateRequest
           \/ SkipClientCertificate \/ SendNewSessionTicket
    PROVE  Inv'
\* It goes on to state st.
<1>SendGoes.
      ASSUME Running, NEW s \in Sides, NEW c, NEW d, NEW st,
             ssl' = [ssl EXCEPT ![s] = To(d, st)], cfg' = cfg,
             Prepared(ssl[s], c),
             \/ d = c
             \/ \E m : Wrote(c, d, m) /\ IsMessage(cfg, m) /\ m.type \notin {"Finished", "ServerHelloDone"},
             ssl[s].state \notin FlushStates, st \notin FlushStates \cup Start \cup Idle,
             st \in States, st \notin {"SR_CERT", "SR_CERT_VRFY"}, Goes(ssl[s].state, st),
             ssl[s].state \in Offered => st \in Offered,
             st \in Writing \/ d.bbio = <<>>,
             ~ssl[s].keep, ssl[s].reuse_message = NULL,
             Provides(s, c, st)
      PROVE  Inv'
  <2> USE <1>SendGoes
  <2> DEFINE b == ssl[s]
             e == To(d, st)
  <2>1. Typed(b) /\ Local(cfg, s, b) /\ b.state # "ERR"
    BY Zenon DEF Inv, TypeInv, Running
  <2> HIDE DEF b
  <2>2. IsSequence(b.out) /\ IsSequence(b.bbio)
    BY <2>1, Zenon DEF Local, Buffers
  <2>3. IsSSL(c) /\ c.out = b.out /\ c.bbio = b.bbio /\ KeysSame(b, c) /\ c.keep = b.keep
        /\ c.reuse_message = b.reuse_message /\ c.cache = b.cache
        /\ c.ccs_ok = b.ccs_ok
    BY IsField, Zenon DEF Prepared, Same, KeysSame, b
  <2>4. /\ IsSSL(d) /\ Base(d) /\ IsSequence(d.out) /\ IsSequence(d.bbio)
        /\ d.state \in {b.state, "ERR"} /\ d.cert_req = c.cert_req /\ KeysSame(b, d)
        /\ d.keep = b.keep /\ d.reuse_message = b.reuse_message /\ d.cache = b.cache
        /\ d.ccs_ok = b.ccs_ok /\ (d.handshake_buffer = NULL <=> c.handshake_buffer = NULL)
        /\ c.state = "ERR" => d.state = "ERR"
    <3>1. CASE d = c
      BY <2>2, <2>3, <3>1, Zenon DEF Prepared, b
    <3>2. ASSUME NEW m, Wrote(c, d, m) 
          PROVE  /\ IsSSL(d) /\ Base(d) /\ IsSequence(d.out) /\ IsSequence(d.bbio)
                 /\ d.state \in {b.state, "ERR"} /\ d.cert_req = c.cert_req /\ KeysSame(b, d)
                 /\ d.keep = b.keep /\ d.reuse_message = b.reuse_message /\ d.cache = b.cache
                 /\ d.ccs_ok = b.ccs_ok /\ (d.handshake_buffer = NULL <=> c.handshake_buffer = NULL)
                 /\ c.state = "ERR" => d.state = "ERR"
      BY <2>3, <3>2, IsField DEF Prepared, Wrote, Same, KeysSame, b
    <3> QED
      BY <3>1, <3>2, Zenon
  <2>5. d.state # "ERR" =>
          \/ T(d) = T(b)
          \/ \E x : T(d) = Append(T(b), x) /\ x.type # "ServerHelloDone"
    <3>1. CASE d = c
      BY <3>1, Zenon DEF Prepared, b
    <3>2. ASSUME NEW m, Wrote(c, d, m), IsMessage(cfg, m), m.type # "ServerHelloDone", d.state # "ERR"
          PROVE  T(d) = Append(T(b), Digested(m)) /\ Digested(m).type # "ServerHelloDone"
      BY <3>2, DigestedIs, Zenon DEF Prepared, Wrote, b
    <3> QED
      BY <3>1, <3>2, Zenon
  <2>6. Output(s, b, d)
    <3>1. Own(s, d) = Own(s, b) /\ Q(c) = Q(b)
      BY <2>3, <2>4, Zenon DEF KeysSame, Own, Q
    <3>2. CASE d = c
      BY <3>1, <3>2, Zenon DEF Output
    <3>3. ASSUME NEW m, Wrote(c, d, m), IsMessage(cfg, m), m.type # "Finished"
          PROVE  Output(s, b, d)
      <4>1. PICK rec : rec.type = "handshake" /\ rec.msg = m /\ Q(d) = Append(Q(c), rec)
        BY <3>3, Zenon DEF Wrote
      <4> QED
        BY <3>1, <3>3, <4>1, Zenon DEF Output, IsFinished
    <3> QED
      BY <3>2, <3>3, Zenon
  <2>7. /\ Same(d, e, {"state"}) /\ e.state = (IF d.state = "ERR" THEN "ERR" ELSE st)
        /\ Base(e) /\ T(e) = T(d)
    BY <2>4, ToIs, BaseFails, Zenon
  <2> HIDE DEF e
  <2>8. /\ KeysSame(b, e) /\ e.out = d.out /\ e.bbio = d.bbio /\ e.keep = b.keep
        /\ e.reuse_message = b.reuse_message /\ e.cache = b.cache /\ e.cert_req = c.cert_req
        /\ e.ccs_ok = b.ccs_ok /\ e.handshake_buffer = d.handshake_buffer
    BY <2>4, <2>7, IsField, Zenon DEF Same, KeysSame
  <2>9. Typed(e)
    BY <2>7, <2>8, Zenon DEF Typed, States, b, FlushStates
  <2>10. ASSUME e.state # "ERR" PROVE Local(cfg, s, e)
    <3>1. d.state # "ERR" /\ e.state = st /\ At(e) = st /\ At(b) = b.state
      BY <2>7, <2>10, Zenon DEF At, b
    <3>2. Goes(At(b), At(e))
      BY <3>1, Zenon DEF b
    <3>3. Digests(e)
      <4>1. Digests(b)
        BY <2>1, Zenon DEF Local
      <4>2. At(b) \in Offered => At(e) \in Offered
        BY <3>1, Zenon DEF b
      <4>3. At(e) \in Offered => At(e) \notin Answered
        BY Zenon DEF Offered, Answered
      <4> QED
        BY <2>5, <2>7, <2>8, <3>1, <3>2, <4>1, <4>2, <4>3, DigestsGo, Zenon
    <3>4. Keys(s, e)
      BY <2>1, <2>8, <3>1, <3>2, KeysGo, Zenon DEF Local
    <3>5. Waiting(e)
      BY <2>8, Zenon DEF Waiting, b
    <3>6. Buffers(e)
      <4>1. st \notin {"OK", "CW_CLNT_HELLO"}
        BY Zenon DEF Goes, Idle, Offered, Answered
      <4> QED
        BY <2>4, <2>8, <3>1, <4>1, Zenon DEF Buffers
    <3>7. Sessioned(cfg, s, e)
      <4>1. /\ \/ b.session = NULL /\ b.state \in Start \cup Opening
               \/ /\ IsSession(b.session)
                  /\ s = "client" => b.session.tick = NULL \/ Resumes(cfg, b.session.tick)
            /\ s = "server" => \A x \in b.cache : Resumes(cfg, x)
        BY <2>1, Zenon DEF Local, Sessioned
      <4>2. b.state \notin Start \cup Opening
        BY Zenon DEF Goes, Start, Opening, Offered, Answered, b
      <4>3. st \notin Helloed \cup Idle /\ st # "SR_CERT" /\ st # "SR_CERT_VRFY"
        BY Zenon DEF Goes, Helloed, Idle, Offered, Answered, b
      <4>4. e.session = b.session /\ e.hit = b.hit
        BY <2>8, Zenon DEF KeysSame
      <4>5. s = "server" =>
               /\ st \in Ending \cup {"SR_KEY_EXCH"} => Resumes(cfg, b.session)
               /\ Strict(cfg) /\ st = "SW_SRVR_DONE" => e.cert_req # 0
        BY <2>8, Zenon DEF b, Provides
      <4> QED
        BY <2>8, <3>1, <4>1, <4>2, <4>3, <4>4, <4>5, Zenon DEF Sessioned
    <3>8. Cached(e)
      BY <2>4, <2>8, <3>1, Zenon DEF Cached, Provides
    <3> QED
      BY <3>3, <3>4, <3>5, <3>6, <3>7, <3>8, Zenon DEF Local
  <2>11. Fits(s, e)
    BY <2>8, <2>9, <2>10, Zenon DEF Fits, b
  <2>12. Q(e) = Q(d) /\ Own(s, e) = Own(s, b) /\ Own(s, d) = Own(s, b) /\ Own(Peer(s), e) = Own(Peer(s), b)
         /\ Held(e) = Held(b)
    BY <2>4, <2>8, Zenon DEF Q, Own, KeysSame, Held
  <2>13. Output(s, b, e)
    BY <2>6, <2>12, Zenon DEF Output
  <2>14. ssl' = [ssl EXCEPT ![s] = e]
    BY Zenon DEF e
  <2> QED
    BY <2>11, <2>12, <2>13, <2>14, OutputStep, Zenon DEF b
<1>Goes1.
      ASSUME Running, NEW s \in Sides, NEW c, NEW st,
             ssl' = [ssl EXCEPT ![s] = To(c, st)], cfg' = cfg,
             Prepared(ssl[s], c), Passes(ssl[s].state, st), Provides(s, c, st),
             st \in Writing \/ ssl[s].state \notin Writing
      PROVE  Inv'
  <2> USE <1>Goes1
  <2>1. /\ ssl[s].reuse_message = NULL /\ ~ssl[s].keep
        /\ Local(cfg, s, ssl[s])
    BY Ends, Zenon DEF Passes
  <2>2. c.bbio = ssl[s].bbio
    BY IsField, Zenon DEF Prepared, Same
  <2>3. st \in Writing \/ c.bbio = <<>>
    BY <2>1, <2>2, Zenon DEF Local, Buffers
  <2> QED
    BY <2>1, <2>3, <1>SendGoes, Zenon DEF Passes
<1>WriteGoes.
      ASSUME Running, NEW s \in Sides, NEW c, NEW type, NEW body, NEW spill, NEW st,
             ssl' = [ssl EXCEPT ![s] = To(ssl3_do_write(c, type, body, spill), st)], cfg' = cfg,
             Ordinary(type, body),
             Prepared(ssl[s], c), Passes(ssl[s].state, st), Provides(s, c, st), st \in Writing
      PROVE  Inv'
  <2> USE <1>WriteGoes
  <2> DEFINE d == ssl3_do_write(c, type, body, spill)
             m == [type |-> type, body |-> body]
  <2>1. /\ ssl[s].reuse_message = NULL /\ ~ssl[s].keep
        /\ IsSequence(ssl[s].out) /\ IsSequence(ssl[s].bbio)
    BY Ends, Zenon DEF Passes
  <2>2. c.bbio = ssl[s].bbio /\ c.out = ssl[s].out /\ Base(c)
    BY IsField, Zenon DEF Prepared, Same
  <2>3. Wrote(c, d, m)
    BY <2>1, <2>2, WriteIs, Zenon
  <2>4. m.type \notin {"Finished", "ServerHelloDone"} /\ IsMessage(cfg, m)
    BY Zenon DEF Ordinary
  <2>5. ssl' = [ssl EXCEPT ![s] = To(d, st)]
    BY Zenon
  <2> HIDE DEF d, m
  <2> QED
    BY <2>1, <2>3, <2>4, <2>5, <1>SendGoes, Zenon DEF Passes
\* A message whose contents do not matter.
<1>PlainMessage.
      ASSUME NEW type, NEW body,
             type \notin {"ClientHello", "ServerHello", "NewSessionTicket", "Finished", "ServerHelloDone"}
      PROVE  Ordinary(type, body)
    BY <1>PlainMessage, Zenon DEF Ordinary, IsMessage
<1>CertReqPrepares.
      ASSUME NEW b, Base(b), NEW n \in 0..2
      PROVE  LET c == [b EXCEPT !.cert_req = n] IN Prepared(b, c) /\ c.cert_req = n /\ c.keep = b.keep
  <2> USE <1>CertReqPrepares
  <2> DEFINE c == [b EXCEPT !.cert_req = n]
  <2>1. Same(b, c, {"cert_req"}) /\ c.cert_req = n
    BY IsField, Zenon DEF Same, IsSSL, Base
  <2> HIDE DEF c
  <2>2. Base(c) /\ T(c) = T(b) /\ c.state = b.state /\ c.keep = b.keep
    BY <2>1, IsField, Zenon DEF Same, Base, T
  <2>3. Prepared(b, c)
    BY <2>1, <2>2, Zenon DEF Prepared, Same
  <2> QED
    BY <2>1, <2>2, <2>3, Zenon DEF c
<1>DigestPrepares.
      ASSUME NEW b, NEW c, Prepared(b, c), ~c.keep
      PROVE  /\ Prepared(b, DigestIfCached(c)) /\ DigestIfCached(c).cert_req = c.cert_req
             /\ DigestIfCached(c).state # "ERR" => DigestIfCached(c).handshake_buffer = NULL
             /\ Prepared(b, tls1_digest_cached_records(c))
  <2> USE <1>DigestPrepares
  <2>1. ASSUME NEW d, Same(c, d, {"handshake_buffer", "handshake_dgst", "state", "failed"}),
               Base(d), d.state \in {c.state, "ERR"}, c.state = "ERR" => d.state = "ERR",
               d.state # "ERR" => T(d) = T(c)
        PROVE  Prepared(b, d) /\ d.cert_req = c.cert_req
    <3>1. d.cert_req = c.cert_req
      BY <2>1, IsField, Zenon DEF Same
    <3>2. Same(b, d, {"cert_req", "handshake_buffer", "handshake_dgst", "state", "failed"})
      BY <2>1, Zenon DEF Same, Prepared
    <3>3. d.state \in {b.state, "ERR"} /\ (d.state # "ERR" => T(d) = T(b))
      BY <2>1, Zenon DEF Prepared
    <3> QED
      BY <2>1, <3>1, <3>2, <3>3, Zenon DEF Prepared
  <2>2. Base(c)
    BY Zenon DEF Prepared
  <2> DEFINE d == DigestIfCached(c)
             e == tls1_digest_cached_records(c)
  <2>3. /\ Prepared(b, d) /\ d.cert_req = c.cert_req
        /\ d.state # "ERR" => d.handshake_buffer = NULL
    <3>1. /\ Same(c, d, {"handshake_buffer", "handshake_dgst", "state", "failed"})
          /\ Base(d) /\ d.state \in {c.state, "ERR"} /\ (c.state = "ERR" => d.state = "ERR")
          /\ d.state # "ERR" => T(d) = T(c) /\ d.handshake_buffer = NULL
      BY <2>2, DigestIfCachedIs, Zenon
    <3> HIDE DEF d
    <3> QED
      BY <2>1, <3>1, Zenon
  <2>4. Prepared(b, e)
    <3>1. /\ Same(c, e, {"handshake_buffer", "handshake_dgst", "state", "failed"})
          /\ Base(e) /\ e.state \in {c.state, "ERR"} /\ (c.state = "ERR" => e.state = "ERR")
          /\ e.state # "ERR" => T(e) = T(c)
      BY <2>2, DigestCachedIs, Zenon
    <3> HIDE DEF e
    <3> QED
      BY <2>1, <3>1, Zenon
  <2> QED
    BY <2>3, <2>4, Zenon
\* Giving up.
<1>FailStep.
      ASSUME Running, NEW s \in Sides, NEW why, cfg' = cfg,
             ssl' = [ssl EXCEPT ![s] = Fail(ssl[s], why)]
      PROVE  Inv'
  <2> USE <1>FailStep
  <2> DEFINE c == ssl[s]
             e == Fail(c, why)
  <2>1. Typed(c) /\ Base(c) /\ IsSSL(c) /\ (s = "server" => c.reuse_message = NULL)
    BY Ends, Zenon DEF Inv, TypeInv
  <2>2. Same(c, e, {"state", "failed"}) /\ e.state = "ERR" /\ Base(e)
    BY <2>1, FailIs, BaseFails, Zenon
  <2>3. ssl' = [ssl EXCEPT ![s] = e]
    BY Zenon
  <2> HIDE DEF c, e
  <2>4. e.keep = c.keep /\ e.reuse_message = c.reuse_message
    BY <2>2, IsField, Zenon DEF Same
  <2>5. Fits(s, e)
    BY <2>1, <2>2, <2>4, Zenon DEF Fits, Typed, States, FlushStates
  <2> QED
    BY <2>2, <2>3, <2>5, OutputStep, Zenon
<1>SkipServerCertificateKeeps.
      ASSUME SkipServerCertificate
      PROVE  Inv'
  <2> USE <1>SkipServerCertificateKeeps
  <2>1. /\ Running /\ "client" \in Sides /\ cfg' = cfg /\ ssl["client"].state = "CR_CERT"
        /\ ssl' = [ssl EXCEPT !["client"] = To(ssl["client"], "CR_KEY_EXCH")]
    BY Zenon DEF SkipServerCertificate, Step, Sides
  <2>2. Prepared(ssl["client"], ssl["client"])
    BY <2>1, Ends, Zenon
  <2>3. Passes("CR_CERT", "CR_KEY_EXCH") /\ "CR_CERT" \notin Writing
    BY Zenon DEF Passes, Goes, Offered, FlushStates, States, ReadStates, Start, Idle, Writing
  <2>4. Provides("client", ssl["client"], "CR_KEY_EXCH")
    BY Zenon DEF Provides
  <2> QED
    BY <2>1, <2>2, <2>3, <2>4, <1>Goes1, Zenon
<1>SendClientCertificateKeeps.
      ASSUME SendClientCertificate
      PROVE  Inv'
  <2> USE <1>SendClientCertificateKeeps
  <2> DEFINE b == ssl["client"]
             n == IF cfg.cert THEN 1 ELSE 2
             c == [b EXCEPT !.cert_req = n]
  <2>1. PICK spill \in Spills("client") :
          /\ Running /\ cfg' = cfg /\ b.state = "CW_CERT"
          /\ ssl' = [ssl EXCEPT !["client"] =
                        To(ssl3_do_write(c, "Certificate", cfg.cert, spill), "CW_KEY_EXCH")]
    BY Zenon DEF SendClientCertificate, Step
  <2>2. "client" \in Sides /\ n \in 0..2
    BY DEF Sides
  <2>3. Prepared(b, c)
    BY <2>1, <2>2, Ends, <1>CertReqPrepares, Zenon
  <2>4. Passes("CW_CERT", "CW_KEY_EXCH") /\ "CW_KEY_EXCH" \in Writing
    BY Zenon DEF Passes, Goes, Offered, Answered, FlushStates, States, Start, Idle, Writing
  <2>5. Provides("client", c, "CW_KEY_EXCH")
    BY Zenon DEF Provides
  <2>6. Ordinary("Certificate", cfg.cert)
    BY <1>PlainMessage
  <2> HIDE DEF c
  <2> QED
    BY <2>1, <2>2, <2>3, <2>4, <2>5, <2>6, <1>WriteGoes, Zenon
<1>SendClientVerifyKeeps.
      ASSUME SendClientVerify
      PROVE  Inv'
  <2> USE <1>SendClientVerifyKeeps
  <2> DEFINE b == ssl["client"]
  <2>1. PICK spill \in Spills("client") :
          /\ Running /\ cfg' = cfg /\ b.state = "CW_CERT_VRFY"
          /\ ssl' = [ssl EXCEPT !["client"] = To(ssl3_send_client_verify(b, spill), "CW_CHANGE")]
    BY Zenon DEF SendClientVerify, Step
  <2>2. "client" \in Sides
    BY Zenon DEF Sides
  <2>3. Prepared(b, b) /\ ~b.keep
    BY <2>1, <2>2, Ends, Zenon
  <2>4. PICK c, md :
          /\ ssl3_send_client_verify(b, spill) = ssl3_do_write(c, "CertificateVerify", md, spill)
          /\ c \in {DigestIfCached(b), tls1_digest_cached_records(b)}
    BY Zenon DEF ssl3_send_client_verify
  <2>5. Prepared(b, c)
    BY <2>3, <2>4, <1>DigestPrepares, Zenon
  <2>6. Passes("CW_CERT_VRFY", "CW_CHANGE") /\ "CW_CHANGE" \in Writing
    BY Zenon DEF Passes, Goes, Offered, Answered, FlushStates, States, Start, Idle, Writing
  <2>7. Provides("client", c, "CW_CHANGE")
    BY Zenon DEF Provides
  <2>8. Ordinary("CertificateVerify", md)
    BY <1>PlainMessage
  <2> QED
    BY <2>1, <2>2, <2>4, <2>5, <2>6, <2>7, <2>8, <1>WriteGoes, Zenon
<1>SendNextProtoKeeps.
      ASSUME SendNextProto
      PROVE  Inv'
  <2> USE <1>SendNextProtoKeeps
  <2> DEFINE b == ssl["client"]
  <2>1. PICK spill \in Spills("client") :
          /\ Running /\ cfg' = cfg /\ b.state = "CW_NEXT_PROTO"
          /\ ssl' = [ssl EXCEPT !["client"] =
                        To(ssl3_do_write(b, "NextProto", NULL, spill), "CW_FINISHED")]
    BY Zenon DEF SendNextProto, Step
  <2>2. "client" \in Sides
    BY Zenon DEF Sides
  <2>3. Prepared(b, b)
    BY <2>1, <2>2, Ends, Zenon
  <2>4. Passes("CW_NEXT_PROTO", "CW_FINISHED") /\ "CW_FINISHED" \in Writing
    BY Zenon DEF Passes, Goes, Offered, Answered, FlushStates, States, Start, Idle, Writing
  <2>5. Provides("client", b, "CW_FINISHED")
    BY Zenon DEF Provides
  <2>6. Ordinary("NextProto", NULL)
    BY <1>PlainMessage
  <2> QED
    BY <2>1, <2>2, <2>3, <2>4, <2>5, <2>6, <1>WriteGoes, Zenon
<1>SendServerCertificateKeeps.
      ASSUME SendServerCertificate
      PROVE  Inv'
  <2> USE <1>SendServerCertificateKeeps
  <2> DEFINE b == ssl["server"]
  <2>1. PICK spill \in Spills("server"), st \in {"SW_CERT_STATUS", "SW_KEY_EXCH"} :
          /\ Running /\ cfg' = cfg /\ b.state = "SW_CERT"
          /\ \/ ssl' = [ssl EXCEPT !["server"] = To(b, st)]
             \/ ssl' = [ssl EXCEPT !["server"] =
                           To(ssl3_do_write(b, "Certificate", NULL, spill), st)]
    BY Zenon DEF SendServerCertificate, Step
  <2>2. "server" \in Sides
    BY Zenon DEF Sides
  <2>3. Prepared(b, b)
    BY <2>1, <2>2, Ends, Zenon
  <2>4. Passes("SW_CERT", st) /\ st \in Writing /\ Provides("server", b, st)
    BY Zenon DEF Passes, Goes, Offered, Answered, FlushStates, States, Start, Idle, Writing, Provides, Ending
  <2>5. Ordinary("Certificate", NULL)
    BY <1>PlainMessage
  <2>6. CASE ssl' = [ssl EXCEPT !["server"] = To(b, st)]
    BY <2>1, <2>2, <2>3, <2>4, <2>6, <1>Goes1, Zenon
  <2>7. CASE ssl' = [ssl EXCEPT !["server"] =
                        To(ssl3_do_write(b, "Certificate", NULL, spill), st)]
    BY <2>1, <2>2, <2>3, <2>4, <2>5, <2>7, <1>WriteGoes, Zenon
  <2> QED
    BY <2>1, <2>6, <2>7, Zenon
<1>SendCertStatusKeeps.
      ASSUME SendCertStatus
      PROVE  Inv'
  <2> USE <1>SendCertStatusKeeps
  <2> DEFINE b == ssl["server"]
  <2>1. PICK spill \in Spills("server") :
          /\ Running /\ cfg' = cfg /\ b.state = "SW_CERT_STATUS"
          /\ ssl' = [ssl EXCEPT !["server"] =
                        To(ssl3_do_write(b, "CertificateStatus", NULL, spill), "SW_KEY_EXCH")]
    BY Zenon DEF SendCertStatus, Step
  <2>2. "server" \in Sides
    BY Zenon DEF Sides
  <2>3. Prepared(b, b)
    BY <2>1, <2>2, Ends, Zenon
  <2>4. Passes("SW_CERT_STATUS", "SW_KEY_EXCH") /\ "SW_KEY_EXCH" \in Writing
    BY Zenon DEF Passes, Goes, Offered, Answered, FlushStates, States, Start, Idle, Writing
  <2>5. Provides("server", b, "SW_KEY_EXCH")
    BY Zenon DEF Provides, Ending
  <2>6. Ordinary("CertificateStatus", NULL)
    BY <1>PlainMessage
  <2> QED
    BY <2>1, <2>2, <2>3, <2>4, <2>5, <2>6, <1>WriteGoes, Zenon
<1>SendServerKeyExchangeKeeps.
      ASSUME SendServerKeyExchange
      PROVE  Inv'
  <2> USE <1>SendServerKeyExchangeKeeps
  <2> DEFINE b == ssl["server"]
  <2>1. PICK spill \in Spills("server") :
          /\ Running /\ cfg' = cfg /\ b.state = "SW_KEY_EXCH"
          /\ \/ ssl' = [ssl EXCEPT !["server"] = To(b, "SW_CERT_REQ")]
             \/ ssl' = [ssl EXCEPT !["server"] =
                           To(ssl3_do_write(b, "ServerKeyExchange", NULL, spill), "SW_CERT_REQ")]
    BY Zenon DEF SendServerKeyExchange, Step
  <2>2. "server" \in Sides
    BY Zenon DEF Sides
  <2>3. Prepared(b, b)
    BY <2>1, <2>2, Ends, Zenon
  <2>4. /\ Passes("SW_KEY_EXCH", "SW_CERT_REQ") /\ "SW_CERT_REQ" \in Writing
        /\ Provides("server", b, "SW_CERT_REQ")
    BY Zenon DEF Passes, Goes, Offered, Answered, FlushStates, States, Start, Idle, Writing, Provides, Ending
  <2>5. Ordinary("ServerKeyExchange", NULL)
    BY <1>PlainMessage
  <2>6. CASE ssl' = [ssl EXCEPT !["server"] = To(b, "SW_CERT_REQ")]
    BY <2>1, <2>2, <2>3, <2>4, <2>6, <1>Goes1, Zenon
  <2>7. CASE ssl' = [ssl EXCEPT !["server"] =
                        To(ssl3_do_write(b, "ServerKeyExchange", NULL, spill), "SW_CERT_REQ")]
    BY <2>1, <2>2, <2>3, <2>4, <2>5, <2>7, <1>WriteGoes, Zenon
  <2> QED
    BY <2>1, <2>6, <2>7, Zenon
<1>SendCertificateRequestKeeps.
      ASSUME SendCertificateRequest
      PROVE  Inv'
  <2> USE <1>SendCertificateRequestKeeps
  <2> DEFINE b == ssl["server"]
             none == [b EXCEPT !.cert_req = 0]
             one == [b EXCEPT !.cert_req = 1]
             d == DigestIfCached(none)
  <2>1. PICK spill \in Spills("server") :
          /\ Running /\ cfg' = cfg /\ b.state = "SW_CERT_REQ"
          /\ \/ WantsNoCertificate(b) /\ ssl' = [ssl EXCEPT !["server"] = To(d, "SW_SRVR_DONE")]
             \/ ssl' = [ssl EXCEPT !["server"] =
                           To(ssl3_do_write(one, "CertificateRequest", NULL, spill), "SW_SRVR_DONE")]
    BY Zenon DEF SendCertificateRequest, Step
  <2>2. "server" \in Sides
    BY Zenon DEF Sides
  <2>3. Base(b) /\ ~b.keep
    BY <2>1, <2>2, Ends, Zenon
  <2>4. Prepared(b, none) /\ ~none.keep /\ Prepared(b, one) /\ one.cert_req = 1
    <3>1. 0 \in 0..2 /\ 1 \in 0..2
      OBVIOUS
    <3>2. Prepared(b, none) /\ none.keep = b.keep
      BY <2>3, <3>1, <1>CertReqPrepares, Zenon
    <3>3. Prepared(b, one) /\ one.cert_req = 1
      BY <2>3, <3>1, <1>CertReqPrepares, Zenon
    <3> QED
      BY <2>3, <3>2, <3>3, Zenon
  <2> HIDE DEF none
  <2>5. Prepared(b, d) /\ (d.state # "ERR" => d.handshake_buffer = NULL)
    BY <2>4, <1>DigestPrepares, Zenon
  <2>6. /\ Passes("SW_CERT_REQ", "SW_SRVR_DONE") /\ "SW_SRVR_DONE" \in Writing
        /\ "SW_SRVR_DONE" \notin Ending \cup {"SR_KEY_EXCH"}
    BY Zenon DEF Passes, Goes, Offered, Answered, FlushStates, States, Start, Idle, Writing, Ending
  <2>7. Ordinary("CertificateRequest", NULL)
    BY <1>PlainMessage
  <2>8. CASE WantsNoCertificate(b) /\ ssl' = [ssl EXCEPT !["server"] = To(d, "SW_SRVR_DONE")]
    <3> HIDE DEF d
    <3>1. ~Strict(cfg)
      BY <2>8, Zenon DEF WantsNoCertificate, Strict
    <3>2. Provides("server", d, "SW_SRVR_DONE")
      BY <2>5, <2>6, <3>1, Zenon DEF Provides
    <3> QED
      BY <2>1, <2>2, <2>5, <2>6, <2>8, <3>2, <1>Goes1, Zenon
  <2>9. CASE ssl' = [ssl EXCEPT !["server"] =
                        To(ssl3_do_write(one, "CertificateRequest", NULL, spill), "SW_SRVR_DONE")]
    <3> HIDE DEF one
    <3>1. Provides("server", one, "SW_SRVR_DONE")
      BY <2>4, <2>6 DEF Provides
    <3> QED
      BY <2>1, <2>2, <2>4, <2>6, <2>7, <2>9, <3>1, <1>WriteGoes, Zenon
  <2> QED
    BY <2>1, <2>8, <2>9, Zenon
<1>SkipClientCertificateKeeps.
      ASSUME SkipClientCertificate
      PROVE  Inv'
  <2> USE <1>SkipClientCertificateKeeps
  <2> DEFINE b == ssl["server"]
  <2>1. /\ Running /\ "server" \in Sides /\ cfg' = cfg /\ b.state = "SR_CERT" /\ b.cert_req = 0
        /\ ssl' = [ssl EXCEPT !["server"] = To(b, "SR_KEY_EXCH")]
    BY Zenon DEF SkipClientCertificate, Skips, Step, Sides
  <2>2. Prepared(b, b) /\ Local(cfg, "server", b)
    BY <2>1, Ends, Zenon
  <2>3. Passes("SR_CERT", "SR_KEY_EXCH") /\ "SR_CERT" \notin Writing
    BY Zenon DEF Passes, Goes, Offered, Answered, FlushStates, States, ReadStates, Start, Idle, Writing
  <2>4. Resumes(cfg, b.session)
    BY <2>1, <2>2, Zenon DEF Local, Sessioned, Resumes, At, FlushStates, Start, Opening
  <2>6. b.handshake_buffer = NULL
    BY <2>1, <2>2, Zenon DEF Local, Cached, At, FlushStates
  <2>5. Provides("server", b, "SR_KEY_EXCH")
    BY <2>4, <2>6, Zenon DEF Provides
  <2> QED
    BY <2>1, <2>2, <2>3, <2>5, <1>Goes1, Zenon
<1>SendNewSessionTicketKeeps.
      ASSUME SendNewSessionTicket
      PROVE  Inv'
  <2> USE <1>SendNewSessionTicketKeeps
  <2> DEFINE b == ssl["server"]
             body == [hash |-> <<"ticket", b.random>>, session |-> b.session]
  <2>1. PICK spill \in Spills("server") :
          /\ Running /\ cfg' = cfg /\ b.state = "SW_SESSION_TICKET"
          /\ \/ ssl' = [ssl EXCEPT !["server"] = Fail(b, "no cipher in the ticket")]
             \/ ssl' = [ssl EXCEPT !["server"] =
                           To(ssl3_do_write(b, "NewSessionTicket", body, spill), "SW_CHANGE")]
    BY Zenon DEF SendNewSessionTicket, Step
  <2>2. "server" \in Sides
    BY Zenon DEF Sides
  <2>3. Prepared(b, b) /\ Local(cfg, "server", b)
    BY <2>1, <2>2, Ends, Zenon
  <2>4. Resumes(cfg, b.session)
    BY <2>1, <2>3, Zenon DEF Local, Sessioned, At, FlushStates, Ending
  <2>5. Passes("SW_SESSION_TICKET", "SW_CHANGE") /\ "SW_CHANGE" \in Writing
    BY Zenon DEF Passes, Goes, Offered, Answered, FlushStates, States, Start, Idle, Writing
  <2>6. Provides("server", b, "SW_CHANGE")
    BY <2>4, Zenon DEF Provides
  <2>7. Ordinary("NewSessionTicket", body)
    BY <2>4, Zenon DEF Ordinary, IsMessage
  <2>8. CASE ssl' = [ssl EXCEPT !["server"] = Fail(b, "no cipher in the ticket")]
    BY <2>1, <2>2, <2>8, <1>FailStep, Zenon
  <2>9. CASE ssl' = [ssl EXCEPT !["server"] =
                        To(ssl3_do_write(b, "NewSessionTicket", body, spill), "SW_CHANGE")]
    <3> HIDE DEF body
    <3> QED
      BY <2>1, <2>2, <2>3, <2>5, <2>6, <2>7, <2>9, <1>WriteGoes, Zenon
  <2> QED
    BY <2>1, <2>8, <2>9, Zenon
<1> QED
  BY <1>SkipServerCertificateKeeps, <1>SendClientCertificateKeeps,
     <1>SendClientVerifyKeeps, <1>SendNextProtoKeeps, <1>SendServerCertificateKeeps,
     <1>SendCertStatusKeeps, <1>SendServerKeyExchangeKeeps,
     <1>SendCertificateRequestKeeps, <1>SkipClientCertificateKeeps,
     <1>SendNewSessionTicketKeeps, Zenon

\* The fields of a session that the handshake sets.
LEMMA SetField ==
    ASSUME NEW c, IsSSL(c), IsSession(c.session), NEW x, NEW f \in {"master", "cipher", "peer"}
    PROVE  LET d == [c EXCEPT !.session = [c.session EXCEPT ![f] = x]]
           IN  /\ Same(c, d, {"session"}) /\ IsSession(d.session)
               /\ d.session[f] = x /\ d.session.tick = c.session.tick
               /\ \A g \in {"master", "cipher", "peer"} : g # f => d.session[g] = c.session[g]
<1> DEFINE y == [c.session EXCEPT ![f] = x]
           d == [c EXCEPT !.session = y]
<1>1. /\ "master" \in DOMAIN c.session /\ "cipher" \in DOMAIN c.session /\ "peer" \in DOMAIN c.session
      /\ "tick" \in DOMAIN c.session
  BY Zenon DEF IsSession, SessionFields
<1>2. /\ IsSession(y) /\ y[f] = x /\ y.tick = c.session.tick
      /\ \A g \in {"master", "cipher", "peer"} : g # f => y[g] = c.session[g]
  BY <1>1, Zenon DEF IsSession
<1> HIDE DEF y
<1>3. Same(c, d, {"session"}) /\ d.session = y
  BY IsField, Zenon DEF Same, IsSSL
<1> QED
  BY <1>2, <1>3, Zenon DEF y

\* The master secret.
LEMMA SetMaster ==
    ASSUME NEW c, IsSSL(c), IsSession(c.session), NEW x
    PROVE  LET d == [c EXCEPT !.session.master = x]
           IN  /\ Same(c, d, {"session"}) /\ IsSession(d.session)
               /\ d.session.master = x /\ d.session.cipher = c.session.cipher
               /\ d.session.peer = c.session.peer /\ d.session.tick = c.session.tick
<1> DEFINE d == [c EXCEPT !.session = [c.session EXCEPT !["master"] = x]]
<1>1. [c EXCEPT !.session.master = x] = d
  BY Zenon
<1>2. /\ Same(c, d, {"session"}) /\ IsSession(d.session)
      /\ d.session["master"] = x /\ d.session.tick = c.session.tick
      /\ \A g \in {"master", "cipher", "peer"} : g # "master" => d.session[g] = c.session[g]
  BY SetField, ZenonT(60)
<1> HIDE DEF d
<1> QED
  BY <1>1, <1>2, Zenon

\* The cipher (s->session->cipher = s->s3->tmp.new_cipher).
LEMMA SetCipher ==
    ASSUME NEW c, IsSSL(c), IsSession(c.session), NEW x
    PROVE  LET d == [c EXCEPT !.session.cipher = x]
           IN  /\ Same(c, d, {"session"}) /\ IsSession(d.session)
               /\ d.session.cipher = x /\ d.session.master = c.session.master
               /\ d.session.peer = c.session.peer /\ d.session.tick = c.session.tick
<1> DEFINE d == [c EXCEPT !.session = [c.session EXCEPT !["cipher"] = x]]
<1>1. [c EXCEPT !.session.cipher = x] = d
  BY Zenon
<1>2. /\ Same(c, d, {"session"}) /\ IsSession(d.session)
      /\ d.session["cipher"] = x /\ d.session.tick = c.session.tick
      /\ \A g \in {"master", "cipher", "peer"} : g # "cipher" => d.session[g] = c.session[g]
  BY SetField, ZenonT(60)
<1> HIDE DEF d
<1> QED
  BY <1>1, <1>2, Zenon

\* The certificate of the peer.
LEMMA SetPeer ==
    ASSUME NEW c, IsSSL(c), IsSession(c.session), NEW x
    PROVE  LET d == [c EXCEPT !.session.peer = x]
           IN  /\ Same(c, d, {"session"}) /\ IsSession(d.session)
               /\ d.session.peer = x /\ d.session.tick = c.session.tick
<1> DEFINE d == [c EXCEPT !.session = [c.session EXCEPT !["peer"] = x]]
<1>1. [c EXCEPT !.session.peer = x] = d
  BY Zenon
<1>2. /\ Same(c, d, {"session"}) /\ IsSession(d.session)
      /\ d.session["peer"] = x /\ d.session.tick = c.session.tick
      /\ \A g \in {"master", "cipher", "peer"} : g # "peer" => d.session[g] = c.session[g]
  BY SetField, ZenonT(60)
<1> HIDE DEF d
<1> QED
  BY <1>1, <1>2, Zenon

\* The messages after which an end has the randoms, has digested what it held
\* back, or has the master secret.
LEMMA KeyingSendsKeep ==
    ASSUME NullApart, Inv,
           \/ SendServerHello \/ SendServerDone \/ SendClientKeyExchange
    PROVE  Inv'
\* What goes out with a message.
<1>WroteOutput.
      ASSUME NEW s, NEW b, NEW c, NEW d, NEW e, NEW m, Wrote(c, d, m), IsMessage(cfg, m),
             Q(c) = Q(b), Q(e) = Q(d),
             Own(s, e) = IF m.type = "Finished" THEN m.body ELSE Own(s, b)
      PROVE  Output(s, b, e)
  <2> USE <1>WroteOutput
  <2>1. PICK rec : rec.type = "handshake" /\ rec.msg = m /\ Q(d) = Append(Q(c), rec)
    BY Zenon DEF Wrote
  <2> QED
    BY <2>1, Zenon DEF Output, IsFinished
<1>SendServerHelloKeeps.
      ASSUME SendServerHello
      PROVE  Inv'
  <2> USE <1>SendServerHelloKeeps
  <2> DEFINE b == ssl["server"]
             body == [id |-> b.session.id, cipher |-> b.new_cipher, ticket |-> b.ticket_expected,
                      status |-> b.status_expected, npn |-> b.next_proto_neg_seen,
                      binding |-> <<b.previous_client_finished, b.previous_server_finished>>]
             m == [type |-> "ServerHello", body |-> body]
             st == IF ~b.hit THEN "SW_CERT"
                   ELSE IF b.ticket_expected THEN "SW_SESSION_TICKET" ELSE "SW_CHANGE"
  <2>1. PICK spill \in Spills("server") :
          /\ Running /\ cfg' = cfg /\ b.state = "SW_SRVR_HELLO"
          /\ ssl' = [ssl EXCEPT !["server"] =
                        To(ssl3_do_write(b, "ServerHello", body, spill), st)]
    BY Zenon DEF SendServerHello, Step
  <2>2. "server" \in Sides
    BY Zenon DEF Sides
  <2>3. /\ Typed(b) /\ Base(b) /\ IsSSL(b) /\ Local(cfg, "server", b) /\ ~b.keep /\ b.reuse_message = NULL
        /\ IsSequence(b.out) /\ IsSequence(b.bbio)
    BY <2>1, <2>2, Ends, Zenon
  <2>4. IsMessage(cfg, m) /\ m.type = "ServerHello" /\ m.body.cipher = b.new_cipher
    BY Zenon DEF IsMessage
  <2> DEFINE d == ssl3_do_write(b, "ServerHello", body, spill)
             e == To(d, st)
  <2>5. Wrote(b, d, m)
    BY <2>3, WriteIs, Zenon
  <2> HIDE DEF d, m, body
  <2>6. IsSSL(d) /\ Base(d) /\ d.state \in {b.state, "ERR"}
    BY <2>5, Zenon DEF Wrote, Same
  <2>7. /\ Same(d, e, {"state"}) /\ e.state = (IF d.state = "ERR" THEN "ERR" ELSE st)
        /\ Base(e) /\ T(e) = T(d)
    BY <2>6, ToIs, BaseFails, Zenon
  <2>8. ssl' = [ssl EXCEPT !["server"] = e]
    BY <2>1, Zenon DEF d
  <2> HIDE DEF e
  <2>9. /\ KeysSame(b, e) /\ e.out = d.out /\ e.bbio = d.bbio /\ e.keep = b.keep
        /\ e.reuse_message = b.reuse_message /\ e.cache = b.cache /\ e.ccs_ok = b.ccs_ok
    BY <2>5, <2>7, IsField, Zenon DEF Wrote, Same, KeysSame
  <2>10. st \in {"SW_CERT", "SW_SESSION_TICKET", "SW_CHANGE"} /\ (st = "SW_CERT" <=> ~b.hit)
    BY Zenon
  <2> HIDE DEF st, b
  <2>11. Typed(e)
    BY <2>3, <2>7, <2>9, <2>10, Zenon DEF Typed, States, FlushStates
  <2>12. ASSUME e.state # "ERR" PROVE Local(cfg, "server", e)
    <3>1. e.state = st /\ At(e) = st /\ At(b) = "SW_SRVR_HELLO" /\ d.state # "ERR"
      BY <2>1, <2>7, <2>10, <2>12, Zenon DEF At, FlushStates
    <3>2. Digests(e)
      <4>1. /\ IsSequence(T(b)) /\ Len(T(b)) = 1
            /\ T(b)[1].type = "ClientHello" /\ T(b)[1].body.random = b.random
        BY <2>3, <3>1, Zenon DEF Local, Digests, Helloed
      <4>2. T(e) = Append(T(b), Digested(m))
        BY <2>5, <2>7, <3>1, Zenon DEF Wrote
      <4>3. Digested(m).type = "ServerHello" /\ Digested(m).body.cipher = b.new_cipher
        BY <2>4, DigestedIs, Zenon
      <4>4. /\ IsSequence(T(e)) /\ Len(T(e)) = 2 /\ T(e)[1] = T(b)[1] /\ T(e)[2] = Digested(m)
        BY <4>1, <4>2, AppendedSecond
      <4>5. Begins(T(e), e.random, e.new_cipher) /\ ~HasDone(T(e))
        BY <2>9, <4>1, <4>3, <4>4 DEF Begins, HasDone, KeysSame
      <4>6. st \notin Opening \cup Helloed \cup Answered
        BY <2>10, Zenon DEF Opening, Helloed, Answered
      <4>7. st \in Ending => b.hit
        BY <2>10, Zenon DEF Ending
      <4> QED
        BY <2>9, <3>1, <4>5, <4>6, <4>7, Zenon DEF Digests, KeysSame
    <3>3. Waiting(e)
      BY <2>3, <2>9, Zenon DEF Waiting
    <3>4. Keys("server", e)
      <4>1. ~b.ccs_ok /\ ~b.change_cipher_spec /\ b.key_block = NULL
        BY <2>3, <3>1, Zenon DEF Local, Keys, Early, Helloed
      <4>2. /\ ~Got(e) /\ ~Sent(e) /\ ~Changed(e) /\ st \notin Start \cup Idle
            /\ st \in Offered \cup Answered => ~b.hit
        BY <2>9, <2>10, <3>1, Zenon DEF Got, Sent, Changed, Start, Idle, KeysSame, Offered, Answered
      <4> QED
        BY <2>9, <3>1, <4>1, <4>2, Zenon DEF Keys, KeysSame
    <3>5. Buffers(e)
      BY <2>5, <2>9, <2>10, <3>1, Zenon DEF Buffers, Wrote, Writing
    <3>6. Sessioned(cfg, "server", e)
      <4>1. st \notin Start \cup Opening \cup Helloed \cup Idle \cup {"SR_KEY_EXCH", "SR_CERT_VRFY",
                          "SW_SRVR_DONE", "SR_CERT"} /\ (st \in Ending => b.hit)
        BY <2>10, Zenon DEF Start, Opening, Helloed, Idle, Ending
      <4>2. "SW_SRVR_HELLO" \in Helloed /\ b.state \notin Start \cup Opening
        BY <2>1, Zenon DEF Helloed, Start, Opening
      <4> QED
        BY <2>3, <2>9, <3>1, <4>1, <4>2, Zenon DEF Local, Sessioned, KeysSame
    <3>7. Cached(e)
      BY <2>10, <3>1, Zenon DEF Cached
    <3> QED
      BY <3>2, <3>3, <3>4, <3>5, <3>6, <3>7, Zenon DEF Local
  <2>13. Fits("server", e)
    BY <2>3, <2>9, <2>11, <2>12, Zenon DEF Fits
  <2>14. Q(e) = Q(d) /\ \A s : Own(s, e) = Own(s, b)
    BY <2>9, Zenon DEF Q, Own, KeysSame
  <2>15. Output("server", b, e) /\ (Held(b) => Held(e))
    BY <2>3, <2>4, <2>5, <2>14, <1>WroteOutput, Zenon DEF Held
  <2> QED
    BY <2>1, <2>2, <2>8, <2>13, <2>14, <2>15, OutputStep, Zenon DEF b
<1>SendServerDoneKeeps.
      ASSUME SendServerDone
      PROVE  Inv'
  <2> USE <1>SendServerDoneKeeps
  <2> DEFINE b == ssl["server"]
             m == [type |-> "ServerHelloDone", body |-> NULL]
  <2>1. PICK spill \in Spills("server") :
          /\ Running /\ cfg' = cfg /\ b.state = "SW_SRVR_DONE"
          /\ ssl' = [ssl EXCEPT !["server"] =
                        To([ssl3_do_write(b, "ServerHelloDone", NULL, spill)
                               EXCEPT !.next_state = "SR_CERT"], "SW_FLUSH")]
    BY Zenon DEF SendServerDone, Step
  <2>2. "server" \in Sides
    BY Zenon DEF Sides
  <2>3. /\ Typed(b) /\ Base(b) /\ IsSSL(b) /\ Local(cfg, "server", b) /\ ~b.keep /\ b.reuse_message = NULL
        /\ IsSequence(b.out) /\ IsSequence(b.bbio)
    BY <2>1, <2>2, Ends, Zenon
  <2>4. IsMessage(cfg, m) /\ m.type = "ServerHelloDone"
    BY Zenon DEF IsMessage
  <2> DEFINE w == ssl3_do_write(b, "ServerHelloDone", NULL, spill)
             d == [w EXCEPT !.next_state = "SR_CERT"]
             e == To(d, "SW_FLUSH")
  <2>5. Wrote(b, w, m)
    BY <2>3, WriteIs, Zenon
  <2> HIDE DEF w, m
  <2>6. IsSSL(w) /\ Base(w) /\ w.state \in {b.state, "ERR"}
    BY <2>5, Zenon DEF Wrote, Same
  <2>7. Same(w, d, {"next_state"}) /\ d.next_state = "SR_CERT"
    BY <2>6, IsField, Zenon DEF Same, IsSSL
  <2> HIDE DEF d
  <2>8. Base(d) /\ T(d) = T(w) /\ d.state = w.state /\ IsSSL(d)
    BY <2>6, <2>7, IsField, BaseStays, Zenon DEF Same, SameBase
  <2>9. /\ Same(d, e, {"state"}) /\ e.state = (IF d.state = "ERR" THEN "ERR" ELSE "SW_FLUSH")
        /\ Base(e) /\ T(e) = T(d)
    BY <2>8, ToIs, BaseFails, Zenon
  <2>10. ssl' = [ssl EXCEPT !["server"] = e]
    BY <2>1, Zenon DEF w, d
  <2> HIDE DEF e
  <2>11. /\ KeysSame(b, e) /\ e.out = w.out /\ e.bbio = w.bbio /\ e.keep = b.keep
         /\ e.reuse_message = b.reuse_message /\ e.cache = b.cache /\ e.cert_req = b.cert_req
         /\ e.next_state = "SR_CERT" /\ e.ccs_ok = b.ccs_ok
         /\ e.handshake_buffer = w.handshake_buffer
    BY <2>5, <2>7, <2>9, IsField DEF Wrote, Same, KeysSame
  <2> HIDE DEF b
  <2>12. Typed(e)
    BY <2>3, <2>9, <2>11, Zenon DEF Typed, States, FlushStates, NextStates
  <2>13. ASSUME e.state # "ERR" PROVE Local(cfg, "server", e)
    <3>1. e.state = "SW_FLUSH" /\ At(e) = "SR_CERT" /\ At(b) = "SW_SRVR_DONE" /\ w.state # "ERR"
      BY <2>1, <2>8, <2>9, <2>11, <2>13, Zenon DEF At, FlushStates
    <3>2. /\ Goes("SW_SRVR_DONE", "SR_CERT") /\ "SW_SRVR_DONE" \in Offered
          /\ "SW_FLUSH" \notin Start \cup Idle
      BY Zenon DEF Goes, Offered, Answered, Start, Idle
    <3>3. Digests(b) /\ Keys("server", b) /\ ~b.hit
      BY <2>3, <3>1, <3>2, Zenon DEF Local, Keys
    <3>4. T(e) = Append(T(b), Digested(m)) /\ IsSequence(T(b))
      BY <2>5, <2>8, <2>9, <3>1, Zenon DEF Wrote
    <3>5. Digested(m).type = "ServerHelloDone"
      BY <2>4, DigestedIs, Zenon
    <3>6. HasDone(T(e)) /\ ~e.hit
      BY <2>11, <3>3, <3>4, <3>5, BeginsOn, Zenon DEF KeysSame
    <3>7. Digests(e)
      BY <2>11, <3>1, <3>2, <3>3, <3>4, <3>6, DigestsGo, Zenon
    <3>8. Keys("server", e)
      BY <2>11, <3>1, <3>2, <3>3, KeysGo, Zenon
    <3>9. Waiting(e)
      BY <2>3, <2>11, Zenon DEF Waiting
    <3>10. Buffers(e)
      BY <2>5, <2>11, <3>1, Zenon DEF Buffers, Wrote, Writing
    <3>11. Sessioned(cfg, "server", e)
      BY <2>1, <2>3, <2>11, <3>1, Zenon DEF Local, Sessioned, KeysSame, Start, Opening, Helloed, Idle, Ending
    <3>12. Cached(e)
      BY <2>3, <2>5, <2>11, <3>1, Zenon DEF Local, Cached, Wrote
    <3> QED
      BY <3>7, <3>8, <3>9, <3>10, <3>11, <3>12, Zenon DEF Local
  <2>14. Fits("server", e)
    BY <2>3, <2>11, <2>12, <2>13, Zenon DEF Fits
  <2>15. Q(e) = Q(w) /\ \A s : Own(s, e) = Own(s, b)
    BY <2>11, Zenon DEF Q, Own, KeysSame
  <2>16. Output("server", b, e) /\ (Held(b) => Held(e))
    BY <2>3, <2>4, <2>5, <2>15, <1>WroteOutput, Zenon DEF Held
  <2> QED
    BY <2>1, <2>2, <2>10, <2>14, <2>15, <2>16, OutputStep, Zenon DEF b
<1>SendClientKeyExchangeKeeps.
      ASSUME SendClientKeyExchange
      PROVE  Inv'
  <2> USE <1>SendClientKeyExchangeKeeps
  <2> DEFINE b == ssl["client"]
             m == [type |-> "ClientKeyExchange", body |-> b.random]
             st == IF b.cert_req = 1 THEN "CW_CERT_VRFY" ELSE "CW_CHANGE"
  <2>1. PICK spill \in Spills("client") :
          /\ Running /\ cfg' = cfg /\ b.state = "CW_KEY_EXCH"
          /\ ssl' = [ssl EXCEPT !["client"] =
                        To([ssl3_do_write(b, "ClientKeyExchange", b.random, spill)
                               EXCEPT !.session.master = b.random], st)]
    BY Zenon DEF SendClientKeyExchange, Step
  <2>2. "client" \in Sides
    BY Zenon DEF Sides
  <2>3. /\ Typed(b) /\ Base(b) /\ IsSSL(b) /\ Local(cfg, "client", b) /\ ~b.keep /\ b.reuse_message = NULL
        /\ IsSequence(b.out) /\ IsSequence(b.bbio)
    BY <2>1, <2>2, Ends, Zenon
  <2>4. IsMessage(cfg, m) /\ m.type = "ClientKeyExchange"
    BY Zenon DEF IsMessage
  <2> DEFINE w == ssl3_do_write(b, "ClientKeyExchange", b.random, spill)
             d == [w EXCEPT !.session.master = b.random]
             e == To(d, st)
  <2>5. Wrote(b, w, m)
    BY <2>3, WriteIs, Zenon
  <2> HIDE DEF w, m
  <2>6. IsSSL(w) /\ Base(w) /\ w.state \in {b.state, "ERR"} /\ w.session = b.session
    BY <2>5, IsField, Zenon DEF Wrote, Same
  <2>7. IsSession(b.session) /\ (b.session.tick = NULL \/ Resumes(cfg, b.session.tick))
    BY <2>1, <2>3, Zenon DEF Local, Sessioned, Start, Opening
  <2>8. Same(w, d, {"session"}) /\ IsSession(d.session) /\ d.session.tick = w.session.tick
    BY <2>6, <2>7, SetMaster, Zenon
  <2> HIDE DEF d
  <2>9. Base(d) /\ T(d) = T(w) /\ d.state = w.state /\ IsSSL(d)
    BY <2>6, <2>8, IsField, BaseStays, Zenon DEF Same, SameBase
  <2>10. /\ Same(d, e, {"state"}) /\ e.state = (IF d.state = "ERR" THEN "ERR" ELSE st)
         /\ Base(e) /\ T(e) = T(d)
    BY <2>9, ToIs, BaseFails
  <2>11. ssl' = [ssl EXCEPT !["client"] = e]
    BY <2>1, Zenon DEF w, d
  <2>12. st \in {"CW_CERT_VRFY", "CW_CHANGE"}
    BY Zenon
  <2> HIDE DEF e, st
  <2>13. /\ e.out = w.out /\ e.bbio = w.bbio /\ e.keep = b.keep /\ e.hit = b.hit
         /\ e.random = b.random /\ e.new_cipher = b.new_cipher /\ e.session = d.session
         /\ e.ccs_ok = b.ccs_ok /\ e.change_cipher_spec = b.change_cipher_spec
         /\ e.key_block = b.key_block /\ e.reuse_message = b.reuse_message
         /\ e.previous_client_finished = b.previous_client_finished
         /\ e.previous_server_finished = b.previous_server_finished
    BY <2>5, <2>8, <2>10, IsField, Zenon DEF Wrote, Same
  <2> HIDE DEF b
  <2>14. Typed(e)
    BY <2>3, <2>10, <2>12, <2>13, Zenon DEF Typed, States, FlushStates
  <2>15. ASSUME e.state # "ERR" PROVE Local(cfg, "client", e)
    <3>1. e.state = st /\ At(e) = st /\ At(b) = "CW_KEY_EXCH" /\ w.state # "ERR"
      BY <2>1, <2>9, <2>10, <2>12, <2>15, Zenon DEF At, FlushStates
    <3>2. "CW_KEY_EXCH" \in Answered /\ "CW_KEY_EXCH" \in Early
      BY Zenon DEF Answered, Early
    <3>3. ~b.hit /\ ~b.ccs_ok /\ ~b.change_cipher_spec /\ b.key_block = NULL
      BY <2>3, <3>1, <3>2, Zenon DEF Local, Keys
    <3>4. Digests(e)
      <4>1. Begins(T(b), b.random, b.new_cipher) /\ HasDone(T(b)) /\ IsSequence(T(b))
        BY <2>3, <3>1, <3>2, <3>3, Zenon DEF Local, Digests, Begins
      <4>2. T(e) = Append(T(b), Digested(m))
        BY <2>5, <2>9, <2>10, <3>1, Zenon DEF Wrote
      <4>3. Begins(T(e), b.random, b.new_cipher) /\ HasDone(T(e))
        BY <4>1, <4>2, BeginsOn, Zenon
      <4>4. st \notin Opening \cup Helloed
        BY <2>12, Zenon DEF Opening, Helloed
      <4> QED
        BY <2>13, <3>1, <3>3, <4>3, <4>4, Zenon DEF Digests
    <3>5. Waiting(e)
      BY <2>3, <2>13, Zenon DEF Waiting
    <3>6. Keys("client", e)
      <4>1. ~Got(e) /\ ~Sent(e) /\ ~Changed(e) /\ st \notin Start \cup Idle
        BY <2>12, <2>13, <3>1, <3>3, Zenon DEF Got, Sent, Changed, Start, Idle
      <4> QED
        BY <2>13, <3>1, <3>3, <4>1, Zenon DEF Keys
    <3>7. Buffers(e)
      BY <2>5, <2>12, <2>13, <3>1, Zenon DEF Buffers, Wrote, Writing
    <3>8. Sessioned(cfg, "client", e)
      BY <2>6, <2>7, <2>8, <2>13, Zenon DEF Sessioned
    <3>9. Cached(e)
      BY <2>12, <3>1, Zenon DEF Cached
    <3> QED
      BY <3>4, <3>5, <3>6, <3>7, <3>8, <3>9, Zenon DEF Local
  <2>16. Fits("client", e)
    BY <2>14, <2>15, Zenon DEF Fits
  <2>17. Q(e) = Q(w) /\ \A s : Own(s, e) = Own(s, b)
    BY <2>13, Zenon DEF Q, Own
  <2>18. Output("client", b, e) /\ (Held(b) => Held(e))
    BY <2>3, <2>4, <2>5, <2>17, <1>WroteOutput, Zenon DEF Held
  <2> QED
    BY <2>1, <2>2, <2>11, <2>16, <2>17, <2>18, OutputStep, Zenon DEF b
<1> QED
  BY <1>SendServerHelloKeeps, <1>SendServerDoneKeeps, <1>SendClientKeyExchangeKeeps, Zenon

\* A ChangeCipherSpec or a Finished is sent.
LEMMA ClosingSendsKeep ==
    ASSUME NullApart, Inv,
           \/ SendClientChange \/ SendServerChange \/ SendClientFinished
           \/ SendServerFinished
    PROVE  Inv'
\* A ChangeCipherSpec is sent, by way of d, and st is next.
<1>ChangeSent.
      ASSUME Running, NEW s \in Sides, NEW e, NEW st,
             ssl' = [ssl EXCEPT ![s] = e], cfg' = cfg,
             ssl[s].state \in {"CW_CHANGE", "SW_CHANGE"},
             st \in {"CW_NEXT_PROTO", "CW_FINISHED", "SW_FINISHED"},
             ssl[s].state = "CW_CHANGE" <=> st # "SW_FINISHED",
             Same(ssl[s], e, {"bbio", "out", "session", "key_block", "write_key", "state"}),
             Base(e), T(e) = T(ssl[s]), IsSequence(e.out), IsSequence(e.bbio), e.state = st,
             \E rec : rec.type = "ccs" /\ Q(e) = Append(Q(ssl[s]), rec),
             IsSession(e.session), e.session.master = ssl[s].session.master,
             e.session.peer = ssl[s].session.peer, e.session.tick = ssl[s].session.tick,
             e.session.cipher = ssl[s].new_cipher,
             e.key_block = Key(ssl[s]), e.write_key = e.key_block
      PROVE  Inv'
  <2> USE <1>ChangeSent
  <2> DEFINE b == ssl[s]
  <2>1. /\ Typed(b) /\ IsSSL(b) /\ Local(cfg, s, b) /\ ~b.keep /\ b.reuse_message = NULL
    BY Ends, Zenon
  <2>2. b.state \in {"CW_CHANGE", "SW_CHANGE"} /\ (b.state = "CW_CHANGE" <=> st # "SW_FINISHED")
    BY Zenon
  <2> HIDE DEF b
  <2>3. /\ e.keep = b.keep /\ e.hit = b.hit
        /\ e.random = b.random /\ e.new_cipher = b.new_cipher
        /\ e.ccs_ok = b.ccs_ok /\ e.change_cipher_spec = b.change_cipher_spec
        /\ e.read_key = b.read_key /\ e.reuse_message = b.reuse_message /\ e.cache = b.cache
        /\ e.previous_client_finished = b.previous_client_finished
        /\ e.previous_server_finished = b.previous_server_finished
    BY IsField, Zenon DEF Same, b
  <2>4. Typed(e)
    BY <2>1, <2>3, Zenon DEF Typed, States, FlushStates
  <2>5. At(e) = st /\ At(b) = b.state /\ e.state = st
    BY <2>2, Zenon DEF At, FlushStates
  <2>6. Key(e) = Key(b) /\ \A md : Matches(e, md) = Matches(b, md)
    BY <2>3, Zenon DEF Key, Matches, b
  <2>7. Own(s, e) = Own(s, b) /\ Own(Peer(s), e) = Own(Peer(s), b)
    BY <2>3, Zenon DEF Own
  <2>8. Local(cfg, s, e)
    <3>1. Digests(e)
      <4>1. Digests(b) /\ b.state \in Ending /\ st \in Ending /\ st \notin Opening \cup Helloed
        BY <2>1, <2>2, Zenon DEF Local, Ending, Opening, Helloed
      <4>2. T(e) = T(b)
        BY Zenon DEF b
      <4> QED
        BY <2>3, <2>5, <4>1, <4>2, Zenon DEF Digests
    <3>2. Waiting(e)
      BY <2>1, <2>3, Zenon DEF Waiting
    <3>3. Keys(s, e)
      <4>1. Keys(s, b) /\ b.state \in Ending
        BY <2>1, <2>2, Zenon DEF Local, Ending
      <4>2. /\ st \notin Offered \cup Answered /\ st \notin Early /\ st \notin Start \cup Idle
            /\ ~Sent(e)
        BY <2>5, Zenon DEF Offered, Answered, Early, Opening, Helloed, Start, Idle, Sent
      <4>3. Got(e) => Got(b)
        BY <2>2, <2>3, <2>5, Zenon DEF Got, Idle
      <4>4. e.key_block = Key(b) /\ e.write_key = Key(b) /\ e.session.cipher = e.new_cipher
        BY <2>3, Zenon DEF b
      <4> QED
        BY <2>3, <2>5, <2>6, <2>7, <4>1, <4>2, <4>3, <4>4, Zenon DEF Keys
    <3>4. Buffers(e)
      BY <2>5, Zenon DEF Buffers, Writing
    <3>5. Sessioned(cfg, s, e)
      <4>1. /\ IsSession(b.session)
            /\ s = "client" => b.session.tick = NULL \/ Resumes(cfg, b.session.tick)
            /\ s = "server" => (\A x \in b.cache : Resumes(cfg, x)) /\ Resumes(cfg, b.session)
        BY <2>1, <2>2, <2>5, Zenon DEF Local, Sessioned, Start, Opening, Ending
      <4>2. s = "server" => Resumes(cfg, e.session)
        BY <4>1, Zenon DEF Resumes, b
      <4>3. e.session.tick = b.session.tick
        BY Zenon DEF b
      <4>4. st \notin {"SW_SRVR_DONE", "SR_CERT"}
        BY Zenon
      <4> QED
        BY <2>3, <2>5, <4>1, <4>2, <4>3, <4>4, Zenon DEF Sessioned
    <3>6. Cached(e)
      BY <2>5, Zenon DEF Cached
    <3> QED
      BY <3>1, <3>2, <3>3, <3>4, <3>5, <3>6, Zenon DEF Local
  <2>9. Fits(s, e)
    BY <2>1, <2>3, <2>4, <2>8, Zenon DEF Fits
  <2>10. Output(s, b, e) /\ (Held(b) => Held(e))
    <3>1. PICK rec : rec.type = "ccs" /\ Q(e) = Append(Q(b), rec)
      BY Zenon DEF b
    <3> QED
      BY <2>1, <2>7, <3>1, Zenon DEF Output, IsFinished, Held
  <2> QED
    BY <2>7, <2>9, <2>10, OutputStep, Zenon DEF b
\* Where an end is, while it sends a ChangeCipherSpec or a Finished.
<1>Closing.
      ASSUME Running, NEW s \in Sides,
             ssl[s].state \in {"CW_CHANGE", "SW_CHANGE", "CW_FINISHED", "SW_FINISHED"}
      PROVE  /\ IsSession(ssl[s].session)
             /\ ssl[s].key_block # NULL => ssl[s].key_block = Key(ssl[s])
             /\ Begins(T(ssl[s]), ssl[s].random, ssl[s].new_cipher)
             /\ HasDone(T(ssl[s])) <=> ~ssl[s].hit
  <2> USE <1>Closing
  <2>1. Local(cfg, s, ssl[s])
    BY Ends, Zenon
  <2>2. /\ ssl[s].state \in Ending /\ At(ssl[s]) = ssl[s].state
        /\ ssl[s].state \notin Start \cup Opening
    BY Zenon DEF Ending, At, FlushStates, Start, Opening
  <2>3. IsSession(ssl[s].session)
    BY <2>1, <2>2, Zenon DEF Local, Sessioned
  <2>4. ssl[s].key_block # NULL => ssl[s].key_block = Key(ssl[s])
    BY <2>1, <2>2, Zenon DEF Local, Keys
  <2>5. /\ Begins(T(ssl[s]), ssl[s].random, ssl[s].new_cipher)
        /\ HasDone(T(ssl[s])) <=> ~ssl[s].hit
    BY <2>1, <2>2, Zenon DEF Local, Digests
  <2> QED
    BY <2>3, <2>4, <2>5, Zenon
<1>SendClientChangeKeeps.
      ASSUME SendClientChange
      PROVE  Inv'
  <2> USE <1>SendClientChangeKeeps
  <2> DEFINE b == ssl["client"]
             rec == [type |-> "ccs", key |-> b.write_key, msg |-> NULL]
             st == IF b.next_proto_neg_seen THEN "CW_NEXT_PROTO" ELSE "CW_FINISHED"
  <2>1. PICK spill \in Spills("client") :
          /\ Running /\ cfg' = cfg /\ b.state = "CW_CHANGE"
          /\ LET d == tls1_setup_key_block([Put(b, rec, spill) EXCEPT !.session.cipher = b.new_cipher])
             IN  ssl' = [ssl EXCEPT !["client"] = To([d EXCEPT !.write_key = d.key_block], st)]
    BY Zenon DEF SendClientChange, Step, ssl3_send_change_cipher_spec
  <2> DEFINE p == Put(b, rec, spill)
             q == [p EXCEPT !.session.cipher = b.new_cipher]
             d == tls1_setup_key_block(q)
             f == [d EXCEPT !.write_key = d.key_block]
             e == To(f, st)
  <2>2. "client" \in Sides
    BY Zenon DEF Sides
  <2>3. /\ Base(b) /\ IsSSL(b) /\ IsSequence(b.out) /\ IsSequence(b.bbio)
        /\ IsSession(b.session) /\ (b.key_block # NULL => b.key_block = Key(b))
    BY <2>1, <2>2, Ends, <1>Closing, Zenon
  <2>4. /\ Same(b, p, {"bbio", "out"}) /\ Base(p) /\ T(p) = T(b)
        /\ IsSequence(p.out) /\ IsSequence(p.bbio) /\ Q(p) = Append(Q(b), rec)
    BY <2>3, PutIs, Zenon
  <2>5. rec.type = "ccs"
    BY Zenon
  <2>6. ssl' = [ssl EXCEPT !["client"] = e]
    BY <2>1, Zenon
  <2> HIDE DEF p, rec
  <2>7. IsSSL(p) /\ p.session = b.session /\ p.key_block = b.key_block /\ p.random = b.random
    BY <2>4, IsField, Zenon DEF Same
  <2>8. /\ Same(p, q, {"session"}) /\ IsSession(q.session)
        /\ q.session.cipher = b.new_cipher /\ q.session.master = p.session.master
        /\ q.session.peer = p.session.peer /\ q.session.tick = p.session.tick
    BY <2>3, <2>7, SetCipher, Zenon
  <2> HIDE DEF q
  <2>9. IsSSL(q) /\ q.key_block = b.key_block /\ Key(q) = Key(b)
    BY <2>7, <2>8, IsField, Zenon DEF Same, Key
  <2>10. Same(q, d, {"key_block"}) /\ d.key_block = Key(b)
    BY <2>3, <2>9, SetupKeyIs, Zenon
  <2> HIDE DEF d
  <2>11. Same(d, f, {"write_key"}) /\ f.write_key = d.key_block
    BY <2>10, IsField, Zenon DEF Same, IsSSL
  <2> HIDE DEF f
  <2>12. IsSSL(f) /\ f.state = b.state
    BY <2>4, <2>8, <2>10, <2>11, IsField DEF Same
  <2>13. Same(f, e, {"state"}) /\ e.state = st
    BY <2>1, <2>12, ToIs, Zenon
  <2>14. st \in {"CW_NEXT_PROTO", "CW_FINISHED"}
    BY Zenon
  <2> HIDE DEF e, st
  <2>15. Same(b, e, {"bbio", "out", "session", "key_block", "write_key", "state"})
    BY <2>4, <2>8, <2>10, <2>11, <2>13 DEF Same
  <2>16. /\ e.out = p.out /\ e.bbio = p.bbio /\ e.session = q.session
         /\ e.key_block = d.key_block /\ e.write_key = f.write_key /\ SameBase(p, e) /\ IsSSL(e)
    BY <2>8, <2>10, <2>11, <2>13, IsField DEF Same, SameBase
  <2>17. Base(e) /\ T(e) = T(b) /\ Q(e) = Append(Q(b), rec)
    BY <2>4, <2>16, BaseStays, Zenon DEF Q
  <2>18. \E r : r.type = "ccs" /\ Q(e) = Append(Q(b), r)
    BY <2>5, <2>17, Zenon
  <2>19. /\ IsSession(e.session) /\ e.session.master = b.session.master
         /\ e.session.peer = b.session.peer /\ e.session.tick = b.session.tick
         /\ e.session.cipher = b.new_cipher
         /\ e.key_block = Key(b) /\ e.write_key = e.key_block
         /\ IsSequence(e.out) /\ IsSequence(e.bbio)
    BY <2>4, <2>7, <2>8, <2>10, <2>11, <2>16, Zenon
  <2> QED
    BY <2>1, <2>2, <2>6, <2>13, <2>14, <2>15, <2>17, <2>18, <2>19, <1>ChangeSent, Zenon
<1>SendServerChangeKeeps.
      ASSUME SendServerChange
      PROVE  Inv'
  <2> USE <1>SendServerChangeKeeps
  <2> DEFINE b == ssl["server"]
             q == [b EXCEPT !.session.cipher = b.new_cipher]
             k == tls1_setup_key_block(q)
             rec == [type |-> "ccs", key |-> k.write_key, msg |-> NULL]
  <2>1. PICK spill \in Spills("server") :
          /\ Running /\ cfg' = cfg /\ b.state = "SW_CHANGE"
          /\ LET d == Put(k, rec, spill)
             IN  ssl' = [ssl EXCEPT !["server"] = To([d EXCEPT !.write_key = d.key_block], "SW_FINISHED")]
    BY Zenon DEF SendServerChange, Step, ssl3_send_change_cipher_spec
  <2> DEFINE d == Put(k, rec, spill)
             f == [d EXCEPT !.write_key = d.key_block]
             e == To(f, "SW_FINISHED")
  <2>2. "server" \in Sides
    BY Zenon DEF Sides
  <2>3. /\ Base(b) /\ IsSSL(b) /\ IsSequence(b.out) /\ IsSequence(b.bbio)
        /\ IsSession(b.session) /\ (b.key_block # NULL => b.key_block = Key(b))
    BY <2>1, <2>2, Ends, <1>Closing, Zenon
  <2>4. /\ Same(b, q, {"session"}) /\ IsSession(q.session)
        /\ q.session.cipher = b.new_cipher /\ q.session.master = b.session.master
        /\ q.session.peer = b.session.peer /\ q.session.tick = b.session.tick
    BY <2>3, SetCipher, Zenon
  <2>5. rec.type = "ccs"
    BY Zenon
  <2>6. ssl' = [ssl EXCEPT !["server"] = e]
    BY <2>1, Zenon
  <2> HIDE DEF q
  <2>7. IsSSL(q) /\ q.key_block = b.key_block /\ Key(q) = Key(b)
    BY <2>4, IsField, Zenon DEF Same, Key
  <2>8. Same(q, k, {"key_block"}) /\ k.key_block = Key(b)
    BY <2>3, <2>7, SetupKeyIs, Zenon
  <2> HIDE DEF k, rec
  <2>9. Same(b, k, {"session", "key_block"})
    BY <2>4, <2>8, Zenon DEF Same
  <2>10. SameBase(b, k) /\ IsSSL(k) /\ k.out = b.out /\ k.bbio = b.bbio /\ k.session = q.session
    BY <2>8, <2>9, IsField, Zenon DEF Same, SameBase
  <2>11. Base(k) /\ T(k) = T(b) /\ Q(k) = Q(b)
    BY <2>3, <2>10, BaseStays, Zenon DEF Q
  <2>12. /\ Same(k, d, {"bbio", "out"}) /\ Base(d) /\ T(d) = T(k)
         /\ IsSequence(d.out) /\ IsSequence(d.bbio) /\ Q(d) = Append(Q(b), rec)
    BY <2>3, <2>10, <2>11, PutIs
  <2> HIDE DEF d
  <2>13. Same(d, f, {"write_key"}) /\ f.write_key = d.key_block
    BY <2>12, IsField, Zenon DEF Same, IsSSL
  <2> HIDE DEF f
  <2>14. IsSSL(f) /\ f.state = b.state
    BY <2>9, <2>12, <2>13, IsField, Zenon DEF Same
  <2>15. Same(f, e, {"state"}) /\ e.state = "SW_FINISHED"
    BY <2>1, <2>14, ToIs, Zenon
  <2> HIDE DEF e
  <2>16. Same(b, e, {"bbio", "out", "session", "key_block", "write_key", "state"})
    BY <2>9, <2>12, <2>13, <2>15, Zenon DEF Same
  <2>17. /\ e.out = d.out /\ e.bbio = d.bbio /\ e.session = q.session
         /\ e.key_block = k.key_block /\ e.write_key = k.key_block /\ SameBase(d, e) /\ IsSSL(e)
    BY <2>10, <2>12, <2>13, <2>15, IsField DEF Same, SameBase
  <2>18. Base(e) /\ T(e) = T(b) /\ Q(e) = Append(Q(b), rec)
    BY <2>11, <2>12, <2>17, BaseStays, Zenon DEF Q
  <2>19. \E r : r.type = "ccs" /\ Q(e) = Append(Q(b), r)
    BY <2>5, <2>18, Zenon
  <2>20. /\ IsSession(e.session) /\ e.session.master = b.session.master
         /\ e.session.peer = b.session.peer /\ e.session.tick = b.session.tick
         /\ e.session.cipher = b.new_cipher
         /\ e.key_block = Key(b) /\ e.write_key = e.key_block
         /\ IsSequence(e.out) /\ IsSequence(e.bbio)
    BY <2>4, <2>8, <2>12, <2>17, Zenon
  <2> QED
    BY <2>1, <2>2, <2>6, <2>15, <2>16, <2>18, <2>19, <2>20, <1>ChangeSent, Zenon
\* What ssl3_send_finished does.
<1>SendFinishedIs.
      ASSUME NEW b, Base(b), ~b.keep, IsSequence(b.out), IsSequence(b.bbio),
             b.state # "ERR", T(b) # <<>>, NEW s \in Sides, NEW spill
      PROVE  WroteFinished(s, b, ssl3_send_finished(b, s, spill))
  <2> USE <1>SendFinishedIs
  <2> DEFINE d == DigestIfCached(b)
             md == tls1_final_finish_mac(d, s)
             e == IF s = "client" THEN [d EXCEPT !.previous_client_finished = md]
                  ELSE [d EXCEPT !.previous_server_finished = md]
             f == [e EXCEPT !.finish_md_len = 1]
             m == [type |-> "Finished", body |-> md]
             w == ssl3_do_write(f, "Finished", md, spill)
  <2>1. ssl3_send_finished(b, s, spill) = w
    BY Zenon DEF ssl3_send_finished
  <2>2. /\ Same(b, d, {"handshake_buffer", "handshake_dgst", "state", "failed"})
        /\ Base(d) /\ d.state \in {b.state, "ERR"} /\ (d.state # "ERR" => T(d) = T(b))
    BY DigestIfCachedIs, Zenon
  <2> HIDE DEF d
  <2>3. d.session = b.session /\ d.out = b.out /\ d.bbio = b.bbio /\ IsSSL(d) /\ d.keep = b.keep
        /\ d.previous_client_finished = b.previous_client_finished
        /\ d.previous_server_finished = b.previous_server_finished
    BY <2>2, IsField, Zenon DEF Same
  <2>4. d.state # "ERR" => md = [by |-> s, master |-> b.session.master, transcript |-> T(b)]
    BY <2>2, <2>3, FinalMacIs, Zenon
  <2>5. d.state # "ERR" => md.master = b.session.master /\ md.transcript = T(b)
    BY <2>4
  <2> HIDE DEF md
  <2>6. /\ Same(d, e, {"previous_client_finished", "previous_server_finished"})
        /\ Own(s, e) = md /\ Own(Peer(s), e) = Own(Peer(s), d)
    <3>1. CASE s = "client"
      BY <2>3, <3>1, IsField, Peers, Zenon DEF Same, IsSSL, Own
    <3>2. CASE s = "server"
      BY <2>3, <3>2, IsField, Peers, Zenon DEF Same, IsSSL, Own
    <3> QED
      BY <3>1, <3>2, Peers, Zenon
  <2> HIDE DEF e
  <2>7. Same(e, f, {"finish_md_len"})
    BY <2>6, IsField, Zenon DEF Same, IsSSL
  <2> HIDE DEF f
  <2>8. Same(d, f, {"previous_client_finished", "previous_server_finished", "finish_md_len"})
    BY <2>6, <2>7, Zenon DEF Same
  <2>9. SameBase(d, f) /\ IsSSL(f) /\ f.state = d.state /\ f.out = b.out /\ f.bbio = b.bbio
    BY <2>3, <2>8, IsField, Zenon DEF Same, SameBase
  <2>10. Own(s, f) = md /\ Own(Peer(s), f) = Own(Peer(s), b)
    BY <2>3, <2>6, <2>7, IsField, Zenon DEF Same, Own
  <2>11. Base(f) /\ T(f) = T(d) /\ Q(f) = Q(b)
    BY <2>2, <2>9, BaseStays, Zenon DEF Q
  <2>12. Wrote(f, w, m)
    BY <2>9, <2>11, WriteIs, Zenon
  <2>13. IsMessage(cfg, m) /\ m.type = "Finished" /\ m.body = md
    BY Zenon DEF IsMessage
  <2>14. Digested(m).type = "Finished"
    BY <2>13, DigestedIs, Zenon
  <2> HIDE DEF w, m
  <2>15. Same(f, w, {"bbio", "out", "handshake_buffer", "handshake_dgst", "state", "failed"})
    BY <2>12, Zenon DEF Wrote
  <2>16. Same(b, w, {"bbio", "out", "handshake_buffer", "handshake_dgst", "state", "failed",
                     "previous_client_finished", "previous_server_finished", "finish_md_len"})
    BY <2>2, <2>8, <2>15, Zenon DEF Same
  <2>17. Own(s, w) = md /\ Own(Peer(s), w) = Own(Peer(s), b)
    BY <2>10, <2>15, IsField, Zenon DEF Same, Own
  <2>18. /\ Base(w) /\ w.state \in {d.state, "ERR"} /\ IsSequence(w.out) /\ IsSequence(w.bbio)
         /\ w.state # "ERR" => d.state # "ERR" /\ T(w) = Append(T(b), Digested(m))
    BY <2>2, <2>9, <2>11, <2>12, Zenon DEF Wrote
  <2>19. PICK rec : rec.type = "handshake" /\ rec.msg = m /\ Q(w) = Append(Q(b), rec)
    BY <2>11, <2>12, Zenon DEF Wrote
  <2>20. w.state \in {b.state, "ERR"}
    BY <2>2, <2>18, Zenon
  <2>21. w.state # "ERR" => /\ \E x : T(w) = Append(T(b), x) /\ x.type = "Finished"
                            /\ Own(s, w).master = b.session.master
                            /\ Own(s, w).transcript = T(b)
    BY <2>5, <2>14, <2>17, <2>18
  <2>22. \E r : /\ r.type = "handshake" /\ IsMessage(cfg, r.msg)
                /\ r.msg.type = "Finished" /\ r.msg.body = Own(s, w)
                /\ Q(w) = Append(Q(b), r)
    BY <2>13, <2>17, <2>19, Zenon
  <2> QED
    BY <2>1, <2>16, <2>17, <2>18, <2>20, <2>21, <2>22, Zenon DEF WroteFinished
\* A Finished is sent, and ns follows once it is flushed.
<1>FinishedSent.
      ASSUME Running, NEW s \in Sides, NEW spill, NEW e, NEW ns, NEW st,
             ssl' = [ssl EXCEPT ![s] = e], cfg' = cfg,
             ssl[s].state \in {"CW_FINISHED", "SW_FINISHED"},
             IF ssl[s].state = "CW_FINISHED"
             THEN /\ st = "CW_FLUSH"
                  /\ IF ssl[s].hit THEN ns = "OK" ELSE ns \in {"CR_SESSION_TICKET", "CR_FINISHED"}
             ELSE /\ st = "SW_FLUSH"
                  /\ IF ssl[s].hit THEN ns \in {"SR_NEXT_PROTO", "SR_FINISHED"} ELSE ns = "OK",
             LET w == ssl3_send_finished(ssl[s], s, spill)
             IN  /\ Same(w, e, {"ccs_ok", "next_state", "state"})
                 /\ e.next_state = ns /\ e.state = IF w.state = "ERR" THEN "ERR" ELSE st
      PROVE  Inv'
  <2> USE <1>FinishedSent
  <2> DEFINE b == ssl[s]
             w == ssl3_send_finished(b, s, spill)
  <2>1. /\ Typed(b) /\ Base(b) /\ IsSSL(b) /\ Local(cfg, s, b) /\ ~b.keep /\ b.reuse_message = NULL
        /\ IsSequence(b.out) /\ IsSequence(b.bbio) /\ b.state # "ERR"
        /\ IsSession(b.session) /\ (b.key_block # NULL => b.key_block = Key(b))
        /\ Begins(T(b), b.random, b.new_cipher) /\ (HasDone(T(b)) <=> ~b.hit)
    BY Ends, <1>Closing, Zenon
  <2>2. T(b) # <<>> /\ IsSequence(T(b))
    BY <2>1, BegunIsSome, Zenon
  <2>3. /\ Same(b, w, {"bbio", "out", "handshake_buffer", "handshake_dgst", "state", "failed",
                       "previous_client_finished", "previous_server_finished", "finish_md_len"})
        /\ Base(w) /\ w.state \in {b.state, "ERR"} /\ IsSequence(w.out) /\ IsSequence(w.bbio)
        /\ Own(Peer(s), w) = Own(Peer(s), b)
        /\ w.state # "ERR" => /\ \E x : T(w) = Append(T(b), x) /\ x.type = "Finished"
                              /\ Own(s, w).master = b.session.master
                              /\ Own(s, w).transcript = T(b)
        /\ \E rec : /\ rec.type = "handshake" /\ IsMessage(cfg, rec.msg)
                    /\ rec.msg.type = "Finished" /\ rec.msg.body = Own(s, w)
                    /\ Q(w) = Append(Q(b), rec)
    <3>1. WroteFinished(s, b, w)
      BY <2>1, <2>2, <1>SendFinishedIs, Zenon
    <3> HIDE DEF b, w
    <3> QED
      BY <3>1, Zenon DEF WroteFinished
  <2>4. /\ Same(w, e, {"ccs_ok", "next_state", "state"})
        /\ e.next_state = ns /\ e.state = IF w.state = "ERR" THEN "ERR" ELSE st
    BY Zenon
  <2>5. /\ b.state \in {"CW_FINISHED", "SW_FINISHED"}
        /\ IF b.state = "CW_FINISHED"
           THEN /\ st = "CW_FLUSH"
                /\ IF b.hit THEN ns = "OK" ELSE ns \in {"CR_SESSION_TICKET", "CR_FINISHED"}
           ELSE /\ st = "SW_FLUSH"
                /\ IF b.hit THEN ns \in {"SR_NEXT_PROTO", "SR_FINISHED"} ELSE ns = "OK"
    BY Zenon
  <2> HIDE DEF b, w
  <2>6. /\ e.hit = b.hit /\ e.random = b.random /\ e.new_cipher = b.new_cipher
        /\ e.session = b.session /\ e.cache = b.cache /\ e.key_block = b.key_block
        /\ e.change_cipher_spec = b.change_cipher_spec /\ e.read_key = b.read_key
        /\ e.write_key = b.write_key /\ e.reuse_message = b.reuse_message /\ e.keep = b.keep
    BY <2>3, <2>4, IsField, ZenonT(30) DEF Same
  <2>7. /\ e.out = w.out /\ e.bbio = w.bbio /\ SameBase(w, e) /\ IsSSL(e)
        /\ Own(s, e) = Own(s, w) /\ Own(Peer(s), e) = Own(Peer(s), b)
    BY <2>3, <2>4, IsField, Zenon DEF Same, SameBase, Own
  <2>8. Base(e) /\ T(e) = T(w) /\ Q(e) = Q(w)
    BY <2>3, <2>7, BaseStays, Zenon DEF Q
  <2>9. Typed(e)
    BY <2>1, <2>4, <2>5, <2>6, <2>8, Zenon DEF Typed, States, FlushStates, NextStates
  <2>10. ASSUME e.state # "ERR" PROVE Local(cfg, s, e)
    <3>1. w.state # "ERR" /\ e.state = st /\ At(e) = ns /\ At(b) = b.state
      BY <2>4, <2>5, <2>10, Zenon DEF At, FlushStates
    <3>2. ns \notin Opening \cup Helloed \cup Offered \cup Answered /\ ns \notin Early
      BY <2>5, Zenon DEF Opening, Helloed, Offered, Answered, Early
    <3>3. Key(e) = Key(b) /\ \A md : Matches(e, md) = Matches(b, md)
      BY <2>6, Zenon DEF Key, Matches
    <3>4. Matches(b, Own(s, e))
      BY <2>1, <2>3, <2>7, <3>1, Zenon DEF Matches
    <3>5. Digests(e)
      <4>1. PICK x : T(e) = Append(T(b), x) /\ x.type = "Finished"
        BY <2>3, <2>8, <3>1, Zenon
      <4>2. Begins(T(e), b.random, b.new_cipher) /\ (HasDone(T(e)) <=> ~b.hit)
        <5>1. /\ Begins(T(b), b.random, b.new_cipher) => Begins(Append(T(b), x), b.random, b.new_cipher)
              /\ HasDone(Append(T(b), x)) <=> HasDone(T(b)) \/ x.type = "ServerHelloDone"
          BY <2>2, BeginsOn, Zenon
        <5> QED
          BY <2>1, <4>1, <5>1, Zenon
      <4> QED
        BY <2>6, <3>1, <3>2, <4>2, Zenon DEF Digests
    <3>6. Waiting(e)
      BY <2>1, <2>6, Zenon DEF Waiting
    <3>7. Keys(s, e)
      <4>1. Keys(s, b) /\ b.state \in Ending /\ Changed(b)
        BY <2>1, <2>5, <3>1, Zenon DEF Local, Ending, Changed
      <4>2. Got(e) => Got(b)
        BY <2>5, <2>6, <3>1, Zenon DEF Got, Idle
      <4>3. st \notin Start \cup Idle
        BY <2>5, Zenon DEF Start, Idle
      <4> QED
        BY <2>6, <2>7, <3>1, <3>2, <3>3, <3>4, <4>1, <4>2, <4>3, Zenon DEF Keys
    <3>8. Buffers(e)
      BY <2>3, <2>5, <2>7, <3>1, Zenon DEF Buffers, Writing
    <3>9. Sessioned(cfg, s, e)
      <4>1. /\ s = "client" => b.session.tick = NULL \/ Resumes(cfg, b.session.tick)
            /\ s = "server" => (\A x \in b.cache : Resumes(cfg, x)) /\ Resumes(cfg, b.session)
        BY <2>1, <2>5, <3>1, Zenon DEF Local, Sessioned, Start, Opening, Ending
      <4>2. ns \notin {"SW_SRVR_DONE", "SR_CERT"}
        BY <2>5, Zenon
      <4> QED
        BY <2>1, <2>6, <3>1, <4>1, <4>2, Zenon DEF Sessioned
    <3>10. Cached(e)
      BY <2>5, <3>1, Zenon DEF Cached
    <3> QED
      BY <3>5, <3>6, <3>7, <3>8, <3>9, <3>10, Zenon DEF Local
  <2>11. Fits(s, e)
    BY <2>1, <2>6, <2>9, <2>10, Zenon DEF Fits
  <2>12. Output(s, b, e) /\ (Held(b) => Held(e))
    BY <2>1, <2>3, <2>7, <2>8, Zenon DEF Output, IsFinished, Held
  <2> QED
    BY <2>7, <2>11, <2>12, OutputStep, Zenon DEF b
<1>SendClientFinishedKeeps.
      ASSUME SendClientFinished
      PROVE  Inv'
  <2> USE <1>SendClientFinishedKeeps
  <2> DEFINE b == ssl["client"]
             ns == IF b.hit THEN "OK"
                   ELSE IF b.ticket_expected THEN "CR_SESSION_TICKET" ELSE "CR_FINISHED"
  <2>1. PICK spill \in Spills("client") :
          /\ Running /\ cfg' = cfg /\ b.state = "CW_FINISHED"
          /\ ssl' = [ssl EXCEPT !["client"] =
                        To([ssl3_send_finished(b, "client", spill) EXCEPT
                               !.ccs_ok = TRUE, !.next_state = ns], "CW_FLUSH")]
    BY Zenon DEF SendClientFinished, Step
  <2> DEFINE w == ssl3_send_finished(b, "client", spill)
             x == [w EXCEPT !.ccs_ok = TRUE, !.next_state = ns]
             e == To(x, "CW_FLUSH")
  <2>2. "client" \in Sides
    BY Zenon DEF Sides
  <2>3. IsSSL(w)
    <3>1. /\ Base(b) /\ ~b.keep /\ IsSequence(b.out) /\ IsSequence(b.bbio) /\ b.state # "ERR"
          /\ Begins(T(b), b.random, b.new_cipher)
      BY <2>1, <2>2, Ends, <1>Closing, Zenon
    <3>2. T(b) # <<>>
      BY <3>1, BegunIsSome, Zenon
    <3>3. Base(w)
      BY <2>2, <3>1, <3>2, <1>SendFinishedIs, Zenon DEF WroteFinished
    <3> QED
      BY <3>3, Zenon DEF Base
  <2> HIDE DEF w
  <2>4. Same(w, x, {"ccs_ok", "next_state"}) /\ x.next_state = ns
    BY <2>3, IsField, Zenon DEF Same, IsSSL
  <2> HIDE DEF x
  <2>5. IsSSL(x) /\ x.state = w.state
    BY <2>4, IsField, Zenon DEF Same
  <2>6. Same(x, e, {"state"}) /\ e.state = (IF w.state = "ERR" THEN "ERR" ELSE "CW_FLUSH")
    BY <2>5, ToIs, Zenon
  <2>7. ssl' = [ssl EXCEPT !["client"] = e]
    BY <2>1, Zenon DEF x, w
  <2> HIDE DEF e
  <2>8. Same(w, e, {"ccs_ok", "next_state", "state"})
    BY <2>4, <2>6, Zenon DEF Same
  <2>9. e.next_state = ns
    BY <2>4, <2>6, IsField, Zenon DEF Same
  <2>10. IF b.hit THEN ns = "OK" ELSE ns \in {"CR_SESSION_TICKET", "CR_FINISHED"}
    BY Zenon
  <2> HIDE DEF ns
  <2> QED
    BY <2>1, <2>2, <2>6, <2>7, <2>8, <2>9, <2>10, <1>FinishedSent, Zenon DEF w
<1>SendServerFinishedKeeps.
      ASSUME SendServerFinished
      PROVE  Inv'
  <2> USE <1>SendServerFinishedKeeps
  <2> DEFINE b == ssl["server"]
             ns == IF b.hit THEN AfterVerify(b) ELSE "OK"
  <2>1. PICK spill \in Spills("server") :
          /\ Running /\ cfg' = cfg /\ b.state = "SW_FINISHED"
          /\ ssl' = [ssl EXCEPT !["server"] =
                        To([ssl3_send_finished(b, "server", spill) EXCEPT !.next_state = ns],
                           "SW_FLUSH")]
    BY Zenon DEF SendServerFinished, Step
  <2> DEFINE w == ssl3_send_finished(b, "server", spill)
             x == [w EXCEPT !.next_state = ns]
             e == To(x, "SW_FLUSH")
  <2>2. "server" \in Sides
    BY Zenon DEF Sides
  <2>3. IsSSL(w)
    <3>1. /\ Base(b) /\ ~b.keep /\ IsSequence(b.out) /\ IsSequence(b.bbio) /\ b.state # "ERR"
          /\ Begins(T(b), b.random, b.new_cipher)
      BY <2>1, <2>2, Ends, <1>Closing, Zenon
    <3>2. T(b) # <<>>
      BY <3>1, BegunIsSome, Zenon
    <3>3. Base(w)
      BY <2>2, <3>1, <3>2, <1>SendFinishedIs, Zenon DEF WroteFinished
    <3> QED
      BY <3>3, Zenon DEF Base
  <2> HIDE DEF w
  <2>4. Same(w, x, {"next_state"}) /\ x.next_state = ns
    BY <2>3, IsField, Zenon DEF Same, IsSSL
  <2> HIDE DEF x
  <2>5. IsSSL(x) /\ x.state = w.state
    BY <2>4, IsField, Zenon DEF Same
  <2>6. Same(x, e, {"state"}) /\ e.state = (IF w.state = "ERR" THEN "ERR" ELSE "SW_FLUSH")
    BY <2>5, ToIs, Zenon
  <2>7. ssl' = [ssl EXCEPT !["server"] = e]
    BY <2>1, Zenon DEF x, w
  <2> HIDE DEF e
  <2>8. Same(w, e, {"ccs_ok", "next_state", "state"})
    BY <2>4, <2>6, Zenon DEF Same
  <2>9. e.next_state = ns
    BY <2>4, <2>6, IsField, Zenon DEF Same
  <2>10. IF b.hit THEN ns \in {"SR_NEXT_PROTO", "SR_FINISHED"} ELSE ns = "OK"
    BY Zenon DEF AfterVerify
  <2> HIDE DEF ns
  <2> QED
    BY <2>1, <2>2, <2>6, <2>7, <2>8, <2>9, <2>10, <1>FinishedSent, Zenon DEF w
<1> QED
  BY <1>SendClientChangeKeeps, <1>SendServerChangeKeeps, <1>SendClientFinishedKeeps,
     <1>SendServerFinishedKeeps, Zenon

----------------------------------------------------------------------------
(* The end of a handshake.                                                 *)

\* What Finish and Goto do.
LEMMA GotoIs ==
    ASSUME NEW c, Base(c), IsSSL(c), NEW s, NEW st, c.state # "ERR"
    PROVE  LET e == Goto(c, s, st)
           IN  /\ Same(c, e, {"state", "key_block", "bbio", "pushed", "renegotiate", "new_session",
                              "cache"})
               /\ Base(e) /\ T(e) = T(c) /\ e.state = st
               /\ st # "OK" => /\ e.key_block = c.key_block /\ e.bbio = c.bbio /\ e.cache = c.cache
               /\ st = "OK" => /\ e.key_block = NULL /\ e.bbio = <<>> /\ ~e.pushed
                               /\ e.cache \in {c.cache, c.cache \cup {c.session}}
<1> DEFINE e == Goto(c, s, st)
<1>1. CASE st # "OK"
  <2>1. e = To(c, st)
    BY <1>1, Zenon DEF Goto
  <2>2. Same(c, e, {"state"}) /\ e.state = st /\ Base(e) /\ T(e) = T(c)
    BY <2>1, ToIs, BaseFails, Zenon
  <2> HIDE DEF e
  <2>3. e.key_block = c.key_block /\ e.bbio = c.bbio /\ e.cache = c.cache
    BY <2>2, IsField, Zenon DEF Same
  <2>4. Same(c, e, {"state", "key_block", "bbio", "pushed", "renegotiate", "new_session", "cache"})
    BY <2>2, Zenon DEF Same
  <2> QED
    BY <1>1, <2>2, <2>3, <2>4, Zenon DEF e
<1>2. CASE st = "OK"
  <2> DEFINE a == [c EXCEPT !.key_block = NULL]
             d == [a EXCEPT !.bbio = <<>>, !.pushed = FALSE]
             f == [d EXCEPT !.renegotiate = 0, !.new_session = FALSE,
                            !.cache = ssl_update_cache(d, s)]
  <2>1. e \in {To(d, "OK"), To(f, "OK")}
    BY <1>2, Zenon DEF Goto, Finish, ssl_free_wbio_buffer
  <2>2. Same(c, a, {"key_block"}) /\ a.key_block = NULL
    BY IsField, Zenon DEF Same, IsSSL
  <2> HIDE DEF a
  <2>3. Same(a, d, {"bbio", "pushed"}) /\ d.bbio = <<>> /\ d.pushed = FALSE
    BY <2>2, IsField, Zenon DEF Same, IsSSL
  <2> HIDE DEF d
  <2>4. /\ Same(c, d, {"key_block", "bbio", "pushed"}) /\ d.key_block = NULL
        /\ d.session = c.session /\ d.cache = c.cache /\ IsSSL(d)
    BY <2>2, <2>3, IsField, Zenon DEF Same
  <2>5. /\ Same(d, f, {"renegotiate", "new_session", "cache"})
        /\ f.renegotiate = 0 /\ f.cache \in {d.cache, d.cache \cup {d.session}}
    BY <2>4, IsField, Zenon DEF Same, IsSSL, ssl_update_cache
  <2> HIDE DEF f
  <2>6. /\ IsSSL(f) /\ f.bbio = d.bbio /\ f.key_block = NULL /\ f.state = c.state /\ d.state = c.state
        /\ f.pushed = d.pushed /\ f.handshake_buffer = c.handshake_buffer
        /\ f.handshake_dgst = c.handshake_dgst /\ f.keep = c.keep /\ f.cert_req = c.cert_req
        /\ d.handshake_buffer = c.handshake_buffer
        /\ d.handshake_dgst = c.handshake_dgst /\ d.keep = c.keep /\ d.cert_req = c.cert_req
        /\ d.renegotiate = c.renegotiate
    BY <2>4, <2>5, IsField, Zenon DEF Same
  <2>7. Base(d) /\ T(d) = T(c) /\ Base(f) /\ T(f) = T(c)
    BY <2>3, <2>4, <2>5, <2>6 DEF Base, T
  <2>8. ASSUME NEW x \in {d, f}, e = To(x, "OK")
        PROVE  /\ Same(c, e, {"state", "key_block", "bbio", "pushed", "renegotiate", "new_session",
                              "cache"})
               /\ Base(e) /\ T(e) = T(c) /\ e.state = "OK"
               /\ e.key_block = NULL /\ e.bbio = <<>> /\ ~e.pushed
               /\ e.cache \in {c.cache, c.cache \cup {c.session}}
    <3>1. IsSSL(x) /\ Base(x) /\ T(x) = T(c) /\ x.state # "ERR"
      BY <2>4, <2>6, <2>7, <2>8, Zenon
    <3>2. Same(x, e, {"state"}) /\ e.state = "OK" /\ Base(e) /\ T(e) = T(x)
      BY <2>8, <3>1, ToIs, BaseFails
    <3> HIDE DEF e
    <3>3. Same(c, x, {"key_block", "bbio", "pushed", "renegotiate", "new_session", "cache"})
      <4>1. CASE x = d
        BY <2>4, <4>1, Zenon DEF Same
      <4>2. CASE x = f
        BY <2>4, <2>5, <4>2, Zenon DEF Same
      <4> QED
        BY <2>8, <4>1, <4>2, Zenon
    <3>4. x.key_block = NULL /\ x.bbio = <<>> /\ ~x.pushed /\ x.cache \in {c.cache, c.cache \cup {c.session}}
      BY <2>3, <2>4, <2>5, <2>6, <2>8, Zenon
    <3>5. Same(c, e, {"state", "key_block", "bbio", "pushed", "renegotiate", "new_session", "cache"})
      BY <3>2, <3>3, Zenon DEF Same
    <3>6. e.key_block = x.key_block /\ e.bbio = x.bbio /\ e.cache = x.cache /\ e.pushed = x.pushed
      BY <3>2, IsField, Zenon DEF Same
    <3> QED
      BY <3>1, <3>2, <3>4, <3>5, <3>6, Zenon
  <2> QED
    BY <1>2, <2>1, <2>8, Zenon
<1> QED
  BY <1>1, <1>2, Zenon

\* BIO_flush in SSL3_ST_CW_FLUSH and SSL3_ST_SW_FLUSH, and the state after it,
\* keep Inv.
LEMMA FlushKeeps ==
    ASSUME NullApart, Inv, ClientFlush \/ ServerFlush
    PROVE  Inv'
<1>FlushStep.
      ASSUME Running, NEW s \in Sides, cfg' = cfg, ssl[s].state \in FlushStates,
             ssl' = [ssl EXCEPT ![s] = Goto(BIO_flush(ssl[s]), s, ssl[s].next_state)]
      PROVE  Inv'
  <2> USE <1>FlushStep
  <2> DEFINE b == ssl[s]
             ns == b.next_state
             f == BIO_flush(b)
             e == Goto(f, s, ns)
  <2>1. /\ Typed(b) /\ Base(b) /\ IsSSL(b) /\ Local(cfg, s, b) /\ ~b.keep /\ b.reuse_message = NULL
        /\ IsSequence(b.out) /\ IsSequence(b.bbio) /\ b.state # "ERR"
    BY Ends, Zenon DEF FlushStates
  <2>2. ns \in NextStates /\ b.state \in FlushStates
    BY <2>1, Zenon DEF Typed
  <2>3. ssl' = [ssl EXCEPT ![s] = e]
    BY Zenon
  <2>4. Same(b, f, {"out", "bbio"}) /\ f.out = b.out \o b.bbio /\ f.bbio = <<>>
    BY <2>1, IsField, Zenon DEF BIO_flush, Same, IsSSL
  <2> HIDE DEF f, ns, b
  <2>5. /\ IsSSL(f) /\ f.state = b.state /\ f.handshake_buffer = b.handshake_buffer
        /\ f.handshake_dgst = b.handshake_dgst /\ f.keep = b.keep /\ f.renegotiate = b.renegotiate
        /\ f.cert_req = b.cert_req /\ f.pushed = b.pushed /\ f.key_block = b.key_block
        /\ f.cache = b.cache /\ f.session = b.session
    BY <2>4, IsField, Zenon DEF Same
  <2>6. Base(f) /\ T(f) = T(b)
    BY <2>1, <2>4, <2>5, Zenon DEF Base, T
  <2>7. IsSequence(f.out) /\ f.out \o <<>> = f.out
    <3>1. IsSequence(b.out \o b.bbio)
      BY <2>1, Buffered, Zenon
    <3> QED
      BY <2>4, <3>1, Buffered, Zenon
  <2>8. /\ Same(f, e, {"state", "key_block", "bbio", "pushed", "renegotiate", "new_session", "cache"})
        /\ Base(e) /\ T(e) = T(f) /\ e.state = ns
        /\ ns # "OK" => /\ e.key_block = f.key_block /\ e.bbio = f.bbio /\ e.cache = f.cache
        /\ ns = "OK" => /\ e.key_block = NULL /\ e.bbio = <<>> /\ ~e.pushed
                        /\ e.cache \in {f.cache, f.cache \cup {f.session}}
    BY <2>1, <2>5, <2>6, GotoIs, Zenon
  <2> HIDE DEF e
  <2>9. /\ e.hit = b.hit /\ e.random = b.random /\ e.new_cipher = b.new_cipher
        /\ e.session = b.session /\ e.ccs_ok = b.ccs_ok
        /\ e.change_cipher_spec = b.change_cipher_spec /\ e.read_key = b.read_key
        /\ e.write_key = b.write_key /\ e.reuse_message = b.reuse_message /\ e.keep = b.keep
        /\ e.previous_client_finished = b.previous_client_finished
        /\ e.previous_server_finished = b.previous_server_finished
        /\ e.out = f.out /\ e.cert_req = b.cert_req /\ e.handshake_buffer = b.handshake_buffer
    BY <2>4, <2>8, IsField, ZenonT(40) DEF Same
  <2>10. e.bbio = <<>>
    BY <2>4, <2>8, Zenon
  <2>11. ns \in States /\ ns \notin FlushStates \cup {"CW_CLNT_HELLO"}
    BY <2>2, Zenon DEF NextStates, States, ReadStates, FlushStates
  <2>12. Typed(e)
    BY <2>1, <2>8, <2>9, <2>11, Zenon DEF Typed
  <2>13. At(e) = ns /\ At(b) = ns
    BY <2>2, <2>8, <2>11, Zenon DEF At, ns
  <2>14. Local(cfg, s, e)
    <3>1. Digests(e)
      BY <2>1, <2>2, <2>6, <2>8, <2>9, <2>13, Zenon
         DEF Local, Digests, NextStates, Opening, Helloed, Offered, Answered, Ending
    <3>2. Waiting(e)
      BY <2>1, <2>9, Zenon DEF Waiting
    <3>3. Keys(s, e)
      <4>1. Keys(s, b)
        BY <2>1, Zenon DEF Local
      <4>2. Key(e) = Key(b) /\ \A md : Matches(e, md) = Matches(b, md)
        BY <2>9, Zenon DEF Key, Matches
      <4>3. Own(s, e) = Own(s, b) /\ Own(Peer(s), e) = Own(Peer(s), b)
        BY <2>9, Zenon DEF Own
      <4>4. Got(e) = Got(b) /\ Sent(e) = Sent(b) /\ Changed(e) = Changed(b)
        BY <2>9, <2>13, Zenon DEF Got, Sent, Changed
      <4>5. ns \in Start \cup Idle => ns = "OK"
        BY <2>2, Zenon DEF NextStates, Start, Idle
      <4>6. ns \in Early \cup Ending => ns # "OK"
        BY Zenon DEF Early, Ending, Opening, Helloed, Offered, Answered
      <4> QED
        BY <2>5, <2>8, <2>9, <2>13, <4>1, <4>2, <4>3, <4>4, <4>5, <4>6, Zenon DEF Keys
    <3>4. Buffers(e)
      <4>1. IsSequence(<<>>)
        BY DEF IsSequence
      <4> QED
        BY <2>7, <2>8, <2>9, <2>10, <2>11, <4>1, Zenon DEF Buffers
    <3>5. Sessioned(cfg, s, e)
      <4>1. /\ IsSession(b.session)
            /\ s = "client" => b.session.tick = NULL \/ Resumes(cfg, b.session.tick)
            /\ s = "server" => (\A x \in b.cache : Resumes(cfg, x))
            /\ s = "server" /\ ns = "OK" => Resumes(cfg, b.session)
        BY <2>1, <2>2, <2>13, Zenon DEF Local, Sessioned, Start, Opening, Idle, FlushStates
      <4>2. s = "server" => (\A x \in e.cache : Resumes(cfg, x))
        BY <2>5, <2>8, <4>1, Zenon
      <4>3. Sessioned(cfg, s, b)
        BY <2>1, Zenon DEF Local
      <4> QED
        BY <2>9, <2>13, <4>1, <4>2, <4>3, Zenon DEF Sessioned
    <3>6. Cached(e)
      BY <2>1, <2>9, <2>13, Zenon DEF Local, Cached
    <3> QED
      BY <3>1, <3>2, <3>3, <3>4, <3>5, <3>6, Zenon DEF Local
  <2>15. Fits(s, e)
    BY <2>1, <2>9, <2>12, <2>14, Zenon DEF Fits
  <2>16. Q(e) = Q(b)
    BY <2>4, <2>7, <2>9, <2>10, Zenon DEF Q
  <2>17. Output(s, b, e) /\ (Held(b) => Held(e)) /\ Own(Peer(s), e) = Own(Peer(s), b)
    BY <2>1, <2>9, <2>16, Zenon DEF Output, Held, Own
  <2> QED
    BY <2>3, <2>15, <2>17, OutputStep, Zenon DEF b
<1>1. "client" \in Sides /\ "server" \in Sides /\ "CW_FLUSH" \in FlushStates /\ "SW_FLUSH" \in FlushStates
  BY Zenon DEF Sides, FlushStates
<1>2. CASE ClientFlush
  <2>1. /\ Running /\ cfg' = cfg /\ ssl["client"].state = "CW_FLUSH"
        /\ ssl' = [ssl EXCEPT !["client"] =
                      Goto(BIO_flush(ssl["client"]), "client", ssl["client"].next_state)]
    BY <1>2, Zenon DEF ClientFlush, Step
  <2> QED
    BY <1>1, <2>1, <1>FlushStep, Zenon
<1>3. CASE ServerFlush
  <2>1. /\ Running /\ cfg' = cfg /\ ssl["server"].state = "SW_FLUSH"
        /\ ssl' = [ssl EXCEPT !["server"] =
                      Goto(BIO_flush(ssl["server"]), "server", ssl["server"].next_state)]
    BY <1>3, Zenon DEF ServerFlush, Step
  <2> QED
    BY <1>1, <2>1, <1>FlushStep, Zenon
<1> QED
  BY <1>2, <1>3, Zenon

----------------------------------------------------------------------------
(* The calls of the application, and what happens at rest.                 *)

\* Counters and flags that say nothing of the handshake.
LEMMA Untouched ==
    ASSUME NEW k, NEW s, NEW b, NEW e, Typed(b),
           Same(b, e, {"renegotiate", "new_session", "s3_renegotiate", "in_read_app_data",
                       "total_renegotiations", "written"}),
           e.renegotiate \in 0..2
    PROVE  /\ Typed(e) /\ e.state = b.state /\ (Local(k, s, b) => Local(k, s, e))
           /\ e.reuse_message = b.reuse_message
           /\ Q(e) = Q(b) /\ Held(e) = Held(b) /\ \A t : Own(t, e) = Own(t, b)
<1>1. /\ IsSSL(e) /\ e.state = b.state /\ e.next_state = b.next_state
      /\ e.reuse_message = b.reuse_message
      /\ e.handshake_buffer = b.handshake_buffer /\ e.handshake_dgst = b.handshake_dgst
      /\ e.keep = b.keep /\ e.bbio = b.bbio /\ e.pushed = b.pushed /\ e.out = b.out
      /\ e.cert_req = b.cert_req
      /\ e.previous_client_finished = b.previous_client_finished
      /\ e.previous_server_finished = b.previous_server_finished
      /\ e.ccs_ok = b.ccs_ok /\ e.change_cipher_spec = b.change_cipher_spec
  BY IsField, Zenon DEF Same
<1>2. /\ e.key_block = b.key_block /\ e.read_key = b.read_key /\ e.write_key = b.write_key
      /\ e.random = b.random /\ e.hit = b.hit /\ e.new_cipher = b.new_cipher
      /\ e.session = b.session /\ e.cache = b.cache
  BY IsField, Zenon DEF Same
<1>3. Typed(e)
  BY <1>1, Zenon DEF Typed, Base
<1>4. At(e) = At(b) /\ T(e) = T(b) /\ Key(e) = Key(b)
  BY <1>1, <1>2, Zenon DEF At, T, Key
<1>5. \A md : Matches(e, md) = Matches(b, md)
  BY <1>2, Zenon DEF Matches
<1>6. \A t : Own(t, e) = Own(t, b)
  BY <1>1, Zenon DEF Own
<1>7. Got(e) = Got(b) /\ Sent(e) = Sent(b) /\ Changed(e) = Changed(b)
  BY <1>2, <1>4, Zenon DEF Got, Sent, Changed
<1>8. Digests(b) => Digests(e)
  BY <1>1, <1>2, <1>4, Zenon DEF Digests
<1>9. Waiting(b) => Waiting(e)
  BY <1>1, <1>4 DEF Waiting
<1>10. Keys(s, b) => Keys(s, e)
  BY <1>1, <1>2, <1>4, <1>5, <1>6, <1>7, Zenon DEF Keys
<1>11. Buffers(b) => Buffers(e)
  BY <1>1, Zenon DEF Buffers
<1>12. Sessioned(k, s, b) => Sessioned(k, s, e)
  BY <1>1, <1>2, <1>4, Zenon DEF Sessioned
<1>13. Cached(b) => Cached(e)
  BY <1>1, <1>2, <1>4, Zenon DEF Cached
<1> QED
  BY <1>1, <1>3, <1>6, <1>8, <1>9, <1>10, <1>11, <1>12, <1>13, Zenon DEF Local, Q, Held

\* A call of SSL_read that finds nothing keeps Inv.
LEMMA ReadNothingKeeps ==
    ASSUME NullApart, Inv, NEW s \in Sides, ReadNothing(s)
    PROVE  Inv'
<1> DEFINE b == ssl[s]
           e == [b EXCEPT !.in_read_app_data = 0]
<1>1. Running /\ cfg' = cfg /\ ssl' = [ssl EXCEPT ![s] = e]
  BY Zenon DEF ReadNothing
<1>2. Typed(b) /\ Base(b) /\ IsSSL(b) /\ Local(cfg, s, b) /\ (s = "server" => b.reuse_message = NULL)
  BY <1>1, Ends, Zenon DEF Inv, TypeInv
<1>3. Same(b, e, {"in_read_app_data"})
  BY <1>2, IsField, Zenon DEF Same, IsSSL
<1> HIDE DEF e, b
<1>4. e.renegotiate \in 0..2
  BY <1>2, <1>3, IsField, Zenon DEF Same, Base
<1>5. /\ Typed(e) /\ e.state = b.state /\ (Local(cfg, s, b) => Local(cfg, s, e))
      /\ e.reuse_message = b.reuse_message
      /\ Q(e) = Q(b) /\ Held(e) = Held(b) /\ \A t : Own(t, e) = Own(t, b)
  <2>1. Same(b, e, {"renegotiate", "new_session", "s3_renegotiate", "in_read_app_data",
                    "total_renegotiations", "written"})
    BY <1>3, Zenon DEF Same
  <2> QED
    BY <1>2, <1>4, <2>1, Untouched, Zenon
<1>6. Fits(s, e) /\ Output(s, b, e)
  BY <1>2, <1>5, Zenon DEF Fits, Output
<1> QED
  BY <1>1, <1>5, <1>6, OutputStep, Zenon DEF b

\* SSL_renegotiate and SSL_renegotiate_abbreviated keep Inv.
LEMMA SSL_renegotiateKeeps ==
    ASSUME NullApart, Inv, NEW s \in Sides, NEW full, SSL_renegotiate(s, full)
    PROVE  Inv'
<1> DEFINE b == ssl[s]
           n == IF b.renegotiate = 0 THEN 1 ELSE b.renegotiate
           e == [b EXCEPT !.renegotiate = n, !.new_session = full, !.s3_renegotiate = TRUE]
<1>0. Running /\ cfg' = cfg
  BY Zenon DEF SSL_renegotiate
<1>2. Typed(b) /\ Base(b) /\ IsSSL(b) /\ Local(cfg, s, b) /\ (s = "server" => b.reuse_message = NULL)
  BY <1>0, Ends, Zenon DEF Inv, TypeInv
<1>1. ssl' = [ssl EXCEPT ![s] = e]
  <2>1. ssl = [t \in Sides |-> ssl[t]]
    BY Zenon DEF Inv, TypeInv
  <2> QED
    BY <2>1, Zenon DEF SSL_renegotiate
<1>3. /\ Same(b, e, {"renegotiate", "new_session", "s3_renegotiate"})
      /\ e.renegotiate = n
  BY <1>2, IsField, Zenon DEF Same, IsSSL
<1>4. n \in 0..2
  BY <1>2 DEF Base
<1> HIDE DEF e, b, n
<1>5. /\ Typed(e) /\ e.state = b.state /\ (Local(cfg, s, b) => Local(cfg, s, e))
      /\ e.reuse_message = b.reuse_message
      /\ Q(e) = Q(b) /\ Held(e) = Held(b) /\ \A t : Own(t, e) = Own(t, b)
  <2>1. Same(b, e, {"renegotiate", "new_session", "s3_renegotiate", "in_read_app_data",
                    "total_renegotiations", "written"})
    BY <1>3, Zenon DEF Same
  <2> QED
    BY <1>2, <1>3, <1>4, <2>1, Untouched, Zenon
<1>6. Fits(s, e) /\ Output(s, b, e)
  BY <1>2, <1>5, Zenon DEF Fits, Output
<1> QED
  BY <1>0, <1>1, <1>5, <1>6, OutputStep, Zenon DEF b

\* Nothing of this changes at rest.
RestSame(c, e) ==
    /\ e.previous_client_finished = c.previous_client_finished
    /\ e.previous_server_finished = c.previous_server_finished
    /\ e.key_block = c.key_block /\ e.read_key = c.read_key /\ e.write_key = c.write_key
    /\ e.random = c.random /\ e.hit = c.hit /\ e.new_cipher = c.new_cipher
    /\ e.session = c.session /\ e.cache = c.cache /\ e.reuse_message = c.reuse_message

\* An end at rest that only notes that it is to renegotiate.
LEMMA Resting ==
    ASSUME NEW k, NEW s, NEW b, NEW e, Local(k, s, b), b.state \in Idle, RestSame(b, e),
           At(e) \in Idle \cup {"ACCEPT"}, e.state \in {"SW_FLUSH", "ACCEPT"} \cup Idle
    PROVE  Digests(e) /\ Waiting(e) /\ Cached(e) /\ Keys(s, e) /\ Sessioned(k, s, e)
<1>1. At(b) = b.state /\ At(b) \in Idle
  BY Zenon DEF At, FlushStates, Idle
<1>2. At(e) \notin Opening \cup Helloed \cup Offered \cup Answered \cup Ending /\ At(e) \notin Early
  BY Zenon DEF Idle, Opening, Helloed, Offered, Answered, Ending, Early
<1>3. b.reuse_message = NULL
  BY Zenon DEF Local, Waiting, Idle
<1>4. Key(e) = Key(b) /\ \A md : Matches(e, md) = Matches(b, md)
  BY Zenon DEF RestSame, Key, Matches
<1>5. \A t : Own(t, e) = Own(t, b)
  BY Zenon DEF RestSame, Own
<1>6. Got(b) /\ Sent(b) /\ Changed(b)
  BY <1>1, Zenon DEF Got, Sent, Changed
<1>7. Digests(e) /\ Waiting(e)
  BY <1>2, <1>3, Zenon DEF Digests, Waiting, RestSame
<1>8. Keys(s, e)
  <2>1. /\ b.key_block = NULL /\ b.read_key = Key(b) /\ Matches(b, Own(Peer(s), b))
        /\ b.write_key = Key(b) /\ b.session.cipher = b.new_cipher /\ Matches(b, Own(s, b))
    BY <1>6, Zenon DEF Local, Keys
  <2> QED
    BY <1>2, <1>4, <1>5, <2>1, Zenon DEF Keys, RestSame
<1>9. Sessioned(k, s, e)
  <2>1. /\ IsSession(b.session)
        /\ s = "client" => b.session.tick = NULL \/ Resumes(k, b.session.tick)
        /\ s = "server" => (\A x \in b.cache : Resumes(k, x)) /\ Resumes(k, b.session)
    BY <1>1, Zenon DEF Local, Sessioned, Start, Opening, Idle
  <2>2. At(e) \notin {"SW_SRVR_DONE", "SR_CERT"}
    BY Zenon DEF Idle
  <2> QED
    BY <2>1, <2>2, Zenon DEF Sessioned, RestSame
<1>10. Cached(e)
  BY Zenon DEF Cached, Idle
<1> QED
  BY <1>7, <1>8, <1>9, <1>10, Zenon

\* What ssl3_renegotiate_check does.
LEMMA RenegotiateIs ==
    ASSUME NEW b, IsSSL(b)
    PROVE  LET e == ssl3_renegotiate_check(b)
           IN  /\ Same(b, e, {"state", "s3_renegotiate", "total_renegotiations"})
               /\ e.state = IF b.state = "ERR" THEN "ERR" ELSE "RENEGOTIATE"
<1> DEFINE f == [b EXCEPT !.s3_renegotiate = FALSE, !.total_renegotiations = 1]
           e == To(f, "RENEGOTIATE")
<1>1. Same(b, f, {"s3_renegotiate", "total_renegotiations"})
  BY IsField, Zenon DEF Same, IsSSL
<1>2. ssl3_renegotiate_check(b) = e
  BY Zenon DEF ssl3_renegotiate_check
<1> HIDE DEF f
<1>3. IsSSL(f) /\ f.state = b.state
  BY <1>1, IsField, Zenon DEF Same
<1>4. Same(f, e, {"state"}) /\ e.state = IF b.state = "ERR" THEN "ERR" ELSE "RENEGOTIATE"
  BY <1>3, ToIs, Zenon
<1> HIDE DEF e
<1>5. Same(b, e, {"state", "s3_renegotiate", "total_renegotiations"})
  BY <1>1, <1>4, Zenon DEF Same
<1> QED
  BY <1>2, <1>4, <1>5, Zenon

\* What an end at rest does: it asks for a handshake, takes up one it was asked
\* for, or writes application data.
LEMMA RestKeeps ==
    ASSUME NullApart, Inv,
           \/ StartHelloRequest \/ ReadUnexpectedHandshake \/ SendHelloRequest
           \/ (\E s \in Sides : RenegotiateCheck(s) \/ WriteData(s))
    PROVE  Inv'
<1>RestStep.
      ASSUME Running, NEW s \in Sides, NEW e, cfg' = cfg, ssl' = [ssl EXCEPT ![s] = e],
             ssl[s].state \in Idle, RestSame(ssl[s], e), Base(e), ~e.keep,
             e.state \in {"SW_FLUSH", "ACCEPT", "ERR"} \cup Idle,
             e.state = "SW_FLUSH" => e.next_state = "OK",
             IsSequence(e.out), IsSequence(e.bbio),
             e.state # "SW_FLUSH" => e.bbio = <<>>,
             e.state = "OK" => ~e.pushed,
             Output(s, ssl[s], e)
      PROVE  Inv'
  <2> USE <1>RestStep
  <2>1. Typed(ssl[s]) /\ Local(cfg, s, ssl[s]) /\ (s = "server" => ssl[s].reuse_message = NULL)
    BY Ends, Zenon DEF Inv, TypeInv
  <2>2. Typed(e)
    BY Zenon DEF Typed, States, FlushStates, NextStates, Idle
  <2>3. ASSUME e.state # "ERR" PROVE Local(cfg, s, e)
    <3>1. At(e) \in Idle \cup {"ACCEPT"}
      BY <2>3, Zenon DEF At, FlushStates, Idle
    <3>2. Digests(e) /\ Waiting(e) /\ Cached(e) /\ Keys(s, e) /\ Sessioned(cfg, s, e)
      BY <2>1, <2>3, <3>1, Resting, Zenon
    <3>3. Buffers(e)
      <4>1. "SW_FLUSH" \in Writing /\ e.state # "CW_CLNT_HELLO"
        BY Zenon DEF Writing, Idle
      <4> QED
        BY <4>1, Zenon DEF Buffers
    <3> QED
      BY <3>2, <3>3, Zenon DEF Local
  <2>4. Fits(s, e)
    BY <2>1, <2>2, <2>3, Zenon DEF Fits, RestSame
  <2>5. Own(Peer(s), e) = Own(Peer(s), ssl[s]) /\ Held(e) = Held(ssl[s])
    BY Zenon DEF RestSame, Own, Held
  <2> QED
    BY <2>4, <2>5, OutputStep, Zenon
\* What Inv says of an end at rest.
<1>Rested.
      ASSUME Running, NEW s \in Sides, ssl[s].state \in Idle
      PROVE  ssl[s].bbio = <<>> /\ (ssl[s].state = "OK" => ~ssl[s].pushed) /\ ~ssl[s].keep
             /\ ssl[s].reuse_message = NULL
  <2> USE <1>Rested
  <2>1. Local(cfg, s, ssl[s]) /\ ~ssl[s].keep /\ ssl[s].reuse_message = NULL
    BY Ends, Zenon DEF Idle
  <2> QED
    BY <2>1, Zenon DEF Local, Buffers, Writing, Idle
\* A state and some flags change.
<1>RestFlags.
      ASSUME Running, NEW s \in Sides, NEW e, cfg' = cfg, ssl' = [ssl EXCEPT ![s] = e],
             ssl[s].state \in Idle, e.state \in {"ACCEPT", "RENEGOTIATE", "SW_HELLO_REQ"},
             Same(ssl[s], e, {"state", "renegotiate", "ccs_ok", "change_cipher_spec", "new_session",
                              "s3_renegotiate", "total_renegotiations"}),
             e.renegotiate \in 0..2
      PROVE  Inv'
  <2> USE <1>RestFlags
  <2> DEFINE b == ssl[s]
  <2>1. /\ Base(b) /\ b.bbio = <<>> /\ ~b.keep /\ IsSequence(b.out) /\ IsSequence(b.bbio)
    BY Ends, <1>Rested, Zenon
  <2>2. /\ RestSame(b, e) /\ e.keep = b.keep /\ e.bbio = b.bbio /\ e.out = b.out /\ e.pushed = b.pushed
        /\ e.handshake_buffer = b.handshake_buffer /\ e.handshake_dgst = b.handshake_dgst
        /\ e.cert_req = b.cert_req /\ IsSSL(e)
    BY IsField, Zenon DEF Same, RestSame
  <2> HIDE DEF b
  <2>3. Base(e)
    BY <2>1, <2>2, Zenon DEF Base
  <2>4. Q(e) = Q(b) /\ Own(s, e) = Own(s, b)
    BY <2>2, Zenon DEF Q, Own, RestSame
  <2>5. Output(s, b, e)
    BY <2>4, Zenon DEF Output
  <2>6. e.state \in {"SW_FLUSH", "ACCEPT", "ERR"} \cup Idle
    BY Zenon DEF Idle
  <2> QED
    BY <2>1, <2>2, <2>3, <2>5, <2>6, <1>RestStep, Zenon DEF b
<1>StartHelloRequestKeeps.
      ASSUME StartHelloRequest
      PROVE  Inv'
  <2> USE <1>StartHelloRequestKeeps
  <2> DEFINE b == ssl["server"]
             f == [b EXCEPT !.renegotiate = 1, !.ccs_ok = FALSE, !.change_cipher_spec = FALSE]
             e == To(f, "SW_HELLO_REQ")
  <2>1. /\ Running /\ cfg' = cfg /\ b.state = "RENEGOTIATE" /\ "server" \in Sides
        /\ ssl' = [ssl EXCEPT !["server"] = e]
    BY Zenon DEF StartHelloRequest, Step, Sides
  <2>2. IsSSL(b)
    BY <2>1, Ends, Zenon
  <2>3. Same(b, f, {"renegotiate", "ccs_ok", "change_cipher_spec"}) /\ f.renegotiate = 1
    BY <2>2, IsField, Zenon DEF Same, IsSSL
  <2> HIDE DEF f
  <2>4. IsSSL(f) /\ f.state = b.state
    BY <2>3, IsField, Zenon DEF Same
  <2>5. Same(f, e, {"state"}) /\ e.state = "SW_HELLO_REQ"
    BY <2>1, <2>4, ToIs, Zenon
  <2> HIDE DEF e
  <2>6. Same(b, e, {"state", "renegotiate", "ccs_ok", "change_cipher_spec", "new_session",
                    "s3_renegotiate", "total_renegotiations"})
    BY <2>3, <2>5, Zenon DEF Same
  <2>7. e.renegotiate \in 0..2
    BY <2>3, <2>5, IsField DEF Same
  <2>8. b.state \in Idle
    BY <2>1, Zenon DEF Idle
  <2> QED
    BY <2>1, <2>5, <2>6, <2>7, <2>8, <1>RestFlags, Zenon
<1>ReadUnexpectedHandshakeKeeps.
      ASSUME ReadUnexpectedHandshake
      PROVE  Inv'
  <2> USE <1>ReadUnexpectedHandshakeKeeps
  <2> DEFINE b == ssl["server"]
             e == [b EXCEPT !.state = "ACCEPT", !.renegotiate = 1, !.new_session = TRUE]
  <2>1. /\ Running /\ cfg' = cfg /\ b.state = "OK" /\ "server" \in Sides
        /\ ssl' = [ssl EXCEPT !["server"] = e]
    BY Zenon DEF ReadUnexpectedHandshake, Step, Sides
  <2>2. IsSSL(b)
    BY <2>1, Ends, Zenon
  <2>3. /\ Same(b, e, {"state", "renegotiate", "new_session"}) /\ e.renegotiate = 1
        /\ e.state = "ACCEPT"
    BY <2>2, IsField, Zenon DEF Same, IsSSL
  <2> HIDE DEF e
  <2>4. Same(b, e, {"state", "renegotiate", "ccs_ok", "change_cipher_spec", "new_session",
                    "s3_renegotiate", "total_renegotiations"})
    BY <2>3, Zenon DEF Same
  <2>5. b.state \in Idle /\ e.renegotiate \in 0..2
    BY <2>1, <2>3 DEF Idle
  <2> QED
    BY <2>1, <2>3, <2>4, <2>5, <1>RestFlags, Zenon
<1>RenegotiateCheckKeeps.
      ASSUME NEW s \in Sides, RenegotiateCheck(s)
      PROVE  Inv'
  <2> USE <1>RenegotiateCheckKeeps
  <2> DEFINE b == ssl[s]
             e == ssl3_renegotiate_check(b)
  <2>1. Running /\ cfg' = cfg /\ b.state = "OK" /\ ssl' = [ssl EXCEPT ![s] = e]
    BY Zenon DEF RenegotiateCheck, Step
  <2>2. IsSSL(b) /\ Base(b)
    BY <2>1, Ends, Zenon
  <2>3. /\ Same(b, e, {"state", "s3_renegotiate", "total_renegotiations"}) /\ e.state = "RENEGOTIATE"
    BY <2>1, <2>2, RenegotiateIs, Zenon
  <2> HIDE DEF e
  <2>4. Same(b, e, {"state", "renegotiate", "ccs_ok", "change_cipher_spec", "new_session",
                    "s3_renegotiate", "total_renegotiations"})
    BY <2>3, Zenon DEF Same
  <2>5. e.renegotiate \in 0..2
    BY <2>2, <2>3, IsField, Zenon DEF Same, Base
  <2>6. b.state \in Idle
    BY <2>1, Zenon DEF Idle
  <2> QED
    BY <2>1, <2>3, <2>4, <2>5, <2>6, <1>RestFlags, Zenon
\* The digest starts again.
<1>InitMacIs.
      ASSUME NEW c, Base(c), ~c.keep
      PROVE  LET d == tls1_init_finished_mac(c)
             IN  /\ Same(c, d, {"handshake_buffer", "handshake_dgst"}) /\ Base(d)
                 /\ d.handshake_buffer = <<>> /\ d.handshake_dgst = NULL
  <2> USE <1>InitMacIs
  <2> DEFINE d == tls1_init_finished_mac(c)
  <2>1. /\ Same(c, d, {"handshake_buffer", "handshake_dgst"})
        /\ d.handshake_buffer = <<>> /\ d.handshake_dgst = NULL
    BY IsField, Zenon DEF Same, Base, IsSSL, tls1_init_finished_mac
  <2> HIDE DEF d
  <2>2. /\ d.renegotiate = c.renegotiate /\ d.cert_req = c.cert_req /\ d.keep = c.keep
        /\ d.pushed = c.pushed /\ d.bbio = c.bbio /\ IsSSL(d)
    BY <2>1, IsField, Zenon DEF Same
  <2>3. IsSequence(<<>>)
    BY DEF IsSequence
  <2>4. Base(d)
    BY <2>1, <2>2, <2>3, Zenon DEF Base
  <2> QED
    BY <2>1, <2>4, Zenon DEF d
<1>SendHelloRequestKeeps.
      ASSUME SendHelloRequest
      PROVE  Inv'
  <2> USE <1>SendHelloRequestKeeps
  <2> DEFINE b == ssl["server"]
             w == ssl3_do_write(b, "HelloRequest", NULL, FALSE)
             m == [type |-> "HelloRequest", body |-> NULL]
             i == tls1_init_finished_mac(w)
             f == [i EXCEPT !.next_state = "OK"]
             e == To(f, "SW_FLUSH")
  <2>1. /\ Running /\ cfg' = cfg /\ b.state = "SW_HELLO_REQ" /\ "server" \in Sides
        /\ ssl' = [ssl EXCEPT !["server"] = e]
    BY Zenon DEF SendHelloRequest, Step, Sides
  <2>2. b.state \in Idle
    BY <2>1, Zenon DEF Idle
  <2>3. /\ Base(b) /\ IsSSL(b) /\ IsSequence(b.out) /\ IsSequence(b.bbio) /\ ~b.keep
    BY <2>1, <2>2, Ends, <1>Rested, Zenon
  <2>4. Wrote(b, w, m)
    BY <2>3, WriteIs, Zenon
  <2>5. IsMessage(cfg, m) /\ m.type = "HelloRequest"
    BY Zenon DEF IsMessage
  <2> HIDE DEF w, m, b
  <2>6. /\ Base(w) /\ ~w.keep /\ IsSequence(w.out) /\ IsSequence(w.bbio)
        /\ RestSame(b, w) /\ IsSSL(w)
    BY <2>3, <2>4, IsField, Zenon DEF Wrote, Same, RestSame
  <2>7. /\ Same(w, i, {"handshake_buffer", "handshake_dgst"}) /\ Base(i)
    BY <2>6, <1>InitMacIs, Zenon
  <2> HIDE DEF i
  <2>8. Same(i, f, {"next_state"}) /\ f.next_state = "OK"
    BY <2>7, IsField, Zenon DEF Same, IsSSL
  <2> HIDE DEF f
  <2>9. /\ IsSSL(f) /\ SameBase(i, f) /\ RestSame(w, f) /\ f.out = w.out /\ f.bbio = w.bbio
        /\ f.keep = w.keep
    BY <2>7, <2>8, IsField, Zenon DEF Same, SameBase, RestSame
  <2>10. Base(f)
    BY <2>7, <2>9, BaseStays, Zenon
  <2>11. Same(f, e, {"state"}) /\ e.state \in {"ERR", "SW_FLUSH"} /\ Base(e)
    BY <2>9, <2>10, ToIs, BaseFails, Zenon
  <2> HIDE DEF e
  <2>12. /\ RestSame(b, e) /\ e.out = w.out /\ e.bbio = w.bbio /\ ~e.keep /\ e.next_state = "OK"
    BY <2>6, <2>8, <2>9, <2>11, IsField, Zenon DEF Same, RestSame
  <2>13. Output("server", b, e)
    <3>1. PICK rec : rec.type = "handshake" /\ rec.msg = m /\ Q(w) = Append(Q(b), rec)
      BY <2>4, Zenon DEF Wrote
    <3>2. Q(e) = Append(Q(b), rec) /\ Own("server", e) = Own("server", b) /\ ~IsFinished(rec)
      BY <2>5, <2>12, <3>1, Zenon DEF Q, Own, RestSame, IsFinished
    <3> QED
      BY <2>5, <3>1, <3>2, Zenon DEF Output
  <2>15. CASE e.state = "ERR"
    <3>1. Fits("server", e)
      <4>1. Typed(e)
        BY <2>11, <2>12, <2>15, Zenon DEF Typed, States, FlushStates
      <4>2. e.reuse_message = NULL
        BY <2>1, <2>2, <2>12, <1>Rested, Zenon DEF RestSame, b
      <4> QED
        BY <2>15, <4>1, <4>2, Zenon DEF Fits
    <3> QED
      BY <2>1, <2>15, <3>1, OutputStep, Zenon
  <2>16. CASE e.state = "SW_FLUSH"
    BY <2>1, <2>2, <2>6, <2>11, <2>12, <2>13, <2>16, <1>RestStep, Zenon DEF b
  <2> QED
    BY <2>11, <2>15, <2>16, Zenon
<1>WriteDataKeeps.
      ASSUME NEW s \in Sides, WriteData(s)
      PROVE  Inv'
  <2> USE <1>WriteDataKeeps
  <2> DEFINE b == ssl[s]
             rec == [type |-> "data", key |-> b.write_key, msg |-> NULL]
             c == [b EXCEPT !.written = @ + 1]
             e == Put(c, rec, "no")
  <2>1. /\ Running /\ cfg' = cfg /\ b.state = "OK"
    BY Zenon DEF WriteData
  <2>2. ssl' = [ssl EXCEPT ![s] = e]
    <3>1. ssl' = [ssl EXCEPT ![s] = Put([ssl[s] EXCEPT !.written = ssl[s].written + 1],
                                        [type |-> "data", key |-> ssl[s].write_key, msg |-> NULL],
                                        "no")]
      BY Zenon DEF WriteData
    <3> QED
      BY <3>1, Zenon
  <2>3. b.state \in Idle
    BY <2>1, Zenon DEF Idle
  <2>4. /\ Base(b) /\ IsSSL(b) /\ IsSequence(b.out) /\ IsSequence(b.bbio) /\ ~b.keep
        /\ ~b.pushed
    BY <2>1, <2>3, Ends, <1>Rested, Zenon
  <2>5. Same(b, c, {"written"})
    BY <2>4, IsField, Zenon DEF Same, IsSSL
  <2>6. rec.type = "data"
    BY Zenon
  <2> HIDE DEF b, c, rec
  <2>7. /\ RestSame(b, c) /\ SameBase(b, c) /\ IsSSL(c) /\ c.out = b.out /\ c.bbio = b.bbio
        /\ c.state = b.state /\ c.keep = b.keep /\ c.pushed = b.pushed
    BY <2>5, IsField, Zenon DEF Same, SameBase, RestSame
  <2>8. Base(c)
    BY <2>4, <2>7, BaseStays, Zenon
  <2>9. /\ Same(c, e, {"bbio", "out"}) /\ Base(e)
        /\ IsSequence(e.out) /\ IsSequence(e.bbio)
        /\ Q(e) = Append(Q(c), rec)
        /\ ~c.pushed => e.bbio = <<>>
    BY <2>4, <2>7, <2>8, PutIs, Zenon
  <2> HIDE DEF e
  <2>10. /\ RestSame(b, e) /\ e.state = b.state /\ e.keep = b.keep /\ e.pushed = b.pushed
    BY <2>7, <2>9, IsField, Zenon DEF Same, RestSame
  <2>11. Q(c) = Q(b)
    BY <2>7, Zenon DEF Q
  <2>12. Output(s, b, e)
    BY <2>6, <2>9, <2>10, <2>11, Zenon DEF Output, IsFinished, Own, RestSame
  <2>13. /\ e.state \in {"SW_FLUSH", "ACCEPT", "ERR"} \cup Idle
         /\ e.state # "SW_FLUSH"
    BY <2>1, <2>10, Zenon DEF Idle
  <2> QED
    BY <2>1, <2>2, <2>3, <2>4, <2>7, <2>9, <2>10, <2>12, <2>13, <1>RestStep, Zenon DEF b
<1> QED
  BY <1>StartHelloRequestKeeps, <1>ReadUnexpectedHandshakeKeeps,
     <1>RenegotiateCheckKeeps, <1>SendHelloRequestKeeps, <1>WriteDataKeeps, Zenon

\* A handshake begins (ssl_init_wbio_buffer, ssl3_init_finished_mac).
LEMMA StartsKeep ==
    ASSUME NullApart, Inv,
           \/ StartConnect \/ StartAccept
    PROVE  Inv'
\* A handshake starts.
<1>Starts.
      ASSUME Running, NEW s \in Sides, NEW e, cfg' = cfg, ssl' = [ssl EXCEPT ![s] = e],
             ssl[s].state \in Start \cup {"RENEGOTIATE"}, e.state \in Opening,
             Same(ssl[s], e, {"state", "handshake_buffer", "handshake_dgst", "bbio", "pushed",
                              "renegotiate", "ccs_ok", "change_cipher_spec"}),
             e.renegotiate \in 0..2, e.handshake_buffer = <<>>, e.handshake_dgst = NULL, e.bbio = <<>>,
             e.state = "CW_CLNT_HELLO" => ~e.pushed, ~e.ccs_ok, ~e.change_cipher_spec
      PROVE  Inv'
  <2> USE <1>Starts
  <2> DEFINE b == ssl[s]
  <2>1. /\ Typed(b) /\ Base(b) /\ Local(cfg, s, b) /\ ~b.keep /\ b.reuse_message = NULL
        /\ IsSequence(b.out)
    BY Ends, Zenon DEF Start
  <2>2. b.bbio = <<>> /\ b.key_block = NULL
    BY <2>1, Zenon DEF Local, Buffers, Keys, Start, Idle, Writing
  <2> HIDE DEF b
  <2>3. /\ IsSSL(e) /\ e.keep = b.keep /\ e.reuse_message = b.reuse_message /\ e.out = b.out
        /\ e.cert_req = b.cert_req /\ e.key_block = b.key_block
        /\ e.session = b.session /\ e.cache = b.cache
        /\ e.previous_client_finished = b.previous_client_finished
        /\ e.previous_server_finished = b.previous_server_finished
    BY IsField, Zenon DEF Same, b
  <2>4. IsSequence(<<>>)
    BY DEF IsSequence
  <2>5. Base(e)
    BY <2>1, <2>3, <2>4, Zenon DEF Base
  <2>6. /\ e.state \notin FlushStates \cup Idle \cup Start \cup Writing \cup {"OK", "ERR"}
        /\ At(e) = e.state /\ e.state \in States
        /\ e.state \notin Helloed \cup Offered \cup Answered \cup Ending
        /\ e.state \in Early
        /\ e.state \notin {"SW_SRVR_DONE", "SR_CERT", "SR_KEY_EXCH", "SR_CERT_VRFY"}
    BY Zenon DEF Opening, At, FlushStates, Idle, Start, Writing, States, ReadStates, Helloed, Offered,
           Answered, Ending, Early
  <2>7. Typed(e)
    BY <2>1, <2>3, <2>5, <2>6, Zenon DEF Typed
  <2>8. Digests(e) /\ Waiting(e) /\ Cached(e) /\ Buffers(e)
    BY <2>1, <2>3, <2>4, <2>6, Zenon DEF Digests, Waiting, Cached, Buffers
  <2>9. Keys(s, e)
    <3>1. ~Got(e) /\ ~Sent(e) /\ ~Changed(e)
      BY <2>6, Zenon DEF Got, Sent, Changed, Opening, Idle
    <3> QED
      BY <2>2, <2>3, <2>6, <3>1, Zenon DEF Keys
  <2>10. Sessioned(cfg, s, e)
    <3>1. /\ \/ b.session = NULL
             \/ /\ IsSession(b.session)
                /\ s = "client" => b.session.tick = NULL \/ Resumes(cfg, b.session.tick)
          /\ s = "server" => \A x \in b.cache : Resumes(cfg, x)
      BY <2>1, Zenon DEF Local, Sessioned
    <3> QED
      BY <2>3, <2>6, <3>1, Zenon DEF Sessioned
  <2>11. Fits(s, e)
    BY <2>1, <2>3, <2>7, <2>8, <2>9, <2>10, Zenon DEF Fits, Local
  <2>12. Output(s, b, e) /\ Held(e) = Held(b) /\ Own(Peer(s), e) = Own(Peer(s), b)
    BY <2>2, <2>3, Zenon DEF Output, Held, Own, Q
  <2> QED
    BY <2>11, <2>12, OutputStep, Zenon DEF b
<1>StartConnectKeeps.
      ASSUME StartConnect
      PROVE  Inv'
  <2> USE <1>StartConnectKeeps
  <2> DEFINE b == ssl["client"]
             a == ssl_free_wbio_buffer(b)
             i == tls1_init_finished_mac(a)
             f == [i EXCEPT !.renegotiate = IF b.state = "RENEGOTIATE" THEN 1 ELSE @,
                            !.ccs_ok = FALSE, !.change_cipher_spec = FALSE]
             e == To(f, "CW_CLNT_HELLO")
  <2>1. /\ Running /\ cfg' = cfg /\ b.state \in {"CONNECT", "RENEGOTIATE"} /\ "client" \in Sides
        /\ ssl' = [ssl EXCEPT !["client"] = e]
    BY Zenon DEF StartConnect, Step, Sides
  <2>2. IsSSL(b) /\ b.state # "ERR" /\ b.renegotiate \in 0..2
    BY <2>1, Ends, Zenon DEF Base
  <2>3. Same(b, a, {"bbio", "pushed"}) /\ a.bbio = <<>> /\ ~a.pushed
    BY <2>2, IsField, Zenon DEF Same, IsSSL, ssl_free_wbio_buffer
  <2> HIDE DEF a
  <2>4. /\ Same(a, i, {"handshake_buffer", "handshake_dgst"})
        /\ i.handshake_buffer = <<>> /\ i.handshake_dgst = NULL
    BY <2>3, IsField, Zenon DEF Same, IsSSL, tls1_init_finished_mac
  <2> HIDE DEF i
  <2>5. /\ Same(i, f, {"renegotiate", "ccs_ok", "change_cipher_spec"})
        /\ ~f.ccs_ok /\ ~f.change_cipher_spec /\ f.renegotiate \in {1, i.renegotiate}
    BY <2>4, IsField, Zenon DEF Same, IsSSL
  <2> HIDE DEF f
  <2>6. IsSSL(f) /\ f.state # "ERR"
    BY <2>2, <2>3, <2>4, <2>5, IsField, Zenon DEF Same
  <2>7. Same(f, e, {"state"}) /\ e.state = "CW_CLNT_HELLO"
    BY <2>6, ToIs, Zenon
  <2> HIDE DEF e
  <2>8. Same(b, e, {"state", "handshake_buffer", "handshake_dgst", "bbio", "pushed", "renegotiate",
                    "ccs_ok", "change_cipher_spec"})
    BY <2>3, <2>4, <2>5, <2>7, Zenon DEF Same
  <2>9. /\ e.handshake_buffer = <<>> /\ e.handshake_dgst = NULL /\ e.bbio = <<>> /\ ~e.pushed
        /\ ~e.ccs_ok /\ ~e.change_cipher_spec
    BY <2>3, <2>4, <2>5, <2>7, IsField, Zenon DEF Same
  <2>10. e.state \in Opening /\ b.state \in Start \cup {"RENEGOTIATE"}
    BY <2>1, <2>7, Zenon DEF Opening, Start
  <2>11. e.renegotiate \in 0..2
    <3>1. i.renegotiate = b.renegotiate /\ e.renegotiate = f.renegotiate
      BY <2>2, <2>3, <2>4, <2>7, IsField, Zenon DEF Same
    <3> QED
      BY <2>2, <2>5, <3>1
  <2> QED
    BY <2>1, <2>8, <2>9, <2>10, <2>11, <1>Starts, Zenon
<1>StartAcceptKeeps.
      ASSUME StartAccept
      PROVE  Inv'
  <2> USE <1>StartAcceptKeeps
  <2> DEFINE b == ssl["server"]
             a == ssl_free_wbio_buffer(b)
             i == tls1_init_finished_mac(a)
             f == [i EXCEPT !.pushed = TRUE, !.ccs_ok = FALSE, !.change_cipher_spec = FALSE]
             e == To(f, "SR_CLNT_HELLO")
  <2>1. /\ Running /\ cfg' = cfg /\ b.state = "ACCEPT" /\ "server" \in Sides
        /\ ssl' = [ssl EXCEPT !["server"] = e]
    BY Zenon DEF StartAccept, Step, Sides
  <2>2. IsSSL(b) /\ b.state # "ERR" /\ b.renegotiate \in 0..2
    BY <2>1, Ends, Zenon DEF Base
  <2>3. Same(b, a, {"bbio", "pushed"}) /\ a.bbio = <<>>
    BY <2>2, IsField, Zenon DEF Same, IsSSL, ssl_free_wbio_buffer
  <2> HIDE DEF a
  <2>4. /\ Same(a, i, {"handshake_buffer", "handshake_dgst"})
        /\ i.handshake_buffer = <<>> /\ i.handshake_dgst = NULL
    BY <2>3, IsField, Zenon DEF Same, IsSSL, tls1_init_finished_mac
  <2> HIDE DEF i
  <2>5. /\ Same(i, f, {"pushed", "ccs_ok", "change_cipher_spec"}) /\ ~f.ccs_ok /\ ~f.change_cipher_spec
    BY <2>4, IsField, Zenon DEF Same, IsSSL
  <2> HIDE DEF f
  <2>6. IsSSL(f) /\ f.state # "ERR"
    BY <2>2, <2>3, <2>4, <2>5, IsField, Zenon DEF Same
  <2>7. Same(f, e, {"state"}) /\ e.state = "SR_CLNT_HELLO"
    BY <2>6, ToIs, Zenon
  <2> HIDE DEF e
  <2>8. Same(b, e, {"state", "handshake_buffer", "handshake_dgst", "bbio", "pushed", "renegotiate",
                    "ccs_ok", "change_cipher_spec"})
    BY <2>3, <2>4, <2>5, <2>7, Zenon DEF Same
  <2>9. /\ e.handshake_buffer = <<>> /\ e.handshake_dgst = NULL /\ e.bbio = <<>>
        /\ ~e.ccs_ok /\ ~e.change_cipher_spec
    BY <2>3, <2>4, <2>5, <2>7, IsField, Zenon DEF Same
  <2>10. e.state \in Opening /\ b.state \in Start \cup {"RENEGOTIATE"} /\ e.state # "CW_CLNT_HELLO"
    BY <2>1, <2>7, Zenon DEF Opening, Start
  <2>11. e.renegotiate \in 0..2
    BY <2>2, <2>3, <2>4, <2>5, <2>7, IsField, Zenon DEF Same
  <2> QED
    BY <2>1, <2>8, <2>9, <2>10, <2>11, <1>Starts, Zenon
<1> QED
  BY <1>StartConnectKeeps, <1>StartAcceptKeeps, Zenon

\* ssl3_client_hello keeps Inv.
LEMMA SendClientHelloKeeps ==
    ASSUME NullApart, Inv, SendClientHello
    PROVE  Inv'
<1> DEFINE b == ssl["client"]
           ses == IF b.session = NULL THEN NewSession(NULL) ELSE b.session
           d == [b EXCEPT !.session = IF @ = NULL THEN NewSession(NULL) ELSE @,
                          !.random = hellos + 1]
           body == [random |-> hellos + 1,
                    offer |-> IF b.new_session THEN NULL ELSE d.session.id,
                    tick |-> IF b.new_session THEN NULL ELSE d.session.tick,
                    binding |-> b.previous_client_finished]
           m == [type |-> "ClientHello", body |-> body]
           w == ssl3_do_write(d, "ClientHello", body, "no")
           f == [w EXCEPT !.pushed = TRUE]
           e == To(f, "CR_SRVR_HELLO")
<1>1. /\ Running /\ cfg' = cfg /\ b.state = "CW_CLNT_HELLO" /\ "client" \in Sides
      /\ ssl' = [ssl EXCEPT !["client"] = e]
  BY Zenon DEF SendClientHello, Sides
<1>2. /\ Typed(b) /\ Base(b) /\ IsSSL(b) /\ b.state # "ERR" /\ Local(cfg, "client", b)
      /\ ~b.keep /\ b.reuse_message = NULL /\ IsSequence(b.out) /\ IsSequence(b.bbio)
  BY <1>1, Ends, Zenon
<1>3. /\ Same(b, d, {"session", "random"}) /\ d.session = ses /\ d.random = hellos + 1
  BY <1>2, IsField, Zenon DEF Same, IsSSL
<1>4. /\ IsSession(ses) /\ (ses.tick = NULL \/ Resumes(cfg, ses.tick))
  BY <1>2, Zenon DEF Local, Sessioned, NewSession, IsSession, SessionFields
<1> HIDE DEF ses, d
<1>5. /\ DOMAIN body = {"random", "offer", "tick", "binding"} /\ body.random = hellos + 1
      /\ body.tick = NULL \/ Resumes(cfg, body.tick)
  BY <1>3, <1>4, Zenon
<1> HIDE DEF body
<1>6. m.type = "ClientHello" /\ m.body = body /\ m = [type |-> m.type, body |-> m.body]
  BY Zenon
<1>7. SameBase(b, d) /\ IsSSL(d) /\ d.out = b.out /\ d.bbio = b.bbio /\ d.state = b.state
  BY <1>3, IsField, Zenon DEF Same, SameBase
<1>8. Base(d) /\ T(d) = T(b)
  BY <1>2, <1>7, BaseStays, Zenon
<1>9. Wrote(d, w, m)
  BY <1>2, <1>7, <1>8, WriteIs, Zenon
<1> HIDE DEF m, w
<1>10. IsMessage(cfg, m)
  BY <1>5, <1>6, Zenon DEF IsMessage
<1>11. /\ At(b) = b.state /\ b.state \in Opening /\ b.state \in Early
  BY <1>1, Zenon DEF At, FlushStates, Opening, Early
<1>12. /\ b.handshake_buffer = <<>> /\ ~b.pushed /\ b.bbio = <<>>
       /\ ~b.ccs_ok /\ ~b.change_cipher_spec /\ b.key_block = NULL
  BY <1>1, <1>2, <1>11, Zenon DEF Local, Digests, Buffers, Keys, Base
<1>13. T(b) = <<>>
  BY <1>2, <1>12, NotNull, Zenon DEF T
<1>14. /\ Same(w, f, {"pushed"})
  BY <1>9, IsField, Zenon DEF Wrote, Same, IsSSL
<1> HIDE DEF f
<1>15. /\ Same(f, e, {"state"}) /\ e.state = IF f.state = "ERR" THEN "ERR" ELSE "CR_SRVR_HELLO"
  BY <1>14, ToIs, Zenon DEF Same
<1> HIDE DEF e
<1>16. /\ w.state \in {"CW_CLNT_HELLO", "ERR"} /\ w.pushed = b.pushed /\ Base(w) /\ w.keep = b.keep
       /\ w.reuse_message = b.reuse_message /\ w.session = ses /\ w.random = hellos + 1
       /\ w.ccs_ok = b.ccs_ok /\ w.change_cipher_spec = b.change_cipher_spec
       /\ w.key_block = b.key_block
       /\ w.previous_client_finished = b.previous_client_finished
       /\ w.previous_server_finished = b.previous_server_finished
       /\ IsSequence(w.out)
  BY <1>1, <1>3, <1>7, <1>9, IsField, Zenon DEF Wrote, Same
<1>17. w.bbio = <<>>
  BY <1>12, <1>16, Zenon DEF Base
<1>18. /\ IsSSL(e) /\ e.state \in {"CR_SRVR_HELLO", "ERR"} /\ (e.state # "ERR" => w.state # "ERR")
       /\ e.handshake_buffer = w.handshake_buffer /\ e.handshake_dgst = w.handshake_dgst
       /\ e.keep = w.keep /\ e.reuse_message = w.reuse_message /\ e.session = w.session
       /\ e.random = w.random /\ e.ccs_ok = w.ccs_ok
       /\ e.change_cipher_spec = w.change_cipher_spec /\ e.key_block = w.key_block
       /\ e.previous_client_finished = w.previous_client_finished
       /\ e.previous_server_finished = w.previous_server_finished
       /\ e.out = w.out /\ e.bbio = w.bbio /\ e.renegotiate = w.renegotiate
       /\ e.cert_req = w.cert_req
  BY <1>14, <1>15, <1>16, IsField, Zenon DEF Same
<1>19. Base(e) /\ T(e) = T(w)
  BY <1>16, <1>17, <1>18, Zenon DEF Base, T
<1>20. Typed(e)
  BY <1>2, <1>16, <1>18, <1>19, Zenon DEF Typed, States, ReadStates, FlushStates
<1>21. ASSUME e.state # "ERR" PROVE Local(cfg, "client", e)
  <2>1. e.state = "CR_SRVR_HELLO" /\ At(e) = "CR_SRVR_HELLO"
    BY <1>18, <1>21, Zenon DEF At, FlushStates
  <2>2. T(e) = Append(<<>>, Digested(m))
    BY <1>8, <1>9, <1>13, <1>18, <1>19, <1>21, Zenon DEF Wrote
  <2>3. Digested(m).type = "ClientHello" /\ Digested(m).body.random = hellos + 1
    BY <1>5, <1>6, <1>10, DigestedIs, Zenon
  <2>4. /\ IsSequence(T(e)) /\ Len(T(e)) = 1 /\ T(e)[1] = Digested(m)
    <3>1. IsSequence(<<>>) /\ Len(<<>>) = 0
      BY DEF IsSequence
    <3>2. /\ IsSequence(Append(<<>>, Digested(m)))
          /\ Len(Append(<<>>, Digested(m))) = Len(<<>>) + 1
          /\ Append(<<>>, Digested(m))[Len(<<>>) + 1] = Digested(m)
      BY <3>1, Appended, Zenon
    <3> QED
      BY <2>2, <3>1, <3>2
  <2>5. Digests(e)
    BY <1>16, <1>18, <2>1, <2>3, <2>4, Zenon DEF Digests, Opening, Helloed, Offered, Answered, Ending
  <2>6. Waiting(e) /\ Cached(e)
    BY <1>2, <1>16, <1>18, <2>1, Zenon DEF Waiting, Cached
  <2>7. Keys("client", e)
    <3>1. ~Got(e) /\ ~Sent(e) /\ ~Changed(e)
      BY <2>1, Zenon DEF Got, Sent, Changed, Idle
    <3> QED
      BY <1>12, <1>16, <1>18, <2>1, <3>1, Zenon DEF Keys, Offered, Answered, Ending, Start, Idle
  <2>8. Buffers(e)
    BY <1>16, <1>17, <1>18, <2>1 DEF Buffers, IsSequence
  <2>9. Sessioned(cfg, "client", e)
    BY <1>4, <1>16, <1>18, Zenon DEF Sessioned
  <2> QED
    BY <2>5, <2>6, <2>7, <2>8, <2>9, Zenon DEF Local
<1>22. Fits("client", e)
  BY <1>20, <1>21, Zenon DEF Fits
<1>23. Output("client", b, e)
  <2>1. PICK rec : rec.type = "handshake" /\ rec.msg = m /\ Q(w) = Append(Q(d), rec)
    BY <1>9, Zenon DEF Wrote
  <2>2. Q(e) = Append(Q(b), rec) /\ Own("client", e) = Own("client", b) /\ ~IsFinished(rec)
    BY <1>6, <1>7, <1>16, <1>18, <2>1, Zenon DEF Q, Own, IsFinished
  <2> QED
    BY <1>10, <2>1, <2>2, Zenon DEF Output
<1>24. Own(Peer("client"), e) = Own(Peer("client"), b) /\ Held(e) = Held(b)
  BY <1>16, <1>18, Zenon DEF Own, Held
<1> QED
  BY <1>1, <1>22, <1>23, <1>24, OutputStep, Zenon DEF b

\* A server that needs no CertificateVerify goes on and keeps Inv.
LEMMA SkipCertVerifyKeeps ==
    ASSUME NullApart, Inv, SkipCertVerify
    PROVE  Inv'
<1> DEFINE b == ssl["server"]
           f == DropCached(b)
           st == AfterVerify(b)
           e == To(f, st)
<1>1. /\ Running /\ cfg' = cfg /\ b.state = "SR_CERT_VRFY" /\ "server" \in Sides
      /\ ssl' = [ssl EXCEPT !["server"] = e]
  BY Zenon DEF SkipCertVerify, Step, Sides
<1>2. /\ Typed(b) /\ Base(b) /\ IsSSL(b) /\ b.state # "ERR" /\ Local(cfg, "server", b)
      /\ b.reuse_message = NULL /\ IsSequence(b.out) /\ IsSequence(b.bbio)
  BY <1>1, Ends, Zenon
<1>3. At(b) = "SR_CERT_VRFY" /\ b.bbio = <<>> /\ (b.handshake_buffer # NULL => b.keep)
  BY <1>1, <1>2, Zenon DEF At, FlushStates, Local, Cached, Buffers, Writing
<1>4. /\ Same(b, f, {"handshake_buffer", "keep"}) /\ f.handshake_dgst = b.handshake_dgst
      /\ f.handshake_buffer = NULL /\ ~f.keep
  BY <1>2, <1>3, IsField, Zenon DEF Same, IsSSL, DropCached, Base
<1>5. st \in {"SR_NEXT_PROTO", "SR_FINISHED"}
  BY Zenon DEF AfterVerify
<1> HIDE DEF f, st, b
<1>6. T(f) = T(b) /\ Base(f) /\ f.state = b.state
  BY <1>2, <1>3, <1>4, IsField, Zenon DEF T, Base, Same
<1>7. Same(f, e, {"state"}) /\ e.state = st /\ Base(e) /\ T(e) = T(f)
  BY <1>2, <1>4, <1>6, ToIs, BaseFails DEF Same
<1> HIDE DEF e
<1>8. /\ KeysSame(b, e) /\ e.ccs_ok = b.ccs_ok /\ ~e.keep /\ e.reuse_message = NULL
      /\ e.out = b.out /\ e.bbio = b.bbio /\ e.cache = b.cache /\ IsSSL(e)
  BY <1>2, <1>4, <1>7, IsField, Zenon DEF Same, KeysSame
<1>9. /\ At(e) = st /\ st \in Ending /\ st \in States
      /\ st \notin FlushStates \cup Start \cup Idle \cup Writing \cup Helloed
      /\ st \notin {"OK", "CW_CLNT_HELLO", "ERR", "SW_SRVR_DONE", "SR_CERT", "SR_KEY_EXCH", "SR_CERT_VRFY"}
      /\ Goes(At(b), At(e)) /\ At(b) \notin Offered
  BY <1>3, <1>5, <1>7, Zenon DEF At, FlushStates, Ending, States, ReadStates, Start, Idle, Writing,
     Helloed, Goes, Answered, Offered
<1>10. Typed(e)
  BY <1>7, <1>8, <1>9, Zenon DEF Typed
<1>11. Local(cfg, "server", e)
  <2>1. Digests(e)
    BY <1>2, <1>6, <1>7, <1>8, <1>9, DigestsGo, Zenon DEF Local
  <2>2. Keys("server", e)
    BY <1>2, <1>7, <1>8, <1>9, KeysGo, Zenon DEF Local
  <2>3. Waiting(e) /\ Cached(e) /\ Buffers(e)
    BY <1>2, <1>3, <1>7, <1>8, <1>9, Zenon DEF Waiting, Cached, Buffers
  <2>4. Sessioned(cfg, "server", e)
    <3>1. /\ Resumes(cfg, b.session) /\ \A x \in b.cache : Resumes(cfg, x)
      BY <1>2, <1>3, Zenon DEF Local, Sessioned
    <3> QED
      BY <1>8, <1>9, <3>1, Zenon DEF Sessioned, KeysSame, Resumes
  <2> QED
    BY <2>1, <2>2, <2>3, <2>4, Zenon DEF Local
<1>12. Fits("server", e)
  BY <1>8, <1>10, <1>11, Zenon DEF Fits
<1>13. Output("server", b, e) /\ Held(b) = Held(e) /\ Own(Peer("server"), e) = Own(Peer("server"), b)
  BY <1>2, <1>8, Zenon DEF Output, Held, Own, Q, KeysSame
<1> QED
  BY <1>1, <1>12, <1>13, OutputStep, Zenon DEF b

============================================================================
