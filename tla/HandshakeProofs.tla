-------------------------- MODULE HandshakeProofs --------------------------
(***************************************************************************)
(* Two ends that come to rest agree (Handshake): the steps that take a     *)
(* message, the reads, the initial states, and the theorems.  The          *)
(* invariant is in HandshakeLemmas.                                        *)
(***************************************************************************)
EXTENDS HandshakeLemmas

----------------------------------------------------------------------------
(* Steps that take a message.                                              *)

\* End s has message m at hand; d is what the handler is given.
Given(s, d, m) ==
    \/ /\ ssl[s].reuse_message # NULL /\ m = ssl[s].reuse_message
       /\ d = [ssl[s] EXCEPT !.reuse_message = NULL]
    \/ /\ ssl[s].reuse_message = NULL /\ In(s) # <<>>
       /\ Head(In(s)).type = "handshake" /\ m = Head(In(s)).msg
       /\ d = ssl3_get_message(Decrypt(AllowCcs(ssl[s]), Head(In(s))), s, m)

\* It becomes e.
Takes(s, e) ==
    IF ssl[s].reuse_message # NULL THEN ssl' = [ssl EXCEPT ![s] = e]
    ELSE ssl' = [ssl EXCEPT ![s] = e, ![Peer(s)].out = Tail(@)]

\* Such a step keeps the whole, if the end fits and a Finished is either
\* accepted or held.
LEMMA TakeStep ==
    ASSUME Inv, Running, NEW s \in Sides, NEW d, NEW m, NEW e, Given(s, d, m), Takes(s, e),
           cfg' = cfg, Fits(s, e),
           e.state # "ERR" =>
              /\ Q(e) = Q(ssl[s]) /\ Own(s, e) = Own(s, ssl[s])
              /\ \/ Own(Peer(s), e) = Own(Peer(s), ssl[s]) /\ (m.type = "Finished" => Held(e))
                 \/ /\ ssl[s].reuse_message = NULL /\ m.type = "Finished"
                    /\ Own(Peer(s), e) = m.body
    PROVE  Inv'
<1>1. CASE ssl[s].reuse_message # NULL
  <2>1. m = ssl[s].reuse_message /\ ssl' = [ssl EXCEPT ![s] = e]
    BY <1>1, Zenon DEF Given, Takes
  <2>2. e.state # "ERR" => /\ Own(Peer(s), e) = Own(Peer(s), ssl[s])
                           /\ Held(ssl[s]) => Held(e)
                           /\ Output(s, ssl[s], e)
    BY <1>1, <2>1, Zenon DEF Held, Output
  <2> QED
    BY <2>1, <2>2, OutputStep, Zenon
<1>2. CASE ssl[s].reuse_message = NULL
  <2>1. /\ In(s) # <<>> /\ Head(In(s)).type = "handshake" /\ m = Head(In(s)).msg
        /\ ssl' = [ssl EXCEPT ![s] = e, ![Peer(s)].out = Tail(@)]
    BY <1>2, Zenon DEF Given, Takes
  <2>2. e.state # "ERR" => /\ Q(e) = Q(ssl[s]) /\ Own(s, e) = Own(s, ssl[s])
                           /\ IF IsFinished(Head(In(s)))
                              THEN Own(Peer(s), e) = Head(In(s)).msg.body \/ Held(e)
                              ELSE Own(Peer(s), e) = Own(Peer(s), ssl[s])
                           /\ Held(ssl[s]) => Held(e)
    BY <1>2, <2>1, Zenon DEF Held, IsFinished
  <2> QED
    BY <2>1, <2>2, InputStep, Zenon
<1> QED
  BY <1>1, <1>2, Zenon

\* A record that is at hand holds a message.
LEMMA AtHand ==
    ASSUME NullApart, Inv, Running, NEW s \in Sides, In(s) # <<>>, Head(In(s)).type = "handshake"
    PROVE  IsMessage(cfg, Head(In(s)).msg)
<1> DEFINE p == Peer(s)
<1>1. p \in Sides /\ In(s) = ssl[p].out
  BY Peers, Zenon DEF In
<1>2. IsSequence(ssl[p].out) /\ IsSequence(ssl[p].bbio) /\ WellFormed(cfg, Q(ssl[p]))
  BY <1>1, Ends, Zenon DEF Inv, Shared
<1>3. /\ Len(Q(ssl[p])) \in Nat /\ Len(Q(ssl[p])) >= 1 /\ Q(ssl[p])[1] = Head(ssl[p].out)
  <2>1. ASSUME NEW q, NEW r, IsSequence(q), IsSequence(r), q # <<>>
        PROVE  Len(q \o r) \in Nat /\ Len(q \o r) >= 1 /\ (q \o r)[1] = Head(q)
    <3> DEFINE n == Len(Tail(q) \o r)
    <3>1. n \in Nat /\ Len(q \o r) = n + 1 /\ (q \o r)[1] = Head(q)
      BY <2>1, ReadFirst, Zenon
    <3> HIDE DEF n
    <3> QED
      BY <3>1
  <2> QED
    BY <1>1, <1>2, <2>1, Zenon DEF Q
<1> QED
  BY <1>1, <1>2, <1>3 DEF WellFormed

\* Before it reads, an end may allow a ChangeCipherSpec; a record that it
\* cannot decrypt makes it fail.
LEMMA DecryptIs ==
    ASSUME NEW b, Base(b), NEW rec
    PROVE  LET c == Decrypt(AllowCcs(b), rec)
           IN  /\ Same(b, c, {"ccs_ok", "state", "failed"}) /\ Base(c) /\ T(c) = T(b)
               /\ c.state \in {b.state, "ERR"} /\ (b.state = "ERR" => c.state = "ERR")
               /\ \/ c.ccs_ok = b.ccs_ok
                  \/ b.state \in {"CR_FINISHED", "SR_NEXT_PROTO", "SR_FINISHED"}
<1> DEFINE a == AllowCcs(b)
           c == Decrypt(a, rec)
<1>1. /\ Same(b, a, {"ccs_ok"})
      /\ a.ccs_ok = b.ccs_ok \/ b.state \in {"CR_FINISHED", "SR_NEXT_PROTO", "SR_FINISHED"}
  BY IsField, Zenon DEF Same, Base, IsSSL, AllowCcs
<1> HIDE DEF a
<1>2. IsSSL(a) /\ SameBase(b, a) /\ a.state = b.state
  BY <1>1, IsField, Zenon DEF Same, SameBase
<1>3. Base(a) /\ T(a) = T(b)
  BY <1>2, BaseStays, Zenon
<1>4. /\ Same(a, c, {"state", "failed"}) /\ Base(c) /\ T(c) = T(a)
      /\ c.state \in {a.state, "ERR"} /\ (a.state = "ERR" => c.state = "ERR")
  <2>1. CASE rec.key = a.read_key
    BY <1>2, <1>3, <2>1, Zenon DEF Decrypt, Same
  <2>2. CASE rec.key # a.read_key
    <3>1. c = Fail(a, "bad record mac")
      BY <2>2, Zenon DEF Decrypt
    <3> QED
      BY <1>2, <1>3, <3>1, FailIs, BaseFails, Zenon
  <2> QED
    BY <2>1, <2>2, Zenon
<1> HIDE DEF c
<1>5. Same(b, c, {"ccs_ok", "state", "failed"}) /\ c.ccs_ok = a.ccs_ok
  BY <1>1, <1>4, IsField, Zenon DEF Same
<1> QED
  BY <1>1, <1>2, <1>3, <1>4, <1>5, Zenon DEF a, c

\* A Finished is read with the hash that it ought to have at hand.
LEMMA TakeMacIs ==
    ASSUME NullApart, NEW c, Base(c), NEW s
    PROVE  LET d == ssl3_take_mac(c, s)
           IN  /\ Same(c, d, {"handshake_buffer", "handshake_dgst", "state", "failed", "peer_finish_md"})
               /\ Base(d)
               /\ d.state \in {c.state, "ERR"} /\ (c.state = "ERR" => d.state = "ERR")
               /\ ~c.keep /\ d.state # "ERR" => T(d) = T(c)
               /\ ~c.keep /\ d.state # "ERR" /\ T(c) # <<>> /\ c.new_cipher # NULL =>
                    d.peer_finish_md =
                       [by |-> Peer(s), master |-> c.session.master, transcript |-> T(c)]
<1>1. CASE c.new_cipher = NULL
  <2>1. ssl3_take_mac(c, s) = c
    BY <1>1, Zenon DEF ssl3_take_mac
  <2> QED
    BY <1>1, <2>1, Zenon DEF Same, Base
<1>2. CASE c.new_cipher # NULL
  <2> DEFINE d == DigestIfCached(c)
             md == tls1_final_finish_mac(d, Peer(s))
             e == [d EXCEPT !.peer_finish_md = md]
  <2>1. ssl3_take_mac(c, s) = e
    BY <1>2, Zenon DEF ssl3_take_mac
  <2>2. /\ Same(c, d, {"handshake_buffer", "handshake_dgst", "state", "failed"})
        /\ Base(d)
        /\ d.state \in {c.state, "ERR"}
        /\ c.state = "ERR" => d.state = "ERR"
        /\ ~c.keep /\ d.state # "ERR" => T(d) = T(c)
    BY DigestIfCachedIs, Zenon
  <2> HIDE DEF d
  <2>3. d.keep = c.keep /\ d.session = c.session /\ IsSSL(d)
    BY <2>2, IsField, Zenon DEF Same
  <2>4. ~c.keep /\ d.state # "ERR" /\ T(c) # <<>> =>
           md = [by |-> Peer(s), master |-> c.session.master, transcript |-> T(c)]
    BY <2>2, <2>3, FinalMacIs, Zenon
  <2> HIDE DEF md
  <2>5. Same(d, e, {"peer_finish_md"}) /\ e.peer_finish_md = md
    BY <2>3, IsField, Zenon DEF Same, IsSSL
  <2> HIDE DEF e
  <2>6. SameBase(d, e) /\ IsSSL(e) /\ e.state = d.state
    BY <2>5, IsField, Zenon DEF Same, SameBase
  <2>7. Base(e) /\ T(e) = T(d)
    BY <2>2, <2>6, BaseStays, Zenon
  <2>8. Same(c, e, {"handshake_buffer", "handshake_dgst", "state", "failed", "peer_finish_md"})
    BY <2>2, <2>5, Zenon DEF Same
  <2> QED
    BY <2>1, <2>2, <2>4, <2>5, <2>6, <2>7, <2>8, Zenon
<1> QED
  BY <1>1, <1>2, Zenon

\* What the handler is given.
Reads(s, d, m) ==
    LET b == ssl[s]
    IN  /\ Same(b, d, {"handshake_buffer", "handshake_dgst", "state", "failed", "peer_finish_md",
                       "ccs_ok", "reuse_message"})
        /\ Base(d) /\ d.reuse_message = NULL
        /\ d.state \in {b.state, "ERR"}
        /\ \/ d.ccs_ok = b.ccs_ok
           \/ b.state \in {"CR_FINISHED", "SR_NEXT_PROTO", "SR_FINISHED"}
        /\ m.type # "Finished" => (d.handshake_buffer = NULL <=> b.handshake_buffer = NULL)
        /\ b.reuse_message = NULL =>
              /\ IsMessage(cfg, m)
              /\ ~b.keep => d.handshake_buffer # <<>>
              /\ d.state # "ERR" /\ (~b.keep \/ m.type # "Finished") =>
                    T(d) = Append(T(b), Digested(m)) /\ IsSequence(T(b))
              /\ m.type = "Finished" /\ ~b.keep /\ d.state # "ERR" /\ T(b) # <<>>
                    /\ b.new_cipher # NULL =>
                    d.peer_finish_md =
                       [by |-> Peer(s), master |-> b.session.master, transcript |-> T(b)]
        /\ b.reuse_message # NULL => m = b.reuse_message /\ T(d) = T(b)

\* The messages are read from the stream, or have been read before.
LEMMA GivenIs ==
    ASSUME NullApart, Inv, Running, NEW s \in Sides, NEW d, NEW m, Given(s, d, m)
    PROVE  Reads(s, d, m)
<1> DEFINE b == ssl[s]
<1>1. IsSSL(b) /\ Base(b)
  BY Ends, Zenon
<1>2. CASE b.reuse_message # NULL
  <2>1. m = b.reuse_message /\ d = [b EXCEPT !.reuse_message = NULL]
    BY <1>2, Zenon DEF Given
  <2>2. Same(b, d, {"reuse_message"}) /\ d.reuse_message = NULL
    BY <1>1, <2>1, IsField, Zenon DEF Same, IsSSL
  <2> HIDE DEF b
  <2>3. IsSSL(d) /\ SameBase(b, d) /\ d.state = b.state /\ d.ccs_ok = b.ccs_ok
        /\ d.handshake_buffer = b.handshake_buffer
    BY <2>2, IsField, Zenon DEF Same, SameBase
  <2>4. Base(d) /\ T(d) = T(b)
    BY <1>1, <2>3, BaseStays, Zenon
  <2>5. Same(b, d, {"handshake_buffer", "handshake_dgst", "state", "failed", "peer_finish_md",
                    "ccs_ok", "reuse_message"})
    BY <2>2, Zenon DEF Same
  <2> QED
    BY <1>2, <2>1, <2>2, <2>3, <2>4, <2>5, Zenon DEF Reads, b
<1>3. CASE b.reuse_message = NULL
  <2> DEFINE c == Decrypt(AllowCcs(b), Head(In(s)))
             t == IF m.type = "Finished" THEN ssl3_take_mac(c, s) ELSE c
  <2>1. /\ In(s) # <<>> /\ Head(In(s)).type = "handshake" /\ m = Head(In(s)).msg
        /\ d = tls1_finish_mac(t, m)
    BY <1>3, Zenon DEF Given, ssl3_get_message
  <2>2. IsMessage(cfg, m)
    BY <2>1, AtHand, Zenon
  <2> HIDE DEF b
  <2>3. /\ Same(b, c, {"ccs_ok", "state", "failed"}) /\ Base(c) /\ T(c) = T(b)
        /\ c.state \in {b.state, "ERR"} /\ (b.state = "ERR" => c.state = "ERR")
        /\ \/ c.ccs_ok = b.ccs_ok
           \/ b.state \in {"CR_FINISHED", "SR_NEXT_PROTO", "SR_FINISHED"}
    BY <1>1, DecryptIs, Zenon
  <2> HIDE DEF c
  <2>4. /\ c.keep = b.keep /\ c.new_cipher = b.new_cipher /\ c.session = b.session
        /\ c.handshake_buffer = b.handshake_buffer /\ c.reuse_message = b.reuse_message
    BY <2>3, IsField, Zenon DEF Same
  <2>5. /\ Same(c, t, {"handshake_buffer", "handshake_dgst", "state", "failed", "peer_finish_md"})
        /\ Base(t)
        /\ t.state \in {c.state, "ERR"} /\ (c.state = "ERR" => t.state = "ERR")
        /\ t.state # "ERR" /\ (~c.keep \/ m.type # "Finished") => T(t) = T(c)
        /\ m.type # "Finished" => t.handshake_buffer = c.handshake_buffer
        /\ m.type = "Finished" /\ ~c.keep /\ t.state # "ERR" /\ T(c) # <<>> /\ c.new_cipher # NULL =>
             t.peer_finish_md = [by |-> Peer(s), master |-> c.session.master, transcript |-> T(c)]
    <3>1. CASE m.type = "Finished"
      BY <2>3, <3>1, TakeMacIs, Zenon
    <3>2. CASE m.type # "Finished"
      BY <2>3, <3>2, Zenon DEF Same, Base
    <3> QED
      BY <3>1, <3>2, Zenon
  <2> HIDE DEF t
  <2>6. t.keep = c.keep /\ t.ccs_ok = c.ccs_ok /\ t.reuse_message = c.reuse_message
    BY <2>5, IsField, Zenon DEF Same
  <2>7. /\ Same(t, d, {"handshake_buffer", "handshake_dgst", "state", "failed"})
        /\ Base(d)
        /\ d.state \in {t.state, "ERR"}
        /\ d.state # "ERR" => T(d) = Append(T(t), Digested(m)) /\ IsSequence(T(t))
        /\ t.state = "ERR" => d.state = "ERR"
        /\ d.handshake_buffer = NULL <=> t.handshake_buffer = NULL
        /\ ~t.keep => d.handshake_buffer # <<>>
    BY <2>1, <2>5, FinishMacIs
  <2>8. /\ d.ccs_ok = t.ccs_ok /\ d.reuse_message = t.reuse_message
        /\ d.peer_finish_md = t.peer_finish_md
    BY <2>7, IsField, Zenon DEF Same
  <2>9. Same(b, d, {"handshake_buffer", "handshake_dgst", "state", "failed", "peer_finish_md",
                    "ccs_ok", "reuse_message"})
    BY <2>3, <2>5, <2>7, Zenon DEF Same
  <2>10. /\ d.state \in {b.state, "ERR"}
         /\ d.state # "ERR" => t.state # "ERR" /\ c.state # "ERR"
    BY <2>3, <2>5, <2>7, Zenon
  <2>11. /\ d.state # "ERR" /\ (~b.keep \/ m.type # "Finished") =>
               T(d) = Append(T(b), Digested(m)) /\ IsSequence(T(b))
         /\ m.type = "Finished" /\ ~b.keep /\ d.state # "ERR" /\ T(b) # <<>>
               /\ b.new_cipher # NULL =>
               d.peer_finish_md =
                  [by |-> Peer(s), master |-> b.session.master, transcript |-> T(b)]
    BY <2>3, <2>4, <2>5, <2>7, <2>8, <2>10, Zenon
  <2> QED
    BY <1>3, <2>2, <2>3, <2>4, <2>5, <2>6, <2>7, <2>8, <2>9, <2>10, <2>11, Zenon DEF Reads, b
<1> QED
  BY <1>2, <1>3, Zenon

\* What becomes of it in a handler that takes the message, keeps it for the
\* next one or fails.
Handled(d, c, m) ==
    /\ Same(d, c, {"cert_req", "reuse_message", "handshake_buffer", "handshake_dgst", "keep",
                   "state", "failed"})
    /\ Base(c)
    /\ c.state \in {d.state, "ERR"}
    /\ c.state # "ERR" => /\ T(c) = T(d) /\ ~c.keep
                          /\ c.reuse_message = NULL \/ c.reuse_message = m

\* From state a to state st with message m, which may be kept.
GoesOn(a, st, c, m) ==
    /\ Goes(a, st)
    /\ a \in ReadStates
    /\ st \in States \ (FlushStates \cup Start \cup Idle)
    /\ st \notin {"SW_SRVR_DONE", "SR_CERT", "SR_KEY_EXCH", "SR_CERT_VRFY"}
    /\ a \in Offered /\ st \in Answered => m.type = "ServerHelloDone"
    /\ m.type = "ServerHelloDone" => a \in Offered
    /\ m.type = "Finished" => c.reuse_message = m /\ c.reuse_message # NULL
    /\ c.reuse_message # NULL =>
          /\ st \in {"CR_CERT_STATUS", "CR_KEY_EXCH", "CR_CERT_REQ", "CR_SRVR_DONE"}
          /\ m.type = "Finished" => st # "CR_SRVR_DONE"

\* An end that is about to read a message.
LEMMA Reader ==
    ASSUME NullApart, Inv, Running, NEW s \in Sides, NEW d, NEW m, Given(s, d, m),
           ssl[s].state # "SR_CERT_VRFY"
    PROVE  /\ Base(d) /\ IsSSL(d) /\ d.reuse_message = NULL /\ ~d.keep
           /\ d.state \in {ssl[s].state, "ERR"}
<1>1. Reads(s, d, m)
  BY GivenIs, Zenon
<1>2. ~ssl[s].keep
  BY Ends, Zenon
<1> QED
  BY <1>1, <1>2, IsField, Zenon DEF Reads, Same

\* The messages that settle nothing an invariant speaks of but what was
\* received and digested.
LEMMA PlainGetsKeep ==
    ASSUME NullApart, Inv,
           \/ GetServerCertificate \/ GetCertStatus \/ GetServerKeyExchange
           \/ GetServerDone \/ GetCertificateRequest \/ GetNextProto
           \/ GetCertVerify
    PROVE  Inv'
\* It goes on to state st.
<1>TakeGoes.
      ASSUME Running, NEW s \in Sides, NEW d, NEW m, NEW c, NEW st,
             Given(s, d, m), Takes(s, To(c, st)), cfg' = cfg,
             Handled(d, c, m), s = "server" => c.reuse_message = NULL,
             c.state # "ERR" => GoesOn(ssl[s].state, st, c, m),
             c.state # "ERR" /\ s = "server" => ssl[s].state \in {"SR_CERT_VRFY", "SR_NEXT_PROTO"}
      PROVE  Inv'
  <2> USE <1>TakeGoes
  <2> DEFINE b == ssl[s]
             e == To(c, st)
  <2>1. Reads(s, d, m)
    BY GivenIs, Zenon
  <2>2. /\ Typed(b) /\ Base(b) /\ IsSSL(b) /\ Local(cfg, s, b) /\ b.state # "ERR"
        /\ IsSequence(b.out) /\ IsSequence(b.bbio)
    BY Ends, Zenon
  <2>3. /\ Same(c, e, {"state"}) /\ e.state = (IF c.state = "ERR" THEN "ERR" ELSE st)
        /\ Base(e) /\ T(e) = T(c)
    BY ToIs, BaseFails DEF Handled, Same
  <2> HIDE DEF b, e
  <2>4. /\ KeysSame(b, d) /\ d.out = b.out /\ d.bbio = b.bbio /\ d.cache = b.cache
    BY <2>1, IsField, Zenon DEF Reads, Same, KeysSame, b
  <2>5. /\ KeysSame(b, e) /\ e.out = b.out /\ e.bbio = b.bbio /\ e.cache = b.cache
        /\ e.reuse_message = c.reuse_message /\ e.keep = c.keep /\ e.ccs_ok = d.ccs_ok
    BY <2>3, <2>4, IsField DEF Handled, Same, KeysSame
  <2>6. CASE c.state = "ERR"
    <3>1. e.state = "ERR"
      BY <2>3, <2>6, Zenon
    <3>2. Fits(s, e)
      BY <2>3, <2>5, <3>1, Zenon DEF Fits, Typed, States, FlushStates
    <3> QED
      BY <3>1, <3>2, TakeStep, Zenon DEF e
  <2>7. CASE c.state # "ERR"
    <3>1. /\ GoesOn(b.state, st, c, m) /\ d.state # "ERR" /\ c.state = b.state /\ d.state = b.state
          /\ T(c) = T(d) /\ ~c.keep /\ (c.reuse_message = NULL \/ c.reuse_message = m)
          /\ e.state = st
      BY <2>1, <2>3, <2>7, Zenon DEF b, Handled, Reads
    <3>2. /\ b.state \notin FlushStates \cup Writing /\ At(b) = b.state
          /\ st \in States /\ st \notin FlushStates \cup Start \cup Idle /\ At(e) = st
          /\ st \notin {"OK", "ERR", "CW_CLNT_HELLO"}
          /\ b.state \notin {"SR_CERT_VRFY"} => ~b.keep
          /\ Goes(At(b), At(e))
      <4>1. b.state \notin FlushStates \cup Writing
        BY <3>1, Zenon DEF GoesOn, ReadStates, FlushStates, Writing
      <4>2. /\ st \in States /\ st \notin FlushStates \cup Start \cup Idle
        BY <3>1, Zenon DEF GoesOn
      <4>3. Goes(b.state, st)
        BY <3>1, Zenon DEF GoesOn
      <4>4. st \notin {"OK", "ERR", "CW_CLNT_HELLO"}
        BY <4>2, <4>3, Zenon DEF Idle, Goes, Offered, Answered
      <4>5. b.state \notin {"SR_CERT_VRFY"} => ~b.keep
        BY <2>2, Zenon DEF Typed
      <4> QED
        BY <3>1, <4>1, <4>2, <4>3, <4>4, <4>5, Zenon DEF At
    <3>3. m.type = "Finished" => ~b.keep
      <4>1. b.state = "SR_CERT_VRFY" => st \notin {"CR_CERT_STATUS", "CR_KEY_EXCH", "CR_CERT_REQ", "CR_SRVR_DONE"}
        BY <3>2, Zenon DEF Goes, Offered, Answered
      <4> QED
        BY <3>1, <3>2, <4>1, Zenon DEF GoesOn
    <3>4. \/ b.reuse_message # NULL /\ m = b.reuse_message /\ T(e) = T(b)
          \/ /\ b.reuse_message = NULL /\ T(e) = Append(T(b), Digested(m)) /\ IsSequence(T(b))
             /\ Digested(m).type = m.type
      <4>1. b.reuse_message = NULL => IsMessage(cfg, m)
        BY <2>1, Zenon DEF Reads, b
      <4>2. IsMessage(cfg, m) => Digested(m).type = m.type
        BY DigestedIs, Zenon
      <4>3. \/ b.reuse_message # NULL /\ m = b.reuse_message /\ T(d) = T(b)
            \/ b.reuse_message = NULL /\ T(d) = Append(T(b), Digested(m)) /\ IsSequence(T(b))
        BY <2>1, <3>1, <3>3, Zenon DEF Reads, b
      <4> QED
        BY <2>3, <3>1, <4>1, <4>2, <4>3, Zenon
    <3>5. m.type = "ServerHelloDone" => HasDone(T(e))
      <4>1. b.reuse_message # NULL /\ b.reuse_message.type = "ServerHelloDone" => HasDone(T(b))
        BY <2>2, Zenon DEF Local, Waiting
      <4>2. CASE b.reuse_message # NULL
        BY <3>4, <4>1, <4>2, Zenon
      <4>3. CASE b.reuse_message = NULL
        <5>1. IsSequence(T(b)) /\ T(e) = Append(T(b), Digested(m)) /\ Digested(m).type = m.type
          BY <3>4, <4>3, Zenon
        <5>2. HasDone(Append(T(b), Digested(m))) <=>
                 HasDone(T(b)) \/ Digested(m).type = "ServerHelloDone"
          BY <5>1, BeginsOn, Zenon
        <5> QED
          BY <5>1, <5>2, Zenon
      <4> QED
        BY <4>2, <4>3, Zenon
    <3>6. Digests(e)
      <4>1. \/ T(e) = T(b)
            \/ \E x : /\ T(e) = Append(T(b), x)
                      /\ x.type = "ServerHelloDone" => At(b) \in Offered
        BY <3>1, <3>2, <3>4, Zenon DEF GoesOn
      <4>2. At(b) \in Offered => ~b.hit
        BY <2>2, Zenon DEF Local, Keys
      <4>3. At(b) \in Offered /\ At(e) \in Answered => (HasDone(T(e)) <=> ~e.hit)
        BY <2>5, <3>1, <3>2, <3>5, <4>2, Zenon DEF GoesOn, KeysSame
      <4>4. Digests(b)
        BY <2>2, Zenon DEF Local
      <4> QED
        BY <2>5, <3>2, <4>1, <4>3, <4>4, DigestsGo, Zenon
    <3>7. Waiting(e)
      BY <2>5, <3>1, <3>5, Zenon DEF Waiting, GoesOn
    <3>8. Keys(s, e)
      <4>1. At(e) \in Early => e.ccs_ok = b.ccs_ok
        <5>1. b.state \in {"CR_FINISHED", "SR_NEXT_PROTO", "SR_FINISHED"} => st \notin Early
          BY <3>2, Zenon DEF Goes, Offered, Answered, Early, Opening, Helloed
        <5>2. \/ d.ccs_ok = b.ccs_ok
              \/ b.state \in {"CR_FINISHED", "SR_NEXT_PROTO", "SR_FINISHED"}
          BY <2>1, Zenon DEF Reads, b
        <5> QED
          BY <2>5, <3>2, <5>1, <5>2, Zenon
      <4>2. Keys(s, b)
        BY <2>2, Zenon DEF Local
      <4> QED
        BY <2>5, <3>1, <3>2, <4>1, <4>2, KeysGo, Zenon
    <3>9. Buffers(e)
      <4>1. Buffers(b)
        BY <2>2, Zenon DEF Local
      <4> QED
        BY <2>5, <3>1, <3>2, <4>1, Zenon DEF Buffers
    <3>10. Cached(e)
      BY <3>1, <3>2, Zenon DEF Cached, GoesOn
    <3>11. Sessioned(cfg, s, e)
      <4>1. b.state \notin Start \cup Opening /\ st \notin Helloed
        BY <3>2, Zenon DEF Goes, Start, Opening, Helloed, Offered, Answered, At
      <4>2. /\ IsSession(b.session)
            /\ s = "client" => b.session.tick = NULL \/ Resumes(cfg, b.session.tick)
            /\ s = "server" => \A x \in b.cache : Resumes(cfg, x)
        BY <2>2, <4>1, Zenon DEF Local, Sessioned
      <4>3. s = "server" => Resumes(cfg, b.session)
        <5>1. s = "server" => b.state \in {"SR_CERT_VRFY", "SR_NEXT_PROTO"}
          BY <2>7, Zenon DEF b
        <5>2. "SR_NEXT_PROTO" \in Ending
          BY Zenon DEF Ending
        <5> QED
          BY <2>2, <3>2, <5>1, <5>2, Zenon DEF Local, Sessioned
      <4>4. At(e) \notin {"SW_SRVR_DONE", "SR_CERT"}
        BY <3>1, <3>2, Zenon DEF GoesOn
      <4> QED
        BY <2>5, <3>2, <4>1, <4>2, <4>3, <4>4, Zenon DEF Sessioned, KeysSame
    <3>12. Typed(e)
      BY <2>3, <2>5, <3>1, <3>2, Zenon DEF Typed
    <3>13. Fits(s, e)
      BY <2>5, <3>6, <3>7, <3>8, <3>9, <3>10, <3>11, <3>12, Zenon DEF Fits, Local
    <3>14. /\ Q(e) = Q(b) /\ \A t : Own(t, e) = Own(t, b)
           /\ m.type = "Finished" => Held(e)
      BY <2>5, <3>1, Zenon DEF Q, Own, KeysSame, Held, GoesOn
    <3> QED
      BY <3>13, <3>14, TakeStep DEF b, e
  <2> QED
    BY <2>6, <2>7, Zenon
\* A message is not NULL.
<1>NotMissing.
      ASSUME Running, NEW s \in Sides, NEW d, NEW m, Given(s, d, m)
      PROVE  m # NULL
  <2> USE <1>NotMissing
  <2>1. CASE ssl[s].reuse_message # NULL
    BY <2>1, Zenon DEF Given
  <2>2. CASE ssl[s].reuse_message = NULL
    <3>1. IsMessage(cfg, m)
      BY <2>2, AtHand, Zenon DEF Given
    <3>2. m = [type |-> m.type, body |-> m.body]
      BY <3>1, Zenon DEF IsMessage
    <3>3. \A t, x : NULL # [type |-> t, body |-> x]
      BY Zenon DEF NullApart
    <3> QED
      BY <3>2, <3>3, Zenon
  <2> QED
    BY <2>1, <2>2, Zenon
\* A handler takes the message, or leaves it to the next.
<1>HandledIs.
      ASSUME NEW d, NEW m, Base(d), d.reuse_message = NULL, ~d.keep
      PROVE  /\ Handled(d, d, m)
             /\ Handled(d, Reuse(d, m), m) /\ Reuse(d, m).reuse_message = m
             /\ Reuse(d, m).state = d.state
  <2> USE <1>HandledIs
  <2>1. IsSSL(d)
    BY Zenon DEF Base
  <2>2. Handled(d, d, m)
    BY <2>1, Zenon DEF Handled, Same
  <2>3. /\ Handled(d, Reuse(d, m), m) /\ Reuse(d, m).reuse_message = m
        /\ Reuse(d, m).state = d.state
    <3> DEFINE c == Reuse(d, m)
    <3>1. Same(d, c, {"reuse_message"}) /\ c.reuse_message = m
      BY <2>1, IsField, Zenon DEF Same, IsSSL, Reuse
    <3> HIDE DEF c
    <3>2. SameBase(d, c) /\ IsSSL(c) /\ c.state = d.state /\ c.keep = d.keep
      BY <3>1, IsField, Zenon DEF Same, SameBase
    <3>3. Base(c) /\ T(c) = T(d)
      BY <3>2, BaseStays, Zenon
    <3>4. Handled(d, c, m)
      BY <3>1, <3>2, <3>3, Zenon DEF Handled, Same
    <3> QED
      BY <3>1, <3>2, <3>4, Zenon DEF c
  <2> QED
    BY <2>2, <2>3, Zenon
\* It fails.
<1>FailHandled.
      ASSUME NEW d, NEW m, NEW x, Base(d), d.reuse_message = NULL
      PROVE  /\ Handled(d, Fail(d, x), m) /\ Fail(d, x).state = "ERR"
             /\ Fail(d, x).reuse_message = NULL
  <2> USE <1>FailHandled
  <2>1. /\ Same(d, Fail(d, x), {"state", "failed"}) /\ Fail(d, x).state = "ERR"
        /\ Base(Fail(d, x))
    BY FailIs, BaseFails, Zenon DEF Base
  <2> QED
    BY <2>1, IsField, Zenon DEF Handled, Same
\* A message of another type makes it fail.
<1>ExpectIs.
      ASSUME NEW d, NEW m, NEW type, Base(d), d.reuse_message = NULL, ~d.keep
      PROVE  /\ Handled(d, Expect(d, m, type), m) /\ Expect(d, m, type).reuse_message = NULL
             /\ Expect(d, m, type).state # "ERR" => m.type = type /\ Expect(d, m, type) = d
  <2> USE <1>ExpectIs
  <2>1. CASE m.type = type
    <3>1. Expect(d, m, type) = d
      BY <2>1, Zenon DEF Expect
    <3> QED
      BY <2>1, <3>1, <1>HandledIs
  <2>2. CASE m.type # type
    <3>1. Expect(d, m, type) = Fail(d, "unexpected message")
      BY <2>2, Zenon DEF Expect
    <3>2. /\ Handled(d, Fail(d, "unexpected message"), m)
          /\ Fail(d, "unexpected message").state = "ERR"
          /\ Fail(d, "unexpected message").reuse_message = NULL
      BY <1>FailHandled, Zenon
    <3> QED
      BY <3>1, <3>2, Zenon
  <2> QED
    BY <2>1, <2>2, Zenon
<1>GetServerCertificateKeeps.
      ASSUME GetServerCertificate
      PROVE  Inv'
  <2> USE <1>GetServerCertificateKeeps
  <2> DEFINE H(c, m) == IF m.type = "ServerKeyExchange" THEN Reuse(c, m) ELSE Expect(c, m, "Certificate")
             ST(c) == IF c.status_expected THEN "CR_CERT_STATUS" ELSE "CR_KEY_EXCH"
  <2>1. PICK d, m : Given("client", d, m) /\ Takes("client", To(H(d, m), ST(d)))
    BY ZenonT(40) DEF GetServerCertificate, Get, Given, Takes
  <2>2. Running /\ cfg' = cfg /\ ssl["client"].state = "CR_CERT" /\ "client" \in Sides
    BY Zenon DEF GetServerCertificate, Get, Sides
  <2> DEFINE c == H(d, m)
             st == ST(d)
  <2>3. Base(d) /\ d.reuse_message = NULL /\ ~d.keep
    BY <2>1, <2>2, Reader, Zenon
  <2>4. /\ Handled(d, c, m)
        /\ c.state # "ERR" =>
              /\ m.type \in {"ServerKeyExchange", "Certificate"}
              /\ c.reuse_message = NULL \/ c.reuse_message = m
    <3>1. CASE m.type = "ServerKeyExchange"
      BY <2>3, <3>1, <1>HandledIs, Zenon
    <3>2. CASE m.type # "ServerKeyExchange"
      BY <2>3, <3>2, <1>ExpectIs
    <3> QED
      BY <3>1, <3>2, Zenon
  <2>5. st \in {"CR_CERT_STATUS", "CR_KEY_EXCH"}
    BY Zenon
  <2>6. Takes("client", To(c, st))
    BY <2>1, Zenon
  <2> HIDE DEF c, st, H, ST
  <2>7. c.state # "ERR" => GoesOn("CR_CERT", st, c, m)
    BY <2>4, <2>5, Zenon DEF GoesOn, Goes, Offered, Answered, ReadStates, States, FlushStates, Start, Idle
  <2> QED
    BY <2>1, <2>2, <2>4, <2>6, <2>7, <1>TakeGoes, Zenon
<1>GetCertStatusKeeps.
      ASSUME GetCertStatus
      PROVE  Inv'
  <2> USE <1>GetCertStatusKeeps
  <2> DEFINE H(c, m) == IF m.type # "CertificateStatus" THEN Reuse(c, m) ELSE c
  <2>1. PICK d, m : Given("client", d, m) /\ Takes("client", To(H(d, m), "CR_KEY_EXCH"))
    BY ZenonT(40) DEF GetCertStatus, Get, Given, Takes
  <2>2. Running /\ cfg' = cfg /\ ssl["client"].state = "CR_CERT_STATUS" /\ "client" \in Sides
    BY Zenon DEF GetCertStatus, Get, Sides
  <2> DEFINE c == H(d, m)
  <2>3. Base(d) /\ d.reuse_message = NULL /\ ~d.keep
    BY <2>1, <2>2, Reader, Zenon
  <2>4. /\ Handled(d, c, m)
        /\ m.type # "CertificateStatus" => c.reuse_message = m
    BY <2>3, <1>HandledIs, Zenon
  <2>5. Takes("client", To(c, "CR_KEY_EXCH"))
    BY <2>1, Zenon
  <2>6. m # NULL
    BY <2>1, <2>2, <1>NotMissing, Zenon
  <2> HIDE DEF c, H
  <2>7. c.state # "ERR" => GoesOn("CR_CERT_STATUS", "CR_KEY_EXCH", c, m)
    BY <2>4, <2>6, Zenon DEF GoesOn, Goes, Offered, Answered, ReadStates, States, FlushStates, Start, Idle
  <2> QED
    BY <2>1, <2>2, <2>4, <2>5, <2>7, <1>TakeGoes, Zenon
<1>GetServerKeyExchangeKeeps.
      ASSUME GetServerKeyExchange
      PROVE  Inv'
  <2> USE <1>GetServerKeyExchangeKeeps
  <2> DEFINE H(c, m) == IF m.type = "ServerKeyExchange" THEN c
                        ELSE IF c.new_cipher.eph THEN Fail(c, "unexpected message")
                        ELSE Reuse(c, m)
  <2>1. PICK d, m : Given("client", d, m) /\ Takes("client", To(H(d, m), "CR_CERT_REQ"))
    <3> DEFINE b == ssl["client"]
    <3>1. CASE b.reuse_message # NULL
      <4>1. Given("client", [b EXCEPT !.reuse_message = NULL], b.reuse_message)
        BY <3>1, Zenon DEF Given
      <4>2. Takes("client", To(H([b EXCEPT !.reuse_message = NULL], b.reuse_message), "CR_CERT_REQ"))
        BY <3>1, Zenon DEF GetServerKeyExchange, Get, Takes
      <4> QED
        BY <4>1, <4>2, Zenon
    <3>2. CASE b.reuse_message = NULL
      <4> DEFINE rec == Head(In("client"))
                 c == ssl3_get_message(Decrypt(AllowCcs(b), rec), "client", rec.msg)
      <4>1. Given("client", c, rec.msg)
        BY <3>2, ZenonT(40) DEF GetServerKeyExchange, Get, Given
      <4>2. Takes("client", To(H(c, rec.msg), "CR_CERT_REQ"))
        BY <3>2, ZenonT(40) DEF GetServerKeyExchange, Get, Takes
      <4> QED
        BY <4>1, <4>2, Zenon
    <3> QED
      BY <3>1, <3>2, Zenon
  <2>2. Running /\ cfg' = cfg /\ ssl["client"].state = "CR_KEY_EXCH" /\ "client" \in Sides
    BY Zenon DEF GetServerKeyExchange, Get, Sides
  <2> DEFINE c == H(d, m)
  <2>3. Base(d) /\ d.reuse_message = NULL /\ ~d.keep
    BY <2>1, <2>2, Reader, Zenon
  <2>4. /\ Handled(d, c, m)
        /\ m.type # "ServerKeyExchange" /\ c.state # "ERR" => c.reuse_message = m
    <3>1. CASE m.type = "ServerKeyExchange"
      BY <2>3, <3>1, <1>HandledIs, Zenon
    <3>2. CASE m.type # "ServerKeyExchange" /\ d.new_cipher.eph
      BY <2>3, <3>2, <1>FailHandled, Zenon
    <3>3. CASE m.type # "ServerKeyExchange" /\ ~d.new_cipher.eph
      BY <2>3, <3>3, <1>HandledIs
    <3> QED
      BY <3>1, <3>2, <3>3, Zenon
  <2>5. Takes("client", To(c, "CR_CERT_REQ"))
    BY <2>1, Zenon
  <2>6. m # NULL
    BY <2>1, <2>2, <1>NotMissing, Zenon
  <2> HIDE DEF c, H
  <2>7. c.state # "ERR" => GoesOn("CR_KEY_EXCH", "CR_CERT_REQ", c, m)
    BY <2>4, <2>6, Zenon DEF GoesOn, Goes, Offered, Answered, ReadStates, States, FlushStates, Start, Idle
  <2> QED
    BY <2>1, <2>2, <2>4, <2>5, <2>7, <1>TakeGoes, Zenon
<1>GetServerDoneKeeps.
      ASSUME GetServerDone
      PROVE  Inv'
  <2> USE <1>GetServerDoneKeeps
  <2> DEFINE H(c, m) == Expect(c, m, "ServerHelloDone")
             ST(c) == IF c.cert_req # 0 THEN "CW_CERT" ELSE "CW_KEY_EXCH"
  <2>1. PICK d, m : Given("client", d, m) /\ Takes("client", To(H(d, m), ST(d)))
    BY ZenonT(40) DEF GetServerDone, Get, Given, Takes
  <2>2. Running /\ cfg' = cfg /\ ssl["client"].state = "CR_SRVR_DONE" /\ "client" \in Sides
    BY Zenon DEF GetServerDone, Get, Sides
  <2> DEFINE c == H(d, m)
             st == ST(d)
  <2>3. Base(d) /\ d.reuse_message = NULL /\ ~d.keep
    BY <2>1, <2>2, Reader, Zenon
  <2>4. /\ Handled(d, c, m) /\ c.reuse_message = NULL
        /\ c.state # "ERR" => m.type = "ServerHelloDone"
    BY <2>3, <1>ExpectIs
  <2>5. st \in {"CW_CERT", "CW_KEY_EXCH"}
    BY Zenon
  <2>6. Takes("client", To(c, st))
    BY <2>1, Zenon
  <2> HIDE DEF c, st, H, ST
  <2>7. c.state # "ERR" => GoesOn("CR_SRVR_DONE", st, c, m)
    BY <2>4, <2>5, Zenon DEF GoesOn, Goes, Offered, Answered, ReadStates, States, FlushStates, Start, Idle
  <2> QED
    BY <2>1, <2>2, <2>4, <2>6, <2>7, <1>TakeGoes, Zenon
<1>GetCertificateRequestKeeps.
      ASSUME GetCertificateRequest
      PROVE  Inv'
  <2> USE <1>GetCertificateRequestKeeps
  <2>1. PICK d, m : /\ Given("client", d, m)
                    /\ Takes("client", To(ssl3_get_certificate_request(d, m), "CR_SRVR_DONE"))
    BY Zenon DEF GetCertificateRequest, Get, Given, Takes
  <2>2. Running /\ cfg' = cfg /\ ssl["client"].state = "CR_CERT_REQ" /\ "client" \in Sides
    BY Zenon DEF GetCertificateRequest, Get, Sides
  <2> DEFINE c == ssl3_get_certificate_request(d, m)
  <2>3. Base(d) /\ IsSSL(d) /\ d.reuse_message = NULL /\ ~d.keep
    BY <2>1, <2>2, Reader, Zenon
  <2>4. m # NULL
    BY <2>1, <2>2, <1>NotMissing, Zenon
  <2>5. /\ Handled(d, c, m)
        /\ c.state # "ERR" => \/ m.type = "ServerHelloDone" /\ c.reuse_message = m
                              \/ m.type = "CertificateRequest" /\ c.reuse_message = NULL
    <3>1. CASE m.type = "ServerHelloDone"
      <4> DEFINE r == Reuse(d, m)
                 q == [r EXCEPT !.cert_req = 0]
      <4>1. c = DigestIfCached(q)
        BY <3>1, Zenon DEF ssl3_get_certificate_request
      <4>2. Handled(d, r, m) /\ r.reuse_message = m /\ r.state = d.state
        BY <2>3, <1>HandledIs, Zenon
      <4> HIDE DEF r
      <4>4. Same(r, q, {"cert_req"}) /\ q.cert_req = 0
        BY <4>2, IsField, Zenon DEF Handled, Same, IsSSL
      <4> HIDE DEF q
      <4>5. /\ IsSSL(q) /\ q.renegotiate = r.renegotiate /\ q.handshake_buffer = r.handshake_buffer
            /\ q.handshake_dgst = r.handshake_dgst /\ q.keep = r.keep /\ q.pushed = r.pushed
            /\ q.bbio = r.bbio /\ q.state = r.state
        BY <4>4, IsField, Zenon DEF Same
      <4>6. Base(q) /\ T(q) = T(r)
        BY <4>2, <4>4, <4>5 DEF Base, T, Handled
      <4>7. /\ Same(q, c, {"handshake_buffer", "handshake_dgst", "state", "failed"})
            /\ Base(c)
            /\ c.state \in {q.state, "ERR"}
            /\ q.state = "ERR" => c.state = "ERR"
            /\ ~q.keep /\ c.state # "ERR" => T(c) = T(q)
        BY <4>1, <4>6, DigestIfCachedIs, Zenon
      <4> HIDE DEF c
      <4>8. Same(d, c, {"cert_req", "reuse_message", "handshake_buffer", "handshake_dgst", "keep",
                        "state", "failed"})
        BY <4>2, <4>4, <4>7, Zenon DEF Handled, Same
      <4>9. c.reuse_message = m /\ c.keep = q.keep
        BY <4>2, <4>4, <4>7, IsField, Zenon DEF Same
      <4>10. c.state # "ERR" => r.state # "ERR" /\ ~q.keep /\ T(c) = T(d)
        BY <4>2, <4>5, <4>6, <4>7, Zenon DEF Handled
      <4> QED
        BY <3>1, <4>2, <4>5, <4>7, <4>8, <4>9, <4>10, Zenon DEF Handled
    <3>2. CASE m.type # "ServerHelloDone" /\ m.type # "CertificateRequest"
      <4>1. c = Fail(d, "unexpected message")
        BY <3>2, Zenon DEF ssl3_get_certificate_request
      <4>2. Handled(d, Fail(d, "unexpected message"), m) /\ Fail(d, "unexpected message").state = "ERR"
        BY <2>3, <1>FailHandled, Zenon
      <4> QED
        BY <4>1, <4>2, Zenon
    <3>3. CASE m.type = "CertificateRequest" /\ d.new_cipher.anon
      <4> DEFINE why == "certificate requested by an anonymous server"
      <4>1. c = Fail(d, why)
        BY <3>3, Zenon DEF ssl3_get_certificate_request
      <4>2. Handled(d, Fail(d, why), m) /\ Fail(d, why).state = "ERR"
        BY <2>3, <1>FailHandled, Zenon
      <4> QED
        BY <4>1, <4>2, Zenon
    <3>4. CASE m.type = "CertificateRequest" /\ ~d.new_cipher.anon
      <4>1. c = [d EXCEPT !.cert_req = 1]
        BY <3>4, Zenon DEF ssl3_get_certificate_request
      <4>2. Same(d, c, {"cert_req"}) /\ c.cert_req = 1
        BY <2>3, <4>1, IsField, Zenon DEF Same, IsSSL
      <4> HIDE DEF c
      <4>3. /\ IsSSL(c) /\ c.renegotiate = d.renegotiate /\ c.handshake_buffer = d.handshake_buffer
            /\ c.handshake_dgst = d.handshake_dgst /\ c.keep = d.keep /\ c.pushed = d.pushed
            /\ c.bbio = d.bbio /\ c.state = d.state /\ c.reuse_message = d.reuse_message
        BY <4>2, IsField, Zenon DEF Same
      <4>4. Base(c) /\ T(c) = T(d)
        BY <2>3, <4>2, <4>3 DEF Base, T
      <4>5. Same(d, c, {"cert_req", "reuse_message", "handshake_buffer", "handshake_dgst", "keep",
                        "state", "failed"})
        BY <4>2, Zenon DEF Same
      <4> QED
        BY <2>3, <3>4, <4>3, <4>4, <4>5, Zenon DEF Handled
    <3> QED
      BY <3>1, <3>2, <3>3, <3>4, Zenon
  <2> HIDE DEF c
  <2>6. c.state # "ERR" => GoesOn("CR_CERT_REQ", "CR_SRVR_DONE", c, m)
    BY <2>4, <2>5, Zenon DEF GoesOn, Goes, Offered, Answered, ReadStates, States, FlushStates, Start, Idle
  <2> QED
    BY <2>1, <2>2, <2>5, <2>6, <1>TakeGoes, Zenon DEF c
<1>GetNextProtoKeeps.
      ASSUME GetNextProto
      PROVE  Inv'
  <2> USE <1>GetNextProtoKeeps
  <2> DEFINE H(c, m) == IF ~c.change_cipher_spec THEN Fail(c, "got next proto before a ccs")
                        ELSE Expect(c, m, "NextProto")
  <2>1. PICK d, m : Given("server", d, m) /\ Takes("server", To(H(d, m), "SR_FINISHED"))
    BY ZenonT(40) DEF GetNextProto, Get, Given, Takes
  <2>2. Running /\ cfg' = cfg /\ ssl["server"].state = "SR_NEXT_PROTO" /\ "server" \in Sides
    BY Zenon DEF GetNextProto, Get, Sides
  <2> DEFINE c == H(d, m)
  <2>3. Base(d) /\ d.reuse_message = NULL /\ ~d.keep
    BY <2>1, <2>2, Reader, Zenon
  <2>4. /\ Handled(d, c, m) /\ c.reuse_message = NULL
        /\ c.state # "ERR" => m.type = "NextProto"
    <3>1. CASE d.change_cipher_spec
      BY <2>3, <3>1, <1>ExpectIs
    <3>2. CASE ~d.change_cipher_spec
      BY <2>3, <3>2, <1>FailHandled, Zenon
    <3> QED
      BY <3>1, <3>2, Zenon
  <2>5. Takes("server", To(c, "SR_FINISHED"))
    BY <2>1, Zenon
  <2> HIDE DEF c, H
  <2>6. c.state # "ERR" => GoesOn("SR_NEXT_PROTO", "SR_FINISHED", c, m)
    BY <2>4, Zenon DEF GoesOn, Goes, Offered, Answered, ReadStates, States, FlushStates, Start, Idle
  <2> QED
    BY <2>1, <2>2, <2>4, <2>5, <2>6, <1>TakeGoes, Zenon
<1>GetCertVerifyKeeps.
      ASSUME GetCertVerify
      PROVE  Inv'
  <2> USE <1>GetCertVerifyKeeps
  <2>1. PICK d, m : /\ Given("server", d, m)
                    /\ Takes("server", To(DropCached(ssl3_get_cert_verify(d, m)), AfterVerify(d)))
    BY Zenon DEF GetCertVerify, Get, Given, Takes
  <2>2. Running /\ cfg' = cfg /\ ssl["server"].state = "SR_CERT_VRFY" /\ "server" \in Sides
    BY Zenon DEF GetCertVerify, Get, Sides
  <2> DEFINE b == ssl["server"]
             v == ssl3_get_cert_verify(d, m)
             c == DropCached(v)
             st == AfterVerify(d)
  <2>3. Reads("server", d, m)
    BY <2>1, <2>2, GivenIs, Zenon
  <2>4. Base(d) /\ IsSSL(d) /\ d.reuse_message = NULL
    BY <2>3, Zenon DEF Reads, Base
  <2>5. /\ Same(d, v, {"state", "failed"}) /\ Base(v) /\ T(v) = T(d)
        /\ v.state \in {d.state, "ERR"}
        /\ v.state # "ERR" => m.type = "CertificateVerify"
    <3>1. \/ v = d /\ m.type = "CertificateVerify"
          \/ v = Fail(d, "unexpected message")
          \/ v = Fail(d, "bad signature")
      BY Zenon DEF ssl3_get_cert_verify
    <3>2. ASSUME NEW x
          PROVE  /\ Same(d, Fail(d, x), {"state", "failed"}) /\ Fail(d, x).state = "ERR"
                 /\ Base(Fail(d, x)) /\ T(Fail(d, x)) = T(d)
      BY <2>4, FailIs, BaseFails, Zenon
    <3>3. Same(d, d, {"state", "failed"})
      BY <2>4, Zenon DEF Same
    <3> HIDE DEF v
    <3> QED
      BY <2>4, <3>1, <3>2, <3>3, Zenon
  <2> HIDE DEF v
  <2>6. IsSSL(v) /\ v.keep = d.keep /\ v.handshake_buffer = d.handshake_buffer
        /\ v.reuse_message = NULL
    BY <2>4, <2>5, IsField, Zenon DEF Same
  <2>7. /\ Same(v, c, {"handshake_buffer", "keep"}) /\ c.handshake_buffer = NULL
        /\ v.handshake_buffer # NULL => ~c.keep
        /\ v.handshake_buffer = NULL => c.keep = v.keep
    BY <2>6, IsField, Zenon DEF Same, IsSSL, DropCached
  <2> HIDE DEF c
  <2>8. /\ IsSSL(c) /\ c.state = v.state /\ c.reuse_message = NULL
        /\ c.handshake_dgst = v.handshake_dgst /\ c.renegotiate = v.renegotiate
        /\ c.cert_req = v.cert_req /\ c.pushed = v.pushed /\ c.bbio = v.bbio
    BY <2>6, <2>7, IsField, Zenon DEF Same
  <2>9. ~c.keep
    BY <2>5, <2>7, Zenon DEF Base
  <2>10. Base(c)
    BY <2>5, <2>7, <2>8, <2>9, Zenon DEF Base
  <2>11. ASSUME c.state # "ERR" PROVE T(c) = T(d) /\ m.type = "CertificateVerify"
    <3>1. m.type = "CertificateVerify"
      BY <2>5, <2>8, <2>11, Zenon
    <3>2. b.handshake_buffer # NULL => b.keep
      <4>1. Local(cfg, "server", b) /\ At(b) = "SR_CERT_VRFY"
        BY <2>2, Ends, Zenon DEF At, FlushStates
      <4> QED
        BY <4>1, Zenon DEF Local, Cached
    <3>3. d.handshake_buffer = NULL <=> b.handshake_buffer = NULL
      BY <2>3, <3>1, Zenon DEF Reads
    <3>4. d.keep = b.keep
      BY <2>3, IsField, Zenon DEF Reads, Same
    <3>5. T(c) = T(v)
      BY <2>6, <2>7, <2>8, <2>9, <3>2, <3>3, <3>4, Zenon DEF T
    <3> QED
      BY <2>5, <3>1, <3>5, Zenon
  <2>12. Handled(d, c, m)
    <3>1. Same(d, c, {"cert_req", "reuse_message", "handshake_buffer", "handshake_dgst", "keep",
                      "state", "failed"})
      BY <2>5, <2>7, Zenon DEF Same
    <3> QED
      BY <2>5, <2>8, <2>9, <2>10, <2>11, <3>1, Zenon DEF Handled
  <2>13. st \in {"SR_NEXT_PROTO", "SR_FINISHED"}
    BY Zenon DEF AfterVerify
  <2>14. Takes("server", To(c, st))
    BY <2>1, Zenon DEF c, v
  <2> HIDE DEF st
  <2>15. c.state # "ERR" => GoesOn("SR_CERT_VRFY", st, c, m)
    BY <2>8, <2>11, <2>13, Zenon DEF GoesOn, Goes, Offered, Answered, ReadStates, States, FlushStates, Start, Idle
  <2> QED
    BY <2>1, <2>2, <2>8, <2>12, <2>14, <2>15, <1>TakeGoes, Zenon
<1> QED
  BY <1>GetServerCertificateKeeps, <1>GetCertStatusKeeps,
     <1>GetServerKeyExchangeKeeps, <1>GetServerDoneKeeps,
     <1>GetCertificateRequestKeeps, <1>GetNextProtoKeeps, <1>GetCertVerifyKeeps, Zenon

\* An end that fails.
LEMMA TakeFails ==
    ASSUME Inv, Running, NEW s \in Sides, NEW d, NEW m, NEW e, Given(s, d, m), Takes(s, e),
           cfg' = cfg, Base(e), e.state = "ERR", s = "server" => e.reuse_message = NULL
    PROVE  Inv'
<1>1. Fits(s, e)
  BY Zenon DEF Fits, Typed, States, FlushStates
<1> QED
  BY <1>1, TakeStep, Zenon

\* What the hellos settle, and nothing else.
Settled(d, c) ==
    /\ Same(d, c, {"hit", "random", "new_cipher", "session", "ticket_expected", "status_expected",
                   "next_proto_neg_seen", "renegotiate", "handshake_buffer", "handshake_dgst",
                   "state", "failed"})
    /\ Base(c) /\ c.state \in {d.state, "ERR"}
    /\ c.state # "ERR" => T(c) = T(d)

\* The digests are started or go on being put off.
LEMMA SettledIs ==
    ASSUME NullApart, NEW d, NEW f, NEW c, Base(d), ~d.keep,
           Same(d, f, {"hit", "random", "new_cipher", "session", "ticket_expected", "status_expected",
                       "next_proto_neg_seen", "renegotiate"}),
           f.renegotiate \in 0..2,
           c = f \/ c = tls1_digest_cached_records(f)
    PROVE  /\ Settled(d, c) /\ c.hit = f.hit /\ c.random = f.random /\ c.new_cipher = f.new_cipher
           /\ c.session = f.session
<1>1. /\ IsSSL(f) /\ f.cert_req = d.cert_req /\ f.handshake_buffer = d.handshake_buffer
      /\ f.handshake_dgst = d.handshake_dgst /\ f.keep = d.keep /\ f.pushed = d.pushed
      /\ f.bbio = d.bbio /\ f.state = d.state
  BY IsField, Zenon DEF Same
<1>2. Base(f) /\ T(f) = T(d)
  BY <1>1, Zenon DEF Base, T
<1>3. /\ Same(f, c, {"handshake_buffer", "handshake_dgst", "state", "failed"}) /\ Base(c)
      /\ c.state \in {f.state, "ERR"} /\ (c.state # "ERR" => T(c) = T(f))
  <2>1. CASE c = f
    BY <1>1, <1>2, <2>1, Zenon DEF Same
  <2>2. CASE c = tls1_digest_cached_records(f)
    BY <1>1, <1>2, <2>2, DigestCachedIs, Zenon
  <2> QED
    BY <2>1, <2>2, Zenon
<1>4. Same(d, c, {"hit", "random", "new_cipher", "session", "ticket_expected", "status_expected",
                  "next_proto_neg_seen", "renegotiate", "handshake_buffer", "handshake_dgst",
                  "state", "failed"})
  BY <1>3, Zenon DEF Same
<1>5. /\ c.hit = f.hit /\ c.random = f.random /\ c.new_cipher = f.new_cipher
      /\ c.session = f.session
  BY <1>3, IsField, Zenon DEF Same
<1> QED
  BY <1>1, <1>2, <1>3, <1>4, <1>5, Zenon DEF Settled

\* A hello that is refused settles nothing.
LEMMA FailSettles ==
    ASSUME NEW d, NEW x, Base(d)
    PROVE  Settled(d, Fail(d, x)) /\ Fail(d, x).state = "ERR"
<1>1. /\ Same(d, Fail(d, x), {"state", "failed"}) /\ Fail(d, x).state = "ERR"
      /\ Base(Fail(d, x))
  BY FailIs, BaseFails, Zenon DEF Base
<1> QED
  BY <1>1, Zenon DEF Settled, Same

\* ssl3_get_server_hello keeps Inv.
LEMMA GetServerHelloKeeps ==
    ASSUME NullApart, Inv, GetServerHello
    PROVE  Inv'
\* The session that a client goes on with.
<1>ServerHelloIs.
      ASSUME NEW d, NEW m, Base(d), ~d.keep, IsSession(d.session),
             d.session.tick = NULL \/ Resumes(cfg, d.session.tick)
      PROVE  LET c == ssl3_get_server_hello(d, m)
             IN  /\ Settled(d, c)
                 /\ c.state # "ERR" =>
                      /\ m.type = "ServerHello" /\ c.new_cipher = m.body.cipher /\ c.random = d.random
                      /\ IsSession(c.session)
                      /\ c.session.tick = NULL \/ Resumes(cfg, c.session.tick)
  <2> USE <1>ServerHelloIs
  <2> DEFINE hit == m.body.id # NULL /\ m.body.id = d.session.id
             ses == IF hit THEN d.session
                    ELSE IF d.session.id # NULL THEN NewSession(m.body.id)
                    ELSE [d.session EXCEPT !.id = m.body.id]
             te == d.ticket_expected \/ m.body.ticket
             se == d.status_expected \/ m.body.status
             np == m.body.npn /\ d.finish_md_len = 0
             f == [d EXCEPT !.hit = hit, !.new_cipher = m.body.cipher, !.session = ses,
                            !.ticket_expected = te, !.status_expected = se,
                            !.next_proto_neg_seen = np]
             c == ssl3_get_server_hello(d, m)
  <2>1. \/ c = Fail(d, "unexpected message")
        \/ c = Fail(d, "renegotiation mismatch")
        \/ c = Fail(d, "old session cipher not returned")
        \/ m.type = "ServerHello" /\ (c = f \/ c = tls1_digest_cached_records(f))
    BY Zenon DEF ssl3_get_server_hello
  <2>2. IsSession(ses) /\ (ses.tick = NULL \/ Resumes(cfg, ses.tick))
    <3>1. IsSession(NewSession(m.body.id)) /\ NewSession(m.body.id).tick = NULL
      BY Zenon DEF IsSession, SessionFields, NewSession
    <3>2. /\ IsSession([d.session EXCEPT !.id = m.body.id])
          /\ [d.session EXCEPT !.id = m.body.id].tick = d.session.tick
      BY Zenon DEF IsSession, SessionFields
    <3> QED
      BY <3>1, <3>2, Zenon
  <2> HIDE DEF hit, ses, te, se, np
  <2>3. /\ Same(d, f, {"hit", "random", "new_cipher", "session", "ticket_expected", "status_expected",
                       "next_proto_neg_seen", "renegotiate"})
        /\ f.random = d.random /\ f.new_cipher = m.body.cipher /\ f.session = ses
        /\ f.renegotiate = d.renegotiate
    BY IsField, Zenon DEF Same, Base, IsSSL
  <2> HIDE DEF f, c
  <2>4. CASE m.type = "ServerHello" /\ (c = f \/ c = tls1_digest_cached_records(f))
    <3>1. d.renegotiate \in 0..2
      BY Zenon DEF Base
    <3>2. /\ Settled(d, c) /\ c.hit = f.hit /\ c.random = f.random /\ c.new_cipher = f.new_cipher
          /\ c.session = f.session
      BY <2>3, <2>4, <3>1, SettledIs
    <3> QED
      BY <2>2, <2>3, <2>4, <3>2, Zenon DEF c
  <2> QED
    BY <2>1, <2>4, FailSettles, Zenon DEF c
<1> DEFINE H(c, m) == ssl3_get_server_hello(c, m)
           ST(c) == IF ~c.hit THEN "CR_CERT"
                    ELSE IF c.ticket_expected THEN "CR_SESSION_TICKET"
                    ELSE "CR_FINISHED"
<1>2. Running /\ cfg' = cfg /\ ssl["client"].state = "CR_SRVR_HELLO" /\ "client" \in Sides
  BY Zenon DEF GetServerHello, Get, Sides
<1>1. PICK d, m : Given("client", d, m) /\ Takes("client", To(H(d, m), ST(H(d, m))))
  <2> DEFINE rec == Head(In("client"))
             d == ssl3_get_message(Decrypt(AllowCcs(ssl["client"]), rec), "client", rec.msg)
  <2>1. ssl["client"].reuse_message = NULL
    BY <1>2, Ends, Zenon
  <2>2. Given("client", d, rec.msg)
    BY <2>1, Zenon DEF GetServerHello, Get, Given
  <2>3. Takes("client", To(H(d, rec.msg), ST(H(d, rec.msg))))
    BY <2>1, Zenon DEF GetServerHello, Get, Takes
  <2> QED
    BY <2>2, <2>3, Zenon
<1> DEFINE b == ssl["client"]
           c == H(d, m)
           st == ST(c)
           e == To(c, st)
<1>3. Takes("client", e)
  BY <1>1, Zenon
<1>4. (IF c.hit THEN st \in {"CR_SESSION_TICKET", "CR_FINISHED"} ELSE st = "CR_CERT")
  BY Zenon
<1>5. /\ Typed(b) /\ Base(b) /\ IsSSL(b) /\ b.state # "ERR" /\ Local(cfg, "client", b)
      /\ ~b.keep /\ b.reuse_message = NULL /\ IsSequence(b.out) /\ IsSequence(b.bbio)
  BY <1>2, Ends, Zenon
<1>6. Reads("client", d, m)
  BY <1>1, <1>2, GivenIs, Zenon
<1>7. Base(d) /\ IsSSL(d) /\ d.reuse_message = NULL /\ ~d.keep /\ d.state \in {b.state, "ERR"}
  BY <1>1, <1>2, Reader, Zenon
<1> HIDE DEF b, st, ST
<1>8. /\ d.random = b.random /\ d.session = b.session /\ d.cache = b.cache
      /\ d.key_block = b.key_block /\ d.change_cipher_spec = b.change_cipher_spec
      /\ d.out = b.out /\ d.bbio = b.bbio
      /\ d.previous_client_finished = b.previous_client_finished
      /\ d.previous_server_finished = b.previous_server_finished
      /\ d.ccs_ok = b.ccs_ok
  BY <1>2, <1>6, IsField, Zenon DEF Reads, Same, b
<1>9. /\ At(b) = "CR_SRVR_HELLO" /\ At(b) \in Helloed /\ At(b) \in Early
      /\ b.state \notin Start \cup Opening \cup Writing
  BY <1>2, Zenon DEF At, FlushStates, Helloed, Start, Opening, Writing, Early, b
<1>10. /\ IsSession(b.session) /\ (b.session.tick = NULL \/ Resumes(cfg, b.session.tick))
  BY <1>5, <1>9, Zenon DEF Local, Sessioned
<1>11. /\ Settled(d, c)
       /\ c.state # "ERR" =>
             /\ m.type = "ServerHello" /\ c.new_cipher = m.body.cipher /\ c.random = d.random
             /\ IsSession(c.session)
             /\ c.session.tick = NULL \/ Resumes(cfg, c.session.tick)
  BY <1>7, <1>8, <1>10, <1>ServerHelloIs, Zenon
<1> HIDE DEF c, H
<1>12. IsSSL(c) /\ Base(c)
  BY <1>11, Zenon DEF Settled, Same
<1>13. /\ Same(c, e, {"state"}) /\ e.state = (IF c.state = "ERR" THEN "ERR" ELSE st)
       /\ Base(e) /\ T(e) = T(c)
  BY <1>12, ToIs, BaseFails, Zenon
<1> HIDE DEF e
<1>14. /\ e.reuse_message = NULL /\ e.keep = d.keep /\ e.out = b.out /\ e.bbio = b.bbio
       /\ e.key_block = b.key_block /\ e.change_cipher_spec = b.change_cipher_spec
       /\ e.previous_client_finished = b.previous_client_finished
       /\ e.previous_server_finished = b.previous_server_finished
       /\ e.ccs_ok = b.ccs_ok /\ e.hit = c.hit /\ e.random = c.random
       /\ e.new_cipher = c.new_cipher /\ e.session = c.session
  BY <1>7, <1>8, <1>11, <1>13, IsField DEF Settled, Same
<1>15. CASE c.state = "ERR"
  BY <1>1, <1>2, <1>3, <1>13, <1>14, <1>15, TakeFails, Zenon
<1>16. CASE c.state # "ERR"
  <2>1. /\ e.state = st /\ At(e) = st /\ d.state # "ERR" /\ T(e) = T(d)
        /\ st \in {"CR_SESSION_TICKET", "CR_FINISHED", "CR_CERT"} /\ (st = "CR_CERT" <=> ~e.hit)
    BY <1>4, <1>11, <1>13, <1>14, <1>16, Zenon DEF At, FlushStates, Settled
  <2>2. T(d) = Append(T(b), Digested(m)) /\ IsMessage(cfg, m)
    BY <1>5, <1>6, <2>1, Zenon DEF Reads, b
  <2>3. Digests(e)
    <3>1. /\ IsSequence(T(b)) /\ Len(T(b)) = 1
          /\ T(b)[1].type = "ClientHello" /\ T(b)[1].body.random = b.random
      BY <1>5, <1>9, Zenon DEF Local, Digests
    <3>3. Digested(m).type = "ServerHello" /\ Digested(m).body.cipher = e.new_cipher
      BY <1>11, <1>14, <1>16, <2>2, DigestedIs, Zenon
    <3>4. /\ IsSequence(T(e)) /\ Len(T(e)) = 2 /\ T(e)[1] = T(b)[1] /\ T(e)[2] = Digested(m)
      BY <2>1, <2>2, <3>1, AppendedSecond
    <3>5. Begins(T(e), e.random, e.new_cipher) /\ ~HasDone(T(e))
      BY <1>8, <1>11, <1>14, <1>16, <3>1, <3>3, <3>4 DEF Begins, HasDone
    <3>6. st \notin Opening \cup Helloed \cup Answered /\ (st \in Ending => e.hit)
      BY <2>1, Zenon DEF Opening, Helloed, Answered, Ending
    <3> QED
      BY <2>1, <3>5, <3>6, Zenon DEF Digests
  <2>4. Keys("client", e)
    <3>1. ~b.ccs_ok /\ ~b.change_cipher_spec /\ b.key_block = NULL
      BY <1>5, <1>9, Zenon DEF Local, Keys
    <3>2. /\ ~Got(e) /\ ~Sent(e) /\ ~Changed(e) /\ st \notin Start \cup Idle
          /\ st \in Offered \cup Answered => ~e.hit
      BY <2>1, Zenon DEF Got, Sent, Changed, Start, Idle, Offered, Answered
    <3> QED
      BY <1>14, <2>1, <3>1, <3>2, Zenon DEF Keys
  <2>5. Waiting(e) /\ Cached(e)
    BY <1>14, <2>1, Zenon DEF Waiting, Cached
  <2>6. Buffers(e)
    <3>1. Buffers(b)
      BY <1>5, Zenon DEF Local
    <3> QED
      BY <1>9, <1>14, <2>1, <3>1, Zenon DEF Buffers
  <2>7. Sessioned(cfg, "client", e)
    BY <1>11, <1>14, <1>16, Zenon DEF Sessioned
  <2>8. Typed(e)
    BY <1>7, <1>13, <1>14, <2>1, Zenon DEF Typed, States, ReadStates, FlushStates
  <2>9. Fits("client", e)
    BY <2>3, <2>4, <2>5, <2>6, <2>7, <2>8, Zenon DEF Fits, Local
  <2>10. Q(e) = Q(b) /\ (\A t : Own(t, e) = Own(t, b)) /\ m.type # "Finished"
    BY <1>11, <1>14, <1>16, Zenon DEF Q, Own
  <2> QED
    BY <1>1, <1>2, <1>3, <2>9, <2>10, TakeStep DEF b
<1> QED
  BY <1>15, <1>16, Zenon

\* What a handler leaves alone that settles the session or the digests.
Kept(d, c) ==
    /\ Same(d, c, {"hit", "random", "new_cipher", "session", "ticket_expected", "status_expected",
                   "next_proto_neg_seen", "renegotiate", "handshake_buffer", "handshake_dgst",
                   "keep", "cert_verify_md", "state", "failed"})
    /\ Base(c) /\ c.state \in {d.state, "ERR"}

Unmoved(b, e) ==
    /\ e.reuse_message = NULL /\ e.out = b.out /\ e.bbio = b.bbio /\ e.pushed = b.pushed
    /\ e.key_block = b.key_block /\ e.change_cipher_spec = b.change_cipher_spec
    /\ e.read_key = b.read_key /\ e.write_key = b.write_key /\ e.cache = b.cache
    /\ e.cert_req = b.cert_req
    /\ e.previous_client_finished = b.previous_client_finished
    /\ e.previous_server_finished = b.previous_server_finished

Settles(c, e) ==
    /\ e.hit = c.hit /\ e.random = c.random /\ e.new_cipher = c.new_cipher
    /\ e.session = c.session /\ e.keep = c.keep /\ e.handshake_buffer = c.handshake_buffer

\* From what was read to where it goes.
LEMMA TakenIs ==
    ASSUME NEW s, NEW d, NEW m, NEW c, NEW st, Reads(s, d, m), Kept(d, c)
    PROVE  LET e == To(c, st)
               b == ssl[s]
           IN  /\ Same(c, e, {"state"}) /\ Base(e) /\ T(e) = T(c)
               /\ e.state = (IF c.state = "ERR" THEN "ERR" ELSE st)
               /\ Unmoved(b, e) /\ Settles(c, e)
               /\ \/ e.ccs_ok = b.ccs_ok
                  \/ b.state \in {"CR_FINISHED", "SR_NEXT_PROTO", "SR_FINISHED"}
<1> DEFINE e == To(c, st)
           b == ssl[s]
<1>1. IsSSL(c)
  BY Zenon DEF Kept, Same
<1>2. /\ Same(c, e, {"state"}) /\ e.state = (IF c.state = "ERR" THEN "ERR" ELSE st)
      /\ Base(e) /\ T(e) = T(c)
  BY <1>1, ToIs, BaseFails, Zenon DEF Kept
<1> HIDE DEF e
<1>3. Settles(c, e) /\ e.ccs_ok = c.ccs_ok /\ Unmoved(c, [e EXCEPT !.reuse_message = NULL])
      /\ e.reuse_message = c.reuse_message
  BY <1>2, IsField, Zenon DEF Same, Settles, Unmoved, IsSSL
<1>4. c.ccs_ok = d.ccs_ok /\ Unmoved(d, [e EXCEPT !.reuse_message = NULL])
      /\ e.reuse_message = d.reuse_message
  BY <1>2, IsField, Zenon DEF Same, Kept, Unmoved, IsSSL
<1>5. Unmoved(b, e)
  BY <1>2, <1>4, IsField DEF Same, Reads, Kept, Unmoved
<1> QED
  BY <1>2, <1>3, <1>4, <1>5, Zenon DEF Reads, e

\* A message whose handler settles more keeps Inv, if it settles it right.
LEMMA TakeOn ==
    ASSUME NullApart, Inv, Running, NEW s \in Sides, NEW d, NEW m, NEW c, NEW st,
           Given(s, d, m), Takes(s, To(c, st)), cfg' = cfg,
           ssl[s].reuse_message = NULL, ssl[s].state \notin Writing, Kept(d, c),
           st \in {"SW_SRVR_HELLO", "SR_KEY_EXCH", "SR_CERT_VRFY", "CR_FINISHED"},
           c.state # "ERR" =>
              /\ m.type # "Finished" /\ (c.keep => st = "SR_CERT_VRFY")
              /\ Digests(To(c, st)) /\ Cached(To(c, st)) /\ Keys(s, To(c, st))
              /\ Sessioned(cfg, s, To(c, st))
    PROVE  Inv'
<1> DEFINE b == ssl[s]
           e == To(c, st)
<1>1. Reads(s, d, m)
  BY GivenIs, Zenon
<1>2. /\ Base(e) /\ e.state = (IF c.state = "ERR" THEN "ERR" ELSE st)
      /\ Unmoved(b, e) /\ Settles(c, e)
  BY <1>1, TakenIs
<1>3. Takes(s, e)
  BY Zenon
<1>4. Local(cfg, s, b)
  BY Ends, Zenon
<1>5. c.state # "ERR" =>
         /\ m.type # "Finished" /\ (c.keep => st = "SR_CERT_VRFY")
         /\ Digests(e) /\ Cached(e) /\ Keys(s, e) /\ Sessioned(cfg, s, e)
  BY Zenon
<1> HIDE DEF e
<1>6. CASE c.state = "ERR"
  <2>1. e.state = "ERR" /\ e.reuse_message = NULL
    BY <1>2, <1>6, Zenon DEF Unmoved
  <2> QED
    BY <1>2, <1>3, <2>1, TakeFails, Zenon
<1>7. CASE c.state # "ERR"
  <2>1. e.state = st /\ e.reuse_message = NULL /\ (e.keep => st = "SR_CERT_VRFY")
    BY <1>2, <1>5, <1>7, Zenon DEF Unmoved, Settles
  <2>2. Typed(e)
    BY <1>2, <2>1, Zenon DEF Typed, States, ReadStates, FlushStates
  <2>3. Waiting(e)
    BY <2>1, Zenon DEF Waiting
  <2>4. Buffers(e)
    <3>1. IsSequence(b.out) /\ b.bbio = <<>> /\ IsSequence(b.bbio)
      BY <1>4, Zenon DEF Local, Buffers
    <3> QED
      BY <1>2, <2>1, <3>1, Zenon DEF Buffers, Unmoved
  <2>5. Fits(s, e)
    BY <1>5, <1>7, <2>1, <2>2, <2>3, <2>4, Zenon DEF Fits, Local
  <2>6. Q(e) = Q(b) /\ (\A t : Own(t, e) = Own(t, b)) /\ m.type # "Finished"
    BY <1>2, <1>5, <1>7, Zenon DEF Q, Own, Unmoved
  <2> QED
    BY <1>3, <2>5, <2>6, TakeStep
<1> QED
  BY <1>6, <1>7, Zenon

\* It resumes session prev or, without one, makes the choices ch.
Answers(ch, prev) ==
    Get("server", "SR_CLNT_HELLO", LAMBDA c, m :
        To(ssl3_get_client_hello(c, m, ch, prev), "SW_SRVR_HELLO"))

\* ssl3_get_client_hello keeps Inv, whatever session it finds.
LEMMA GetClientHelloKeeps ==
    ASSUME NullApart, Inv, GetClientHello
    PROVE  Inv'
\* A session that the server resumes.
<1>ResumableIs.
      ASSUME NEW k, NEW m, IsMessage(k, m), m.type = "ClientHello", NEW c,
             \A x \in c.cache : Resumes(k, x), NEW prev \in Resumable(c, m)
      PROVE  Resumes(k, prev)
  <2> USE <1>ResumableIs
  <2>1. CASE m.body.tick # NULL
    <3>1. Resumes(k, m.body.tick) /\ prev = [m.body.tick EXCEPT !.id = m.body.offer]
      BY <2>1, Zenon DEF IsMessage, Resumable
    <3> QED
      BY <3>1, Zenon DEF Resumes, IsSession, SessionFields
  <2>2. CASE m.body.tick = NULL
    BY <2>2, Zenon DEF Resumable
  <2> QED
    BY <2>1, <2>2, Zenon
\* What the server settles.
<1>ClientHelloIs.
      ASSUME NEW d, NEW m, NEW ch, NEW prev, Base(d), ~d.keep,
             prev # NULL => Resumes(cfg, prev)
      PROVE  LET c == ssl3_get_client_hello(d, m, ch, prev)
             IN  /\ Kept(d, c)
                 /\ c.state # "ERR" =>
                      /\ m.type = "ClientHello" /\ c.random = m.body.random /\ ~c.keep
                      /\ T(c) = T(d)
                      /\ IsSession(c.session) /\ (c.hit => Resumes(cfg, c.session))
  <2> USE <1>ClientHelloIs
  <2> DEFINE ticket == \/ cfg.tickets = "always"
                       \/ cfg.tickets = "full" /\ (prev = NULL \/ m.body.tick = NULL)
             id == IF ticket THEN NULL ELSE <<"id", m.body.random>>
             hit == prev # NULL
             ses == IF prev # NULL THEN prev ELSE NewSession(id)
             ciph == IF prev # NULL THEN prev.cipher ELSE ch.cipher
             se == ch.status /\ ~ch.cipher.anon
             np == ch.npn /\ d.finish_md_len = 0
             f == [d EXCEPT !.hit = hit, !.random = m.body.random, !.session = ses,
                            !.new_cipher = ciph, !.ticket_expected = ticket,
                            !.status_expected = se, !.next_proto_neg_seen = np,
                            !.renegotiate = 2]
             c == ssl3_get_client_hello(d, m, ch, prev)
  <2>1. \/ c = Fail(d, "unexpected message")
        \/ c = Fail(d, "renegotiation mismatch")
        \/ m.type = "ClientHello" /\ (c = f \/ c = tls1_digest_cached_records(f))
    BY Zenon DEF ssl3_get_client_hello
  <2>2. IsSession(ses) /\ (hit => Resumes(cfg, ses))
    <3>1. IsSession(NewSession(id))
      BY Zenon DEF IsSession, SessionFields, NewSession
    <3> QED
      BY <3>1, Zenon DEF Resumes
  <2> HIDE DEF ticket, id, hit, ses, ciph, se, np
  <2>3. /\ Same(d, f, {"hit", "random", "new_cipher", "session", "ticket_expected", "status_expected",
                       "next_proto_neg_seen", "renegotiate"})
        /\ f.random = m.body.random /\ f.hit = hit /\ f.session = ses /\ f.renegotiate = 2
    BY IsField, Zenon DEF Same, Base, IsSSL
  <2> HIDE DEF f, c
  <2>4. CASE m.type = "ClientHello" /\ (c = f \/ c = tls1_digest_cached_records(f))
    <3>1. f.renegotiate \in 0..2
      BY <2>3
    <3>2. /\ Settled(d, c) /\ c.hit = f.hit /\ c.random = f.random /\ c.new_cipher = f.new_cipher
          /\ c.session = f.session
      BY <2>3, <2>4, <3>1, SettledIs
    <3>3. Kept(d, c) /\ c.keep = d.keep /\ (c.state # "ERR" => T(c) = T(d))
      BY <3>2, IsField, Zenon DEF Settled, Kept, Same
    <3> QED
      BY <2>2, <2>3, <2>4, <3>2, <3>3, Zenon DEF c
  <2>5. ASSUME NEW x, c = Fail(d, x) PROVE Kept(d, c) /\ c.state = "ERR"
    <3>1. Settled(d, c) /\ c.state = "ERR"
      BY <2>5, FailSettles, Zenon
    <3> QED
      BY <3>1, Zenon DEF Settled, Kept, Same
  <2> QED
    BY <2>1, <2>4, <2>5, Zenon DEF c
\* The server answers a ClientHello.
<1>ClientHelloTaken.
      ASSUME NEW ch, NEW prev, NEW d, NEW m, Running, cfg' = cfg,
             ssl["server"].state = "SR_CLNT_HELLO", Given("server", d, m),
             Takes("server", To(ssl3_get_client_hello(d, m, ch, prev), "SW_SRVR_HELLO")),
             prev # NULL => Resumes(cfg, prev)
      PROVE  Inv'
  <2> USE <1>ClientHelloTaken
  <2> DEFINE b == ssl["server"]
             c == ssl3_get_client_hello(d, m, ch, prev)
             e == To(c, "SW_SRVR_HELLO")
  <2>1. "server" \in Sides /\ b.state \notin Writing
    BY Zenon DEF Sides, Writing
  <2>2. /\ Typed(b) /\ Base(b) /\ IsSSL(b) /\ b.state # "ERR" /\ Local(cfg, "server", b)
        /\ ~b.keep /\ b.reuse_message = NULL
    BY <2>1, Ends, Zenon
  <2>3. Reads("server", d, m)
    BY <2>1, GivenIs, Zenon
  <2>4. Base(d) /\ IsSSL(d) /\ d.reuse_message = NULL /\ ~d.keep /\ d.state \in {b.state, "ERR"}
    BY <2>1, Reader, Zenon
  <2>5. Takes("server", e)
    BY Zenon
  <2>6. /\ Kept(d, c)
        /\ c.state # "ERR" =>
             /\ m.type = "ClientHello" /\ c.random = m.body.random /\ ~c.keep
             /\ T(c) = T(d)
             /\ IsSession(c.session) /\ (c.hit => Resumes(cfg, c.session))
    BY <2>4, <1>ClientHelloIs, Zenon
  <2> HIDE DEF c
  <2>7. /\ T(e) = T(c) /\ e.state = (IF c.state = "ERR" THEN "ERR" ELSE "SW_SRVR_HELLO")
        /\ Unmoved(b, e) /\ Settles(c, e) /\ e.ccs_ok = b.ccs_ok
    BY <2>3, <2>6, TakenIs
  <2>8. ASSUME c.state # "ERR"
        PROVE  /\ Digests(e) /\ Cached(e) /\ Keys("server", e) /\ Sessioned(cfg, "server", e)
    <3> HIDE DEF e, b
    <3>1. /\ e.state = "SW_SRVR_HELLO" /\ At(e) = "SW_SRVR_HELLO" /\ d.state # "ERR"
          /\ At(e) \in Helloed /\ At(e) \in Early
          /\ At(e) \notin Opening \cup Offered \cup Answered \cup Ending \cup Start \cup Idle
      BY <2>6, <2>7, <2>8, Zenon DEF Kept, At, FlushStates, Helloed, Opening, Offered, Answered, Ending, Early,
                              Start, Idle
    <3>2. T(d) = Append(T(b), Digested(m)) /\ IsMessage(cfg, m)
      BY <2>2, <2>3, <3>1, Zenon DEF Reads, b
    <3>3. At(b) \in Opening /\ At(b) \in Early /\ b.handshake_buffer = <<>>
      BY <2>2, Zenon DEF Local, Digests, At, FlushStates, Opening, Early, b
    <3>4. T(b) = <<>>
      BY <2>2, <3>3, \A S : NULL \notin Seq(S), <<>> \in Seq({}), Zenon DEF T, NullApart
    <3>5. T(e) = <<Digested(m)>>
      BY <2>6, <2>7, <2>8, <3>2, <3>4
    <3>6. Digested(m).type = "ClientHello" /\ Digested(m).body.random = e.random
      BY <2>6, <2>7, <2>8, <3>2, DigestedIs, Zenon DEF Settles
    <3>7. Digests(e)
      <4>1. IsSequence(T(e)) /\ Len(T(e)) = 1 /\ T(e)[1] = Digested(m)
        <5>1. ASSUME NEW x PROVE IsSequence(<<x>>) /\ Len(<<x>>) = 1 /\ <<x>>[1] = x
          <6>1. <<x>> \in Seq({x})
            OBVIOUS
          <6> QED
            BY <6>1, Zenon DEF IsSequence
        <5> QED
          BY <3>5, <5>1, Zenon
      <4> QED
        BY <3>1, <3>6, <4>1, Zenon DEF Digests
    <3>8. Cached(e)
      BY <3>1, Zenon DEF Cached
    <3>9. Keys("server", e)
      <4>1. ~b.ccs_ok /\ ~b.change_cipher_spec /\ b.key_block = NULL
        BY <2>2, <3>3, Zenon DEF Local, Keys
      <4>2. ~Got(e) /\ ~Sent(e) /\ ~Changed(e)
        BY <3>1, Zenon DEF Got, Sent, Changed, Idle
      <4> QED
        BY <2>7, <3>1, <4>1, <4>2, Zenon DEF Keys, Unmoved
    <3>10. Sessioned(cfg, "server", e)
      <4>1. \A x \in b.cache : Resumes(cfg, x)
        BY <2>2, Zenon DEF Local, Sessioned
      <4> QED
        BY <2>6, <2>7, <2>8, <3>1, <4>1, Zenon DEF Sessioned, Unmoved, Settles
    <3> QED
      BY <3>7, <3>8, <3>9, <3>10, Zenon
  <2> HIDE DEF b
  <2> QED
    BY <2>1, <2>2, <2>5, <2>6, <2>8, TakeOn, Zenon DEF b
<1> DEFINE rec == Head(In("server"))
           d == ssl3_get_message(Decrypt(AllowCcs(ssl["server"]), rec), "server", rec.msg)
<1>1. PICK ch :
         \/ Answers(ch, NULL)
         \/ /\ In("server") # <<>>
            /\ rec.type = "handshake"
            /\ rec.msg.type = "ClientHello"
            /\ \E prev \in Resumable(ssl["server"], rec.msg) :
                  Answers(ch, prev)
  BY Zenon DEF GetClientHello, Answers, Get
<1>2. ASSUME NEW prev, prev # NULL => Resumes(cfg, prev),
             Answers(ch, prev)
      PROVE  Inv'
  <2>1. Running /\ cfg' = cfg /\ ssl["server"].state = "SR_CLNT_HELLO" /\ "server" \in Sides
    BY <1>2, Zenon DEF Answers, Get, Sides
  <2>2. ssl["server"].reuse_message = NULL
    BY <2>1, Ends, Zenon
  <2>3. Given("server", d, rec.msg)
    BY <1>2, <2>2, Zenon DEF Answers, Get, Given
  <2>4. Takes("server", To(ssl3_get_client_hello(d, rec.msg, ch, prev), "SW_SRVR_HELLO"))
    BY <1>2, <2>2, Zenon DEF Answers, Get, Takes
  <2> HIDE DEF d, rec
  <2> QED
    BY <1>2, <2>1, <2>3, <2>4, <1>ClientHelloTaken, Zenon
<1>3. CASE Answers(ch, NULL)
  BY <1>2, <1>3, Zenon
<1>4. ASSUME NEW prev \in Resumable(ssl["server"], rec.msg), In("server") # <<>>,
             rec.type = "handshake", rec.msg.type = "ClientHello",
             Answers(ch, prev)
      PROVE  Inv'
  <2>1. Running /\ "server" \in Sides
    BY <1>4, Zenon DEF Answers, Get, Sides
  <2>2. IsMessage(cfg, rec.msg)
    BY <1>4, <2>1, AtHand, Zenon
  <2>3. \A x \in ssl["server"].cache : Resumes(cfg, x)
    BY <2>1, Ends, Zenon DEF Local, Sessioned
  <2>4. Resumes(cfg, prev)
    BY <1>4, <2>2, <2>3, <1>ResumableIs, Zenon
  <2> QED
    BY <1>2, <1>4, <2>4, Zenon
<1> QED
  BY <1>1, <1>3, <1>4, Zenon

\* A message that is not the ServerHelloDone leaves the digests as they are.
LEMMA DigestsOn ==
    ASSUME NEW b, NEW e, NEW x, Digests(b), At(b) \in Answered \cup Ending,
           At(e) \in Answered \cup Ending, T(e) = Append(T(b), x), x.type # "ServerHelloDone",
           e.random = b.random, e.new_cipher = b.new_cipher, e.hit = b.hit
    PROVE  Digests(e)
<1>1. /\ Begins(T(b), b.random, b.new_cipher) /\ (HasDone(T(b)) <=> ~b.hit) /\ IsSequence(T(b))
  BY Zenon DEF Digests, Begins
<1>2. /\ Begins(T(b), b.random, b.new_cipher) => Begins(Append(T(b), x), b.random, b.new_cipher)
      /\ HasDone(Append(T(b), x)) <=> HasDone(T(b)) \/ x.type = "ServerHelloDone"
  BY <1>1, BeginsOn, Zenon
<1>3. At(e) \notin Opening \cup Helloed
  BY Zenon DEF Answered, Ending, Opening, Helloed
<1> QED
  BY <1>1, <1>2, <1>3, Zenon DEF Digests

\* A client keeps a ticket with the session.
Ticketed(c, x, h) == [c EXCEPT !.session.tick = x, !.session.id = h]

\* The client's certificate, its key exchange, and the session ticket.
LEMMA KeyingGetsKeep ==
    ASSUME NullApart, Inv,
           \/ GetClientCertificate \/ GetClientKeyExchange \/ GetNewSessionTicket
    PROVE  Inv'
\* Before the ChangeCipherSpecs there are no keys to speak of.
<1>KeysOn.
      ASSUME NEW s, NEW b, NEW e, Keys(s, b), Unmoved(b, e), e.hit = b.hit, e.ccs_ok = b.ccs_ok,
             At(b) \in Answered, At(e) \in Answered, e.state \notin Start \cup Idle
      PROVE  Keys(s, e)
  <2> USE <1>KeysOn
  <2>1. /\ At(b) \in Early /\ At(e) \notin Ending
        /\ ~b.hit /\ ~b.ccs_ok /\ ~b.change_cipher_spec /\ b.key_block = NULL
    BY Zenon DEF Keys, Early, Answered, Ending
  <2>2. ~Got(e) /\ ~Sent(e) /\ ~Changed(e)
    BY Zenon DEF Got, Sent, Changed, Idle, Answered
  <2> QED
    BY <2>1, <2>2, Zenon DEF Keys, Unmoved
\* The server takes a message that answers it.
<1>AnswerTaken.
      ASSUME NEW d, NEW m, NEW c, NEW st, Running, cfg' = cfg,
             ssl["server"].state \in {"SR_CERT", "SR_KEY_EXCH"}, st \in {"SR_KEY_EXCH", "SR_CERT_VRFY"},
             Given("server", d, m), Takes("server", To(c, st)), Kept(d, c),
             c.state # "ERR" =>
                /\ m.type \notin {"Finished", "ServerHelloDone"} /\ T(c) = T(d)
                /\ c.keep => st = "SR_CERT_VRFY"
                /\ c.random = d.random /\ c.new_cipher = d.new_cipher /\ c.hit = d.hit
                /\ Resumes(cfg, c.session)
                /\ st = "SR_KEY_EXCH" /\ ~c.session.peer => c.handshake_buffer = NULL
                /\ st = "SR_CERT_VRFY" /\ c.handshake_buffer # NULL => c.keep
      PROVE  Inv'
  <2> USE <1>AnswerTaken
  <2> DEFINE b == ssl["server"]
             e == To(c, st)
  <2>1. "server" \in Sides /\ b.state \notin Writing
    BY Zenon DEF Sides, Writing
  <2>2. /\ Local(cfg, "server", b) /\ ~b.keep /\ b.reuse_message = NULL
    BY <2>1, Ends, Zenon
  <2>3. Reads("server", d, m)
    BY <2>1, GivenIs, Zenon
  <2>4. Takes("server", e)
    BY Zenon
  <2>5. /\ T(e) = T(c) /\ e.state = (IF c.state = "ERR" THEN "ERR" ELSE st)
        /\ Unmoved(b, e) /\ Settles(c, e) /\ e.ccs_ok = b.ccs_ok
    BY <2>3, TakenIs
  <2>6. ASSUME c.state # "ERR"
        PROVE  /\ Digests(e) /\ Cached(e) /\ Keys("server", e) /\ Sessioned(cfg, "server", e)
    <3> HIDE DEF e, b
    <3>1. /\ e.state = st /\ At(e) = st /\ d.state # "ERR" /\ At(e) \in Answered
          /\ At(e) \notin Start \cup Idle /\ At(b) \in Answered
      BY <2>5, <2>6, Zenon DEF Kept, At, FlushStates, Answered, Start, Idle, b
    <3>2. T(d) = Append(T(b), Digested(m)) /\ IsMessage(cfg, m)
      BY <2>2, <2>3, <3>1, Zenon DEF Reads, b
    <3>3. Digested(m).type # "ServerHelloDone"
      BY <2>6, <3>2, DigestedIs, Zenon
    <3>4. d.random = b.random /\ d.new_cipher = b.new_cipher /\ d.hit = b.hit
      BY <2>3, IsField, Zenon DEF Reads, Same, b
    <3>5. e.random = b.random /\ e.new_cipher = b.new_cipher /\ e.hit = b.hit
      BY <2>5, <2>6, <3>4, Zenon DEF Settles
    <3>6. Digests(b) /\ Keys("server", b)
      BY <2>2, Zenon DEF Local
    <3>7. Digests(e)
      <4>1. T(e) = Append(T(b), Digested(m))
        BY <2>5, <2>6, <3>2, Zenon
      <4> QED
        BY <3>1, <3>3, <3>5, <3>6, <4>1, DigestsOn, Zenon
    <3>8. Keys("server", e)
      BY <2>5, <3>1, <3>5, <3>6, <1>KeysOn, Zenon
    <3>9. Cached(e)
      BY <2>5, <2>6, <3>1, Zenon DEF Cached, Settles
    <3>10. Sessioned(cfg, "server", e)
      <4>1. \A x \in b.cache : Resumes(cfg, x)
        BY <2>2, Zenon DEF Local, Sessioned
      <4> QED
        BY <2>5, <2>6, <3>1, <4>1, Zenon DEF Sessioned, Unmoved, Settles, Resumes
    <3> QED
      BY <3>7, <3>8, <3>9, <3>10, Zenon
  <2> HIDE DEF b
  <2> QED
    BY <2>1, <2>2, <2>4, <2>6, TakeOn, Zenon DEF b
<1>FailKept.
      ASSUME NEW d, NEW x, Base(d)
      PROVE  Kept(d, Fail(d, x)) /\ Fail(d, x).state = "ERR"
  <2> USE <1>FailKept
  <2>1. Settled(d, Fail(d, x)) /\ Fail(d, x).state = "ERR"
    BY FailSettles, Zenon
  <2> QED
    BY <2>1, Zenon DEF Settled, Kept, Same
\* A change of the session alone.
<1>SessionKept.
      ASSUME NEW d, NEW c, Base(d), Same(d, c, {"session"})
      PROVE  /\ Kept(d, c) /\ T(c) = T(d) /\ c.state = d.state /\ c.keep = d.keep
             /\ c.random = d.random /\ c.new_cipher = d.new_cipher /\ c.hit = d.hit
             /\ c.handshake_buffer = d.handshake_buffer
  <2> USE <1>SessionKept
  <2>1. /\ c.state = d.state /\ c.keep = d.keep /\ IsSSL(c) /\ SameBase(d, c)
        /\ c.random = d.random /\ c.new_cipher = d.new_cipher /\ c.hit = d.hit
        /\ c.handshake_buffer = d.handshake_buffer
    BY IsField, Zenon DEF Same, SameBase
  <2>2. Base(c) /\ T(c) = T(d)
    BY <2>1, BaseStays, Zenon
  <2> QED
    BY <2>1, <2>2, Zenon DEF Kept, Same
\* A client's certificate, or that it has none.
<1>ClientCertificateIs.
      ASSUME NEW d, NEW m, Base(d), ~d.keep, IsSession(d.session)
      PROVE  LET c == ssl3_get_client_certificate(d, m)
             IN  /\ Kept(d, c)
                 /\ c.state # "ERR" =>
                      /\ m.type = "Certificate" /\ T(c) = T(d) /\ ~c.keep
                      /\ c.random = d.random /\ c.new_cipher = d.new_cipher /\ c.hit = d.hit
                      /\ Resumes(cfg, c.session)
                      /\ ~c.session.peer => c.handshake_buffer = NULL
  <2> USE <1>ClientCertificateIs
  <2> DEFINE c == ssl3_get_client_certificate(d, m)
             f(x) == [d EXCEPT !.session.peer = x]
  <2>1. \/ c = Fail(d, "unexpected message")
        \/ m.type = "Certificate" /\ c = f(TRUE)
        \/ c = Fail(d, "peer did not return a certificate")
        \/ m.type = "Certificate" /\ ~(cfg.verify /\ cfg.require) /\ c = DigestIfCached(f(FALSE))
    BY Zenon DEF ssl3_get_client_certificate
  <2>2. ASSUME NEW x
        PROVE  /\ Base(f(x)) /\ Same(d, f(x), {"session"}) /\ IsSession(f(x).session)
               /\ f(x).session.peer = x
               /\ Kept(d, f(x)) /\ T(f(x)) = T(d) /\ f(x).state = d.state /\ f(x).keep = d.keep
               /\ f(x).random = d.random /\ f(x).new_cipher = d.new_cipher /\ f(x).hit = d.hit
    <3>1. /\ Same(d, f(x), {"session"}) /\ IsSession(f(x).session) /\ f(x).session.peer = x
      BY SetPeer, Zenon DEF Base
    <3> HIDE DEF f
    <3> QED
      BY <3>1, <1>SessionKept, Zenon DEF Kept
  <2> HIDE DEF f, c
  <2>3. CASE m.type = "Certificate" /\ c = f(TRUE)
    BY <2>2, <2>3, Zenon DEF Resumes, c
  <2>4. CASE m.type = "Certificate" /\ ~(cfg.verify /\ cfg.require) /\ c = DigestIfCached(f(FALSE))
    <3>1. /\ Same(f(FALSE), c, {"handshake_buffer", "handshake_dgst", "state", "failed"})
          /\ Base(c) /\ c.state \in {f(FALSE).state, "ERR"}
          /\ ~f(FALSE).keep /\ c.state # "ERR" => T(c) = T(f(FALSE)) /\ c.handshake_buffer = NULL
      BY <2>2, <2>4, DigestIfCachedIs, Zenon
    <3>2. /\ c.random = f(FALSE).random /\ c.new_cipher = f(FALSE).new_cipher /\ c.hit = f(FALSE).hit
          /\ c.session = f(FALSE).session /\ c.keep = f(FALSE).keep
      BY <3>1, IsField, Zenon DEF Same
    <3>3. Same(d, c, {"session", "handshake_buffer", "handshake_dgst", "state", "failed"})
      <4>1. Same(d, f(FALSE), {"session"})
        BY <2>2, Zenon
      <4> QED
        BY <3>1, <4>1, Zenon DEF Same
    <3>4. f(FALSE).state = d.state
      BY <2>2, Zenon
    <3>5. Kept(d, c)
      BY <3>1, <3>3, <3>4, Zenon DEF Kept, Same
    <3>6. Resumes(cfg, c.session)
      <4>1. IsSession(f(FALSE).session)
        BY <2>2, Zenon
      <4> QED
        BY <2>4, <3>2, <4>1, Zenon DEF Resumes, Strict
    <3>7. /\ f(FALSE).random = d.random /\ f(FALSE).new_cipher = d.new_cipher
          /\ f(FALSE).hit = d.hit /\ f(FALSE).keep = d.keep /\ T(f(FALSE)) = T(d)
      BY <2>2, Zenon
    <3> QED
      BY <2>4, <3>1, <3>2, <3>5, <3>6, <3>7, Zenon DEF c
  <2> QED
    BY <2>1, <2>3, <2>4, <1>FailKept, Zenon DEF c
<1>GetClientCertificateKeeps.
      ASSUME GetClientCertificate
      PROVE  Inv'
  <2> USE <1>GetClientCertificateKeeps
  <2> DEFINE rec == Head(In("server"))
             d == ssl3_get_message(Decrypt(AllowCcs(ssl["server"]), rec), "server", rec.msg)
             m == rec.msg
             c == ssl3_get_client_certificate(d, m)
  <2>1. Running /\ cfg' = cfg /\ ssl["server"].state = "SR_CERT" /\ "server" \in Sides
    BY Zenon DEF GetClientCertificate, Get, Sides
  <2>2. ssl["server"].reuse_message = NULL /\ Local(cfg, "server", ssl["server"])
    BY <2>1, Ends, Zenon
  <2>3. Given("server", d, m)
    BY <2>2, Zenon DEF GetClientCertificate, Get, Given
  <2>4. Takes("server", To(c, "SR_KEY_EXCH"))
    BY <2>2, Zenon DEF GetClientCertificate, Get, Takes
  <2> HIDE DEF d, m
  <2>5. Base(d) /\ ~d.keep
    BY <2>1, <2>3, Reader, Zenon
  <2>6. IsSession(d.session)
    <3>1. Reads("server", d, m)
      BY <2>1, <2>3, GivenIs, Zenon
    <3>2. d.session = ssl["server"].session
      BY <3>1, IsField, Zenon DEF Reads, Same
    <3> QED
      BY <2>1, <2>2, <3>2, Zenon DEF Local, Sessioned, Start, Opening
  <2>7. /\ Kept(d, c)
        /\ c.state # "ERR" =>
             /\ m.type = "Certificate" /\ T(c) = T(d) /\ ~c.keep
             /\ c.random = d.random /\ c.new_cipher = d.new_cipher /\ c.hit = d.hit
             /\ Resumes(cfg, c.session)
             /\ ~c.session.peer => c.handshake_buffer = NULL
    BY <2>5, <2>6, <1>ClientCertificateIs, Zenon
  <2> HIDE DEF c
  <2> QED
    BY <2>1, <2>3, <2>4, <2>7, <1>AnswerTaken, Zenon
\* The server prepares for a CertificateVerify.
<1>PrepareVerifyIs.
      ASSUME NEW x, Base(x), ~x.keep, x.handshake_buffer # <<>>,
             x.state # "ERR" /\ ~x.session.peer => x.handshake_buffer = NULL
      PROVE  LET c == PrepareVerify(x)
             IN  /\ Same(x, c, {"handshake_buffer", "handshake_dgst", "keep", "cert_verify_md",
                                "state", "failed"})
                 /\ Base(c) /\ c.state \in {x.state, "ERR"}
                 /\ c.state # "ERR" => T(c) = T(x) /\ (c.handshake_buffer # NULL => c.keep)
  <2> USE <1>PrepareVerifyIs
  <2> DEFINE c == PrepareVerify(x)
             y == DigestIfCached(x)
             k == [x EXCEPT !.keep = TRUE]
  <2>0. IsSSL(x)
    BY Zenon DEF Base
  <2>1. CASE ~cfg.sigalgs
    <3>1. c = [y EXCEPT !.cert_verify_md = y.handshake_dgst]
      BY <2>1, Zenon DEF PrepareVerify
    <3>2. /\ Same(x, y, {"handshake_buffer", "handshake_dgst", "state", "failed"}) /\ Base(y)
          /\ y.state \in {x.state, "ERR"}
          /\ y.state # "ERR" => T(y) = T(x) /\ y.handshake_buffer = NULL
      BY DigestIfCachedIs, Zenon
    <3> HIDE DEF y, c
    <3>3. Same(y, c, {"cert_verify_md"}) /\ IsSSL(c)
      BY <3>1, <3>2, IsField, Zenon DEF Same, IsSSL, Base
    <3>4. SameBase(y, c) /\ c.state = y.state /\ c.handshake_buffer = y.handshake_buffer
      BY <3>3, IsField, Zenon DEF Same, SameBase
    <3>5. Base(c) /\ T(c) = T(y)
      BY <3>2, <3>3, <3>4, BaseStays, Zenon
    <3>6. Same(x, c, {"handshake_buffer", "handshake_dgst", "keep", "cert_verify_md", "state", "failed"})
      BY <3>2, <3>3, Zenon DEF Same
    <3> QED
      BY <3>2, <3>4, <3>5, <3>6, Zenon DEF c
  <2>2. CASE cfg.sigalgs /\ ~x.session.peer
    <3>1. c = x
      BY <2>2, Zenon DEF PrepareVerify
    <3>2. Same(x, x, {"handshake_buffer", "handshake_dgst", "keep", "cert_verify_md", "state", "failed"})
      BY <2>0, Zenon DEF Same
    <3> QED
      BY <2>2, <3>1, <3>2, Zenon
  <2>3. CASE cfg.sigalgs /\ x.session.peer /\ x.handshake_buffer = NULL
    <3>1. c = Fail(x, "internal error")
      BY <2>3, Zenon DEF PrepareVerify
    <3>2. Same(x, c, {"state", "failed"}) /\ c.state = "ERR" /\ Base(c)
      BY <2>0, <3>1, FailIs, BaseFails, Zenon
    <3> HIDE DEF c
    <3> QED
      BY <3>2, Zenon DEF Same, c
  <2>4. CASE cfg.sigalgs /\ x.session.peer /\ x.handshake_buffer # NULL
    <3>1. c = tls1_digest_cached_records(k)
      BY <2>4, Zenon DEF PrepareVerify
    <3>2. Same(x, k, {"keep"}) /\ IsSSL(k) /\ k.keep = TRUE
      BY <2>0, IsField, Zenon DEF Same, IsSSL
    <3> HIDE DEF k
    <3>3. k.handshake_buffer = x.handshake_buffer
      BY <3>2, IsField, Zenon DEF Same
    <3>4. c = [k EXCEPT !.handshake_dgst = x.handshake_buffer, !.handshake_buffer = x.handshake_buffer]
      BY <2>4, <3>1, <3>2, <3>3, Zenon DEF tls1_digest_cached_records
    <3> HIDE DEF c
    <3>5. /\ Same(k, c, {"handshake_buffer", "handshake_dgst"})
          /\ c.handshake_buffer = x.handshake_buffer /\ c.handshake_dgst = x.handshake_buffer
      BY <3>2, <3>4, IsField, Zenon DEF Same, IsSSL
    <3>6. Same(x, c, {"handshake_buffer", "handshake_dgst", "keep"})
      BY <3>2, <3>5, Zenon DEF Same
    <3>7. /\ c.state = x.state /\ c.renegotiate = x.renegotiate /\ c.cert_req = x.cert_req
          /\ c.pushed = x.pushed /\ c.bbio = x.bbio /\ IsSSL(c) /\ c.keep = TRUE
      BY <3>2, <3>5, <3>6, IsField, Zenon DEF Same
    <3>8. Base(c)
      BY <2>4, <3>5, <3>7, Zenon DEF Base
    <3>9. T(c) = T(x)
      BY <2>4, <3>5, <3>7, Zenon DEF T
    <3> QED
      BY <3>6, <3>7, <3>8, <3>9, Zenon DEF Same, c
  <2> QED
    BY <2>1, <2>2, <2>3, <2>4, Zenon
<1>GetClientKeyExchangeKeeps.
      ASSUME GetClientKeyExchange
      PROVE  Inv'
  <2> USE <1>GetClientKeyExchangeKeeps
  <2> DEFINE b == ssl["server"]
             rec == Head(In("server"))
             d == ssl3_get_message(Decrypt(AllowCcs(ssl["server"]), rec), "server", rec.msg)
             m == rec.msg
             g == Expect(d, m, "ClientKeyExchange")
             x == [g EXCEPT !.session.master = m.body]
             c == PrepareVerify(x)
  <2>1. Running /\ cfg' = cfg /\ b.state = "SR_KEY_EXCH" /\ "server" \in Sides
    BY Zenon DEF GetClientKeyExchange, Get, Sides
  <2>2. b.reuse_message = NULL /\ Local(cfg, "server", b) /\ ~b.keep
    BY <2>1, Ends, Zenon
  <2>3. Given("server", d, m)
    BY <2>2, ZenonT(40) DEF GetClientKeyExchange, Get, Given
  <2>4. Takes("server", To(c, "SR_CERT_VRFY"))
    BY <2>2, Zenon DEF GetClientKeyExchange, Get, Takes
  <2> HIDE DEF b, d, m, c, x
  <2>5. Base(d) /\ ~d.keep /\ d.state \in {b.state, "ERR"} /\ Reads("server", d, m)
    BY <2>1, <2>3, Reader, GivenIs, Zenon DEF b
  <2>6. d.session = b.session /\ d.handshake_buffer # <<>>
        /\ (m.type # "Finished" => (d.handshake_buffer = NULL <=> b.handshake_buffer = NULL))
    BY <2>2, <2>5, IsField, Zenon DEF Reads, Same, b
  <2>7. /\ Resumes(cfg, b.session) /\ (~b.session.peer => b.handshake_buffer = NULL)
    BY <2>1, <2>2, Zenon DEF Local, Sessioned, Cached, At, FlushStates
  <2>8. /\ Same(d, g, {"state", "failed"}) /\ Base(g) /\ g.state \in {d.state, "ERR"}
        /\ g.state # "ERR" => m.type = "ClientKeyExchange"
    <3>1. CASE m.type = "ClientKeyExchange"
      BY <2>5, <3>1, Zenon DEF Expect, Same, Base
    <3>2. CASE m.type # "ClientKeyExchange"
      <4>1. g = Fail(d, "unexpected message")
        BY <3>2, Zenon DEF Expect
      <4> QED
        BY <2>5, <4>1, FailIs, BaseFails, Zenon DEF Base
    <3> QED
      BY <3>1, <3>2, Zenon
  <2> HIDE DEF g
  <2>9. /\ g.session = d.session /\ g.keep = d.keep /\ g.handshake_buffer = d.handshake_buffer
        /\ g.handshake_dgst = d.handshake_dgst
    BY <2>8, IsField, Zenon DEF Same
  <2>10. /\ Same(g, x, {"session"}) /\ IsSession(x.session) /\ x.session.peer = g.session.peer
    <3>1. IsSSL(g) /\ IsSession(g.session)
      BY <2>6, <2>7, <2>8, <2>9, Zenon DEF Resumes, Base
    <3> QED
      BY <3>1, SetMaster, Zenon DEF x
  <2>11. /\ Base(x) /\ T(x) = T(g) /\ x.state = g.state /\ x.keep = g.keep
         /\ x.handshake_buffer = g.handshake_buffer
    BY <2>8, <2>10, <1>SessionKept DEF Kept
  <2>12. /\ ~x.keep /\ x.handshake_buffer # <<>>
         /\ x.state # "ERR" /\ ~x.session.peer => x.handshake_buffer = NULL
    BY <2>5, <2>6, <2>7, <2>8, <2>9, <2>10, <2>11, Zenon
  <2>13. /\ Same(x, c, {"handshake_buffer", "handshake_dgst", "keep", "cert_verify_md",
                        "state", "failed"})
         /\ Base(c) /\ c.state \in {x.state, "ERR"}
         /\ c.state # "ERR" => T(c) = T(x) /\ (c.handshake_buffer # NULL => c.keep)
    BY <2>11, <2>12, <1>PrepareVerifyIs, Zenon DEF c
  <2>14. Same(d, c, {"session", "handshake_buffer", "handshake_dgst", "keep", "cert_verify_md",
                     "state", "failed"})
    BY <2>8, <2>10, <2>13, Zenon DEF Same
  <2>15. Kept(d, c)
    BY <2>8, <2>11, <2>13, <2>14, Zenon DEF Kept, Same
  <2>16. c.random = d.random /\ c.new_cipher = d.new_cipher /\ c.hit = d.hit /\ c.session = x.session
    BY <2>13, <2>14, IsField, Zenon DEF Same
  <2>17. Resumes(cfg, c.session)
    BY <2>6, <2>7, <2>9, <2>10, <2>16, Zenon DEF Resumes
  <2>18. T(g) = T(d)
    BY <2>9, Zenon DEF T
  <2>19. c.state # "ERR" => m.type = "ClientKeyExchange" /\ T(c) = T(d)
    BY <2>8, <2>11, <2>13, <2>18, Zenon
  <2> QED
    BY <2>1, <2>3, <2>4, <2>13, <2>15, <2>16, <2>17, <2>19, <1>AnswerTaken, Zenon DEF b
<1>SetTicket.
      ASSUME NEW c, IsSSL(c), IsSession(c.session), NEW x, NEW h
      PROVE  LET d == Ticketed(c, x, h)
             IN  /\ Same(c, d, {"session"}) /\ IsSession(d.session) /\ d.session.tick = x
                 /\ d.session.master = c.session.master /\ d.session.cipher = c.session.cipher
  <2> USE <1>SetTicket
  <2> DEFINE y == [c.session EXCEPT !.tick = x, !.id = h]
             d == [c EXCEPT !.session = y]
  <2>1. Ticketed(c, x, h) = d
    BY IsField, Zenon DEF IsSSL, Ticketed
  <2>2. /\ IsSession(y) /\ y.tick = x /\ y.master = c.session.master /\ y.cipher = c.session.cipher
    BY Zenon DEF IsSession, SessionFields
  <2> HIDE DEF y
  <2>3. Same(c, d, {"session"}) /\ d.session = y
    BY IsField, Zenon DEF Same, IsSSL
  <2> HIDE DEF d
  <2> QED
    BY <2>1, <2>2, <2>3, Zenon
<1>GetNewSessionTicketKeeps.
      ASSUME GetNewSessionTicket
      PROVE  Inv'
  <2> USE <1>GetNewSessionTicketKeeps
  <2> DEFINE b == ssl["client"]
             rec == Head(In("client"))
             d == ssl3_get_message(Decrypt(AllowCcs(ssl["client"]), rec), "client", rec.msg)
             m == rec.msg
             tick == m.body.session
             hash == m.body.hash
             f == Ticketed(d, tick, hash)
             c == ssl3_get_new_session_ticket(d, m)
             e == To(c, "CR_FINISHED")
  <2>1. Running /\ cfg' = cfg /\ b.state = "CR_SESSION_TICKET" /\ "client" \in Sides /\ b.state \notin Writing
    BY Zenon DEF GetNewSessionTicket, Get, Sides, Writing
  <2>2. b.reuse_message = NULL /\ Local(cfg, "client", b) /\ ~b.keep
    BY <2>1, Ends, Zenon
  <2>3. Given("client", d, m)
    BY <2>2, Zenon DEF GetNewSessionTicket, Get, Given
  <2>4. Takes("client", e)
    BY <2>2, Zenon DEF GetNewSessionTicket, Get, Takes
  <2> HIDE DEF b, d, m
  <2>5. Base(d) /\ ~d.keep /\ d.state \in {b.state, "ERR"} /\ Reads("client", d, m)
    BY <2>1, <2>3, Reader, GivenIs, Zenon DEF b
  <2>6. /\ d.session = b.session /\ d.random = b.random /\ d.new_cipher = b.new_cipher /\ d.hit = b.hit
        /\ IsMessage(cfg, m) /\ (d.state # "ERR" /\ m.type # "Finished" => T(d) = Append(T(b), Digested(m)))
    BY <2>2, <2>5, IsField, Zenon DEF Reads, Same, b
  <2>7. IsSession(b.session)
    BY <2>1, <2>2, Zenon DEF Local, Sessioned, Start, Opening
  <2>8. c = Fail(d, "unexpected message") \/ (m.type = "NewSessionTicket" /\ c = f)
    BY Zenon DEF ssl3_get_new_session_ticket, Ticketed
  <2> HIDE DEF tick, hash
  <2>9. /\ Same(d, f, {"session"}) /\ IsSession(f.session) /\ f.session.tick = tick
        /\ f.session.master = d.session.master /\ f.session.cipher = d.session.cipher
    <3>1. IsSSL(d) /\ IsSession(d.session)
      BY <2>5, <2>6, <2>7, Zenon DEF Base
    <3> QED
      BY <3>1, <1>SetTicket
  <2> HIDE DEF f, c
  <2>10. /\ Kept(d, f) /\ T(f) = T(d) /\ f.state = d.state /\ f.keep = d.keep
         /\ f.random = d.random /\ f.new_cipher = d.new_cipher /\ f.hit = d.hit
    BY <2>5, <2>9, <1>SessionKept, Zenon
  <2>11. Kept(d, c) /\ (c.state # "ERR" => c = f /\ m.type = "NewSessionTicket")
    BY <2>5, <2>8, <2>10, <1>FailKept, Zenon
  <2>12. /\ T(e) = T(c) /\ e.state = (IF c.state = "ERR" THEN "ERR" ELSE "CR_FINISHED")
         /\ Unmoved(b, e) /\ Settles(c, e)
    BY <2>1, <2>5, <2>11, TakenIs DEF b
  <2>13. ASSUME c.state # "ERR"
         PROVE  Digests(e) /\ Cached(e) /\ Keys("client", e) /\ Sessioned(cfg, "client", e)
    <3> HIDE DEF e
    <3>1. /\ e.state = "CR_FINISHED" /\ At(e) = "CR_FINISHED" /\ d.state # "ERR"
          /\ At(b) = "CR_SESSION_TICKET" /\ At(e) \in Ending /\ At(b) \in Ending
          /\ At(e) \notin Early /\ At(e) \notin Start \cup Idle \cup Offered \cup Answered
      BY <2>1, <2>5, <2>10, <2>11, <2>12, <2>13, Zenon DEF Kept, At, FlushStates, Answered, Offered, Helloed,
          Opening, Ending, Early, Start, Idle
    <3>2. /\ e.random = b.random /\ e.new_cipher = b.new_cipher /\ e.hit = b.hit
          /\ e.session.master = b.session.master /\ e.session.cipher = b.session.cipher
          /\ IsSession(e.session) /\ e.session.tick = m.body.session
          /\ T(e) = Append(T(b), Digested(m)) /\ m.type = "NewSessionTicket"
      BY <2>6, <2>9, <2>10, <2>11, <2>12, <2>13, <3>1, Zenon DEF Settles, tick
    <3>3. Digests(e)
      <4>1. Digested(m).type # "ServerHelloDone" /\ Digests(b)
        BY <2>2, <2>6, <3>2, DigestedIs, Zenon DEF Local
      <4> QED
        BY <3>1, <3>2, <4>1, DigestsOn, Zenon
    <3>4. Keys("client", e)
      <4>1. Key(e) = Key(b) /\ \A md : Matches(e, md) = Matches(b, md)
        BY <3>2, Zenon DEF Key, Matches
      <4>2. ~Got(e) /\ (Sent(e) => Sent(b)) /\ (Changed(e) => Changed(b))
        BY <3>1, <3>2, Zenon DEF Got, Sent, Changed, Idle
      <4>3. Keys("client", b)
        BY <2>2, Zenon DEF Local
      <4>4. Own("client", e) = Own("client", b)
        BY <2>12, Zenon DEF Own, Unmoved
      <4> QED
        BY <2>12, <3>1, <3>2, <4>1, <4>2, <4>3, <4>4, Zenon DEF Keys, Unmoved
    <3>5. Cached(e)
      BY <3>1, Zenon DEF Cached
    <3>6. Sessioned(cfg, "client", e)
      BY <2>6, <3>2, Zenon DEF Sessioned, IsMessage
    <3> QED
      BY <3>3, <3>4, <3>5, <3>6, Zenon
  <2>14. c.state # "ERR" => m.type # "Finished" /\ ~c.keep
    BY <2>5, <2>10, <2>11, Zenon
  <2> QED
    BY <2>1, <2>2, <2>3, <2>4, <2>11, <2>13, <2>14, TakeOn, Zenon DEF b
<1> QED
  BY <1>GetClientCertificateKeeps, <1>GetClientKeyExchangeKeeps,
     <1>GetNewSessionTicketKeeps, Zenon

\* A Finished is read and checked.
LEMMA FinishedGetsKeep ==
    ASSUME NullApart, Inv,
           \/ GetServerFinished \/ GetClientFinished
    PROVE  Inv'
\* A Finished is accepted when it has the hash over all that came before it.
<1>GetFinishedIs.
      ASSUME Running, NEW s \in Sides, NEW d, NEW m, Given(s, d, m),
             ssl[s].state \in {"CR_FINISHED", "SR_FINISHED"}
      PROVE  LET b == ssl[s]
                 c == ssl3_get_finished(d, s, m)
             IN  /\ Base(c) /\ c.reuse_message = NULL
                 /\ c.state # "ERR" =>
                      /\ m.type = "Finished" /\ c.state = b.state /\ d.state = b.state
                      /\ Same(d, c, {"change_cipher_spec", "previous_client_finished",
                                     "previous_server_finished"})
                      /\ T(c) = T(d)
                      /\ b.change_cipher_spec /\ ~c.change_cipher_spec
                      /\ m.body = d.peer_finish_md
                      /\ Own(Peer(s), c) = m.body /\ Own(s, c) = Own(s, b)
  <2> USE <1>GetFinishedIs
  <2> DEFINE b == ssl[s]
             c == ssl3_get_finished(d, s, m)
             fc == [d EXCEPT !.change_cipher_spec = FALSE, !.previous_client_finished = m.body]
             fs == [d EXCEPT !.change_cipher_spec = FALSE, !.previous_server_finished = m.body]
             f == IF s = "server" THEN fc ELSE fs
  <2>1. Base(d) /\ IsSSL(d) /\ d.reuse_message = NULL /\ d.state \in {b.state, "ERR"}
    BY Reader, Zenon
  <2>2. /\ d.change_cipher_spec = b.change_cipher_spec /\ Own(s, d) = Own(s, b)
    <3>1. Reads(s, d, m)
      BY GivenIs, Zenon
    <3> QED
      BY <3>1, IsField, Zenon DEF Reads, Same, Own
  <2>3. \/ c = Fail(d, "unexpected message")
        \/ c = d /\ d.state = "ERR"
        \/ c = Fail(d, "got a fin before a ccs")
        \/ c = Fail(d, "digest check failed")
        \/ /\ m.type = "Finished" /\ d.state # "ERR" /\ d.change_cipher_spec
           /\ m.body = d.peer_finish_md /\ c = f
    <3>1. CASE m.type # "Finished"
      <4>1. Expect(d, m, "Finished") = Fail(d, "unexpected message")
        BY <3>1, Zenon DEF Expect
      <4>2. Fail(d, "unexpected message").state = "ERR"
        BY <2>1, FailIs, Zenon
      <4> QED
        BY <4>1, <4>2, Zenon DEF ssl3_get_finished
    <3>2. CASE m.type = "Finished"
      <4>1. Expect(d, m, "Finished") = d
        BY <3>2, Zenon DEF Expect
      <4> HIDE DEF fc, fs
      <4>2. c = IF d.state = "ERR" THEN d
                ELSE IF ~d.change_cipher_spec THEN Fail(d, "got a fin before a ccs")
                ELSE IF m.body # d.peer_finish_md THEN Fail(d, "digest check failed")
                ELSE f
        BY <4>1, Zenon DEF ssl3_get_finished, fc, fs
      <4> HIDE DEF c, f
      <4> QED
        BY <3>2, <4>2, Zenon
    <3> QED
      BY <3>1, <3>2, Zenon
  <2> HIDE DEF b, c
  <2>4. /\ Same(d, f, {"change_cipher_spec", "previous_client_finished", "previous_server_finished"})
        /\ f.change_cipher_spec = FALSE /\ Own(Peer(s), f) = m.body /\ Own(s, f) = Own(s, d)
    BY <2>1, IsField, Zenon DEF Same, Own, Peer, Sides, IsSSL
  <2> HIDE DEF f
  <2>5. IsSSL(f) /\ SameBase(d, f) /\ f.state = d.state /\ f.reuse_message = d.reuse_message
    BY <2>4, IsField, Zenon DEF Same, SameBase
  <2>6. Base(f) /\ T(f) = T(d)
    BY <2>1, <2>5, BaseStays, Zenon
  <2>7. ASSUME NEW x PROVE /\ Base(Fail(d, x)) /\ Fail(d, x).state = "ERR"
                           /\ Fail(d, x).reuse_message = NULL
    <3>1. Same(d, Fail(d, x), {"state", "failed"}) /\ Fail(d, x).state = "ERR" /\ Base(Fail(d, x))
      BY <2>1, FailIs, BaseFails, Zenon
    <3> QED
      BY <2>1, <3>1, IsField, Zenon DEF Same
  <2>8. CASE /\ m.type = "Finished" /\ d.state # "ERR" /\ d.change_cipher_spec
             /\ m.body = d.peer_finish_md /\ c = f
    BY <2>1, <2>2, <2>4, <2>5, <2>6, <2>8, Zenon DEF b, c
  <2> QED
    BY <2>1, <2>3, <2>7, <2>8, Zenon DEF c
\* With the peer's Finished the end goes on to its own ChangeCipherSpec, or
\* comes to rest if it has sent its own already.
<1>FinishedGot.
      ASSUME Running, NEW s \in Sides, NEW d, NEW m, NEW st, Given(s, d, m), cfg' = cfg,
             Takes(s, Goto(ssl3_get_finished(d, s, m), s, st)),
             \/ s = "client" /\ ssl[s].state = "CR_FINISHED"
             \/ s = "server" /\ ssl[s].state = "SR_FINISHED",
             \/ s = "client" /\ st = (IF ssl[s].hit THEN "CW_CHANGE" ELSE "OK")
             \/ s = "server" /\ ssl[s].hit /\ st = "OK"
             \/ s = "server" /\ ~ssl[s].hit /\ st \in {"SW_SESSION_TICKET", "SW_CHANGE"}
      PROVE  Inv'
  <2> USE <1>FinishedGot
  <2> DEFINE b == ssl[s]
             c == ssl3_get_finished(d, s, m)
             e == Goto(c, s, st)
  <2>1. Takes(s, e)
    BY Zenon
  <2>2. /\ Typed(b) /\ Local(cfg, s, b) /\ ~b.keep /\ b.reuse_message = NULL /\ IsSequence(b.out)
    BY Ends, Zenon
  <2>3. Reads(s, d, m)
    BY GivenIs, Zenon
  <2>4. /\ Base(c) /\ c.reuse_message = NULL
        /\ c.state # "ERR" =>
             /\ m.type = "Finished" /\ c.state = b.state /\ d.state = b.state
             /\ Same(d, c, {"change_cipher_spec", "previous_client_finished", "previous_server_finished"})
             /\ T(c) = T(d)
             /\ b.change_cipher_spec /\ ~c.change_cipher_spec
             /\ m.body = d.peer_finish_md
             /\ Own(Peer(s), c) = m.body /\ Own(s, c) = Own(s, b)
    BY <1>GetFinishedIs
  <2> HIDE DEF c
  <2>5. CASE c.state = "ERR"
    <3>1. e = To(c, st)
      BY <2>5, Zenon DEF Goto
    <3>2. Base(e) /\ e.state = "ERR" /\ Same(c, e, {"state"})
      BY <2>4, <2>5, <3>1, ToIs, BaseFails DEF Base
    <3> HIDE DEF e
    <3>3. e.reuse_message = NULL
      BY <2>4, <3>2, IsField, Zenon DEF Same
    <3> QED
      BY <2>1, <3>2, <3>3, TakeFails, Zenon
  <2>6. CASE c.state # "ERR"
    <3>1. /\ At(b) = b.state /\ At(b) \in Ending /\ b.state # "ERR" /\ b.state \notin Writing
          /\ b.state \notin Start \cup Opening
      BY Zenon DEF At, FlushStates, Ending, Writing, Start, Opening
    <3>2. IsSSL(c)
      BY <2>4, Zenon DEF Base
    <3>3. /\ Same(c, e, {"state", "key_block", "bbio", "pushed", "renegotiate", "new_session", "cache"})
          /\ Base(e) /\ T(e) = T(c) /\ e.state = st
          /\ st # "OK" => e.key_block = c.key_block /\ e.bbio = c.bbio /\ e.cache = c.cache
          /\ st = "OK" => /\ e.key_block = NULL /\ e.bbio = <<>> /\ ~e.pushed
                          /\ e.cache \in {c.cache, c.cache \cup {c.session}}
      BY <2>4, <2>6, <3>2, GotoIs, ZenonT(30)
    <3> HIDE DEF e, b
    <3>4. /\ c.key_block = b.key_block /\ c.bbio = b.bbio /\ c.cache = b.cache /\ c.session = b.session
          /\ c.out = b.out /\ c.random = b.random /\ c.new_cipher = b.new_cipher /\ c.hit = b.hit
          /\ c.read_key = b.read_key /\ c.write_key = b.write_key /\ c.keep = b.keep
      BY <2>3, <2>4, <2>6, IsField, SMTT(30) DEF Reads, Same, b
    <3>5. /\ e.session = b.session /\ e.out = b.out /\ e.random = b.random
          /\ e.new_cipher = b.new_cipher /\ e.hit = b.hit /\ e.read_key = b.read_key
          /\ e.write_key = b.write_key /\ ~e.keep /\ ~e.change_cipher_spec /\ e.reuse_message = NULL
          /\ Own(Peer(s), e) = m.body /\ Own(s, e) = Own(s, b)
      <4>1. /\ e.session = c.session /\ e.out = c.out /\ e.random = c.random
            /\ e.new_cipher = c.new_cipher /\ e.hit = c.hit /\ e.read_key = c.read_key
            /\ e.write_key = c.write_key /\ e.keep = c.keep
            /\ e.change_cipher_spec = c.change_cipher_spec /\ e.reuse_message = c.reuse_message
            /\ \A t : Own(t, e) = Own(t, c)
        BY <3>3, IsField, Zenon DEF Same, Own
      <4> QED
        BY <2>2, <2>4, <2>6, <3>4, <4>1
    <3>6. /\ Begins(T(b), b.random, b.new_cipher) /\ (HasDone(T(b)) <=> ~b.hit)
          /\ T(b) # <<>> /\ Digests(b) /\ Keys(s, b) /\ Buffers(b) /\ Sessioned(cfg, s, b)
      <4>1. Begins(T(b), b.random, b.new_cipher) /\ (HasDone(T(b)) <=> ~b.hit)
        BY <2>2, <3>1, Zenon DEF Local, Digests
      <4>2. T(b) # <<>>
        BY <4>1 DEF Begins
      <4> QED
        BY <2>2, <4>1, <4>2, Zenon DEF Local
    <3>7. b.read_key = Key(b) /\ b.new_cipher # NULL
      BY <2>4, <2>6, <3>1, <3>6, Zenon DEF Keys
    <3>8. /\ IsMessage(cfg, m) /\ T(d) = Append(T(b), Digested(m))
          /\ m.body = [by |-> Peer(s), master |-> b.session.master, transcript |-> T(b)]
      BY <2>2, <2>3, <2>4, <2>6, <3>1, <3>6, <3>7, ZenonT(30) DEF Reads, b
    <3>9. Matches(e, m.body) /\ Key(e) = Key(b) /\ \A md : Matches(e, md) = Matches(b, md)
      BY <3>5, <3>6, <3>8 DEF Matches, Key
    <3>10. /\ st \in {"OK", "CW_CHANGE", "SW_SESSION_TICKET", "SW_CHANGE"} /\ At(e) = st
           /\ st # "OK" => st \in Ending /\ st \notin Idle
           /\ st \notin Opening \cup Helloed \cup Offered \cup Answered \cup Early \cup Start
           /\ st = "OK" => st \notin Ending
      BY <3>3, Zenon DEF At, FlushStates, Ending, Idle, Opening, Helloed, Offered, Answered, Early, Start
    <3>11. Digests(e)
      <4>1. CASE st = "OK"
        BY <3>10, <4>1, Zenon DEF Digests
      <4>2. CASE st # "OK"
        <5>1. T(e) = Append(T(b), Digested(m)) /\ Digested(m).type # "ServerHelloDone"
          BY <2>4, <2>6, <3>3, <3>8, DigestedIs, Zenon
        <5> QED
          BY <3>1, <3>5, <3>6, <3>10, <4>2, <5>1, DigestsOn, Zenon
      <4> QED
        BY <4>1, <4>2, Zenon
    <3>12. Keys(s, e)
      <4>1. Sent(e) => Sent(b)
        BY <3>1, <3>5, <3>10, Zenon DEF Sent, Idle, b
      <4>2. Changed(e) => Changed(b)
        BY <3>10, <4>1, Zenon DEF Changed
      <4>3. /\ e.state = st
            /\ st = "OK" => e.key_block = NULL
            /\ st # "OK" => e.key_block = b.key_block
        BY <3>3, <3>4, Zenon
      <4>4. st \in Idle => st = "OK"
        BY <3>10, Zenon
      <4>5. b.key_block # NULL => b.key_block = Key(b)
        BY <3>1, <3>6, Zenon DEF Keys
      <4>6. /\ Changed(b) => b.write_key = Key(b) /\ b.session.cipher = b.new_cipher
            /\ Sent(b) => Matches(b, Own(s, b))
        BY <3>6, Zenon DEF Keys
      <4> QED
        BY <3>5, <3>7, <3>9, <3>10, <4>1, <4>2, <4>3, <4>4, <4>5, <4>6, Zenon DEF Keys
    <3>13. Waiting(e) /\ Cached(e)
      BY <3>5, <3>10, Zenon DEF Waiting, Cached
    <3>14. b.bbio = <<>> /\ e.bbio = <<>>
      BY <3>1, <3>3, <3>4, <3>6, Zenon DEF Buffers
    <3>15. Buffers(e)
      BY <3>3, <3>5, <3>6, <3>10, <3>14, Zenon DEF Buffers
    <3>16. Sessioned(cfg, s, e)
      <4>1. IsSession(b.session) /\ (s = "client" => b.session.tick = NULL \/ Resumes(cfg, b.session.tick))
        BY <3>1, <3>6, Zenon DEF Sessioned
      <4>2. s = "server" => /\ \A x \in b.cache : Resumes(cfg, x)
                            /\ Resumes(cfg, b.session)
        BY <3>1, <3>6, Zenon DEF Sessioned
      <4>3. e.cache \in {b.cache, b.cache \cup {b.session}}
        BY <3>3, <3>4, Zenon
      <4> QED
        BY <3>5, <3>10, <4>1, <4>2, <4>3, Zenon DEF Sessioned
    <3>17. Typed(e)
      BY <3>3, <3>5, <3>10, Zenon DEF Typed, States, FlushStates
    <3>18. Fits(s, e)
      BY <3>5, <3>11, <3>12, <3>13, <3>15, <3>16, <3>17, Zenon DEF Fits, Local
    <3>19. Q(e) = Q(b)
      BY <3>5, <3>14, Zenon DEF Q
    <3> QED
      BY <2>1, <2>2, <2>4, <2>6, <3>5, <3>18, <3>19, TakeStep, Zenon DEF b
  <2> QED
    BY <2>5, <2>6, Zenon
<1>GetServerFinishedKeeps.
      ASSUME GetServerFinished
      PROVE  Inv'
  <2> USE <1>GetServerFinishedKeeps
  <2> DEFINE b == ssl["client"]
             rec == Head(In("client"))
             d == ssl3_get_message(Decrypt(AllowCcs(ssl["client"]), rec), "client", rec.msg)
             m == rec.msg
             st == IF d.hit THEN "CW_CHANGE" ELSE "OK"
  <2>1. Running /\ cfg' = cfg /\ b.state = "CR_FINISHED" /\ "client" \in Sides
    BY Zenon DEF GetServerFinished, Get, Sides
  <2>2. b.reuse_message = NULL
    BY <2>1, Ends, Zenon
  <2>3. Given("client", d, m)
    BY <2>2, Zenon DEF GetServerFinished, Get, Given
  <2>4. Takes("client", Goto(ssl3_get_finished(d, "client", m), "client", st))
    BY <2>2, Zenon DEF GetServerFinished, Get, Takes
  <2> HIDE DEF d, m
  <2>5. Reads("client", d, m)
    BY <2>1, <2>3, GivenIs, Zenon
  <2>6. st = IF b.hit THEN "CW_CHANGE" ELSE "OK"
    BY <2>5, IsField, Zenon DEF Reads, Same
  <2> HIDE DEF st
  <2> QED
    BY <2>1, <2>3, <2>4, <2>6, <1>FinishedGot, Zenon
<1>GetClientFinishedKeeps.
      ASSUME GetClientFinished
      PROVE  Inv'
  <2> USE <1>GetClientFinishedKeeps
  <2> DEFINE b == ssl["server"]
             rec == Head(In("server"))
             d == ssl3_get_message(Decrypt(AllowCcs(ssl["server"]), rec), "server", rec.msg)
             m == rec.msg
             st == IF d.hit THEN "OK"
                   ELSE IF d.ticket_expected THEN "SW_SESSION_TICKET"
                   ELSE "SW_CHANGE"
  <2>1. Running /\ cfg' = cfg /\ b.state = "SR_FINISHED" /\ "server" \in Sides
    BY Zenon DEF GetClientFinished, Get, Sides
  <2>2. b.reuse_message = NULL
    BY <2>1, Ends, Zenon
  <2>3. Given("server", d, m)
    BY <2>2, ZenonT(40) DEF GetClientFinished, Get, Given
  <2>4. Takes("server", Goto(ssl3_get_finished(d, "server", m), "server", st))
    BY <2>2, Zenon DEF GetClientFinished, Get, Takes
  <2> HIDE DEF d, m
  <2>5. Reads("server", d, m)
    BY <2>1, <2>3, GivenIs, Zenon
  <2>6. IF b.hit THEN st = "OK" ELSE st \in {"SW_SESSION_TICKET", "SW_CHANGE"}
    BY <2>5, IsField, Zenon DEF Reads, Same
  <2> HIDE DEF st
  <2> QED
    BY <2>1, <2>3, <2>4, <2>6, <1>FinishedGot, Zenon
<1> QED
  BY <1>GetServerFinishedKeeps, <1>GetClientFinishedKeeps, Zenon

----------------------------------------------------------------------------
(* Records that are no message of the handshake.                           *)

\* An end that fails on what it receives.
LEMMA InputFails ==
    ASSUME Inv, NEW s \in Sides, NEW type, NEW e, Incoming(s, type), Receive(s, e),
           Base(e), e.state = "ERR", e.reuse_message = NULL
    PROVE  Inv'
<1>1. Fits(s, e)
  BY Zenon DEF Fits, Typed, States, FlushStates
<1> QED
  BY <1>1, InputStep, Zenon DEF Incoming, Receive

\* An end that receives something else than a Finished.
LEMMA InputPlain ==
    ASSUME Inv, NEW s \in Sides, NEW type, NEW e, Incoming(s, type), Receive(s, e), Fits(s, e),
           ~IsFinished(Head(In(s))), Q(e) = Q(ssl[s]), \A t : Own(t, e) = Own(t, ssl[s])
    PROVE  Inv'
<1>1. /\ Running /\ In(s) # <<>> /\ cfg' = cfg
      /\ ssl' = [ssl EXCEPT ![s] = e, ![Peer(s)].out = Tail(@)]
  BY Zenon DEF Incoming, Receive
<1>2. ~Held(ssl[s])
  BY Zenon DEF Incoming, Held
<1>3. /\ Q(e) = Q(ssl[s]) /\ Own(s, e) = Own(s, ssl[s])
      /\ IF IsFinished(Head(In(s)))
         THEN Own(Peer(s), e) = Head(In(s)).msg.body \/ Held(e)
         ELSE Own(Peer(s), e) = Own(Peer(s), ssl[s])
      /\ Held(ssl[s]) => Held(e)
  BY <1>2, Zenon
<1> QED
  BY <1>1, <1>3, InputStep, Zenon

\* The record is decrypted, or the end fails.
LEMMA PlainDecrypt ==
    ASSUME NEW b, Base(b), NEW rec
    PROVE  LET c == Decrypt(b, rec)
           IN  /\ Same(b, c, {"state", "failed"}) /\ Base(c)
               /\ c.state # "ERR" => c = b
<1> DEFINE c == Decrypt(b, rec)
<1>0. IsSSL(b)
  BY Zenon DEF Base
<1>1. CASE rec.key # b.read_key
  <2>1. c = Fail(b, "bad record mac")
    BY <1>1, Zenon DEF Decrypt
  <2> QED
    BY <1>0, <2>1, FailIs, BaseFails, Zenon
<1>2. CASE rec.key = b.read_key
  <2>1. c = b
    BY <1>2, Zenon DEF Decrypt
  <2> QED
    BY <1>0, <2>1, Zenon DEF Same
<1> QED
  BY <1>1, <1>2, Zenon

\* Records that are no message of a handshake under way.
LEMMA ReadsKeep ==
    ASSUME NullApart, Inv,
           \/ SkipHelloRequest \/ ReadHelloRequest
           \/ (\E s \in Sides : ReadData(s))
           \/ (\E s \in Sides : \E call \in {"SSL_read", "SSL_write"} : ReadDataInHandshake(s, call))
    PROVE  Inv'
\* An end that changes nothing but counters.
<1>InputFlags.
      ASSUME NEW s \in Sides, NEW type, NEW e, Incoming(s, type), Receive(s, e),
             ~IsFinished(Head(In(s))),
             Same(ssl[s], e, {"s3_renegotiate", "in_read_app_data", "total_renegotiations"})
      PROVE  Inv'
  <2> USE <1>InputFlags
  <2> DEFINE b == ssl[s]
  <2>1. Running /\ In(s) # <<>> /\ b.reuse_message = NULL
    BY Zenon DEF Incoming
  <2>2. Typed(b) /\ Base(b) /\ Local(cfg, s, b)
    BY <2>1, Ends, Zenon
  <2> HIDE DEF b
  <2>3. e.renegotiate \in 0..2
    BY <2>2, IsField, Zenon DEF Same, Base, b
  <2>4. Same(b, e, {"renegotiate", "new_session", "s3_renegotiate", "in_read_app_data",
                    "total_renegotiations", "written"})
    BY Zenon DEF Same, b
  <2>5. /\ Typed(e) /\ e.state = b.state /\ (Local(cfg, s, b) => Local(cfg, s, e))
        /\ e.reuse_message = b.reuse_message
        /\ Q(e) = Q(b) /\ Held(e) = Held(b) /\ \A t : Own(t, e) = Own(t, b)
    BY <2>2, <2>3, <2>4, Untouched, Zenon
  <2>6. Fits(s, e)
    BY <2>1, <2>2, <2>5, Zenon DEF Fits
  <2>7. Q(e) = Q(ssl[s]) /\ \A t : Own(t, e) = Own(t, ssl[s])
    BY <2>5, Zenon DEF b
  <2> QED
    BY <2>6, <2>7, InputPlain, Zenon
<1>SkipHelloRequestKeeps.
      ASSUME SkipHelloRequest
      PROVE  Inv'
  <2> USE <1>SkipHelloRequestKeeps
  <2> DEFINE b == ssl["client"]
             e == Decrypt(b, Head(In("client")))
  <2>1. /\ "client" \in Sides /\ Incoming("client", "handshake") /\ Receive("client", e)
        /\ Head(In("client")).msg.type = "HelloRequest" /\ b.reuse_message = NULL
    BY Zenon DEF SkipHelloRequest, HelloRequested, Sides, Incoming
  <2>2. Base(b) /\ IsSSL(b)
    BY <2>1, Ends, Zenon DEF Incoming
  <2>3. Same(b, e, {"state", "failed"}) /\ Base(e) /\ (e.state # "ERR" => e = b)
    BY <2>2, PlainDecrypt, Zenon
  <2> HIDE DEF e
  <2>4. e.reuse_message = NULL
    BY <2>1, <2>3, IsField, Zenon DEF Same
  <2>5. CASE e.state = "ERR"
    BY <2>1, <2>3, <2>4, <2>5, InputFails, Zenon
  <2>6. CASE e.state # "ERR"
    <3>1. Same(b, e, {"s3_renegotiate", "in_read_app_data", "total_renegotiations"})
      BY <2>2, <2>3, <2>6, Zenon DEF Same
    <3>2. ~IsFinished(Head(In("client")))
      BY <2>1, Zenon DEF IsFinished
    <3> QED
      BY <2>1, <3>1, <3>2, <1>InputFlags, Zenon
  <2> QED
    BY <2>5, <2>6, Zenon
<1>ReadDataKeeps.
      ASSUME NEW s \in Sides, ReadData(s)
      PROVE  Inv'
  <2> USE <1>ReadDataKeeps
  <2> DEFINE b == ssl[s]
             f == [b EXCEPT !.in_read_app_data = 0]
             e == Decrypt(f, Head(In(s)))
  <2>1. Incoming(s, "data") /\ Receive(s, e) /\ b.reuse_message = NULL /\ ~IsFinished(Head(In(s)))
    BY Zenon DEF ReadData, Incoming, IsFinished
  <2>2. Base(b) /\ IsSSL(b)
    BY <2>1, Ends, Zenon DEF Incoming
  <2>3. Same(b, f, {"in_read_app_data"})
    BY <2>2, IsField, Zenon DEF Same, IsSSL
  <2> HIDE DEF f
  <2>4. IsSSL(f) /\ SameBase(b, f) /\ f.reuse_message = NULL
    BY <2>1, <2>3, IsField, Zenon DEF Same, SameBase
  <2>5. Base(f)
    BY <2>2, <2>4, BaseStays, Zenon
  <2>6. Same(f, e, {"state", "failed"}) /\ Base(e) /\ (e.state # "ERR" => e = f)
    BY <2>5, PlainDecrypt, Zenon
  <2> HIDE DEF e
  <2>7. e.reuse_message = NULL
    BY <2>4, <2>6, IsField, Zenon DEF Same
  <2>8. CASE e.state = "ERR"
    BY <2>1, <2>6, <2>7, <2>8, InputFails, Zenon
  <2>9. CASE e.state # "ERR"
    <3>1. Same(b, e, {"s3_renegotiate", "in_read_app_data", "total_renegotiations"})
      BY <2>3, <2>6, <2>9, Zenon DEF Same
    <3> QED
      BY <2>1, <3>1, <1>InputFlags, Zenon
  <2> QED
    BY <2>8, <2>9, Zenon
<1>ReadDataInHandshakeKeeps.
      ASSUME NEW s \in Sides, NEW call, ReadDataInHandshake(s, call)
      PROVE  Inv'
  <2> USE <1>ReadDataInHandshakeKeeps
  <2> DEFINE b == ssl[s]
             c == Decrypt(b, Head(In(s)))
             f == [c EXCEPT !.in_read_app_data = 2]
  <2>1. PICK e : /\ Incoming(s, "data") /\ Receive(s, e) /\ b.reuse_message = NULL
                 /\ ~IsFinished(Head(In(s)))
                 /\ e = f \/ \E x : e = Fail(c, x)
    <3> DEFINE allowed == /\ c.total_renegotiations # 0
                          /\ c.state \in {"CR_SRVR_HELLO", "SR_CLNT_HELLO"}
               e == IF c.change_cipher_spec THEN Fail(c, "data between ccs and finished")
                    ELSE IF call # "SSL_read" THEN Fail(c, "data outside SSL_read")
                    ELSE IF ~allowed THEN Fail(c, "unexpected record")
                    ELSE f
    <3>1. Incoming(s, "data") /\ Receive(s, e)
      BY Zenon DEF ReadDataInHandshake
    <3>2. b.reuse_message = NULL /\ ~IsFinished(Head(In(s)))
      BY <3>1, Zenon DEF Incoming, IsFinished
    <3> HIDE DEF c, f, allowed
    <3>3. e = f \/ \E x : e = Fail(c, x)
      BY Zenon
    <3> HIDE DEF e
    <3> QED
      BY <3>1, <3>2, <3>3, Zenon
  <2>2. Base(b) /\ IsSSL(b)
    BY <2>1, Ends, Zenon DEF Incoming
  <2>3. Same(b, c, {"state", "failed"}) /\ Base(c) /\ (c.state # "ERR" => c = b)
    BY <2>2, PlainDecrypt, Zenon
  <2> HIDE DEF c
  <2>4. IsSSL(c) /\ c.reuse_message = NULL
    BY <2>1, <2>3, IsField, Zenon DEF Same
  <2>5. Same(c, f, {"in_read_app_data"})
    BY <2>4, IsField, Zenon DEF Same, IsSSL
  <2> HIDE DEF f
  <2>6. IsSSL(f) /\ SameBase(c, f) /\ f.reuse_message = NULL /\ f.state = c.state
    BY <2>4, <2>5, IsField, Zenon DEF Same, SameBase
  <2>7. Base(f)
    BY <2>3, <2>6, BaseStays, Zenon
  <2>8. ASSUME NEW x, e = Fail(c, x) PROVE Inv'
    <3>1. Same(c, e, {"state", "failed"}) /\ e.state = "ERR" /\ Base(e)
      BY <2>3, <2>4, <2>8, FailIs, BaseFails, Zenon
    <3>2. e.reuse_message = NULL
      BY <2>4, <3>1, IsField, Zenon DEF Same
    <3> QED
      BY <2>1, <3>1, <3>2, InputFails, Zenon
  <2>9. CASE e = f /\ c.state = "ERR"
    BY <2>1, <2>6, <2>7, <2>9, InputFails, Zenon
  <2>10. CASE e = f /\ c.state # "ERR"
    <3>1. Same(b, e, {"s3_renegotiate", "in_read_app_data", "total_renegotiations"})
      BY <2>3, <2>5, <2>10, Zenon DEF Same
    <3> QED
      BY <2>1, <3>1, <1>InputFlags, Zenon
  <2> QED
    BY <2>1, <2>8, <2>9, <2>10, Zenon
<1>ReadHelloRequestKeeps.
      ASSUME ReadHelloRequest
      PROVE  Inv'
  <2> USE <1>ReadHelloRequestKeeps
  <2> DEFINE b == ssl["client"]
             c == Decrypt(b, Head(In("client")))
             e == ssl3_renegotiate_check(c)
  <2>1. /\ "client" \in Sides /\ Incoming("client", "handshake") /\ Receive("client", e)
        /\ Head(In("client")).msg.type = "HelloRequest" /\ b.reuse_message = NULL /\ b.state = "OK"
    BY Zenon DEF ReadHelloRequest, HelloRequested, Sides, Incoming
  <2>2. Running /\ In("client") # <<>> /\ cfg' = cfg /\ ~IsFinished(Head(In("client")))
    BY <2>1, Zenon DEF Incoming, Receive, IsFinished
  <2>3. Base(b) /\ IsSSL(b) /\ Local(cfg, "client", b) /\ ~b.keep
    BY <2>1, <2>2, Ends, Zenon
  <2>4. Same(b, c, {"state", "failed"}) /\ Base(c) /\ (c.state # "ERR" => c = b)
    BY <2>3, PlainDecrypt, Zenon
  <2> HIDE DEF c
  <2>5. IsSSL(c) /\ c.reuse_message = NULL
    BY <2>1, <2>4, IsField, Zenon DEF Same
  <2>6. /\ Same(c, e, {"state", "s3_renegotiate", "total_renegotiations"})
        /\ e.state = IF c.state = "ERR" THEN "ERR" ELSE "RENEGOTIATE"
    BY <2>5, RenegotiateIs, Zenon
  <2> HIDE DEF e
  <2>7. IsSSL(e) /\ SameBase(c, e) /\ e.reuse_message = NULL
    BY <2>5, <2>6, IsField, Zenon DEF Same, SameBase
  <2>8. Base(e)
    BY <2>4, <2>7, BaseStays, Zenon
  <2>9. CASE c.state = "ERR"
    BY <2>1, <2>6, <2>7, <2>8, <2>9, InputFails, Zenon
  <2>10. CASE c.state # "ERR"
    <3>1. /\ Same(b, e, {"state", "s3_renegotiate", "total_renegotiations"})
          /\ e.state = "RENEGOTIATE" /\ b.state \in Idle
      BY <2>1, <2>4, <2>6, <2>10, Zenon DEF Idle
    <3> HIDE DEF b
    <3>2. RestSame(b, e) /\ e.out = b.out /\ e.bbio = b.bbio /\ e.keep = b.keep
      BY <3>1, IsField, Zenon DEF Same, RestSame
    <3>3. Digests(e) /\ Waiting(e) /\ Cached(e) /\ Keys("client", e) /\ Sessioned(cfg, "client", e)
      <4>1. At(e) \in Idle /\ e.state \in Idle
        BY <3>1, Zenon DEF At, FlushStates, Idle
      <4> QED
        BY <2>3, <3>1, <3>2, <4>1, Resting, Zenon
    <3>4. Buffers(b) /\ b.state \notin Writing
      BY <2>1, <2>3, Zenon DEF Local, Writing
    <3>5. Buffers(e)
      BY <3>1, <3>2, <3>4, Zenon DEF Buffers
    <3>6. Typed(e)
      BY <2>3, <2>8, <3>1, <3>2, Zenon DEF Typed, States, FlushStates
    <3>7. Fits("client", e)
      BY <3>3, <3>5, <3>6, Zenon DEF Fits, Local
    <3>8. Q(e) = Q(b) /\ (\A t : Own(t, e) = Own(t, b)) /\ ~Held(b)
      BY <2>1, <3>2, Zenon DEF Q, Own, RestSame, Held
    <3>9. Q(e) = Q(ssl["client"]) /\ \A t : Own(t, e) = Own(t, ssl["client"])
      BY <3>8, Zenon DEF b
    <3> QED
      BY <2>1, <2>2, <3>7, <3>9, InputPlain, Zenon
  <2> QED
    BY <2>9, <2>10, Zenon
<1> QED
  BY <1>SkipHelloRequestKeeps, <1>ReadDataKeeps, <1>ReadDataInHandshakeKeeps,
     <1>ReadHelloRequestKeeps, Zenon

\* A ChangeCipherSpec is read (ssl3_do_change_cipher_spec).
LEMMA ReadChangeKeeps ==
    ASSUME NullApart, Inv,
           \/ (\E s \in Sides : ReadChangeCipherSpec(s))
    PROVE  Inv'
\* Where a ChangeCipherSpec can be accepted.
<1>CcsExpected.
      ASSUME Running, NEW s \in Sides, ssl[s].state \in ReadStates, NEW rec
      PROVE  LET b == ssl[s]
                 c == Decrypt(AllowCcs(b), rec)
             IN  c.ccs_ok => b.state \in {"CR_SESSION_TICKET", "CR_FINISHED", "SR_NEXT_PROTO", "SR_FINISHED"}
  <2> USE <1>CcsExpected
  <2> DEFINE b == ssl[s]
             c == Decrypt(AllowCcs(b), rec)
  <2>1. Base(b) /\ Local(cfg, s, b)
    BY Ends, Zenon
  <2>2. \/ c.ccs_ok = b.ccs_ok
        \/ b.state \in {"CR_FINISHED", "SR_NEXT_PROTO", "SR_FINISHED"}
    BY <2>1, DecryptIs, Zenon
  <2> HIDE DEF c
  <2>3. \/ b.state \in {"CR_SESSION_TICKET", "CR_FINISHED", "SR_NEXT_PROTO", "SR_FINISHED"}
        \/ At(b) \in Early
    BY Zenon DEF ReadStates, At, FlushStates, Early, Opening, Helloed, Offered, Answered
  <2>4. At(b) \in Early => ~b.ccs_ok
    BY <2>1, Zenon DEF Local, Keys
  <2> QED
    BY <2>2, <2>3, <2>4, Zenon DEF c
\* The new key is for reading from here on.
<1>ChangeReadIs.
      ASSUME NEW c, NEW s, Base(c), ~c.keep, IsSession(c.session),
             c.key_block # NULL => c.key_block = Key(c)
      PROVE  LET e == ChangeReadCipher(c, s)
             IN  /\ Base(e) /\ e.reuse_message = c.reuse_message
                 /\ e.state # "ERR" =>
                      /\ Same(c, e, {"session", "key_block", "handshake_buffer", "handshake_dgst",
                                     "failed", "ccs_ok", "change_cipher_spec", "read_key",
                                     "peer_finish_md"})
                      /\ T(e) = T(c) /\ e.state = c.state
                      /\ c.ccs_ok /\ c.new_cipher # NULL
                      /\ e.key_block = Key(c) /\ e.read_key = Key(c)
                      /\ IsSession(e.session)
                      /\ e.session.master = c.session.master /\ e.session.peer = c.session.peer
                      /\ e.session.tick = c.session.tick
                      /\ e.session.cipher \in {c.session.cipher, c.new_cipher}
  <2> USE <1>ChangeReadIs
  <2> DEFINE e == ChangeReadCipher(c, s)
             y == [c EXCEPT !.session.cipher = c.new_cipher]
             x == IF c.key_block # NULL THEN c ELSE y
             k == tls1_setup_key_block(x)
             g == DigestIfCached(k)
             mac == tls1_final_finish_mac(g, Peer(s))
             f == [g EXCEPT !.ccs_ok = FALSE, !.change_cipher_spec = TRUE,
                            !.read_key = g.key_block, !.peer_finish_md = mac]
  <2>0. IsSSL(c)
    BY Zenon DEF Base
  <2>1. \/ e = Fail(c, "data between ccs and finished")
        \/ e = Fail(c, "ccs received early")
        \/ c.new_cipher # NULL /\ c.ccs_ok /\ e = f
    BY Zenon DEF ChangeReadCipher
  <2> HIDE DEF e
  <2>2. ASSUME NEW z PROVE /\ Base(Fail(c, z)) /\ Fail(c, z).state = "ERR"
                           /\ Fail(c, z).reuse_message = c.reuse_message
    <3>1. Same(c, Fail(c, z), {"state", "failed"}) /\ Fail(c, z).state = "ERR" /\ Base(Fail(c, z))
      BY <2>0, FailIs, BaseFails, Zenon
    <3> QED
      BY <3>1, IsField, Zenon DEF Same
  <2>3. /\ Same(c, x, {"session"}) /\ IsSession(x.session)
        /\ x.session.master = c.session.master /\ x.session.peer = c.session.peer
        /\ x.session.tick = c.session.tick
        /\ x.session.cipher \in {c.session.cipher, c.new_cipher}
    <3>1. CASE c.key_block # NULL
      BY <2>0, <3>1, Zenon DEF Same
    <3>2. CASE c.key_block = NULL
      <4>1. /\ Same(c, y, {"session"}) /\ IsSession(y.session)
            /\ y.session.cipher = c.new_cipher /\ y.session.master = c.session.master
            /\ y.session.peer = c.session.peer /\ y.session.tick = c.session.tick
        BY <2>0, SetCipher, Zenon
      <4> HIDE DEF y
      <4> QED
        BY <3>2, <4>1, Zenon
    <3> QED
      BY <3>1, <3>2, Zenon
  <2> HIDE DEF x, y
  <2>4. /\ IsSSL(x) /\ x.key_block = c.key_block /\ x.random = c.random /\ Key(x) = Key(c)
        /\ SameBase(c, x) /\ x.keep = c.keep /\ x.state = c.state
    BY <2>3, IsField, Zenon DEF Same, Key, SameBase
  <2>5. Same(x, k, {"key_block"}) /\ k.key_block = Key(c)
    BY <2>4, SetupKeyIs, Zenon
  <2> HIDE DEF k
  <2>6. /\ IsSSL(k) /\ SameBase(c, k) /\ k.keep = c.keep /\ k.state = c.state /\ k.session = x.session
    BY <2>4, <2>5, IsField, Zenon DEF Same, SameBase
  <2>7. Base(k) /\ T(k) = T(c)
    BY <2>6, BaseStays, Zenon
  <2>8. /\ Same(k, g, {"handshake_buffer", "handshake_dgst", "state", "failed"}) /\ Base(g)
        /\ g.state \in {k.state, "ERR"}
        /\ ~k.keep /\ g.state # "ERR" => T(g) = T(k)
    BY <2>7, DigestIfCachedIs, Zenon
  <2> HIDE DEF g, mac
  <2>9. /\ IsSSL(g) /\ g.key_block = Key(c) /\ g.session = x.session
    BY <2>5, <2>6, <2>8, IsField, Zenon DEF Same
  <2>10. /\ Same(g, f, {"ccs_ok", "change_cipher_spec", "read_key", "peer_finish_md"})
         /\ f.read_key = g.key_block
    BY <2>9, IsField, Zenon DEF Same, IsSSL
  <2> HIDE DEF f
  <2>11. /\ IsSSL(f) /\ SameBase(g, f) /\ f.key_block = Key(c) /\ f.session = x.session
         /\ f.state = g.state
    BY <2>9, <2>10, IsField, Zenon DEF Same, SameBase
  <2>12. Base(f) /\ T(f) = T(g)
    BY <2>8, <2>11, BaseStays, Zenon
  <2>13. Same(c, f, {"session", "key_block", "handshake_buffer", "handshake_dgst", "state", "failed",
                     "ccs_ok", "change_cipher_spec", "read_key", "peer_finish_md"})
    BY <2>3, <2>5, <2>8, <2>10 DEF Same
  <2>14. f.reuse_message = c.reuse_message
    BY <2>13, IsField, Zenon DEF Same
  <2>15. f.state # "ERR" => f.state = c.state /\ T(f) = T(c)
    BY <2>6, <2>7, <2>8, <2>11, <2>12, Zenon
  <2>16. f.state # "ERR" =>
            Same(c, f, {"session", "key_block", "handshake_buffer", "handshake_dgst", "failed",
                        "ccs_ok", "change_cipher_spec", "read_key", "peer_finish_md"})
    BY <2>13, <2>15, Zenon DEF Same
  <2>17. CASE c.new_cipher # NULL /\ c.ccs_ok /\ e = f
    BY <2>3, <2>9, <2>10, <2>11, <2>12, <2>14, <2>15, <2>16, <2>17, Zenon DEF e
  <2>18. CASE e = Fail(c, "data between ccs and finished") \/ e = Fail(c, "ccs received early")
    BY <2>2, <2>18, Zenon DEF e
  <2> QED
    BY <2>1, <2>17, <2>18, Zenon
<1>ReadChangeCipherSpecKeeps.
      ASSUME NEW s \in Sides, ReadChangeCipherSpec(s)
      PROVE  Inv'
  <2> USE <1>ReadChangeCipherSpecKeeps
  <2> DEFINE b == ssl[s]
             rec == Head(In(s))
             c == Decrypt(AllowCcs(b), rec)
             g == ChangeReadCipher(c, s)
             e == IF c.state = "ERR" THEN c ELSE g
  <2>1. /\ Incoming(s, "ccs") /\ Receive(s, e) /\ b.reuse_message = NULL /\ Running
        /\ b.state \in ReadStates /\ ~IsFinished(rec)
    BY Zenon DEF ReadChangeCipherSpec, Incoming, Reading, IsFinished
  <2>2. Typed(b) /\ Base(b) /\ IsSSL(b) /\ Local(cfg, s, b) /\ b.state # "ERR"
        /\ (b.state # "SR_CERT_VRFY" => ~b.keep)
    BY <2>1, Ends, Zenon
  <2>3. /\ Same(b, c, {"ccs_ok", "state", "failed"}) /\ Base(c) /\ T(c) = T(b)
        /\ c.state \in {b.state, "ERR"}
    BY <2>2, DecryptIs, Zenon
  <2>4. c.ccs_ok => b.state \in {"CR_SESSION_TICKET", "CR_FINISHED", "SR_NEXT_PROTO", "SR_FINISHED"}
    BY <2>1, <1>CcsExpected, Zenon
  <2> HIDE DEF b, c, rec
  <2>5. /\ c.reuse_message = NULL /\ c.keep = b.keep /\ c.session = b.session
        /\ c.key_block = b.key_block /\ c.random = b.random /\ c.new_cipher = b.new_cipher
        /\ c.hit = b.hit /\ Key(c) = Key(b)
    BY <2>1, <2>3, IsField, Zenon DEF Same, Key
  <2>6. CASE c.state = "ERR"
    BY <2>1, <2>3, <2>5, <2>6, InputFails, Zenon
  <2>7. CASE c.state # "ERR" /\ ~c.ccs_ok
    <3>1. g = Fail(c, "data between ccs and finished") \/ g = Fail(c, "ccs received early")
      BY <2>7, Zenon DEF ChangeReadCipher
    <3>2. Base(g) /\ g.state = "ERR" /\ Same(c, g, {"state", "failed"})
      BY <2>3, <3>1, FailIs, BaseFails, Zenon DEF Base
    <3> HIDE DEF g
    <3>3. g.reuse_message = NULL
      BY <2>5, <3>2, IsField, Zenon DEF Same
    <3> QED
      BY <2>1, <2>7, <3>2, <3>3, InputFails, Zenon
  <2>8. CASE c.state # "ERR" /\ c.ccs_ok
    <3>1. /\ b.state \in {"CR_SESSION_TICKET", "CR_FINISHED", "SR_NEXT_PROTO", "SR_FINISHED"}
          /\ At(b) = b.state /\ At(b) \in Ending
          /\ b.state \notin Start \cup Opening \cup Idle \cup Offered \cup Answered \cup Early
          /\ b.state \notin {"CW_CHANGE", "CW_NEXT_PROTO", "CW_FINISHED", "SW_SESSION_TICKET", "SW_CHANGE",
                             "SW_FINISHED", "OK", "CW_CLNT_HELLO"}
      BY <2>4, <2>8, Zenon DEF At, FlushStates, Ending, Start, Opening, Idle, Offered, Answered, Early, Helloed
    <3>2. ~c.keep /\ IsSession(c.session) /\ (c.key_block # NULL => c.key_block = Key(c))
      BY <2>2, <2>5, <3>1, Zenon DEF Local, Sessioned, Keys
    <3>3. /\ Base(g) /\ g.reuse_message = c.reuse_message
          /\ g.state # "ERR" =>
               /\ Same(c, g, {"session", "key_block", "handshake_buffer", "handshake_dgst",
                              "failed", "ccs_ok", "change_cipher_spec", "read_key",
                              "peer_finish_md"})
               /\ T(g) = T(c) /\ g.state = c.state
               /\ c.ccs_ok /\ c.new_cipher # NULL
               /\ g.key_block = Key(c) /\ g.read_key = Key(c)
               /\ IsSession(g.session)
               /\ g.session.master = c.session.master /\ g.session.peer = c.session.peer
               /\ g.session.tick = c.session.tick
               /\ g.session.cipher \in {c.session.cipher, c.new_cipher}
      BY <2>3, <3>2, <1>ChangeReadIs, Zenon
    <3>4. e = g
      BY <2>8, Zenon
    <3> HIDE DEF g, e
    <3>5. CASE g.state = "ERR"
      BY <2>1, <2>5, <3>3, <3>4, <3>5, InputFails, Zenon
    <3>6. CASE g.state # "ERR"
      <4>1. /\ Base(g) /\ g.reuse_message = NULL /\ g.state = b.state /\ T(g) = T(b)
            /\ c.new_cipher # NULL /\ g.key_block = Key(b) /\ g.read_key = Key(b)
            /\ IsSession(g.session) /\ g.session.master = b.session.master
            /\ g.session.peer = b.session.peer /\ g.session.tick = b.session.tick
            /\ g.session.cipher \in {b.session.cipher, b.new_cipher}
        BY <2>3, <2>5, <2>8, <3>3, <3>6, Zenon
      <4>2. /\ g.next_state = c.next_state /\ g.keep = c.keep /\ g.out = c.out /\ g.bbio = c.bbio
            /\ g.pushed = c.pushed /\ g.random = c.random /\ g.new_cipher = c.new_cipher
            /\ g.hit = c.hit /\ g.cache = c.cache /\ g.write_key = c.write_key
            /\ g.cert_req = c.cert_req
            /\ g.previous_client_finished = c.previous_client_finished
            /\ g.previous_server_finished = c.previous_server_finished
        BY <3>3, <3>6, IsField, Zenon DEF Same
      <4>3. /\ c.next_state = b.next_state /\ c.out = b.out /\ c.bbio = b.bbio
            /\ c.pushed = b.pushed /\ c.cache = b.cache /\ c.write_key = b.write_key
            /\ c.cert_req = b.cert_req
            /\ c.previous_client_finished = b.previous_client_finished
            /\ c.previous_server_finished = b.previous_server_finished
        BY <2>3, IsField, Zenon DEF Same
      <4>4. At(g) = At(b) /\ At(g) = b.state /\ At(g) \notin Early
        BY <3>1, <4>1, Zenon DEF At, FlushStates
      <4>5. /\ g.random = b.random /\ g.new_cipher = b.new_cipher /\ g.hit = b.hit
            /\ Key(g) = Key(b) /\ \A md : Matches(g, md) = Matches(b, md)
        BY <2>5, <4>1, <4>2, Zenon DEF Key, Matches
      <4>6. \A t : Own(t, g) = Own(t, b)
        BY <4>2, <4>3, Zenon DEF Own
      <4>7. Digests(g)
        <5>1. Digests(b)
          BY <2>2, Zenon DEF Local
        <5> QED
          BY <4>1, <4>4, <4>5, <5>1, <3>1, Zenon DEF Digests, Early
      <4>8. Waiting(g) /\ Cached(g)
        BY <3>1, <4>1, <4>4, Zenon DEF Waiting, Cached
      <4>9. Keys(s, g)
        <5>1. ~Got(g) /\ (Sent(g) => Sent(b)) /\ (Changed(g) => Sent(g))
          BY <3>1, <4>4, <4>5, Zenon DEF Got, Sent, Changed
        <5>2. /\ Sent(b) => Changed(b) /\ b.write_key = Key(b) /\ b.session.cipher = b.new_cipher
              /\ Sent(b) => Matches(b, Own(s, b))
          BY <2>2, Zenon DEF Local, Keys, Changed
        <5>3. g.write_key = b.write_key /\ g.new_cipher # NULL
          BY <2>5, <4>1, <4>2, <4>3, Zenon
        <5> QED
          BY <3>1, <4>1, <4>4, <4>5, <4>6, <5>1, <5>2, <5>3, Zenon DEF Keys
      <4>10. Buffers(g)
        <5>1. Buffers(b)
          BY <2>2, Zenon DEF Local
        <5> QED
          BY <3>1, <4>1, <4>2, <4>3, <5>1, Zenon DEF Buffers
      <4>11. Sessioned(cfg, s, g)
        <5>1. /\ s = "client" => b.session.tick = NULL \/ Resumes(cfg, b.session.tick)
              /\ s = "server" => (\A x \in b.cache : Resumes(cfg, x)) /\ Resumes(cfg, b.session)
          BY <2>2, <3>1, Zenon DEF Local, Sessioned
        <5>2. s = "server" => Resumes(cfg, g.session)
          BY <4>1, <5>1, Zenon DEF Resumes
        <5>3. g.cache = b.cache /\ At(g) \notin {"SW_SRVR_DONE", "SR_CERT"}
          BY <3>1, <4>2, <4>3, <4>4, Zenon
        <5> QED
          BY <4>1, <5>1, <5>2, <5>3, Zenon DEF Sessioned
      <4>12. Typed(g)
        <5>1. b.state \in States /\ b.state \notin FlushStates /\ ~g.keep
          BY <2>2, <3>1, <3>2, <4>2, Zenon DEF Typed, FlushStates
        <5> QED
          BY <4>1, <5>1, Zenon DEF Typed
      <4>13. Fits(s, g)
        BY <4>1, <4>7, <4>8, <4>9, <4>10, <4>11, <4>12, Zenon DEF Fits, Local
      <4>14. Q(g) = Q(b)
        BY <4>2, <4>3, Zenon DEF Q
      <4> QED
        BY <2>1, <3>4, <4>6, <4>13, <4>14, InputPlain, Zenon DEF b, rec
    <3> QED
      BY <3>5, <3>6, Zenon
  <2> QED
    BY <2>6, <2>7, <2>8, Zenon
<1> QED
  BY <1>ReadChangeCipherSpecKeeps, Zenon

----------------------------------------------------------------------------
(* The whole.                                                              *)

\* What an end may remember from an earlier connection.
Remembers(k, s, x, cache) ==
    /\ x = NULL \/ IsSession(x)
    /\ s = "client" => x = NULL \/ x.tick = NULL \/ Resumes(k, x.tick)
    /\ s = "server" => \A y \in cache : Resumes(k, y)

\* Inv holds before the first handshake, with no session, with one in the
\* server's cache, or with one in a ticket.
LEMMA InitHolds ==
    ASSUME NullApart, Init
    PROVE  Inv
\* An end that has not begun, with the session and the cache SSL_new leaves it.
<1>NewIs.
      ASSUME NEW k, NEW st \in Start, NEW x, NEW cache, NEW s, Remembers(k, s, x, cache)
      PROVE  LET c == New(st, x, cache)
             IN  /\ Typed(c) /\ Local(k, s, c) /\ c.reuse_message = NULL /\ Q(c) = <<>>
                 /\ \A t : Own(t, c) = NULL
  <2> USE <1>NewIs
  <2> DEFINE c == New(st, x, cache)
  <2>1. IsSSL(c)
    BY Zenon DEF IsSSL, Fields, New
  <2>2. /\ c.state = st /\ c.reuse_message = NULL /\ c.handshake_buffer = NULL
        /\ c.handshake_dgst = NULL /\ c.keep = FALSE /\ c.previous_client_finished = NULL
        /\ c.previous_server_finished = NULL /\ c.key_block = NULL
        /\ c.session = x /\ c.cache = cache /\ c.cert_req = 0 /\ c.renegotiate = 0
        /\ c.bbio = <<>> /\ c.pushed = FALSE /\ c.out = <<>>
    BY Zenon DEF New
  <2> HIDE DEF c
  <2>3. /\ At(c) = st /\ st \in {"CONNECT", "ACCEPT"} /\ c.state \in States
        /\ st \notin FlushStates \cup Opening \cup Helloed \cup Offered \cup Answered \cup Ending
        /\ st \notin Early \cup Idle
    BY <2>2, Zenon DEF Start, At, FlushStates, States, Opening, Helloed, Offered, Answered, Ending, Early, Idle
  <2>4. Typed(c)
    BY <2>1, <2>2, <2>3 DEF Typed, Base
  <2>5. Digests(c) /\ Waiting(c) /\ Cached(c)
    BY <2>2, <2>3, Zenon DEF Digests, Waiting, Cached
  <2>6. Keys(s, c)
    <3>1. ~Got(c) /\ ~Sent(c) /\ ~Changed(c)
      BY <2>3, Zenon DEF Got, Sent, Changed
    <3> QED
      BY <2>2, <2>3, <3>1, Zenon DEF Keys
  <2>7. Buffers(c)
    <3>1. <<>> \in Seq({})
      OBVIOUS
    <3>2. st \notin {"OK", "CW_CLNT_HELLO"}
      BY <2>3, Zenon
    <3> QED
      BY <2>2, <3>1, <3>2, Zenon DEF Buffers, IsSequence
  <2>8. Sessioned(k, s, c)
    BY <2>2, <2>3, Zenon DEF Sessioned, Remembers
  <2>9. Q(c) = <<>> /\ \A t : Own(t, c) = NULL
    BY <2>2 DEF Q, Own
  <2> QED
    BY <2>2, <2>4, <2>5, <2>6, <2>7, <2>8, <2>9, Zenon DEF Local, c
<1>1. PICK ch :
         LET e == Earlier(ch.cipher)
             kept == IF cfg.resume = "ticket"
                     THEN [e EXCEPT !.id = <<"ticket", 0>>, !.tick = [e EXCEPT !.id = NULL]]
                     ELSE e
         IN  /\ cfg.resume # "no" /\ cfg.verify /\ cfg.require => e.peer
             /\ ssl = [client |-> New("CONNECT", IF cfg.resume = "no" THEN NULL ELSE kept, {}),
                       server |-> New("ACCEPT", NULL, IF cfg.resume = "id" THEN {e} ELSE {})]
  BY Zenon DEF Init
<1> DEFINE x == Earlier(ch.cipher)
           y == [x EXCEPT !.id = NULL]
           z == [x EXCEPT !.id = <<"ticket", 0>>, !.tick = y]
           kept == IF cfg.resume = "ticket" THEN z ELSE x
           sc == IF cfg.resume = "no" THEN NULL ELSE kept
           cache == IF cfg.resume = "id" THEN {x} ELSE {}
           c == New("CONNECT", sc, {})
           d == New("ACCEPT", NULL, cache)
<1>2. /\ cfg.resume # "no" /\ cfg.verify /\ cfg.require => x.peer
      /\ ssl = [client |-> c, server |-> d]
  BY <1>1, Zenon
<1>3. IsSession(x) /\ x.tick = NULL /\ x.peer \in BOOLEAN
  BY Zenon DEF Earlier, NewSession, IsSession, SessionFields
<1> HIDE DEF x
<1>4. IsSession(y) /\ IsSession(z) /\ y.peer = x.peer /\ z.tick = y
  BY <1>3, Zenon DEF IsSession, SessionFields
<1> HIDE DEF y, z
<1>5. cfg.resume # "no" => Resumes(cfg, x) /\ Resumes(cfg, y)
  BY <1>2, <1>3, <1>4, Zenon DEF Resumes, Strict
<1>6. sc = NULL \/ (IsSession(sc) /\ (sc.tick = NULL \/ Resumes(cfg, sc.tick)))
  BY <1>3, <1>4, <1>5, Zenon
<1>7. \A v \in cache : Resumes(cfg, v)
  BY <1>5, Zenon
<1> HIDE DEF sc, cache
<1>8. /\ Typed(c) /\ Local(cfg, "client", c) /\ c.reuse_message = NULL /\ Q(c) = <<>>
      /\ \A t : Own(t, c) = NULL
  <2>1. "CONNECT" \in Start
    BY Zenon DEF Start
  <2>2. Remembers(cfg, "client", sc, {})
    BY <1>6, Zenon DEF Remembers
  <2> QED
    BY <2>1, <2>2, <1>NewIs, Zenon
<1>9. /\ Typed(d) /\ Local(cfg, "server", d) /\ d.reuse_message = NULL /\ Q(d) = <<>>
      /\ \A t : Own(t, d) = NULL
  <2>1. "ACCEPT" \in Start
    BY Zenon DEF Start
  <2>2. Remembers(cfg, "server", NULL, cache)
    BY <1>7, Zenon DEF Remembers
  <2> QED
    BY <2>1, <2>2, <1>NewIs, Zenon
<1> HIDE DEF c, d
<1>10. ssl["client"] = c /\ ssl["server"] = d /\ ssl = [s \in Sides |-> ssl[s]]
  BY <1>2, Zenon DEF Sides
<1>11. cfg \in Configs
  BY Zenon DEF Init
<1>12. TypeInv
  BY <1>8, <1>9, <1>10, <1>11, Zenon DEF TypeInv, Sides
<1>13. Shared(cfg, "client", c, d) /\ Shared(cfg, "server", d, c)
  BY <1>8, <1>9 DEF Shared, WellFormed, Carries
<1>14. \A s \in Sides : Local(cfg, s, ssl[s]) /\ Shared(cfg, s, ssl[s], ssl[Peer(s)])
  BY <1>8, <1>9, <1>10, <1>13, Peers, Zenon
<1> QED
  BY <1>12, <1>14, Zenon DEF Inv

\* Inv is about these variables only.
LEMMA StutterKeeps ==
    ASSUME Inv, UNCHANGED vars
    PROVE  Inv'
  BY Zenon DEF Inv, TypeInv, Running, vars

\* Every step of the client keeps Inv (ssl3_connect).
LEMMA ClientKeeps ==
    ASSUME NullApart, Inv, ClientStep
    PROVE  Inv'
  BY StartsKeep, SendClientHelloKeeps, GetServerHelloKeeps, PlainSendsKeep, PlainGetsKeep,
     KeyingSendsKeep, ClosingSendsKeep, FlushKeeps, KeyingGetsKeep, FinishedGetsKeep,
     ReadsKeep, Zenon DEF ClientStep

\* Every step of the server keeps Inv (ssl3_accept).
LEMMA ServerKeeps ==
    ASSUME NullApart, Inv, ServerStep
    PROVE  Inv'
  BY StartsKeep, RestKeeps, GetClientHelloKeeps, KeyingSendsKeep, PlainSendsKeep, FlushKeeps,
     KeyingGetsKeep, SkipCertVerifyKeeps, PlainGetsKeep, FinishedGetsKeep, ClosingSendsKeep, Zenon
  DEF ServerStep

\* Every call of an application keeps Inv (ssl3_read_bytes, ssl3_write_bytes,
\* SSL_renegotiate).
LEMMA CallKeeps ==
    ASSUME NullApart, Inv, NEW s \in Sides, ReadStep(s) \/ CallStep(s)
    PROVE  Inv'
  BY ReadChangeKeeps, ReadsKeep, RestKeeps, ReadNothingKeeps, SSL_renegotiateKeeps, Zenon
  DEF ReadStep, CallStep

\* Inv is inductive.
THEOREM Invariant ==
    ASSUME NullApart
    PROVE  Spec => []Inv
<1>1. Init => Inv
  BY InitHolds, Zenon
<1>2. Inv /\ [Next]_vars => Inv'
  BY ClientKeeps, ServerKeeps, CallKeeps, StutterKeeps, Zenon DEF Next
<1> QED
  BY <1>1, <1>2, PTL DEF Spec

\* The states, the counters and the digests of both ends stay in their ranges
\* (ssl3_connect, ssl3_accept, the handshake buffer of t1_enc.c).
THEOREM WellTyped ==
    ASSUME NullApart
    PROVE  Spec => []TypeOK
<1>1. Inv => TypeOK
  BY Zenon DEF Inv, TypeInv, TypeOK, Typed, Base
<1> QED
  BY <1>1, Invariant, PTL

\* Two hashes that are the same tell the same.
LEMMA MatchesBoth ==
    ASSUME NEW c, NEW d, NEW md, Matches(c, md), Matches(d, md)
    PROVE  /\ c.session.master = d.session.master /\ c.random = d.random
           /\ c.new_cipher = d.new_cipher /\ (c.hit <=> d.hit)
  BY Zenon DEF Matches, Begins

\* Two ends at rest with nothing between them have the same session, keys and
\* Finished messages, and one that insists on a certificate has it: what a
\* Finished binds is all that either end has relied on (ssl3_get_finished,
\* tls1_change_cipher_state), for every configuration.
THEOREM EndsAgree ==
    ASSUME NullApart
    PROVE  Spec => []Agreement
<1>1. Inv => Agreement
  <2> SUFFICES ASSUME Inv, Quiet PROVE Agreement
    BY Zenon DEF Agreement
  <2> DEFINE c == ssl["client"]
             d == ssl["server"]
  <2>1. /\ c.state = "OK" /\ d.state = "OK" /\ c.out = <<>> /\ d.out = <<>> /\ Running
        /\ "client" \in Sides /\ "server" \in Sides
    BY Zenon DEF Quiet, Running, Sides
  <2>2. /\ Local(cfg, "client", c) /\ Local(cfg, "server", d)
        /\ Shared(cfg, "client", c, d) /\ Shared(cfg, "server", d, c)
    BY <2>1, Peers, Zenon DEF Inv
  <2> HIDE DEF c, d
  <2>3. /\ At(c) = "OK" /\ At(d) = "OK" /\ At(c) \in Idle /\ At(d) \in Idle
        /\ c.state \notin Writing /\ d.state \notin Writing
    BY <2>1, Zenon DEF At, FlushStates, Idle, Writing
  <2>4. Got(c) /\ Sent(c) /\ Changed(c) /\ Got(d) /\ Sent(d) /\ Changed(d)
    BY <2>3, Zenon DEF Got, Sent, Changed
  <2>5. /\ c.read_key = Key(c) /\ c.write_key = Key(c) /\ c.session.cipher = c.new_cipher
        /\ Matches(c, Own("client", c)) /\ Matches(c, Own("server", c))
    BY <2>2, <2>4, Peers, Zenon DEF Local, Keys
  <2>6. /\ d.read_key = Key(d) /\ d.write_key = Key(d) /\ d.session.cipher = d.new_cipher
        /\ Matches(d, Own("client", d)) /\ Matches(d, Own("server", d))
    BY <2>2, <2>4, Peers, Zenon DEF Local, Keys
  <2>7. Q(c) = <<>> /\ Q(d) = <<>> /\ ~Held(c) /\ ~Held(d)
    BY <2>1, <2>2, <2>3 DEF Local, Buffers, Waiting, Held, Q
  <2>8. Own("client", c) = Own("client", d) /\ Own("server", d) = Own("server", c)
    BY <2>2, <2>7 DEF Shared, Carries
  <2>9. /\ c.session.master = d.session.master /\ c.random = d.random
        /\ c.new_cipher = d.new_cipher /\ (c.hit <=> d.hit)
    BY <2>5, <2>6, <2>8, MatchesBoth, Zenon
  <2>10. cfg.verify /\ cfg.require /\ ~cfg.once => d.session.peer
    BY <2>2, <2>3, Zenon DEF Local, Sessioned, Resumes, Strict
  <2>11. /\ c.previous_client_finished = d.previous_client_finished
         /\ c.previous_server_finished = d.previous_server_finished
    BY <2>8, Zenon DEF Own
  <2>12. Key(c) = Key(d) /\ Key(c).master = c.session.master
    BY <2>9, Zenon DEF Key
  <2> QED
    BY <2>5, <2>6, <2>9, <2>10, <2>11, <2>12, Zenon DEF Agreement, c, d
<1> QED
  BY <1>1, Invariant, PTL

============================================================================
