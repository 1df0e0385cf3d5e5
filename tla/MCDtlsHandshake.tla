-------------------------- MODULE MCDtlsHandshake --------------------------
(***************************************************************************)
(* DtlsHandshake in the forms of a handshake that differ in what is sent   *)
(* and awaited, each with as many faults of the network as its number of   *)
(* records allows.                                                         *)
(***************************************************************************)
EXTENDS DtlsHandshake

Base ==
    [hit |-> FALSE, opts |-> {}, ticket |-> FALSE, cookie |-> "no",
     aead |-> FALSE, certParts |-> 1, reneg |-> {}, careful |-> TRUE,
     lost |-> 0, early |-> 0]

Faulty(cs, faults) ==
    {[c EXCEPT !.lost = f[1], !.early = f[2]] : c \in cs, f \in faults}

\* Both a lost record and a premature timeout, or two lost records.
Short ==
    Faulty({Base, [Base EXCEPT !.opts = {"CERT"}], [Base EXCEPT !.hit = TRUE],
            [Base EXCEPT !.cookie = "listen"]}, {<<1, 1>>})
    \cup Faulty({Base, [Base EXCEPT !.hit = TRUE]}, {<<2, 0>>})

\* Either of them.
Long ==
    Faulty({[Base EXCEPT !.ticket = TRUE],
            [Base EXCEPT !.hit = TRUE, !.ticket = TRUE],
            [Base EXCEPT !.opts = {"CERT"}, !.certParts = 2]},
           {<<1, 0>>, <<0, 1>>})
    \cup Faulty({[Base EXCEPT !.opts = {"CERT", "STATUS", "SKE", "CERT_REQ"}],
                 [Base EXCEPT !.opts = {"CERT", "CERT_REQ"}, !.certParts = 2]},
                {<<1, 0>>})

\* A cookie demanded by SSL_OP_COOKIE_EXCHANGE alone: HelloVerifyRequest is
\* never sent again, so that no record may be lost.
Option == Faulty({[Base EXCEPT !.cookie = "option"]}, {<<0, 1>>})

\* A renegotiation after a handshake in which no flight was sent twice; after
\* a resumed one the faults would bring the old Finished back.
Renegotiated ==
    Faulty({[Base EXCEPT !.reneg = End]}, {<<1, 0>>, <<0, 1>>})
    \cup {[Base EXCEPT !.hit = TRUE, !.reneg = End]}

MCConfigs == Short \cup Long \cup Option \cup Renegotiated

\* A cipher with an AEAD context.
MCAead == Faulty({[Base EXCEPT !.aead = TRUE]}, {<<1, 0>>})
=============================================================================
