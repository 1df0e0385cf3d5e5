---------------------------- MODULE MCHandshake ----------------------------
(* Handshake for TLC: the configurations that are tried.                   *)
EXTENDS Handshake

Choice(anon, eph, status, npn) ==
    [cipher |-> [anon |-> anon, eph |-> eph], status |-> status, npn |-> npn]

\* RSA, ephemeral and anonymous key exchange; certificate status and next
\* protocol negotiation with and without ServerKeyExchange.
Rsa == Choice(FALSE, FALSE, TRUE, FALSE)
Ephemeral == Choice(FALSE, TRUE, FALSE, TRUE)
Anonymous == Choice(TRUE, TRUE, FALSE, FALSE)

Config(choices, sigalgs, verify, require, once, cert, tickets, resume, calls, writers) ==
    [choices |-> choices, sigalgs |-> sigalgs, verify |-> verify,
     require |-> require, once |-> once, cert |-> cert, tickets |-> tickets,
     resume |-> resume, renegs |-> calls, writers |-> writers]

\* The end that is done first, and may write while the other is not.
First(resume) == IF resume = "no" THEN {"server"} ELSE {"client"}

\* The first handshake in all its forms, with and without the certificate the
\* server asks for; one renegotiation, in which the server may choose again;
\* two, which either end may ask for at any time.
MCConfigs ==
    {Config({Rsa, Ephemeral, Anonymous}, sa, v, v, FALSE, v, tk, rs, 0, First(rs)) :
        sa \in BOOLEAN, v \in BOOLEAN,
        tk \in {"never", "full", "always"}, rs \in {"no", "id", "ticket"}}
    \cup {Config({Rsa, Anonymous}, sa, TRUE, rq, FALSE, FALSE, "full", "no", 0, Sides) :
        sa \in BOOLEAN, rq \in BOOLEAN}
    \cup {Config({Ephemeral, Anonymous}, ~once, TRUE, FALSE, once, TRUE, "always", "no", 1, Sides) :
        once \in BOOLEAN}
    \cup {Config({Rsa}, FALSE, FALSE, FALSE, FALSE, FALSE, "never", "id", 2, {"server"})}

\* A server that issues tickets in full handshakes, and one renegotiation.
MCTicketConfigs ==
    {Config({Ephemeral}, TRUE, FALSE, FALSE, FALSE, FALSE, "full", "no", 1, {})}
============================================================================
