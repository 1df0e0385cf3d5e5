---- MODULE SessionCache ----
(***************************************************************************)
(* The session cache of an SSL_CTX (ssl_sess.c, ssl_update_cache,          *)
(* SSL_clear, SSL_free), shared by connections that run in threads of      *)
(* their own.  A session has a reference count; the cache finds it through *)
(* a hash table on its id and keeps it in a list ordered by age.  The      *)
(* sections under ctx->lock are steps of their own, and so is what follows *)
(* the unlock in remove_session_lock.  An application stores sessions in   *)
(* an external cache through the callbacks, and keeps some for             *)
(* SSL_set_session.  Session caching is on for clients and servers         *)
(* (SSL_SESS_CACHE_BOTH), with the internal cache in use.                  *)
(***************************************************************************)
EXTENDS Integers, Sequences, FiniteSets

CONSTANTS Servers,     \* connections that may be servers, each with its thread
          Clients,     \* connections that may be clients
          Sessions,    \* the addresses malloc may give to a SSL_SESSION
          Ids,         \* session ids of length above zero, with the version
          CacheSize,   \* SSL_CTX_sess_get_cache_size, 0: no limit
          NULL         \* no session; as an id: session_id_length = 0

Conns == Servers \cup Clients

ASSUME CacheAssumption ==
    /\ CacheSize \in Nat
    /\ IsFiniteSet(Conns) /\ IsFiniteSet(Ids)
    /\ NULL \notin Conns \cup Sessions \cup Ids

VARIABLES
    refs,      \* references of each session; 0: not allocated
    sess,      \* id, not_resumable and whether the timeout has passed
    hash,      \* ctx->sessions: the session stored under an id
    list,      \* session_cache_head ... session_cache_tail
    lock,      \* the connection inside SSL_CTX_flush_sessions
    ext,       \* the application's external cache
    app,       \* sessions the application got by SSL_get1_session
    pc,        \* where each connection is; "closed": SSL_SENT_SHUTDOWN is set
    session,   \* s->session
    hit,       \* s->hit, as long as the handshake lasts
    sid,       \* the session id in the ClientHello being answered
    ret,       \* ret in ssl_get_prev_session
    rem        \* r in remove_session_lock, after the unlock

cache == <<refs, sess, hash, list, ext>>
vars == <<refs, sess, hash, list, lock, ext, app, pc, session, hit,
          sid, ret, rem>>

Established == {"ok", "dead", "closed"}
Handshaking == {"sent", "client", "handshake"}
Places == {"before", "missed", "store", "found", "ticketed", "drop",
           "new", "newcb", "ticket", "dup", "flush", "flushing", "failing", "dying", "closing",
           "failed", "freeing", "clearing"} \cup Established \cup Handshaking

Blank == [id |-> NULL, not_resumable |-> FALSE, expired |-> FALSE]

(* Every variable has its type; above all no reference count goes below    *)
(* zero (SSL_SESSION_free).                                                *)
TypeOK ==
    /\ refs \in [Sessions -> Nat]
    /\ sess \in [Sessions -> [id : Ids \cup {NULL}, not_resumable : BOOLEAN,
                              expired : BOOLEAN]]
    /\ hash \in [Ids -> Sessions \cup {NULL}]
    /\ list \in Seq(Sessions)
    /\ lock \in Conns \cup {NULL}
    /\ ext \in [Ids -> Sessions \cup {NULL}]
    /\ app \subseteq Sessions
    /\ pc \in [Conns -> Places]
    /\ session \in [Conns -> Sessions \cup {NULL}]
    /\ hit \in [Conns -> BOOLEAN]
    /\ sid \in [Conns -> Ids \cup {NULL}]
    /\ ret \in [Conns -> Sessions \cup {NULL}]
    /\ rem \in [Conns -> Sessions \cup {NULL}]

Init ==
    /\ refs = [o \in Sessions |-> 0]
    /\ sess = [o \in Sessions |-> Blank]
    /\ hash = [i \in Ids |-> NULL]
    /\ list = << >>
    /\ lock = NULL
    /\ ext = [i \in Ids |-> NULL]
    /\ app = {}
    /\ pc = [c \in Conns |-> "before"]
    /\ session = [c \in Conns |-> NULL]
    /\ hit = [c \in Conns |-> FALSE]
    /\ sid = [c \in Conns |-> NULL]
    /\ ret = [c \in Conns |-> NULL]
    /\ rem = [c \in Conns |-> NULL]

----------------------------------------------------------------------------
(* References, the hash table and the list.                                *)

SSL_SESSION_up_ref(r, o) == [r EXCEPT ![o] = @ + 1]

SSL_SESSION_free(r, o) == IF o = NULL THEN r ELSE [r EXCEPT ![o] = @ - 1]

(* SSL_SESSION_free wipes a session it releases. *)
Wiped(s) == [o \in Sessions |-> IF refs'[o] = 0 THEN Blank ELSE s[o]]

(* lh_SSL_SESSION_retrieve compares the contents of the session it finds. *)
Retrieve(i) ==
    IF i # NULL /\ hash[i] # NULL /\ sess[hash[i]].id = i THEN hash[i] ELSE NULL

Cached(o) == sess[o].id # NULL /\ Retrieve(sess[o].id) = o

SSL_SESSION_list_remove(l, o) ==
    IF \A n \in 1 .. Len(l) : l[n] # o
    THEN l
    ELSE LET k == CHOOSE n \in 1 .. Len(l) : l[n] = o
         IN  [n \in 1 .. Len(l) - 1 |-> IF n < k THEN l[n] ELSE l[n + 1]]

SSL_SESSION_list_add(l, o) ==
    [n \in 1 .. Len(l) + 1 |-> IF n = 1 THEN o ELSE l[n - 1]]

(* Mutant: one session more than the limit. *)
CacheFullLate ==
    CacheSize > 0 /\ Cardinality({i \in Ids : hash[i] # NULL}) > CacheSize

CacheFull ==
    CacheSize > 0 /\ Cardinality({i \in Ids : hash[i] # NULL}) >= CacheSize

Unlocked == lock = NULL

(* The last lines of remove_session_lock and of timeout_doall_arg.  The    *)
(* application's remove_session_cb drops the session it is given.          *)
Discarded(o) == [sess EXCEPT ![o].not_resumable = TRUE]

Held(o) == sess[o].id # NULL /\ ext[sess[o].id] = o

remove_session_cb(o) == IF Held(o) THEN [ext EXCEPT ![sess[o].id] = NULL] ELSE ext

Released(r, o) ==
    SSL_SESSION_free(IF Held(o) THEN SSL_SESSION_free(r, o) ELSE r, o)

----------------------------------------------------------------------------
(* SSL_CTX_add_session; the result is 0 for AddSame and 1 otherwise.       *)

AddSame(o) == Cached(o) /\ UNCHANGED cache

(* Mutant: the session that is replaced stays in the list. *)
AddReplaceKeepsOld(o) ==
    LET i == sess[o].id
        old == Retrieve(i)
    IN  /\ old \notin {o, NULL}
        /\ hash' = [hash EXCEPT ![i] = o]
        /\ list' = SSL_SESSION_list_add(list, o)
        /\ refs' = SSL_SESSION_free(SSL_SESSION_up_ref(refs, o), old)
        /\ sess' = Wiped(sess)
        /\ UNCHANGED ext

(* Another session has this id. *)
AddReplace(o) ==
    LET i == sess[o].id
        old == Retrieve(i)
    IN  /\ old \notin {o, NULL}
        /\ hash' = [hash EXCEPT ![i] = o]
        /\ list' = SSL_SESSION_list_add(SSL_SESSION_list_remove(list, old), o)
        /\ refs' = SSL_SESSION_free(SSL_SESSION_up_ref(refs, o), old)
        /\ sess' = Wiped(sess)
        /\ UNCHANGED ext

AddFresh(o) ==
    /\ Retrieve(sess[o].id) = NULL
    /\ ~CacheFull
    /\ hash' = [hash EXCEPT ![sess[o].id] = o]
    /\ list' = SSL_SESSION_list_add(list, o)
    /\ refs' = SSL_SESSION_up_ref(refs, o)
    /\ UNCHANGED <<sess, ext>>

(* The oldest session makes room. *)
AddEvict(o) ==
    LET tail == list[Len(list)]
    IN  /\ Retrieve(sess[o].id) = NULL
        /\ CacheFull
        /\ hash' = [hash EXCEPT ![sess[o].id] = o, ![sess[tail].id] = NULL]
        /\ list' = SSL_SESSION_list_add(SSL_SESSION_list_remove(list, tail), o)
        /\ ext' = remove_session_cb(tail)
        /\ refs' = Released(SSL_SESSION_up_ref(refs, o), tail)
        /\ sess' = Wiped(Discarded(tail))

AddNew(o) == AddReplace(o) \/ AddFresh(o) \/ AddEvict(o)

(* remove_session_lock up to the unlock. *)
RemoveLocked(c, o) ==
    /\ Unlocked
    /\ IF o # NULL /\ Cached(o)
       THEN /\ hash' = [hash EXCEPT ![sess[o].id] = NULL]
            /\ list' = SSL_SESSION_list_remove(list, o)
            /\ rem' = [rem EXCEPT ![c] = o]
       ELSE UNCHANGED <<hash, list, rem>>
    /\ UNCHANGED <<refs, sess, ext>>

(* Its rest, followed by SSL_SESSION_free for another reference the        *)
(* caller gives up.                                                        *)
RemoveUnlocked(c, o) ==
    /\ IF rem[c] # NULL
       THEN /\ ext' = remove_session_cb(rem[c])
            /\ refs' = SSL_SESSION_free(Released(refs, rem[c]), o)
            /\ sess' = Wiped(Discarded(rem[c]))
       ELSE /\ refs' = SSL_SESSION_free(refs, o)
            /\ sess' = Wiped(sess)
            /\ UNCHANGED ext
    /\ rem' = [rem EXCEPT ![c] = NULL]
    /\ UNCHANGED <<hash, list>>

Starting(c) == pc[c] \in {"before", "ok"}

Goto(c, p) == pc' = [pc EXCEPT ![c] = p]

----------------------------------------------------------------------------
(* Mutant: no reference is taken under the lock. *)
GetPrevCachedSteals(c, i) ==
    /\ c \in Servers /\ Starting(c)
    /\ Unlocked
    /\ Retrieve(i) # NULL
    /\ ret' = [ret EXCEPT ![c] = Retrieve(i)]
    /\ Goto(c, "found")
    /\ UNCHANGED <<cache, lock, app, session, hit, sid, rem>>

(* Servers: ssl3_get_client_hello.                                         *)

(* The lookup in ssl_get_prev_session. *)
GetPrevCached(c, i) ==
    /\ c \in Servers /\ Starting(c)
    /\ Unlocked
    /\ IF Retrieve(i) # NULL
       THEN /\ ret' = [ret EXCEPT ![c] = Retrieve(i)]
            /\ refs' = SSL_SESSION_up_ref(refs, Retrieve(i))
            /\ Goto(c, "found")
            /\ UNCHANGED sid
       ELSE /\ sid' = [sid EXCEPT ![c] = i]
            /\ Goto(c, "missed")
            /\ UNCHANGED <<ret, refs>>
    /\ UNCHANGED <<sess, hash, list, lock, ext, app, session, hit, rem>>

(* A ticket was decrypted: a session of its own, with the client's id. *)
GetPrevTicket(c, i, o) ==
    /\ c \in Servers /\ Starting(c)
    /\ refs[o] = 0
    /\ refs' = [refs EXCEPT ![o] = 1]
    /\ sess' = [sess EXCEPT ![o] = [Blank EXCEPT !.id = i]]
    /\ ret' = [ret EXCEPT ![c] = o]
    /\ Goto(c, "ticketed")
    /\ UNCHANGED <<hash, list, lock, ext, app, session, hit, sid, rem>>

(* No session id, a ticket that is not ours, or resumption not allowed. *)
GetPrevNone(c) ==
    /\ c \in Servers /\ Starting(c)
    /\ Goto(c, "new")
    /\ UNCHANGED <<cache, lock, app, session, hit, sid, ret, rem>>

(* The application's lookup; it counts the reference itself (copy == 0). *)
get_session_cb(c) ==
    /\ pc[c] = "missed"
    /\ IF ext[sid[c]] # NULL
       THEN /\ ret' = [ret EXCEPT ![c] = ext[sid[c]]]
            /\ refs' = SSL_SESSION_up_ref(refs, ext[sid[c]])
            /\ Goto(c, "store")
       ELSE Goto(c, "new") /\ UNCHANGED <<ret, refs>>
    /\ sid' = [sid EXCEPT ![c] = NULL]
    /\ UNCHANGED <<sess, hash, list, lock, ext, app, session, hit, rem>>

GetPrevStore(c) ==
    /\ pc[c] = "store"
    /\ Unlocked
    /\ AddSame(ret[c]) \/ AddNew(ret[c])
    /\ Goto(c, "found")
    /\ UNCHANGED <<lock, app, session, hit, sid, ret, rem>>

(* Another context, a cipher that is gone; or a fatal error; or a ticket   *)
(* that is too old.                                                        *)
GetPrevRefused(c) ==
    /\ pc[c] \in {"found", "ticketed"}
    /\ refs' = SSL_SESSION_free(refs, ret[c])
    /\ sess' = Wiped(sess)
    /\ ret' = [ret EXCEPT ![c] = NULL]
    /\ Goto(c, "new") \/ Goto(c, "failed")
    /\ UNCHANGED <<hash, list, lock, ext, app, session, hit, sid, rem>>

GetPrevTimeout(c) ==
    /\ pc[c] = "found"
    /\ sess[ret[c]].expired
    /\ RemoveLocked(c, ret[c])
    /\ Goto(c, "drop")
    /\ UNCHANGED <<lock, app, session, hit, sid, ret>>

GetPrevDrop(c) ==
    /\ pc[c] = "drop"
    /\ RemoveUnlocked(c, ret[c])
    /\ ret' = [ret EXCEPT ![c] = NULL]
    /\ Goto(c, "new")
    /\ UNCHANGED <<lock, app, session, hit, sid>>

(* The session is taken, unless it is of another version. *)
Resume(c) ==
    /\ pc[c] \in {"found", "ticketed"}
    /\ ~sess[ret[c]].expired
    /\ refs' = SSL_SESSION_free(refs, session[c])
    /\ sess' = Wiped(sess)
    /\ session' = [session EXCEPT ![c] = ret[c]]
    /\ ret' = [ret EXCEPT ![c] = NULL]
    /\ \/ hit' = [hit EXCEPT ![c] = TRUE] /\ Goto(c, "handshake")
       \/ UNCHANGED hit /\ Goto(c, "new")
    /\ UNCHANGED <<hash, list, lock, ext, app, sid, rem>>

(* Mutant: the session of the last handshake is negotiated anew. *)
NewSessionReuses(c, i, o) ==
    /\ pc[c] = "new"
    /\ session[c] # NULL
    /\ Goto(c, "handshake")
    /\ UNCHANGED <<cache, lock, app, session, hit, sid, ret, rem>>

(* ssl_get_new_session; no id when the server will issue a ticket. *)
NewSession(c, i, o) ==
    /\ pc[c] = "new"
    /\ refs[o] = 0
    /\ Unlocked
    /\ Retrieve(i) = NULL
    /\ refs' = SSL_SESSION_free([refs EXCEPT ![o] = 1], session[c])
    /\ sess' = Wiped([sess EXCEPT ![o] = [Blank EXCEPT !.id = i]])
    /\ session' = [session EXCEPT ![c] = o]
    /\ Goto(c, "handshake")
    /\ UNCHANGED <<hash, list, lock, ext, app, hit, sid, ret, rem>>

(* It gives up the old session first, and finds no id that is not in use. *)
NewSessionFails(c) ==
    /\ pc[c] = "new"
    /\ refs' = SSL_SESSION_free(refs, session[c])
    /\ sess' = Wiped(sess)
    /\ session' = [session EXCEPT ![c] = NULL]
    /\ Goto(c, "failed")
    /\ UNCHANGED <<hash, list, lock, ext, app, hit, sid, ret, rem>>

----------------------------------------------------------------------------
(* Clients.                                                                *)

(* The application does not give a session that has no id to two           *)
(* connections: their threads would look at its id and set it without a    *)
(* lock (s3_clnt.c:774, 1682).                                             *)
SSL_set_session(c, o) ==
    /\ c \in Clients
    /\ pc[c] = "before"
    /\ o \in app
    /\ sess[o].id = NULL => \A d \in Conns \ {c} : session[d] # o
    /\ refs' = SSL_SESSION_free(SSL_SESSION_up_ref(refs, o), session[c])
    /\ sess' = Wiped(sess)
    /\ session' = [session EXCEPT ![c] = o]
    /\ UNCHANGED <<hash, list, lock, ext, app, pc, hit, sid, ret, rem>>

(* A new session with the id i replaces s->session. *)
FreshSession(c, o, i) ==
    /\ refs[o] = 0
    /\ refs' = SSL_SESSION_free([refs EXCEPT ![o] = 1], session[c])
    /\ sess' = Wiped([sess EXCEPT ![o] = [Blank EXCEPT !.id = i]])
    /\ session' = [session EXCEPT ![c] = o]

(* s->session is kept unless there is none, it must not be resumed or it   *)
(* is of another version, which may always be.                             *)
ssl3_client_hello(c, o) ==
    /\ c \in Clients /\ Starting(c)
    /\ \/ FreshSession(c, o, NULL)
       \/ /\ session[c] # NULL
          /\ ~sess[session[c]].not_resumable
          /\ UNCHANGED <<refs, sess, session>>
    /\ Goto(c, "sent")
    /\ UNCHANGED <<hash, list, lock, ext, app, hit, sid, ret, rem>>

(* The server names the session: the client's own, a new one or none. *)
ssl3_get_server_hello(c, j, o) ==
    /\ pc[c] = "sent"
    /\ LET i == sess[session[c]].id
       IN  /\ hit' = [hit EXCEPT ![c] = (j # NULL /\ j = i)]
           /\ \/ hit'[c] /\ UNCHANGED <<refs, sess, session>>
              \/ ~hit'[c] /\ i # NULL /\ FreshSession(c, o, j)
              \/ /\ ~hit'[c] /\ i = NULL
                 /\ sess' = [sess EXCEPT ![session[c]].id = j]
                 /\ UNCHANGED <<refs, session>>
    /\ Goto(c, "client")
    /\ UNCHANGED <<hash, list, lock, ext, app, sid, ret, rem>>

(* ssl3_get_new_session_ticket: a session that has no id gets the digest   *)
(* of the ticket; another one is taken out of the cache and copied.        *)
NewTicket(c, t) ==
    /\ pc[c] = "client"
    /\ sess[session[c]].id = NULL
    /\ sess' = [sess EXCEPT ![session[c]].id = t]
    /\ Goto(c, "handshake")
    /\ UNCHANGED <<refs, hash, list, lock, ext, app, session, hit, sid, ret, rem>>

RenewTicket(c) ==
    /\ pc[c] = "client"
    /\ sess[session[c]].id # NULL
    /\ RemoveLocked(c, session[c])
    /\ Goto(c, "ticket")
    /\ UNCHANGED <<lock, app, session, hit, sid, ret>>

RenewTicketRemoved(c) ==
    /\ pc[c] = "ticket"
    /\ RemoveUnlocked(c, NULL)
    /\ Goto(c, "dup")
    /\ UNCHANGED <<lock, app, session, hit, sid, ret>>

(* The copy has all but the ticket of the old session. *)
ssl_session_dup(c, t, o) ==
    /\ pc[c] = "dup"
    /\ refs[o] = 0
    /\ refs' = SSL_SESSION_free([refs EXCEPT ![o] = 1], session[c])
    /\ sess' = Wiped([sess EXCEPT ![o] = [sess[session[c]] EXCEPT !.id = t]])
    /\ session' = [session EXCEPT ![c] = o]
    /\ Goto(c, "handshake")
    /\ UNCHANGED <<hash, list, lock, ext, app, hit, sid, ret, rem>>

----------------------------------------------------------------------------
(* The end of a handshake: ssl_update_cache.                               *)

Finish(c) ==
    /\ pc[c] \in {"handshake", "client"}
    /\ LET o == session[c]
       IN  \/ /\ sess[o].id = NULL \/ hit[c]
              /\ UNCHANGED cache
              /\ Goto(c, "flush")
           \/ /\ sess[o].id # NULL /\ ~hit[c]
              /\ Unlocked
              /\ \/ AddSame(o) /\ Goto(c, "flush")
                 \/ AddNew(o) /\ Goto(c, "newcb")
    /\ hit' = [hit EXCEPT ![c] = FALSE]
    /\ UNCHANGED <<lock, app, session, sid, ret, rem>>

(* The application keeps the session, in place of an older one, or not. *)
new_session_cb(c) ==
    /\ pc[c] = "newcb"
    /\ LET o == session[c]
           i == sess[o].id
       IN  \/ /\ ext' = [ext EXCEPT ![i] = o]
              /\ refs' = SSL_SESSION_free(SSL_SESSION_up_ref(refs, o), ext[i])
              /\ sess' = Wiped(sess)
           \/ UNCHANGED <<ext, refs, sess>>
    /\ Goto(c, "flush")
    /\ UNCHANGED <<hash, list, lock, app, session, hit, sid, ret, rem>>

(* The statistics say whether this connection flushes the cache. *)
FlushNot(c) ==
    /\ pc[c] = "flush"
    /\ Goto(c, "ok")
    /\ UNCHANGED <<cache, lock, app, session, hit, sid, ret, rem>>

SSL_CTX_flush_sessions(c) ==
    /\ pc[c] = "flush"
    /\ Unlocked
    /\ lock' = c
    /\ Goto(c, "flushing")
    /\ UNCHANGED <<cache, app, session, hit, sid, ret, rem>>

timeout_doall_arg(c, i) ==
    LET o == hash[i]
    IN  /\ pc[c] = "flushing"
        /\ o # NULL
        /\ sess[o].expired
        /\ hash' = [hash EXCEPT ![sess[o].id] = NULL]
        /\ list' = SSL_SESSION_list_remove(list, o)
        /\ ext' = remove_session_cb(o)
        /\ refs' = Released(refs, o)
        /\ sess' = Wiped(Discarded(o))
        /\ UNCHANGED <<lock, app, pc, session, hit, sid, ret, rem>>

FlushEnd(c) ==
    /\ pc[c] = "flushing"
    /\ \A i \in Ids : hash[i] # NULL => ~sess[hash[i]].expired
    /\ lock' = NULL
    /\ Goto(c, "ok")
    /\ UNCHANGED <<cache, app, session, hit, sid, ret, rem>>

----------------------------------------------------------------------------
(* The life of a connection.                                               *)

SSL_shutdown(c) ==
    /\ pc[c] = "ok"
    /\ Goto(c, "closed")
    /\ UNCHANGED <<cache, lock, app, session, hit, sid, ret, rem>>

(* ssl3_send_alert and ssl3_read_bytes with a fatal alert. *)
FatalAlert(c) ==
    /\ pc[c] \in Handshaking \cup {"dup", "ok", "closed"}
    /\ RemoveLocked(c, session[c])
    /\ hit' = [hit EXCEPT ![c] = FALSE]
    /\ Goto(c, IF pc[c] = "ok" THEN "dying"
                ELSE IF pc[c] = "closed" THEN "closing" ELSE "failing")
    /\ UNCHANGED <<lock, app, session, sid, ret>>

FatalAlertRemoved(c) ==
    /\ pc[c] \in {"dying", "closing", "failing"}
    /\ RemoveUnlocked(c, NULL)
    /\ Goto(c, IF pc[c] = "dying" THEN "dead"
                ELSE IF pc[c] = "closing" THEN "closed" ELSE "failed")
    /\ UNCHANGED <<lock, app, session, hit, sid, ret>>

(* The condition in ssl_clear_bad_session. *)
Bad(c) == session[c] # NULL /\ pc[c] \in Established \ {"closed"}

SSL_free(c) ==
    /\ pc[c] \in {"before", "failed"} \cup Established \cup Handshaking
    /\ IF Bad(c)
       THEN RemoveLocked(c, session[c]) /\ Goto(c, "freeing") /\ UNCHANGED <<session, hit>>
       ELSE /\ refs' = SSL_SESSION_free(refs, session[c])
            /\ sess' = Wiped(sess)
            /\ session' = [session EXCEPT ![c] = NULL]
            /\ hit' = [hit EXCEPT ![c] = FALSE]
            /\ Goto(c, "before")
            /\ UNCHANGED <<hash, list, ext, rem>>
    /\ UNCHANGED <<lock, app, sid, ret>>

SSL_clear(c) ==
    /\ pc[c] \in {"failed"} \cup Established
    /\ IF Bad(c)
       THEN RemoveLocked(c, session[c]) /\ Goto(c, "clearing")
       ELSE Goto(c, "before") /\ UNCHANGED <<cache, rem>>
    /\ UNCHANGED <<lock, app, session, hit, sid, ret>>

(* SSL_free or SSL_clear go on. *)
BadSessionRemoved(c) ==
    /\ pc[c] \in {"freeing", "clearing"}
    /\ RemoveUnlocked(c, session[c])
    /\ session' = [session EXCEPT ![c] = NULL]
    /\ Goto(c, "before")
    /\ UNCHANGED <<lock, app, hit, sid, ret>>

SSL_get1_session(c) ==
    /\ pc[c] = "ok"
    /\ session[c] \notin app
    /\ app' = app \cup {session[c]}
    /\ refs' = SSL_SESSION_up_ref(refs, session[c])
    /\ UNCHANGED <<sess, hash, list, lock, ext, pc, session, hit, sid, ret, rem>>

(* The application is done with a session it kept. *)
Forget(o) ==
    /\ o \in app
    /\ app' = app \ {o}
    /\ refs' = SSL_SESSION_free(refs, o)
    /\ sess' = Wiped(sess)
    /\ UNCHANGED <<hash, list, lock, ext, pc, session, hit, sid, ret, rem>>

(* Time passes; a flush has read the clock when it starts. *)
Expire(o) ==
    /\ Unlocked
    /\ Cached(o) \/ \E c \in Conns : ret[c] = o
    /\ ~sess[o].expired
    /\ sess' = [sess EXCEPT ![o].expired = TRUE]
    /\ UNCHANGED <<refs, hash, list, lock, ext, app, pc, session, hit, sid, ret, rem>>

Next ==
    \/ \E c \in Conns :
          \/ SSL_shutdown(c) \/ SSL_free(c) \/ SSL_clear(c)
          \/ BadSessionRemoved(c) \/ FatalAlert(c) \/ FatalAlertRemoved(c)
          \/ GetPrevNone(c) \/ get_session_cb(c) \/ GetPrevStore(c)
          \/ GetPrevRefused(c) \/ GetPrevTimeout(c) \/ GetPrevDrop(c)
          \/ Resume(c) \/ NewSessionFails(c)
          \/ Finish(c) \/ new_session_cb(c)
          \/ FlushNot(c) \/ SSL_CTX_flush_sessions(c) \/ FlushEnd(c)
          \/ RenewTicket(c) \/ RenewTicketRemoved(c) \/ SSL_get1_session(c)
          \/ \E i \in Ids :
                GetPrevCached(c, i) \/ NewTicket(c, i) \/ timeout_doall_arg(c, i)
          \/ \E o \in Sessions :
                \/ SSL_set_session(c, o) \/ ssl3_client_hello(c, o)
                \/ \E i \in Ids : ssl_session_dup(c, i, o)
                \/ \E i \in Ids \cup {NULL} :
                      \/ GetPrevTicket(c, i, o) \/ NewSession(c, i, o)
                      \/ ssl3_get_server_hello(c, i, o)
    \/ \E o \in Sessions : Forget(o) \/ Expire(o)

Spec == Init /\ [][Next]_vars

----------------------------------------------------------------------------
(* Properties.                                                             *)

Count(f, D, o) == Cardinality({x \in D : f[x] = o})

(* The references to a session: connections, calls in progress, one for    *)
(* the internal cache, the application.                                    *)
Owners(o) ==
    Count(session, Conns, o) + Count(ret, Conns, o) + Count(rem, Conns, o)
    + Count(hash, Ids, o) + Count(ext, Ids, o) + (IF o \in app THEN 1 ELSE 0)

(* The count in a session (SSL_SESSION_up_ref, SSL_SESSION_free) is the    *)
(* number of its owners, whatever the threads do between the locked        *)
(* sections: nothing is used after it was freed, nothing is left over.     *)
RefsExact == \A o \in Sessions : refs[o] = Owners(o)

(* The hash table and the list hold the same sessions, each once, and the  *)
(* table finds each under the id it now has.                               *)
HashListAgree ==
    /\ \A n \in 1 .. Len(list) :
           Cached(list[n]) /\ \A m \in 1 .. Len(list) : list[m] = list[n] => m = n
    /\ \A i \in Ids : hash[i] # NULL => \E n \in 1 .. Len(list) : list[n] = hash[i]

(* SSL_CTX_add_session keeps the cache within its size. *)
CacheBounded ==
    CacheSize > 0 => Cardinality({i \in Ids : hash[i] # NULL}) <= CacheSize

(* A session that a server is still negotiating is not in the cache and    *)
(* belongs to no other connection: no half-made session is resumed.        *)
NegotiatedUnseen ==
    \A c \in Servers \ Clients : pc[c] = "handshake" /\ ~hit[c] =>
        /\ ~Cached(session[c])
        /\ \A d \in Conns \ {c} : session[c] \notin {session[d], ret[d]}
====
