# VigorTLS in TLA+

This directory holds a TLA+ development beside the C sources of VigorTLS, a fork
of OpenSSL 1.0.2. It models the parts of the library whose difficulty is in the
order of events: connections that are interrupted, datagrams that are lost or
repeated, threads that share a cache, tables that change under a walk. TLC checks
the models on small instances; TLAPS proves the most important safety properties
for every value of the constants.

Contents

1. The system and its models
2. The models one by one: state, actions, properties, bounds, fairness
3. The runs
4. The proofs
5. Where the code disagrees with what is written about it
6. What is not modelled

`PROJECT.json` lists the same things for tools: which definition translates which
lines (`map`), the runs, one mutant for every property of a passing run (a
plausible bug, written as an operator beside the one it changes, that TLC must
detect), the hazards and the properties that guard against them.

To repeat a run: `tlc -workers 2 -config MCLhash.cfg MCLhash`. To repeat a proof:
`tlapm LhashProofs.tla`.

## 1. The system and its models

A TLS or DTLS connection is an `SSL`. The application calls `SSL_connect`,
`SSL_accept`, `SSL_read`, `SSL_write`, `SSL_shutdown`; each call runs as far as
the transport (a BIO) lets it, returns, and is repeated. Below the calls are

* the **handshake** state machines (`ssl3_connect`, `ssl3_accept`,
  `dtls1_connect`, `dtls1_accept`), which move through named states and may be
  started again on a live connection (renegotiation);
* the **record layer**, which cuts data, alerts and handshake messages into
  records and, for DTLS, sorts out what a datagram network does to them;
* the **session cache** of the `SSL_CTX`, shared by all connections, which
  resumed handshakes read and full ones fill;
* **BIOs**, among them the BIO pair, with which an application carries the bytes
  of a connection itself;
* the **hash table** of `crypto/lhash`, which holds the cached sessions (and
  names of objects, configuration values, error strings).

| Part of the code | Modules | Proofs |
|---|---|---|
| DTLS record layer, receiving (`ssl/d1_pkt.c`) | `DtlsRecord` | `DtlsRecordProofs` |
| DTLS handshake, both ends (`ssl/d1_clnt.c`, `d1_srvr.c`, `d1_both.c`, `d1_lib.c`) | `DtlsHandshake` | |
| DTLS message fragments (`ssl/d1_both.c`) | `DtlsReassembly` | `DtlsReassemblyProofs` |
| TLS handshake, both ends (`ssl/s3_clnt.c`, `s3_srvr.c`, `s3_both.c`, `t1_enc.c`) | `Handshake` | `HandshakeLemmas`, `HandshakeProofs` |
| TLS record layer, sending, alerts, shutdown (`ssl/s3_pkt.c`, `s3_lib.c`) | `Ssl3Write` | `Ssl3WriteProofs` |
| Session cache (`ssl/ssl_sess.c`, `ssl_lib.c`) | `SessionCache` | `SessionCacheProofs` |
| BIO pairs (`crypto/bio/bss_bio.c`) | `BioPair`, implementing `BioPipe` | `BioPairProofs` |
| Hash table (`crypto/lhash/lhash.c`) | `Lhash`, implementing `Dictionary` | `LhashProofs` |

`MC*.tla` give the constants values for TLC; every `.cfg` is one run.

How the models fit together. `Handshake` and `DtlsHandshake` each compose a
client and a server of this library with the network between them. `DtlsRecord`
is one receiver against an arbitrary network: it justifies what `DtlsHandshake`
assumes, that no record is accepted twice. `DtlsReassembly` has the bytes and bit
masks of messages that `DtlsHandshake` takes as one or two parts. `Ssl3Write` has
the write buffer, which `Handshake` takes as never blocked. `SessionCache` uses
its hash table as the map that `Lhash` is proved to implement, and
`SSL_CTX_flush_sessions` walks it with `down_load = 0`, the case for which the
walk is proved complete and safe as long as the table has at most 512 buckets.

In all models the control of a handler (guards, early returns, error paths, the
order of assignments) is kept and data is abstracted to what the properties tell
apart: a message is its type and the few fields the other end compares, a key is
the name of what it was derived from, a digest is the sequence of what was fed to
it, a byte of a stream is its number.

## 2. The models one by one

### DtlsRecord: the receiving DTLS record layer

State: the read epoch, the replay windows `bitmap` and `next_bitmap` (a maximum
and a set of bits), the queues `unprocessed_rcds`, `processed_rcds` and
`buffered_app_data`, the datagram in `rbuf`, the record in `rrec`, `rstate`, the
flags about ChangeCipherSpec, and `pc`, the place in the loop of
`dtls1_get_record`. `stale` marks a record that was discarded but whose
`rr->length` is still set; `handed` counts how often each record was acted on.

Actions: `ProcessBuffered`, `ProcessOne`, `ProcessDone`
(`dtls1_process_buffered_records`), `GetProcessed`, `ReadHeader`, `ReadBody`,
`ReadNothing` (`dtls1_get_record` from its `again` label on), and what
`dtls1_read_bytes` does with each kind of record: `DeliverHandshake`,
`DeliverAppData`, `DeliverAlert`, `KeepForLater`, `PopAppData`,
`ChangeCipherSpec`, `BadChangeCipherSpec`, `UnexpectedHandshake`. The handshake
above is `AwaitFinished` and `Renegotiate`. Any datagram the peer can have sent
by now may be read next, any number of times, whole, cut short, corrupted or of
another version.

Properties: `NoReplay` (a record is acted on at most once, whichever queues it
went through), `ActsOnAuthentic` (what is returned was authenticated in its own,
current epoch), `BufferedRecordsFit` (the branch commented "Should not happen" is
not reached), `QueueNotStranded`, `EpochAdvancesWhenAwaited`,
`BufferedRecordsSurface`.

Bounds: three epochs of three records, a window of two bits with the clamp of
`satsub64be` at 3, two records per queue. Two epochs beyond the first are needed
for a queue to be left from the epoch before; a window of two is left by the
third record; a queue of two is overfull at the third. `dtls_record` waits for a
datagram, `dtls_record_poll` has a transport that may have nothing to read, so
that leftovers of discarded records come into play.

Fairness (`FairSpec`, for `BufferedRecordsSurface`): weak fairness of the reader;
the application goes on calling `SSL_read` or the handshake.

### DtlsHandshake: the DTLS handshake over a lossy network

State: the `SSL` of either end with the source's field names (epochs, message and
record numbers, `buffered_messages`, `sent_messages`, `unprocessed_rcds`, timer
and `num_alerts`, ChangeCipherSpec flags, the digest, `handshake_fragment`,
`listen`), the records on their way, the faults so far, and the record numbers
used.

Actions: `Deliver` is a whole pass through `dtls1_get_record`,
`dtls1_read_bytes`, `dtls1_get_message` and the state machine, with every flight
it sends; `Lose`; `dtls1_handle_timeout`; `CallAgain` (re-entering the state that
allows ChangeCipherSpec); `Renegotiate`. Records overtake each other and are
lost; a timer may expire while an answer is still on its way (`early`).

Properties: `NoSpuriousFailure` (between two ends of this library no check
fails), `NumbersFresh` (no record number is used twice in an epoch, although
retransmission goes back an epoch), `Completes` (both ends finish before they run
out of timeouts; the last flight has no timer of its own).

Bounds: the 18 configurations of `MCConfigs`: full and resumed handshakes, with
and without tickets, certificates in one or two fragments, client
authentication, certificate status, a cookie demanded by option or in
`DTLSv1_listen`, renegotiation from either end, with one or two faults (none in
the renegotiation after a resumed handshake, see (b) in section 5).
`DTLS1_TMO_ALERT_COUNT` has its real value, 12.

Assumptions, each from the code or from a limit of it listed in section 5: a
record is delivered at most once (`DtlsRecord`); one record per datagram; writes
do not block (d1_both.c:1029: "XDTLS: for now assuming that read/writes are
blocking") and a flight is written in one step; a client that is asked for a
certificate has one; a timeout is premature unless nothing is in flight and the
end has not timed out more often than its peer (both timers start at one second
and double);
an application renegotiates only after data from the peer has shown that it
finished, where no flight was sent twice (`careful`); tickets and renegotiation
are not combined; an unreadable record of epoch 0 is a failure.

Fairness: records that stay on their way arrive, and a running timer expires,
because the applications go on calling. It is weak fairness of those steps with
the `ENABLED` written out (`Pending`). The records under way are a set, so that
`NumbersFresh` takes a record that equals one still under way for its duplicate.

`CHECK_DEADLOCK FALSE`: two ends at rest in `OK` have nothing to do.

### DtlsReassembly: fragments and their reassembly

State: the sender's `init_buf` cell by cell, `init_off`, `init_num`, `frag_off`,
the header being written, the local `retry` of `dtls1_do_write`, the messages
kept for retransmission; the fragments in the network; the receiver's
`buffered_messages` with its bit masks bit for bit, `handshake_read_seq`, what was
delivered; and the bytes either end put into its handshake hash.

Actions: `dtls1_set_handshake_header` (the next message is put into the buffer),
`dtls1_do_write` as one step per fragment (`WritesFragment`, `WriteFails`,
`FlushBlocks`), `dtls1_retransmit_buffered_messages`,
`dtls1_retrieve_buffered_fragment`, `dtls1_get_message_fragment` (with
`dtls1_reassemble_fragment` and `dtls1_process_out_of_seq_message`), `Lose`. A
fragment stays in the network after it is read, so that it may come again.

Properties: `DeliveredIntact` (each message once, in order, with its bytes),
`TranscriptsAgree` (both ends hash the same), `HeaderRoomMadeOnce` (a header is
written over bytes already sent, and room for it is made once however often the
write fails), `Arrives`.

Bounds: messages of 10 and 6 bytes with a header of 2, cut as 10, 5 + 5, 9 + 1, 6
or 5 + 1 bytes, differently at every transmission; a mask of 10 bits crosses a
byte and the cuts lie on either side of the boundary, in both branches of
`RSMBLY_BITMASK_MARK`. `Window = 1`, so that the second message may come early.

Assumptions: a retransmission neither blocks nor finds a write blocked (again
d1_both.c:1029); lengths are those a sender of this library announces.

Fairness: calls go on; writes do not fail for ever; the timer expires as long as
it runs; the network does not lose every copy of a fragment the receiver can
still use. `Arrives` thus says that a flight which goes on being repeated arrives;
that the code gives up after more than 12 timeouts (d1_lib.c:432) is part of
`DtlsHandshake`.

### Handshake: the TLS handshake

State: two `SSL`s as records with the source's field names: `state`,
`handshake_buffer` and the digest, keys, session, `renegotiate` flags, the
buffering BIO (`bbio`; `buffer_write` and the flush of `bf_buff.c`: a record that
does not fit pushes out the older ones and stays in part or is written through),
the outgoing stream; the configuration at work; counters that name randoms and
bound renegotiations.

Actions: one for every state of `ssl3_connect` and `ssl3_accept` (the `_A` and
`_B` halves of a state are one), from `StartConnect` and `StartAccept` to
`GetServerFinished` and `SendServerFinished`; `ReadChangeCipherSpec`,
`ReadHelloRequest`, `SkipHelloRequest`, `ReadUnexpectedHandshake`, `ReadData` and
`ReadDataInHandshake` for `ssl3_read_bytes`; `WriteData`, `SSL_renegotiate` and
`RenegotiateCheck` for the applications, at any moment.

Properties: `NoSpuriousFailure`: no check of message type, ChangeCipherSpec,
Finished, record key, signature, renegotiation binding or available digest fails
between two ends of this library, except what the server insists on and data
that meets a renegotiation outside `SSL_read`. `Agreement`: at rest both ends
have the same session, keys per direction and Finished hashes. `ComesToRest`:
neither end waits for ever, wherever `SSL_renegotiate` was called.

Bounds: 43 configurations, which with the cipher of an earlier session make 79
initial states: RSA, ephemeral and anonymous key exchange, both ways to hash a
CertificateVerify, client authentication wanted or required and with or without
a certificate, tickets never, in full handshakes or always, resumption by id or
by ticket, up to two renegotiations. Data, one record per end, is written by the
end that is done first, by both ends around one renegotiation, and by the server
around two.

Assumptions: a method of one version, `read_ahead` off, the server's session
cache on, none of `SSL3_FLAGS_DELAY_CLIENT_FINISHED`, GOST or fixed-DH (which
skip CertificateVerify) or `SSL_OP_NO_SESSION_RESUMPTION_ON_RENEGOTIATION`; two
correct peers; a fatal alert ends both ends; renegotiation is checked with tickets
never or always, so `NoSpuriousFailure` is not claimed of a renegotiation with a
server that sends tickets in full handshakes only (section 5, TLS handshake).

Fairness: weak fairness of the steps of the state machines and of reading; both
applications go on calling `SSL_read`. `CHECK_DEADLOCK FALSE`: both may be at rest.

### Ssl3Write: writing over a transport that takes a part

State: the connection's mode (partial writes, moving buffers), the one write
buffer (`left`, the record in it), `wpend_*`, `wnum`, the
local `tot` of `ssl3_write_bytes`, the pending alert, the messages still to send in
a renegotiation, `renegotiate`, `shutdown`; and as history the bytes acknowledged,
the bytes put into records, the kinds of records written and what `SSL_shutdown`
returned.

Actions: `WriteStart` (a call of `SSL_write` or its repetition), `WritePending`
(`ssl3_write_pending`), `WriteAlert` (`ssl3_dispatch_alert`), `WriteFragment`
(`do_ssl3_write`), `HandshakeWrite`,
`HandshakeWaits`, `ReadHandshake`, the events a read brings (`ReadRefused`,
`ReadClientHello`, `ReadHelloRequest`, `ReadCloseNotify`) and `SSL_shutdown`
(`ShutdownSend`, `ShutdownResend`, `ShutdownWait`).

Properties: `AckedIsWritten`, `StreamContinues` (no byte skipped or repeated),
`RecordsComplete` (no record is overwritten in the buffer), `NoDataAfterClose`;
`WriteCompletes` and `RenegotiationPerformed` at a client.

Bounds: `write` is a server, two bytes per record, two pieces per record, a
stream of five bytes, alerts, a ClientHello and a shutdown at any
moment: every record boundary, a partial write in each position and a rest
shorter than a record occur. `write_client` is a client with one byte per record
and a stream of four bytes, so that one call may be four records. Both take all
four combinations of `SSL_MODE_ENABLE_PARTIAL_WRITE` and
`SSL_MODE_ACCEPT_MOVING_WRITE_BUFFER`.

Fairness (`FairSpec`): the application repeats a call that did not succeed, as
`SSL_write.pod` demands; the transport does not refuse for ever (strong fairness of
a record being completed, since attempts alternate with other calls); the peer
answers; it does not send HelloRequests without end.

### SessionCache: sessions shared by threads

State: the reference count, id and flags of every session; the hash table, the
age list and `ctx->lock`; the application's external cache and the sessions it
keeps; and for every connection its place, `s->session`, `hit`, and the local
pointers of `ssl_get_prev_session` (`ret`) and `remove_session_lock` (`rem`) that
outlive a locked section.

Actions: a section under the lock is one step and what follows the unlock is
another: `GetPrevCached`, `GetPrevTicket`, `get_session_cb`, `GetPrevStore`,
`GetPrevRefused`, `GetPrevTimeout`, `GetPrevDrop` (`ssl_get_prev_session`),
`NewSession`, `ssl3_client_hello`, `ssl3_get_server_hello`, `NewTicket`, `RenewTicket`,
`ssl_session_dup`, `Finish` with `SSL_CTX_add_session` (`AddSame`, `AddReplace`,
`AddFresh`, `AddEvict`) and `new_session_cb`, `SSL_CTX_flush_sessions` with
`timeout_doall_arg` session by session, `SSL_shutdown`, `FatalAlert`, `SSL_clear`,
`SSL_free`, `SSL_set_session`, `SSL_get1_session`, `Forget`, `Expire`.

Properties: `RefsExact` (the count is the number of holders: nothing is used after
it is freed, nothing leaks), `HashListAgree`, `CacheBounded`, `NegotiatedUnseen`
(no half-made session of a server is found by another connection).

Bounds: a server, and a connection of either role, two sessions, two ids, room
for one in the cache: enough for eviction, replacement under an id in use, and
two threads in the same function. Sessions and ids are symmetric.

Assumption: an application offers a session that has no id yet to one connection
at a time (guard of `SSL_set_session`): the id is tested and written outside
`ctx->lock` (section 5).

### BioPair and BioPipe

`BioPipe` is what `BIO_s_bio.pod` promises: two halves joined by two bounded
first-in first-out pipes. `BioPair` is `bss_bio.c`: each half with its ring buffer
(`len`, `offset`, `size`, the array itself), `closed`, `request`, `peer` and
`init`. Every operation of the method table and every ctrl that changes state is
an action: `bio_new`, `bio_free`, `bio_read`, `bio_write`, `bio_nread0`,
`bio_nread`, `bio_nwrite0`, `bio_nwrite`, `bio_make_pair` and its failures,
`CtrlDestroyPair`, `CtrlSetWriteBufSize`, `CtrlShutdownWr`,
`CtrlResetReadRequest`, `CtrlReset`, `BIO_dup_chain`. A half may be paired with
itself. The copy of a half that `BIO_dup_chain` makes has `init` set and no peer
(`copied`); reads and writes, which would follow the missing peer, are not made on
it (`Connected`).

Properties: `ImplementsPipe` (the refinement, mapping the ring to the sequence it
holds), `PeersAgree`, `RingSound`, `RequestSound` (the comments on
`struct bio_bio_st`), `ClosedDrains`.

Bounds: two halves of which one writes, two different bytes, buffers of one or
three bytes, writes of one or two, reads of one or three: every wrap-around of
the ring, full and empty buffers, reads over the end of the array, and buffers
resized between two pairings. A region lent by `bio_nread0` or `bio_nwrite0` is
used before any other call is made, as the comments prescribe.

Fairness (`FairSpec`, for `ClosedDrains`): every half keeps being read.

### Lhash and Dictionary

`Dictionary` is the partial map of `lhash.pod`, with what every call returns.
`Lhash` is `lhash.c`: the bucket array exactly as allocated, `num_nodes`,
`num_alloc_nodes`, `p`, `pmax`, `num_items`, `down_load`, and a walk in progress.
Actions: `lh_insert` (with `expand`), `lh_delete` (with `contract`), `lh_retrieve`,
`BeginWalk` (`lh_doall` and the caller setting `down_load`), and `doall_util_fn`, one
item at a time, with a callback that may delete its item. A chain is a set of
nodes and a pointer into it the set of nodes from there on; a walk is measured by
the items it still owes a visit and those it has seen.

Properties: `ImplementsDictionary`; `CountExact`; `AllVisited` (a walk reaches every
item although the table shrinks under it), `NoSecondVisit`, `LiveChain` (it follows
no freed node), `ReadsInBounds` (it does not read beyond an array that was halved
under it), `WalkEnds`.

Bounds: two initial entries and at most six buckets, so that the array goes 2, 4,
8 and back; load factors 3, 3 and 1 instead of 256, 512 and 256; five keys, three of
which never part and are together in the top bucket of six. Failing allocations
of a node are included.

Assumptions: keys that compare equal hash alike; a callback deletes only its own
item, never inserts, and returns; a caller that deletes in a walk sets
`down_load = 0` first (`Careful`), as all callers in the library do
(ssl_sess.c:881, o_names.c:322, conf_api.c:137); `reallocarray` of the bucket array
does not fail (`ReallocFails = FALSE`). Section 5 says what happens otherwise.

Fairness: the loop of a walk runs to its end.

## 3. The runs

| Run | Configuration | States | What it shows |
|---|---|---|---|
| `dtls_record` | `MCDtlsRecord` | 96,218 | queues follow the epochs; buffered records are taken up |
| `dtls_record_poll` | `MCDtlsRecordPoll` | 148,322 | no replay, nothing unauthenticated, with leftovers of discarded records |
| `dtls_handshake` | `MCDtlsHandshake` | 373,855 | no check fails, no number is reused, both ends finish |
| `dtls_reassembly` | `MCDtlsReassembly` | 106,490 | messages arrive intact, in order; hashes agree |
| `handshake` | `MCHandshake` | 128,517 | no check fails, both ends agree and come to rest |
| `write` | `MCSsl3Write` | 58,568 | a server's stream is neither torn nor repeated |
| `write_client` | `MCSsl3WriteClient` | 4,216 | at a client, repeated writes succeed and renegotiations end |
| `session_cache` | `MCSessionCache` | 1,666,131 | exact references, table, list and limit in step |
| `bio_pair` | `MCBioPair` | 122,512 | the ring implements a pipe; a closed one drains |
| `lhash` | `MCLhash` | 136,993 | the table is a map; walks are complete, safe and end |
| `dtls_aead` | `MCDtlsAead` | violation | section 5, first entry |
| `dtls_fragment_retry` | `MCDtlsFragmentRetry` | violation | section 5, second entry |

Properties that TLAPS proves for every instance and that TLC could only repeat are
left to the proofs: `TypeOK` of `DtlsRecord`, `Ssl3Write`, `SessionCache` and `Lhash`,
`RingSound` of `BioPair`, `CountExact` of `Lhash`, and at a client `AckedIsWritten`
and `StreamContinues`. Between them the passing runs take every action and every disjunct of their
next-state relations.

## 4. The proofs

All theorems hold for every value of the constants that satisfies the named
assumptions of the modules (positive sizes, finite sets where something is
counted, the clamp of `satsub64be` not below the window width) and, where a
theorem says so, the further hypotheses below. None of the properties is
inductive by itself; each module strengthens them.

**DtlsRecordProofs**: `AntiReplay`, `Authenticity`, `NullBitmapNever`,
`TypeCorrect`. First `dtls1_record_replay_check` and `dtls1_record_bitmap_update` are
shown to be about "seen or left of the window", free of the clamp. The invariant
then says that every accepted record is *spent* (its epoch is past or its window
refuses it), that it is in one place only (in `rrec`, in one queue, or handed up),
and that the queue of unprocessed records belongs to one epoch. Without the last
part a record taken from the queue could meet the wrong window. `BufferedAlwaysFit`
adds (`FitInv`) that outside the loop of `dtls1_process_buffered_records` one of the two
queues is empty, and that inside it `processed_rcds` holds records of the current epoch.
`NeverStranded`, `EpochOnlyWhenAwaited` and `DiscardedNeverUsed` are about a socket
that waits for data (hypothesis `Waits`; with one that does not, a discarded
record is used, section 5). Their invariant (`WaitInv`) counts the handshakes begun
against the epoch, says that no datagram holds a ChangeCipherSpec of a handshake not
begun yet, and that records of the current epoch stay in `unprocessed_rcds` only while
the datagram at hand still has records, none of which can end the epoch.

**DtlsReassemblyProofs**: `CompleteExact` (for every length, the bit mask is
complete exactly when every byte has come), `FlightIntact`, `TypeCorrect`,
`RoomMadeOnce`, for any number of messages of any length and any cuts. The
invariant ties `init_off`, `init_num` and `frag_off` to the part of the body that is
still intact in the buffer, says that every fragment in the network carries the
bytes it claims, and that a marked bit means the right byte. `SameTranscript` adds
how far the sender has come with every message that is in the network or buffered
(`ProgressInv`: nobody receives a byte that was not written and hashed before), and where
each message lies in the sender's hash (`HashInv`); the receiver's hash then has the same
cells in the same places. Hypothesis of all but `CompleteExact`:
`WritesFail => NoQueryMtu`; the run `dtls_fragment_retry` shows that it is needed.

**HandshakeProofs** (with `HandshakeLemmas`): `EndsAgree` and `WellTyped`, for every set of
configurations, any number of renegotiations from either end and any amount of
data. The invariant (`Inv`) does not describe which pairs of states the two machines
can be in. It says of each end by itself (`Local`) what it has, as far as it has
come: a transcript that begins with the hellos it went by, and holds a
ServerHelloDone exactly if the handshake is a full one (`Digests`); the keys of its own
secrets and two Finished hashes of its own transcript (`Keys`); a session that the server
may resume only if it has the certificate the server insists on (`Sessioned`). Between
the ends it says (`Shared`) that the last Finished hash an end has sent is on its way, waits
at the peer as a message to be handled again, or was accepted. `ssl3_get_finished` compares the
hash it receives with its own, and a hash tells the master secret, the randoms, the cipher
and whether the handshake was a full one; so two ends at rest agree on all of them, although
nothing was said about how they got there together. `HandshakeLemmas` has the invariant and the
steps that take no message, `HandshakeProofs` the others. Hypothesis: `NullApart` (`NULL`
is no sequence and no message, as TLC's model value).

**Ssl3WriteProofs**: `AlwaysAckedIsWritten`, `AlwaysStreamContinues`,
`AlwaysRecordsComplete`, `AlwaysNoDataAfterClose`, `TypeCorrect`, for every fragment
length, mode and set of events. The invariant computes the position in the stream
from `acked`, `tot` or `wnum` and the record in the buffer; it needs what only a
client or only a server does, and it separates the connections stuck in a
handshake (section 5), the one way to lose `wnum`, after which no data is written.

**SessionCacheProofs**:
`ExactReferences`, `CacheConsistent`, `Bounded`, `TypeCorrect`, `NoDangling` and
`NegotiatesAlone`, for
any number of connections, sessions and ids. The invariant adds to the exact
counts what each place in a call holds (`Place`) and that what is stored under an
id has that id. A step is shown to keep it by what it takes and what it gives
up, with lemmas on cardinalities of the sets of holders. `NegotiatesAlone` follows
from a count: a session that a server negotiates has a single reference until
`ssl_update_cache` (`SoleInv`), and a reference that is the only one is nobody else's.

**BioPairProofs**: `Implements` (the refinement of `BioPipe`), `PeersAlwaysAgree`,
`RingAlwaysSound`, `RequestAlwaysSound`, `TypeCorrect`, for any number of BIOs, any
sizes and data. The lemmas treat one round of the copying loops and then both,
and relate the array to the sequence it holds.

**LhashProofs**: `Refinement` (of `Dictionary`) and `ItemsCounted`, if `reallocarray`
does not fail; `WalkComplete`, `WalkSafe`, `WalkOnce`, `WalkInBounds` and
`TypeCorrect` if moreover callers are careful and `MaxNodes <= 2 * LH_LOAD_MULT`
(512 buckets in the code). The invariant of the table says that every node is in the bucket `getrn`
looks in; it is kept because `h % 2m` is `h % m` or `(h % m) + m`, and because `pmax`
is the first size doubled some number of times, so that a reallocation back meets
an even size. The invariant of the walk says that an item not yet visited is in the
chain at hand or in a lower bucket, and that a walk with `down_load = 0` sees at most two
contractions, since up to 512 buckets a load of 0 needs an almost empty table.

Out of the prover's reach and therefore only model-checked: everything about
liveness and fairness (`BufferedRecordsSurface`, `ClosedDrains`, `WriteCompletes`,
`RenegotiationPerformed`, `ComesToRest`, `Completes`, `Arrives`, `WalkEnds`), and
`DtlsHandshake`, whose handshake hash and retransmission are recursive operators.
`NoSpuriousFailure` of `Handshake` is model-checked and not proved: it needs an invariant on
the pairs of states of the two machines and on all messages under way between them,
and it does not hold of every configuration (section 5, the ticket that is awaited and
not sent).

## 5. Where the code disagrees with what is written about it

Two disagreements have a run of their own, which TLC finds violated.

* **`dtls_aead`** (`RetransmittedAsSent`): `dtls1_retransmit_message` says it
  will "restore state in which the message was originally sent" (d1_both.c:1076),
  but `aead_write_ctx` is neither saved nor restored (d1_both.c:1077). With an AEAD
  cipher, what came before ChangeCipherSpec is sent again in records of the old
  epoch under the new key.
* **`dtls_fragment_retry`** (`HeaderRoomMadeOnce`): when the write of a later
  fragment fails and the MTU is then queried, the loop of `dtls1_do_write` takes
  `frag_off > 0` for "the first attempt at writing out this fragment"
  (d1_both.c:194, 211) and makes room for the header a second time; the repeated
  fragment begins with the header of the first attempt.

The others were met while modelling. Those marked * can be repeated with a
definition that is in the modules; the settings are given.

DTLS record layer

* \* A record discarded as of another epoch or as repeated (d1_pkt.c:527, 540; the
  comment at 524: "NULL means the packet is dropped on the floor") keeps
  `rr->length` set; if the transport has nothing more to read, the next
  `dtls1_read_bytes` finds it in `rrec` and acts on it. `DiscardedNotUsed`:
  `MCDtlsRecordPoll.cfg` with `Dgrams <- MCDgrams`. The same holds for a record of
  another version (494). `NoReplay` and `ActsOnAuthentic` are about records that
  `dtls1_get_record` returned; a leftover is marked `stale` and not one of them.
* "this packet contained a partial record, dump it" (516): `rstate` and
  `packet_length` are not reset, so that the header still counts as read when the
  loop comes round (`ReadBody` with an empty datagram).
* "insert should not fail, since duplicates are dropped" (161): the second copy of
  a record of the next epoch is refused by `pqueue_insert`.

DTLS handshake and fragments

* (a) is the run `dtls_aead`. (b) A repeated Finished leaves `handshake_fragment`
  filled (d1_pkt.c:978-985), and a renegotiation begun locally then fails with
  `SSL_R_BAD_LENGTH`. (c) With `SSL_OP_COOKIE_EXCHANGE` and no `DTLSv1_listen`
  a lost HelloVerifyRequest is not sent again (d1_srvr.c:323). (d) A late Finished
  of the handshake before is kept as a future message and fails a renegotiation
  (d1_both.c:687-690). (e) A HelloRequest that crosses a ClientHello leaves both ends
  waiting (d1_both.c:800-815). (f) A client does not clear `sent_messages` at a
  renegotiation after a resumed handshake, against the comment at d1_both.c:934.
  (g) A retransmission that meets a blocked write overwrites `init_buf`, and one
  whose later fragment fails leaves `init_off` set (the assertions at
  d1_both.c:1036-1038 are commented out). The configurations of `MCDtlsHandshake`
  keep clear of (b) to (g) and say so.

TLS handshake

* \* `tlsext_ticket_expected`, "session ticket expected to be received or sent"
  (ssl.h:1220), is not reset at a renegotiation (s3_clnt.c:138, t1_lib.c:1994): a
  client may wait for a ticket that is not sent. `TicketAwaitedIsSent`:
  `MCHandshake.cfg` with `Configs <- MCTicketConfigs`, `MaxData = 0`.
* Application data under way when a renegotiation runs in `SSL_write` is fatal
  (s3_pkt.c:1343-1362); `in_read_app_data` may stay 2 (s3_lib.c:2487-2499);
  `SSL_renegotiate` during a handshake loses `new_session`.

Writing and shutdown

* \* A server that reads a ClientHello while a record of data is in the buffer
  (s3_pkt.c:1289) fails both the handshake and `SSL_write` with
  `SSL_R_BAD_WRITE_RETRY` from then on; SSL_write.pod:22 has it "performed
  transparently during the SSL_write() operation". `RenegotiationPerformed` for
  `Ssl3Write` under `FairSpec` with `MaxFragment = 2`, `Units = 2`, `Modes = {{}}`,
  `HsMessages = 2`, `HsLength = 1`, `Events = {"hello"}`, `StreamLength = 3`.
* \* An older warning alert still in the buffer is taken for close_notify when
  `SSL_shutdown` is repeated (s3_pkt.c:1447); it returns 1, though SSL_shutdown.pod:104
  says "The "close notify" alert was sent". `ShutdownMeansSent`, same settings,
  `Spec`, `Events = {"shutdown", "refused"}`.
* An alert put off because data is being written (s3_pkt.c:1433) is not written
  after a shutdown; one that is blocked between two fragments makes `SSL_write`
  fail with a bad retry for ever (s3_pkt.c:474; SSL_get_error.pod:53 promises progress).

Session cache

* SSL_CTX_sess_set_cache_size.pod:28 says that "no more new sessions are added" to a
  full cache; the oldest is evicted (ssl_sess.c:607).
* A bad session removed by `SSL_clear` (SSL_clear.pod:22) comes back from the external
  cache if it is looked up before `remove_session_cb` is called (ssl_sess.c:638).
  `remove_session_cb` is called with `ctx->lock` held at an eviction (608).
* "The following should not return 1" (465) of `SSL_CTX_add_session` in
  `ssl_get_prev_session`: it returns 1 whenever the session was not cached.
* A session without id may be shared by two clients, which both find it so and both
  write its id (s3_clnt.c:774 and 779, 1682 and 1738); `not_resumable` is
  copied by `ssl_session_dup` (s3_clnt.c:1699); the automatic flush "every 255" is
  every 256 and may be skipped (ssl_lib.c:2098); a session in the caches of two
  contexts has one pair of list links (ssl_sess.c:907).

BIO pairs

* "peer != NULL iff init != 0 in the BIO" (bss_bio.c:56): `BIO_dup_chain` copies
  `init` (bio_lib.c:493) and not the peer, so that the copy of a paired half has the
  one without the other.
* `BIO_get_read_request` may exceed `BIO_get_write_guarantee` after
  `BIO_shutdown_wr` (bss_bio.c:486); `BIO_eof` passes no second BIO (bio.h:469), so
  that it is always 1 for a half (bss_bio.c:578), while BIO_ctrl.pod:85 says
  "BIO_eof() returns 1 if EOF has been reached 0 otherwise"; a region lent by
  `bio_nwrite0` (341) may no longer be what a later `bio_nwrite` takes, if other
  calls come between.

Hash table

* `ReallocFails = TRUE`: a failing `expand` sets `p = 0` but not `pmax`
  (lhash.c:217-221), so that items of the upper half are no longer found; a failing
  `contract` loses the chain of the top bucket (240-244). `TypeOK` and
  `ImplementsDictionary` are violated.
* `Careful = FALSE`: callbacks that delete with the default `down_load` may shrink the
  array so far within one chain that the loop index is beyond it (`ReadsInBounds`
  violated); lhash.pod says only that "this could cause some entries to be
  skipped during the iteration".
* lhash.pod says that `down_load = 0` "will stop the hash table ever decreasing in
  size"; it still decreases when `num_items * 256 < num_nodes` (lhash.c:127-128). Up to
  512 buckets this is harmless, as proved; beyond that no claim is made.

## 6. What is not modelled

Within the modelled parts (their status in `PROJECT.json` is `partly`, except for
the BIO pairs):

* listen mode and fatal errors in `DtlsRecord`; encryption, quiet shutdown and the
  states after a fatal alert in `Ssl3Write`; `NO_INTERNAL_*` modes, contexts that
  share sessions, `SSL_CTX_free` and failing allocations in `SessionCache`;
* contents of certificates and key exchanges, extensions other than tickets, status,
  next protocol and the renegotiation binding, and messages a correct peer does not
  send, in both handshakes;
* the multi-block branch of `ssl3_write_bytes` (s3_pkt.c:483-614), which no build
  contains: its macro is set to 0 with and without assembler (s3_pkt.c:21-25);
* blocked writes during DTLS retransmission, which the code does not support;
* callbacks of `lh_doall` that insert or delete other items, `lh_strhash`, statistics.

Whole parts:

* **The receiving TLS record layer below `ssl3_read_bytes`** (`ssl3_read_n`,
  `ssl3_get_record`): the models read whole records from a reliable stream.
* **Version negotiation** (`s23_*.c`): one exchange of hellos before `Handshake`.
* **Extensions, cipher and certificate selection, key derivation**: functions of a
  message and the configuration; their results are the configurations of
  `Handshake`.
* **Getters, setters, method tables, text and ASN.1 forms** of `ssl/`.
* **`pqueue`**: a sorted list, used in the models as the set it stands for, with its
  refusal of a second item of the same priority.
* **Ciphers, digests, big numbers, public keys** (`crypto/aes` to `crypto/whrlpool`,
  `bn`, `rsa`, `ec`, ...), most of the repository's lines: arithmetic on long words
  and large integers, partly generated assembler. It has no interleavings or
  histories; TLC cannot enumerate its inputs, and what its loops compute for all
  inputs needs induction over data, which the installed provers do not do.
* **ASN.1, X.509, PEM, PKCS, OCSP, TS**: recursive parsers and templates, whose
  interest is in the data that a model would abstract.
* **Engines, loadable modules, configuration files, error queues, locks, random
  numbers, other BIOs, containers**: calls of the operating system, per-thread or
  sequential state, or the same reference counting that `SessionCache` treats.
* **apps, tests, util, CMake, doc**: read for how the library is used.

The share of the repository's lines that the models stand for is accordingly small
(the cryptographic code dominates the count); the models concentrate on the
state-changing paths of the connection, record, session and handshake code.
