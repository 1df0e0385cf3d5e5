------------------------------ MODULE BioPair ------------------------------
(***************************************************************************)
(* BIO pairs (crypto/bio/bss_bio.c).  Each half owns a ring buffer for     *)
(* what is written to it; the other half reads from it.  The calls are     *)
(* made by one thread, in any order, on any of the BIOs.                   *)
(*                                                                         *)
(* bio_nread0 and bio_nwrite0 lend a part of the ring to the caller.  They *)
(* are modelled together with the call that completes them, with no other  *)
(* call in between ("bio_nread0(), read from buffer, bio_nread()").        *)
(***************************************************************************)
EXTENDS Integers, Sequences

CONSTANTS Bios,         \* the BIOs of the program
          Bytes,        \* the bytes that are written
          Writers,      \* the BIOs the program writes to
          Data,         \* what one call may write, a set of sequences
          Amounts,      \* how much one call may ask to read
          Sizes,        \* the sizes given to BIO_set_write_buf_size
          DefaultSize,  \* 17 * 1024
          NULL          \* no peer, or no buffer

ASSUME PairAssumption ==
    /\ Data \subseteq Seq(Bytes)
    /\ \A d \in Data : d # << >>
    /\ Amounts \subseteq Nat \ {0}
    /\ Sizes \subseteq Nat \ {0}
    /\ DefaultSize \in Sizes
    /\ NULL \notin Bios
    /\ NULL \notin Bytes

VARIABLES alive,    \* the BIO exists
          init,     \* bio->init
          peer,     \* b->peer
          closed,   \* b->closed
          ring,     \* b->buf, b->len, b->offset and b->size
          request,  \* b->request
          res,      \* history: the last call that was to move at least one
                    \* byte, its result and the bytes it moved
          copied    \* history: made by BIO_dup_chain and not paired since

vars == <<alive, init, peer, closed, ring, request, res, copied>>

-----------------------------------------------------------------------------
(* The ring buffer.  has is TRUE when buf has been allocated; the domain   *)
(* of buf is then what was allocated, whatever size says.                  *)

NewRing(n) == [size |-> n, len |-> 0, offset |-> 0, has |-> FALSE, buf |-> << >>]

(* An array with nothing valid in it: NULL stands for what malloc or an    *)
(* earlier use left there.                                                 *)
Emptied(r) ==
    [size |-> r.size, len |-> 0, offset |-> 0, has |-> TRUE,
     buf |-> [i \in 0 .. r.size - 1 |-> NULL]]

Allocated(r) == IF r.has THEN r ELSE Emptied(r)

Unallocated(r) == NewRing(r.size)

Least(m, n) == IF m <= n THEN m ELSE n

(* First byte that can be written. *)
WriteOffset(r) ==
    IF r.offset + r.len >= r.size THEN r.offset + r.len - r.size
                                  ELSE r.offset + r.len

(* One round of the loop in bio_write: as much of d, from its byte k on,   *)
(* as fits before the end of the array.                                    *)
WriteChunk(r, rest) ==
    Least(rest, r.size - WriteOffset(r))

WriteOnce(r, d, k, rest) ==
    LET wo == WriteOffset(r)
        chunk == WriteChunk(r, rest)
    IN  [size |-> r.size, len |-> r.len + chunk, offset |-> r.offset,
         has |-> r.has,
         buf |-> [i \in 0 .. r.size - 1 |->
                    IF i >= wo /\ i < wo + chunk THEN d[k + i - wo] ELSE r.buf[i]]]

(* Mutant: the second chunk is taken from the start of the data again. *)
RingWriteAgain(r, d, num) ==
    LET chunk == WriteChunk(r, num)
        once == WriteOnce(r, d, 1, num)
    IN  IF chunk = num THEN once ELSE WriteOnce(once, d, 1, num - chunk)

(* "one or two iterations" *)
RingWrite(r, d, num) ==
    LET chunk == WriteChunk(r, num)
        once == WriteOnce(r, d, 1, num)
    IN  IF chunk = num THEN once
                       ELSE WriteOnce(once, d, chunk + 1, num - chunk)

(* One round of the loop in bio_read. *)
ReadChunk(r, rest) ==
    Least(rest, r.size - r.offset)

ReadOnce(r, rest) ==
    LET chunk == ReadChunk(r, rest)
        off == r.offset + chunk
    IN  [size |-> r.size, len |-> r.len - chunk,
         offset |-> IF r.len = chunk \/ off = r.size THEN 0 ELSE off,
         has |-> r.has, buf |-> r.buf]

Copied(r, chunk) == [i \in 1 .. chunk |-> r.buf[r.offset + i - 1]]

RingRead(r, num) ==
    LET once == ReadOnce(r, num)
    IN  IF ReadChunk(r, num) = num THEN once
                                   ELSE ReadOnce(once, num - ReadChunk(r, num))

BytesRead(r, num) ==
    LET chunk == ReadChunk(r, num)
    IN  IF chunk = num THEN Copied(r, num)
                       ELSE Copied(r, chunk) \o Copied(ReadOnce(r, num), num - chunk)

-----------------------------------------------------------------------------
(* Creation, pairing and destruction *)

Result(n, d, r) == [ret |-> n, data |-> d, retry |-> r]

Init ==
    /\ alive = [b \in Bios |-> FALSE]
    /\ init = [b \in Bios |-> FALSE]
    /\ peer = [b \in Bios |-> NULL]
    /\ closed = [b \in Bios |-> FALSE]
    /\ ring = [b \in Bios |-> NewRing(DefaultSize)]
    /\ request = [b \in Bios |-> 0]
    /\ res = Result(0, << >>, "none")
    /\ copied = [b \in Bios |-> FALSE]

(* A BIO as BIO_new leaves it, but for its size and its init. *)
New(b, n, ready, dup) ==
    /\ ~alive[b]
    /\ alive' = [alive EXCEPT ![b] = TRUE]
    /\ init' = [init EXCEPT ![b] = ready]
    /\ peer' = [peer EXCEPT ![b] = NULL]
    /\ closed' = [closed EXCEPT ![b] = FALSE]
    /\ ring' = [ring EXCEPT ![b] = NewRing(n)]
    /\ request' = [request EXCEPT ![b] = 0]
    /\ copied' = [copied EXCEPT ![b] = dup]
    /\ UNCHANGED res

bio_new(b) == New(b, DefaultSize, FALSE, FALSE)

(* A new BIO gets the init of b, BIO_CTRL_DUP gives it the size of b. *)
BIO_dup_chain(b, other) == alive[b] /\ New(other, ring[b].size, init[b], TRUE)

(* Mutant: a buffer of the old size is kept. *)
SetWriteBufSizeKeeps(b, n) ==
    /\ alive[b]
    /\ peer[b] = NULL
    /\ ring' = [ring EXCEPT ![b].size = n]
    /\ UNCHANGED <<alive, init, peer, closed, request, res, copied>>

CtrlSetWriteBufSize(b, n) ==
    /\ alive[b]
    /\ peer[b] = NULL                  \* otherwise BIO_R_IN_USE
    /\ ring[b].size # n
    /\ ring' = [ring EXCEPT ![b] =
                  [size |-> n, len |-> @.len, offset |-> @.offset,
                   has |-> FALSE, buf |-> << >>]]
    /\ UNCHANGED <<alive, init, peer, closed, request, res, copied>>

(* Nothing keeps the caller from pairing a BIO with itself. *)
bio_make_pair(a, b) ==
    /\ alive[a]
    /\ alive[b]
    /\ peer[a] = NULL
    /\ peer[b] = NULL
    /\ ring' = [ring EXCEPT ![a] = Allocated(ring[a]), ![b] = Allocated(ring[b])]
    /\ peer' = [peer EXCEPT ![a] = b, ![b] = a]
    /\ closed' = [closed EXCEPT ![a] = FALSE, ![b] = FALSE]
    /\ request' = [request EXCEPT ![a] = 0, ![b] = 0]
    /\ init' = [init EXCEPT ![a] = TRUE, ![b] = TRUE]
    /\ copied' = [copied EXCEPT ![a] = FALSE, ![b] = FALSE]
    /\ UNCHANGED <<alive, res>>

(* malloc fails for the second buffer, which it is not called for when a   *)
(* BIO is paired with itself: the first one is kept.                       *)
MakePairFails(a, b) ==
    /\ alive[a]
    /\ alive[b]
    /\ peer[a] = NULL
    /\ peer[b] = NULL
    /\ a # b /\ ~ring[b].has
    /\ ring' = [ring EXCEPT ![a] = Allocated(@)]
    /\ UNCHANGED <<alive, init, peer, closed, request, res, copied>>

(* Mutant: the other half still takes itself for connected. *)
DestroyPairOneSided(b, own) ==
    /\ peer' = [peer EXCEPT ![b] = NULL]
    /\ init' = [init EXCEPT ![b] = FALSE]
    /\ ring' = [ring EXCEPT ![b] = own]

(* bio_destroy_pair of a half that has a peer.  own is the buffer b is     *)
(* left with.  request is left alone.                                      *)
bio_destroy_pair(b, own) ==
    /\ peer' = [peer EXCEPT ![b] = NULL, ![peer[b]] = NULL]
    /\ init' = [init EXCEPT ![b] = FALSE, ![peer[b]] = FALSE]
    /\ ring' = [ring EXCEPT ![peer[b]] = Emptied(@), ![b] = own]

CtrlDestroyPair(b) ==
    /\ alive[b]
    /\ peer[b] # NULL
    /\ bio_destroy_pair(b, Emptied(ring[b]))
    /\ UNCHANGED <<alive, closed, request, res, copied>>

(* The buffer is freed.  Nothing else of a BIO that is gone has a value;   *)
(* init, request and copied are reset.                                     *)
bio_free(b) ==
    /\ alive[b]
    /\ alive' = [alive EXCEPT ![b] = FALSE]
    /\ IF peer[b] # NULL
       THEN bio_destroy_pair(b, Unallocated(ring[b]))
       ELSE /\ init' = [init EXCEPT ![b] = FALSE]
            /\ ring' = [ring EXCEPT ![b] = Unallocated(@)]
            /\ UNCHANGED peer
    /\ request' = [request EXCEPT ![b] = 0]
    /\ copied' = [copied EXCEPT ![b] = FALSE]
    /\ UNCHANGED <<closed, res>>

-----------------------------------------------------------------------------
(* The calls test init, then assert that there is a peer: on a copy of a   *)
(* paired half the assertion ends the program.                             *)
Connected(b) == init[b] /\ peer[b] # NULL

(* Reading.  The ring is that of the peer. *)

Setting(b, field) == [request EXCEPT ![b] = field]

(* Nothing is available: end of file, or a request for up to n bytes. *)
ReadEmpty(b, n) ==
    LET p == peer[b]
    IN  /\ ring[p].len = 0
        /\ IF closed[p]
           THEN /\ request' = Setting(p, 0)
                /\ res' = Result(0, << >>, "none")
           ELSE /\ request' = Setting(p, Least(n, ring[p].size))
                /\ res' = Result(-1, << >>, "read")
        /\ UNCHANGED ring

bio_read(b, n) ==
    /\ Connected(b)
    /\ LET p == peer[b]
           num == Least(n, ring[p].len)
       IN  \/ ReadEmpty(b, n)
           \/ /\ ring[p].len > 0
              /\ ring' = [ring EXCEPT ![p] = RingRead(@, num)]
              /\ request' = Setting(p, 0)
              /\ res' = Result(num, BytesRead(ring[p], num), "none")
    /\ UNCHANGED <<alive, init, peer, closed, copied>>

(* A read of zero bytes only withdraws the request. *)
ReadZero(b) ==
    /\ Connected(b)
    /\ request' = Setting(peer[b], 0)
    /\ UNCHANGED <<alive, init, peer, closed, ring, res, copied>>

(* Bytes up to the end of the array: "no ring buffer wrap-around". *)
bio_nread0(b) ==
    /\ Connected(b)
    /\ LET p == peer[b]
           num == ReadChunk(ring[p], ring[p].len)
       IN  \/ ReadEmpty(b, 1)
           \/ /\ ring[p].len > 0
              /\ request' = Setting(p, 0)
              /\ res' = Result(num, Copied(ring[p], num), "none")
              /\ UNCHANGED ring
    /\ UNCHANGED <<alive, init, peer, closed, copied>>

bio_nread(b, n) ==
    /\ Connected(b)
    /\ LET p == peer[b]
           num == Least(n, ReadChunk(ring[p], ring[p].len))
       IN  \/ ReadEmpty(b, 1)
           \/ /\ ring[p].len > 0
              /\ ring' = [ring EXCEPT ![p] = ReadOnce(@, num)]
              /\ request' = Setting(p, 0)
              /\ res' = Result(num, Copied(ring[p], num), "none")
    /\ UNCHANGED <<alive, init, peer, closed, copied>>

-----------------------------------------------------------------------------
(* Writing.  A write of zero bytes returns early and changes nothing. *)

Space(r) == r.size - r.len

(* The call fails for good after BIO_shutdown_wr, for now when full. *)
WriteRefused(b) ==
    /\ \/ closed[b] /\ res' = Result(-1, << >>, "none")
       \/ ~closed[b] /\ Space(ring[b]) = 0 /\ res' = Result(-1, << >>, "write")
    /\ UNCHANGED ring

(* Mutant: the reader's request stays although it is being served. *)
WriteKeepsRequest(b, d) ==
    /\ Connected(b)
    /\ LET num == Least(Len(d), Space(ring[b]))
       IN  /\ ~closed[b]
           /\ Space(ring[b]) > 0
           /\ ring' = [ring EXCEPT ![b] = RingWrite(@, d, num)]
           /\ res' = Result(num, SubSeq(d, 1, num), "none")
    /\ UNCHANGED <<alive, init, peer, closed, request, copied>>

(* Mutant: BIO_shutdown_wr is ignored. *)
WriteAfterClose(b, d) ==
    /\ Connected(b)
    /\ request' = Setting(b, 0)
    /\ LET num == Least(Len(d), Space(ring[b]))
       IN  /\ Space(ring[b]) > 0
           /\ ring' = [ring EXCEPT ![b] = RingWrite(@, d, num)]
           /\ res' = Result(num, SubSeq(d, 1, num), "none")
    /\ UNCHANGED <<alive, init, peer, closed, copied>>

bio_write(b, d) ==
    /\ Connected(b)
    /\ request' = Setting(b, 0)
    /\ LET num == Least(Len(d), Space(ring[b]))
       IN  \/ WriteRefused(b)
           \/ /\ ~closed[b]
              /\ Space(ring[b]) > 0
              /\ ring' = [ring EXCEPT ![b] = RingWrite(@, d, num)]
              /\ res' = Result(num, SubSeq(d, 1, num), "none")
    /\ UNCHANGED <<alive, init, peer, closed, copied>>

bio_nwrite0(b) ==
    /\ Connected(b)
    /\ request' = Setting(b, 0)
    /\ \/ WriteRefused(b)
       \/ /\ ~closed[b]
          /\ Space(ring[b]) > 0
          /\ res' = Result(WriteChunk(ring[b], Space(ring[b])), << >>, "none")
          /\ UNCHANGED ring
    /\ UNCHANGED <<alive, init, peer, closed, copied>>

(* The caller fills what bio_nwrite0 lends it with d. *)
bio_nwrite(b, d) ==
    /\ Connected(b)
    /\ request' = Setting(b, 0)
    /\ LET num == Least(Len(d), Space(ring[b]))
           chunk == WriteChunk(ring[b], num)
       IN  \/ WriteRefused(b)
           \/ /\ ~closed[b]
              /\ Space(ring[b]) > 0
              /\ ring' = [ring EXCEPT ![b] = WriteOnce(@, d, 1, num)]
              /\ res' = Result(chunk, SubSeq(d, 1, chunk), "none")
    /\ UNCHANGED <<alive, init, peer, closed, copied>>

-----------------------------------------------------------------------------
(* bio_ctrl *)

(* Also on a half without a peer. *)
CtrlShutdownWr(b) ==
    /\ alive[b]
    /\ closed' = [closed EXCEPT ![b] = TRUE]
    /\ UNCHANGED <<alive, init, peer, ring, request, res, copied>>

CtrlResetReadRequest(b) ==
    /\ alive[b]
    /\ request' = Setting(b, 0)
    /\ UNCHANGED <<alive, init, peer, closed, ring, res, copied>>

CtrlReset(b) ==
    /\ alive[b]
    /\ ring[b].has
    /\ ring' = [ring EXCEPT ![b] = Emptied(@)]
    /\ UNCHANGED <<alive, init, peer, closed, request, res, copied>>

(* BIO_read, BIO_write and the four non-copying calls check init. *)
Uninitialised(b) ==
    /\ alive[b]
    /\ ~init[b]
    /\ res' = Result(-2, << >>, "none")
    /\ UNCHANGED <<alive, init, peer, closed, ring, request, copied>>

Next ==
    \E b \in Bios :
        \/ bio_new(b) \/ bio_free(b) \/ CtrlDestroyPair(b)
        \/ \E a \in Bios : BIO_dup_chain(a, b) \/ bio_make_pair(a, b) \/ MakePairFails(a, b)
        \/ \E n \in Sizes : CtrlSetWriteBufSize(b, n)
        \/ \E n \in Amounts : bio_read(b, n) \/ bio_nread(b, n)
        \/ ReadZero(b) \/ bio_nread0(b)
        \/ b \in Writers /\ \E d \in Data : bio_write(b, d) \/ bio_nwrite(b, d)
        \/ bio_nwrite0(b) \/ CtrlShutdownWr(b) \/ CtrlResetReadRequest(b) \/ CtrlReset(b)
        \/ Uninitialised(b)

Spec == Init /\ [][Next]_vars

(* Every half keeps being read. *)
FairSpec ==
    Spec /\ \A b \in Bios : WF_vars(\E n \in Amounts : bio_read(b, n))

-----------------------------------------------------------------------------
(* Properties *)

Rings ==
    [size : Sizes, len : Nat, offset : Nat, has : BOOLEAN,
     buf : {<< >>} \cup UNION {[0 .. n - 1 -> Bytes \cup {NULL}] : n \in Sizes}]

(* Every field has its type, and the array has size elements whenever it   *)
(* is there, however BIO_set_write_buf_size and failed pairings alternate. *)
TypeOK ==
    /\ alive \in [Bios -> BOOLEAN]
    /\ init \in [Bios -> BOOLEAN]
    /\ peer \in [Bios -> Bios \cup {NULL}]
    /\ closed \in [Bios -> BOOLEAN]
    /\ ring \in [Bios -> Rings]
    /\ \A b \in Bios :
          ring[b].has => ring[b].buf \in [0 .. ring[b].size - 1 -> Bytes \cup {NULL}]
    /\ request \in [Bios -> Nat]
    /\ res \in [ret : Int, data : Seq(Bytes), retry : {"none", "read", "write"}]
    /\ copied \in [Bios -> BOOLEAN]

(* The comments on struct bio_bio_st: peers point at each other and exist, *)
(* a half with a peer has its buffer, and "peer != NULL iff init != 0 in   *)
(* the BIO".  The copy BIO_dup_chain makes of a paired half is the one     *)
(* exception: it has the init of that half and no peer.                    *)
PeersAgree ==
    \A b \in Bios :
        /\ init[b] /\ ~copied[b] => peer[b] # NULL
        /\ peer[b] # NULL => init[b] /\ alive[b] /\ peer[peer[b]] = b /\ ring[b].has

(* More comments on struct bio_bio_st: the ring never holds more than its  *)
(* size, offset is a valid index and 0 when the ring is empty, and a half  *)
(* without a peer holds nothing.                                           *)
RingSound ==
    \A b \in Bios :
        /\ ring[b].len <= ring[b].size
        /\ ring[b].offset < ring[b].size
        /\ ring[b].len = 0 => ring[b].offset = 0
        /\ peer[b] = NULL => ring[b].len = 0

(* The comment on request: 0 if len != 0, and never more than the space in *)
(* the buffer.                                                             *)
RequestSound ==
    \A b \in Bios :
        peer[b] # NULL /\ request[b] # 0 =>
            ring[b].len = 0 /\ request[b] <= Space(ring[b])

(* What the ring holds, oldest byte first. *)
Contents(r) ==
    [i \in 1 .. r.len |->
        r.buf[IF r.offset + i - 1 >= r.size THEN r.offset + i - 1 - r.size
                                            ELSE r.offset + i - 1]]

Pipe == INSTANCE BioPipe WITH
            pipe <- [b \in Bios |-> Contents(ring[b])],
            size <- [b \in Bios |-> ring[b].size]

(* Whatever mixture of copying and non-copying calls is used, each byte    *)
(* written comes out once, in order, at the other half; a call takes or    *)
(* gives something whenever it can and asks for a retry otherwise; end of  *)
(* file is seen only after the last byte.                                  *)
ImplementsPipe == Pipe!Spec

(* BIO_s_bio.pod on BIO_shutdown_wr: a reader that keeps reading gets to   *)
(* the end of the data.                                                    *)
ClosedDrains ==
    \A b \in Bios : closed[b] /\ peer[b] # NULL ~> ring[b].len = 0
====
