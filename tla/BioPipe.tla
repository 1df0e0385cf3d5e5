------------------------------ MODULE BioPipe ------------------------------
(***************************************************************************)
(* What a BIO pair promises (doc/crypto/BIO_s_bio.pod): two halves joined  *)
(* by two bounded first-in first-out pipes, one for each direction.  How   *)
(* the bytes are kept is left open; BioPair implements this specification  *)
(* with a ring buffer.                                                     *)
(***************************************************************************)
EXTENDS Integers, Sequences

CONSTANTS Bios,        \* the BIOs of the program
          Bytes,       \* the bytes that are written
          Data,        \* what one call may write, a set of sequences
          Amounts,     \* how much one call may ask to read
          Sizes,       \* the sizes a write buffer may have
          NULL         \* no peer

VARIABLES pipe,        \* pipe[b]: written to b, not yet read from its peer
          peer,        \* the other half, or NULL
          closed,      \* BIO_shutdown_wr was called
          size,        \* capacity of the pipe
          res          \* the last call: its result and the bytes it moved

vars == <<pipe, peer, closed, size, res>>

Result(n, d, r) == [ret |-> n, data |-> d, retry |-> r]

Minimum(m, n) == IF m <= n THEN m ELSE n

Init ==
    /\ pipe = [b \in Bios |-> << >>]
    /\ peer = [b \in Bios |-> NULL]
    /\ closed = [b \in Bios |-> FALSE]
    /\ size \in [Bios -> Sizes]
    /\ res = Result(0, << >>, "none")

Pair(a, b) ==
    /\ peer[a] = NULL
    /\ peer[b] = NULL
    /\ peer' = [peer EXCEPT ![a] = b, ![b] = a]
    /\ closed' = [closed EXCEPT ![a] = FALSE, ![b] = FALSE]
    /\ pipe' = [pipe EXCEPT ![a] = << >>, ![b] = << >>]
    /\ UNCHANGED <<size, res>>

(* What was not read yet is lost, on both sides. *)
Unpair(b) ==
    /\ peer[b] # NULL
    /\ peer' = [peer EXCEPT ![b] = NULL, ![peer[b]] = NULL]
    /\ pipe' = [pipe EXCEPT ![b] = << >>, ![peer[b]] = << >>]
    /\ UNCHANGED <<closed, size, res>>

(* A half without a peer may change its capacity and its closed flag. *)
Configure(b) ==
    /\ peer[b] = NULL
    /\ \E n \in Sizes : size' = [size EXCEPT ![b] = n]
    /\ \E c \in BOOLEAN : closed' = [closed EXCEPT ![b] = c]
    /\ UNCHANGED <<pipe, peer, res>>

(* The first k bytes of d go into the pipe. *)
Put(b, d, k) ==
    /\ peer[b] # NULL
    /\ ~closed[b]
    /\ k \in 1 .. Minimum(Len(d), size[b] - Len(pipe[b]))
    /\ pipe' = [pipe EXCEPT ![b] = @ \o SubSeq(d, 1, k)]
    /\ res' = Result(k, SubSeq(d, 1, k), "none")
    /\ UNCHANGED <<peer, closed, size>>

WriteRefused(b) ==
    /\ peer[b] # NULL
    /\ \/ closed[b] /\ res' = Result(-1, << >>, "none")
       \/ ~closed[b] /\ Len(pipe[b]) = size[b] /\ res' = Result(-1, << >>, "write")
    /\ UNCHANGED <<pipe, peer, closed, size>>

(* The first k bytes of what the peer wrote come out. *)
Take(b, n, k) ==
    /\ peer[b] # NULL
    /\ k \in 1 .. Minimum(n, Len(pipe[peer[b]]))
    /\ res' = Result(k, SubSeq(pipe[peer[b]], 1, k), "none")
    /\ pipe' = [pipe EXCEPT ![peer[b]] = SubSeq(@, k + 1, Len(@))]
    /\ UNCHANGED <<peer, closed, size>>

(* End of file once the peer has closed, a retry before that. *)
NothingToRead(b) ==
    /\ peer[b] # NULL
    /\ pipe[peer[b]] = << >>
    /\ res' = IF closed[peer[b]] THEN Result(0, << >>, "none")
                                 ELSE Result(-1, << >>, "read")
    /\ UNCHANGED <<pipe, peer, closed, size>>

(* BIO_nread0 shows some of what can be read, BIO_nwrite0 says how much    *)
(* can be written without another call.                                    *)
Peek(b, k) ==
    /\ peer[b] # NULL
    /\ k \in 1 .. Len(pipe[peer[b]])
    /\ res' = Result(k, SubSeq(pipe[peer[b]], 1, k), "none")
    /\ UNCHANGED <<pipe, peer, closed, size>>

Room(b, k) ==
    /\ peer[b] # NULL
    /\ ~closed[b]
    /\ k \in 1 .. size[b] - Len(pipe[b])
    /\ res' = Result(k, << >>, "none")
    /\ UNCHANGED <<pipe, peer, closed, size>>

Shutdown(b) ==
    /\ closed' = [closed EXCEPT ![b] = TRUE]
    /\ UNCHANGED <<pipe, peer, size, res>>

Reset(b) ==
    /\ pipe' = [pipe EXCEPT ![b] = << >>]
    /\ UNCHANGED <<peer, closed, size, res>>

Uninitialised(b) ==
    /\ peer[b] = NULL
    /\ res' = Result(-2, << >>, "none")
    /\ UNCHANGED <<pipe, peer, closed, size>>

Next ==
    \E b \in Bios :
        \/ \E a \in Bios : Pair(a, b)
        \/ Unpair(b) \/ Configure(b) \/ Shutdown(b) \/ Reset(b)
        \/ \E d \in Data : \E k \in 1 .. Len(d) : Put(b, d, k)
        \/ \E n \in Amounts : \E k \in 1 .. n : Take(b, n, k)
        \/ WriteRefused(b) \/ NothingToRead(b) \/ Uninitialised(b)
        \/ \E k \in 1 .. size[b] : Room(b, k)
        \/ peer[b] # NULL /\ \E k \in 1 .. size[peer[b]] : Peek(b, k)

Spec == Init /\ [][Next]_vars
====
