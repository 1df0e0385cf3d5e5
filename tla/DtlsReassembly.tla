--------------------------- MODULE DtlsReassembly ---------------------------
(***************************************************************************)
(* One flight of DTLS handshake messages on its way from one end to the    *)
(* other (src/ssl/d1_both.c): dtls1_do_write cuts the message in init_buf  *)
(* into fragments that fit the datagram, writing each fragment's header    *)
(* over bytes of the buffer that are already sent; dtls1_retransmit_       *)
(* buffered_messages sends the flight again, cut differently when the room *)
(* has changed; the network loses, repeats and reorders the fragments; the *)
(* receiver puts them together with a bit mask per message, keeps later    *)
(* messages in an ordered queue and hands them on in order.                *)
(*                                                                         *)
(* DtlsHandshake composes two ends and takes a message as one unit (or two *)
(* parts); the bytes are here.  A byte of message q is <<q, i>>; a cell of *)
(* a fragment's header is Header, one of unwritten memory is Junk.         *)
(***************************************************************************)
EXTENDS Integers, Sequences

CONSTANTS Count,       \* messages in the flight, numbered from 0
          MsgLen,      \* MsgLen[q]: length of the body of message q
          HL,          \* DTLS1_HM_HEADER_LENGTH
          Rooms,       \* values of curr_mtu, the room for header and data
          Window,      \* a message further ahead than this is dropped (10)
          WritesFail,  \* may the write of a datagram fail for a while
          NoQueryMtu   \* SSL_OP_NO_QUERY_MTU

MsgId == 0 .. Count - 1

ASSUME CountAssumption == Count \in Nat
ASSUME MsgLenAssumption == MsgLen \in [MsgId -> Nat]
ASSUME HLAssumption == HL \in Nat \ {0}
ASSUME RoomsAssumption == Rooms \subseteq {r \in Nat : r > HL}
ASSUME WindowAssumption == Window \in Nat
ASSUME FlagsAssumption == {WritesFail, NoQueryMtu} \subseteq BOOLEAN

Header == <<-1, 0>>
Junk == <<-2, 0>>
Cell == (MsgId \X Nat) \cup {Header, Junk}
Byte(q, i) == <<q, i>>

\* The body of message q, as its sender serialised it.
Body(q) == [i \in 0 .. MsgLen[q] - 1 |-> Byte(q, i)]

(***************************************************************************)
(* The bit mask of a message under reassembly: for each of its bytes the   *)
(* set of bits that are one.                                               *)
(***************************************************************************)
StartBits(k) == k .. 7                           \* bitmask_start_values
EndBits(k) == IF k = 0 THEN 0 .. 7 ELSE 0 .. k - 1 \* bitmask_end_values

\* Mutant: the table is indexed by the last bit instead of the one after it.
MarkShortOfEnd(bitmask, start, end) ==
    IF end - start <= 8
    THEN [b \in DOMAIN bitmask |->
            bitmask[b] \cup {ii % 8 : ii \in {j \in start .. end - 1 : j \div 8 = b}}]
    ELSE [b \in DOMAIN bitmask |->
            bitmask[b] \cup (IF b = start \div 8 THEN StartBits(start % 8) ELSE {})
                       \cup (IF start \div 8 < b /\ b < (end - 1) \div 8 THEN 0 .. 7 ELSE {})
                       \cup (IF b = (end - 1) \div 8 THEN EndBits((end - 1) % 8) ELSE {})]

\* RSMBLY_BITMASK_MARK: bit by bit up to eight bits, else by whole bytes.
BitmaskMark(bitmask, start, end) ==
    IF end - start <= 8
    THEN [b \in DOMAIN bitmask |->
            bitmask[b] \cup {ii % 8 : ii \in {j \in start .. end - 1 : j \div 8 = b}}]
    ELSE [b \in DOMAIN bitmask |->
            bitmask[b] \cup (IF b = start \div 8 THEN StartBits(start % 8) ELSE {})
                       \cup (IF start \div 8 < b /\ b < (end - 1) \div 8 THEN 0 .. 7 ELSE {})
                       \cup (IF b = (end - 1) \div 8 THEN EndBits(end % 8) ELSE {})]

\* Mutant: only the last byte of the mask is looked at.
CompleteLastByte(bitmask, msg_len) == bitmask[(msg_len - 1) \div 8] = EndBits(msg_len % 8)

\* RSMBLY_BITMASK_IS_COMPLETE
BitmaskIsComplete(bitmask, msg_len) ==
    /\ bitmask[(msg_len - 1) \div 8] = EndBits(msg_len % 8)
    /\ \A b \in 0 .. (msg_len - 1) \div 8 - 1 : bitmask[b] = 0 .. 7

BitmaskSize(msg_len) == (msg_len + 7) \div 8

VARIABLES
    buf,            \* init_buf of the sender: cells 0 .. HL + msg_len - 1
    init_off,       \* where in buf the next fragment, header included, starts
    init_num,       \* cells still to be sent from there
    hdr,            \* w_msg_hdr: seq and frag_off
    frag_off,       \* dtls1_do_write's own offset; 0 outside a call
    retry,          \* dtls1_do_write may query the MTU and try once more
    retransmitting, \* d1->retransmitting
    next_seq,       \* next_handshake_write_seq; messages below are buffered
    hashed,         \* what the sender has put into its handshake hash
    net,            \* fragments in flight
    read_seq,       \* handshake_read_seq
    buffered,       \* buffered_messages of the receiver
    delivered,      \* the messages dtls1_get_message has returned, in order
    read_hashed,    \* what the receiver has put into its handshake hash
    failed          \* the receiver has rejected a fragment

sender == <<buf, init_off, init_num, hdr, frag_off, retry, retransmitting, next_seq, hashed>>
receiver == <<read_seq, buffered, delivered, read_hashed, failed>>
vars == <<sender, net, receiver>>

\* An hm_fragment in the receiver's queue; it is whole once its bit mask is
\* freed (reassembly is NULL).
Item(whole, bits, frag) == [present |-> TRUE, whole |-> whole, bits |-> bits, frag |-> frag]
NoItem == [present |-> FALSE, whole |-> FALSE, bits |-> <<>>, frag |-> <<>>]

Init ==
    /\ buf = <<>> /\ init_off = 0 /\ init_num = 0
    /\ hdr = [seq |-> 0, frag_off |-> 0]
    /\ frag_off = 0 /\ retry = TRUE /\ retransmitting = FALSE
    /\ next_seq = 0 /\ hashed = <<>>
    /\ net = {}
    /\ read_seq = 0 /\ delivered = <<>> /\ read_hashed = <<>> /\ failed = FALSE
    /\ buffered = [q \in MsgId |-> NoItem]

(***************************************************************************)
(* The sender                                                              *)
(***************************************************************************)
\* A message in init_buf, ready for dtls1_do_write.
Load(q) ==
    /\ buf' = [c \in 0 .. HL + MsgLen[q] - 1 |-> IF c < HL THEN Header ELSE Byte(q, c - HL)]
    /\ init_num' = HL + MsgLen[q]
    /\ hdr' = [seq |-> q, frag_off |-> 0]

\* The state machine serialises its next message and buffers it
\* (dtls1_set_message_header, dtls1_buffer_message).
dtls1_set_handshake_header ==
    /\ next_seq < Count /\ init_num = 0
    /\ Load(next_seq)
    /\ init_off' = 0
    /\ next_seq' = next_seq + 1
    /\ UNCHANGED <<frag_off, retry, retransmitting, hashed, net, receiver>>

\* The timer: the whole flight is sent again, message by message.  The code
\* assumes that its writes block ("XDTLS: for now assuming that read/writes
\* are blocking"), so no message is half written when it starts.
dtls1_retransmit_buffered_messages ==
    /\ next_seq > 0 /\ init_num = 0
    /\ Load(0)
    /\ retransmitting' = TRUE
    /\ UNCHANGED <<init_off, frag_off, retry, next_seq, hashed, net, receiver>>

\* The offset of the fragment about to be written: a call that finds a
\* message half written continues at the offset the header holds.
Offset == IF init_off # 0 /\ frag_off = 0 THEN hdr.frag_off ELSE frag_off

\* Mutant: a new call of dtls1_do_write makes room for the header again.
RoomAlways == init_off # 0

\* Room for the header is made in front of a fragment that is not the first
\* and that no earlier call has tried to write.
MakesRoom == init_off # 0 /\ frag_off > 0

Start == IF MakesRoom THEN init_off - HL ELSE init_off
Left == IF MakesRoom THEN init_num + HL ELSE init_num

\* dtls1_write_message_header writes over bytes sent before.
WithHeader == [c \in DOMAIN buf |-> IF c \in Start .. Start + HL - 1 THEN Header ELSE buf[c]]

Return == frag_off' = 0 /\ retry' = TRUE

\* The datagram buffer is full and BIO_flush would block.
FlushBlocks ==
    /\ WritesFail /\ ~retransmitting /\ init_num > 0 /\ ~(MakesRoom /\ init_off <= HL)
    /\ init_off' = Start /\ init_num' = Left
    /\ Return
    /\ UNCHANGED <<buf, hdr, retransmitting, next_seq, hashed, net, receiver>>

\* dtls1_write_bytes fails and the record is dropped.  Unless
\* SSL_OP_NO_QUERY_MTU is set the loop has one more go, which gives up at
\* once when there is no room in front of the fragment for another header.
WriteFails ==
    /\ WritesFail /\ ~retransmitting /\ init_num > 0
    /\ IF MakesRoom /\ init_off <= HL
       THEN Return /\ UNCHANGED <<buf, hdr, init_off, init_num>>
       ELSE /\ hdr' = [hdr EXCEPT !.frag_off = Offset]
            /\ buf' = WithHeader
            /\ init_off' = Start /\ init_num' = Left
            /\ IF retry /\ ~NoQueryMtu
               THEN frag_off' = Offset /\ retry' = FALSE
               ELSE Return
    /\ UNCHANGED <<retransmitting, next_seq, hashed, net, receiver>>

\* Mutant: every fragment puts its header into the hash.
HashedWithHeader(len) == [i \in 1 .. len |-> WithHeader[Start + i - 1]]

\* What the fragment adds to the handshake hash: the first one its header as
\* if the message were whole, the others only their data.
Hashed(len) ==
    LET from == IF Offset = 0 THEN Start ELSE Start + HL
    IN  [i \in 1 .. Start + len - from |-> WithHeader[from + i - 1]]

\* A fragment is written: as much as fits, under a header of its own.  After
\* the last one the message is done, and a retransmission loads the next.
WritesFragment(room) ==
    LET len == IF Left > room THEN room ELSE Left
    IN  /\ init_num > 0 /\ ~(MakesRoom /\ init_off <= HL)
        /\ net' = net \cup
             {[seq |-> hdr.seq, frag_off |-> Offset, frag_len |-> len - HL,
               data |-> [i \in 0 .. len - HL - 1 |-> buf[Start + HL + i]]]}
        /\ hashed' = IF retransmitting THEN hashed ELSE hashed \o Hashed(len)
        /\ IF len < Left
           THEN /\ buf' = WithHeader
                /\ init_off' = Start + len /\ init_num' = Left - len
                /\ frag_off' = Offset + len - HL
                /\ hdr' = [hdr EXCEPT !.frag_off = Offset + len - HL]
                /\ UNCHANGED <<retry, retransmitting>>
           ELSE /\ init_off' = 0 /\ Return
                /\ IF retransmitting /\ hdr.seq + 1 < next_seq
                   THEN Load(hdr.seq + 1) /\ UNCHANGED retransmitting
                   ELSE /\ init_num' = 0 /\ retransmitting' = FALSE
                        /\ buf' = WithHeader
                        /\ hdr' = [hdr EXCEPT !.frag_off = Offset]
        /\ UNCHANGED <<next_seq, receiver>>

dtls1_do_write == FlushBlocks \/ WriteFails \/ \E room \in Rooms : WritesFragment(room)

(***************************************************************************)
(* The receiver                                                            *)
(***************************************************************************)
\* Mutant: an overtaken message stays at the head of the queue.
StaleKept == buffered

\* dtls1_retrieve_buffered_fragment first drops what it is past.
Fresh == [q \in MsgId |-> IF q < read_seq THEN NoItem ELSE buffered[q]]

\* The head of the queue is the next message, and it is complete.
Ready ==
    /\ read_seq < Count
    /\ Fresh[read_seq].present /\ Fresh[read_seq].whole
    /\ \A q \in 0 .. read_seq - 1 : ~Fresh[q].present

\* The message goes into the hash under a header as if it had come whole.
dtls1_get_message(body) ==
    /\ delivered' = Append(delivered, body)
    /\ read_hashed' = read_hashed \o [c \in 1 .. HL + MsgLen[read_seq] |->
                                        IF c <= HL THEN Header ELSE body[c - HL - 1]]
    /\ read_seq' = read_seq + 1

dtls1_retrieve_buffered_fragment ==
    /\ ~failed /\ Ready
    /\ dtls1_get_message(Fresh[read_seq].frag)
    /\ buffered' = [Fresh EXCEPT ![read_seq] = NoItem]
    /\ UNCHANGED <<sender, net, failed>>

\* dtls1_hm_fragment_new with a bit mask.
NewItem(q) ==
    Item(FALSE, [b \in 0 .. BitmaskSize(MsgLen[q]) - 1 |-> {}],
                [i \in 0 .. MsgLen[q] - 1 |-> Junk])

\* The fragment f is copied into its item and its bits are set.
CopiedInto(item, f) ==
    LET bits == BitmaskMark(item.bits, f.frag_off, f.frag_off + f.frag_len)
        frag == [i \in DOMAIN item.frag |->
                   IF i \in f.frag_off .. f.frag_off + f.frag_len - 1
                   THEN f.data[i - f.frag_off] ELSE item.frag[i]]
    IN  IF BitmaskIsComplete(bits, MsgLen[f.seq]) THEN Item(TRUE, <<>>, frag) ELSE Item(FALSE, bits, frag)

\* dtls1_reassemble_fragment: the item of f's message with f in it; a
\* fragment of a message that is whole is a repetition.
Reassembled(f) ==
    LET item == IF Fresh[f.seq].present THEN Fresh[f.seq] ELSE NewItem(f.seq)
    IN  IF f.frag_len = 0 \/ item.whole THEN Fresh[f.seq] ELSE CopiedInto(item, f)

\* dtls1_process_out_of_seq_message: dropped when it is past, too far ahead
\* or a repetition of a message that is in the queue.
OutOfSeq(f) ==
    LET whole == f.frag_len = MsgLen[f.seq]
    IN  IF f.seq <= read_seq \/ f.seq > read_seq + Window \/ (whole /\ Fresh[f.seq].present)
        THEN Fresh
        ELSE [Fresh EXCEPT ![f.seq] =
                IF whole THEN Item(TRUE, <<>>, f.data) ELSE Reassembled(f)]

\* dtls1_get_message_fragment reads a record; the network may keep a copy.
dtls1_get_message_fragment(f) ==
    /\ f \in net /\ ~failed /\ ~Ready
    /\ net' \in {net, net \ {f}}
    /\ IF f.frag_off + f.frag_len > MsgLen[f.seq]
       THEN failed' = TRUE /\ buffered' = Fresh /\ UNCHANGED <<read_seq, delivered, read_hashed>>
       ELSE IF f.seq # read_seq
       THEN buffered' = OutOfSeq(f) /\ UNCHANGED <<read_seq, delivered, read_hashed, failed>>
       ELSE IF f.frag_len # 0 /\ f.frag_len < MsgLen[f.seq]
       THEN buffered' = [Fresh EXCEPT ![f.seq] = Reassembled(f)] /\ UNCHANGED <<read_seq, delivered, read_hashed, failed>>
       ELSE dtls1_get_message(f.data) /\ buffered' = Fresh /\ UNCHANGED failed
    /\ UNCHANGED sender

(***************************************************************************)
(* The network                                                             *)
(***************************************************************************)
Lose(f) == f \in net /\ net' = net \ {f} /\ UNCHANGED <<sender, receiver>>

Next ==
    \/ dtls1_set_handshake_header
    \/ dtls1_retransmit_buffered_messages
    \/ dtls1_do_write
    \/ dtls1_retrieve_buffered_fragment
    \/ \E f \in net : dtls1_get_message_fragment(f)
    \/ \E f \in net : Lose(f)

\* A fragment that brings the receiver something.
Useful(f) ==
    IF f.seq # read_seq THEN OutOfSeq(f) # Fresh
    ELSE f.frag_len = MsgLen[f.seq] \/ Reassembled(f) # Fresh[f.seq]

CanWrite == init_num > 0 /\ ~(MakesRoom /\ init_off <= HL)
CanUse == ~failed /\ ~Ready /\ \E f \in net : Useful(f)

\* The sender's calls go on and its writes do not fail for ever; the timer
\* expires as long as it runs; the receiver reads; the network does not lose
\* everything the receiver could still use.  (The last is strong fairness of
\* reading a useful fragment, CanUse being when that can happen; the one
\* about writing has the same form.)
Fairness ==
    /\ SF_vars(dtls1_set_handshake_header)
    /\ WF_vars(dtls1_retransmit_buffered_messages)
    /\ <>[]~CanWrite \/ []<><<\E room \in Rooms : WritesFragment(room)>>_vars
    /\ WF_vars(dtls1_retrieve_buffered_fragment)
    /\ <>[]~CanUse \/ []<><<\E f \in net : Useful(f) /\ dtls1_get_message_fragment(f)>>_vars

Spec == Init /\ [][Next]_vars /\ Fairness

(***************************************************************************)
(* Properties                                                              *)
(***************************************************************************)
\* A message under reassembly: only bits of bytes the message has are set.
ItemOK(q) ==
    LET item == buffered[q]
    IN  \/ item = NoItem
        \/ /\ item.present /\ item.frag \in [0 .. MsgLen[q] - 1 -> Cell]
           /\ IF item.whole
              THEN item.bits = <<>>
              ELSE /\ item.bits \in [0 .. BitmaskSize(MsgLen[q]) - 1 -> SUBSET (0 .. 7)]
                   /\ \A b \in DOMAIN item.bits : \A k \in item.bits[b] : 8 * b + k < MsgLen[q]

\* Every variable has its type, and a bit mask no bit beyond its message,
\* which RSMBLY_BITMASK_IS_COMPLETE would take for an incomplete message.
TypeOK ==
    /\ {init_off, init_num, frag_off} \subseteq Nat
    /\ hdr \in [seq : Nat, frag_off : Nat]
    /\ {retry, retransmitting, failed} \subseteq BOOLEAN
    /\ {next_seq, read_seq} \subseteq 0 .. Count
    /\ \A q \in MsgId : ItemOK(q)

\* Whatever the cuts, losses, repetitions and the order of arrival, the
\* receiver rejects nothing, and dtls1_get_message returns each message once,
\* in order, with exactly the bytes that were sent.
DeliveredIntact == ~failed /\ delivered = [i \in 1 .. read_seq |-> Body(i - 1)]

\* What the receiver has hashed, a message at a time in dtls1_get_message, is
\* what the sender hashed first, fragment by fragment in dtls1_do_write, though
\* the sender cut its messages, failed to write and wrote some of them again.
TranscriptsAgree ==
    /\ Len(read_hashed) <= Len(hashed)
    /\ SubSeq(hashed, 1, Len(read_hashed)) = read_hashed

\* Room for a fragment's header is made once, however often its write fails:
\* the fragment's data lie where its offset says.
HeaderRoomMadeOnce == init_num > 0 => Start = Offset

\* Every message of the flight arrives in the end.
Arrives == <>(read_seq = Count)
=============================================================================
