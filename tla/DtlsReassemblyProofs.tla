------------------------ MODULE DtlsReassemblyProofs ------------------------
(***************************************************************************)
(* The bit mask of dtls1_reassemble_fragment is exact for every message    *)
(* length, and a flight of any number of messages of any length, cut in    *)
(* any way, is delivered intact and hashed alike by both ends              *)
(* (DtlsReassembly).                                                       *)
(***************************************************************************)
EXTENDS DtlsReassembly, TLAPS, SequenceTheorems

(***************************************************************************)
(* The bit mask                                                            *)
(***************************************************************************)
Bitmasks(n) == [0 .. BitmaskSize(n) - 1 -> SUBSET (0 .. 7)]
Marked(bits, i) == i % 8 \in bits[i \div 8]
Within(bits, n) == \A b \in DOMAIN bits : \A k \in bits[b] : 8 * b + k < n

\* A position is a byte and a bit of it.
LEMMA Split ==
    \A i \in Nat : i \div 8 \in Nat /\ i % 8 \in 0 .. 7 /\ i = 8 * (i \div 8) + (i % 8)
  OBVIOUS

\* RSMBLY_BITMASK_MARK sets the bits of its range and no other bit of the
\* message, on both of its branches.
LEMMA MarkExact ==
  ASSUME NEW n \in Nat, NEW bits \in Bitmasks(n), NEW start \in Nat, NEW end \in Nat,
         start < end, end <= n, NEW i \in 0 .. n - 1
  PROVE  Marked(BitmaskMark(bits, start, end), i) <=> Marked(bits, i) \/ i \in start .. end - 1
<1>1. i \div 8 \in DOMAIN bits
  <2>1. DOMAIN bits = 0 .. BitmaskSize(n) - 1
    BY Zenon DEF Bitmasks
  <2> QED BY <2>1 DEF BitmaskSize
<1>2. CASE end - start <= 8
  <2>1. BitmaskMark(bits, start, end)[i \div 8] =
          bits[i \div 8] \cup {ii % 8 : ii \in {j \in start .. end - 1 : j \div 8 = i \div 8}}
    BY <1>1, <1>2, Zenon DEF BitmaskMark
  <2>2. i % 8 \in {ii % 8 : ii \in {j \in start .. end - 1 : j \div 8 = i \div 8}}
          <=> i \in start .. end - 1
    BY Split
  <2> QED BY <2>1, <2>2, Zenon DEF Marked
<1>3. CASE end - start > 8
  <2>1. BitmaskMark(bits, start, end)[i \div 8] = bits[i \div 8]
           \cup (IF i \div 8 = start \div 8 THEN StartBits(start % 8) ELSE {})
           \cup (IF start \div 8 < i \div 8 /\ i \div 8 < (end - 1) \div 8 THEN 0 .. 7 ELSE {})
           \cup (IF i \div 8 = (end - 1) \div 8 THEN EndBits(end % 8) ELSE {})
    BY <1>1, <1>3 DEF BitmaskMark
  <2>2. i % 8 \in (IF i \div 8 = start \div 8 THEN StartBits(start % 8) ELSE {})
          <=> (i \div 8 = start \div 8 /\ i >= start)
    BY DEF StartBits
  <2>3. i % 8 \in (IF i \div 8 = (end - 1) \div 8 THEN EndBits(end % 8) ELSE {})
          <=> (i \div 8 = (end - 1) \div 8 /\ i < end)
    BY DEF EndBits
  <2>4. i \in start .. end - 1 <=> \/ i \div 8 = start \div 8 /\ i >= start
                                   \/ start \div 8 < i \div 8 /\ i \div 8 < (end - 1) \div 8
                                   \/ i \div 8 = (end - 1) \div 8 /\ i < end
    BY <1>3
  <2> QED BY <2>1, <2>2, <2>3, <2>4 DEF Marked
<1> QED BY <1>2, <1>3

\* Marking keeps a bit mask one of its message: no bit beyond the message is
\* set, though the last byte is taken from a table.
LEMMA MarkWithin ==
  ASSUME NEW n \in Nat, NEW bits \in Bitmasks(n), Within(bits, n),
         NEW start \in Nat, NEW end \in Nat, start < end, end <= n
  PROVE  /\ BitmaskMark(bits, start, end) \in Bitmasks(n)
         /\ Within(BitmaskMark(bits, start, end), n)
<1> DEFINE new == BitmaskMark(bits, start, end)
<1>1. DOMAIN bits = 0 .. BitmaskSize(n) - 1 /\ DOMAIN bits \subseteq Nat
  BY DEF Bitmasks
<1>2. \A b \in DOMAIN bits : bits[b] \subseteq 0 .. 7
  BY Zenon DEF Bitmasks
<1>3. DOMAIN new = DOMAIN bits
  BY Zenon DEF BitmaskMark
<1>4. ASSUME NEW b \in DOMAIN bits, NEW k \in new[b]
      PROVE  k \in 0 .. 7 /\ 8 * b + k < n
  <2>1. CASE k \in bits[b]
    BY <2>1, <1>2, Zenon DEF Within
  <2>2. CASE k \notin bits[b] /\ end - start <= 8
    <3>1. new[b] = bits[b] \cup {ii % 8 : ii \in {j \in start .. end - 1 : j \div 8 = b}}
      BY <2>2, Zenon DEF BitmaskMark
    <3>2. PICK ii \in start .. end - 1 : ii \div 8 = b /\ k = ii % 8
      BY <3>1, <2>2, Zenon
    <3> QED BY <3>2, Split
  <2>3. CASE k \notin bits[b] /\ ~(end - start <= 8)
    <3>1. new[b] = bits[b]
           \cup (IF b = start \div 8 THEN StartBits(start % 8) ELSE {})
           \cup (IF start \div 8 < b /\ b < (end - 1) \div 8 THEN 0 .. 7 ELSE {})
           \cup (IF b = (end - 1) \div 8 THEN EndBits(end % 8) ELSE {})
      BY <2>3, Zenon DEF BitmaskMark
    <3>2. CASE b = start \div 8 /\ k \in StartBits(start % 8)
      BY <3>2, <2>3 DEF StartBits
    <3>3. CASE start \div 8 < b /\ b < (end - 1) \div 8 /\ k \in 0 .. 7
      BY <3>3, <1>1
    <3>4. CASE b = (end - 1) \div 8 /\ k \in EndBits(end % 8)
      BY <3>4 DEF EndBits
    <3> QED BY <3>1, <3>2, <3>3, <3>4, <2>3, Zenon
  <2> QED BY <2>1, <2>2, <2>3, Zenon
<1> QED BY <1>1, <1>3, <1>4, Zenon DEF Bitmasks, Within, BitmaskMark

\* RSMBLY_BITMASK_IS_COMPLETE holds exactly when every byte has arrived.
THEOREM CompleteExact ==
  ASSUME NEW n \in Nat \ {0}, NEW bits \in Bitmasks(n), Within(bits, n)
  PROVE  BitmaskIsComplete(bits, n) <=> \A i \in 0 .. n - 1 : Marked(bits, i)
<1>1. DOMAIN bits = 0 .. (n - 1) \div 8 /\ \A b \in DOMAIN bits : bits[b] \subseteq 0 .. 7
  BY DEF Bitmasks, BitmaskSize
<1>2. ASSUME BitmaskIsComplete(bits, n), NEW i \in 0 .. n - 1
      PROVE  Marked(bits, i)
  <2>1. CASE i \div 8 = (n - 1) \div 8
    <3>1. bits[i \div 8] = EndBits(n % 8)
      BY <1>2, <2>1, Zenon DEF BitmaskIsComplete
    <3>2. i % 8 \in EndBits(n % 8)
      BY <2>1 DEF EndBits
    <3> QED BY <3>1, <3>2, Zenon DEF Marked
  <2>2. CASE i \div 8 # (n - 1) \div 8
    <3>1. i \div 8 \in 0 .. (n - 1) \div 8 - 1 /\ i % 8 \in 0 .. 7
      BY <2>2
    <3> QED BY <1>2, <3>1, Zenon DEF BitmaskIsComplete, Marked
  <2> QED BY <2>1, <2>2, Zenon
<1>3. ASSUME \A i \in 0 .. n - 1 : Marked(bits, i)
      PROVE  BitmaskIsComplete(bits, n)
  <2>1. ASSUME NEW b \in 0 .. (n - 1) \div 8, NEW k \in 0 .. 7, 8 * b + k < n
        PROVE  k \in bits[b]
    <3>1. 8 * b + k \in 0 .. n - 1 /\ (8 * b + k) \div 8 = b /\ (8 * b + k) % 8 = k
      BY <2>1
    <3> QED BY <3>1, <1>3, Zenon DEF Marked
  <2>2. ASSUME NEW b \in 0 .. (n - 1) \div 8 - 1
        PROVE  bits[b] = 0 .. 7
    <3>1. \A k \in 0 .. 7 : 8 * b + k < n
      OBVIOUS
    <3> QED BY <3>1, <2>1, <1>1
  <2>3. bits[(n - 1) \div 8] = EndBits(n % 8)
    <3>1. \A k \in 0 .. 7 : 8 * ((n - 1) \div 8) + k < n <=> k \in EndBits(n % 8)
      BY DEF EndBits
    <3>2. EndBits(n % 8) \subseteq 0 .. 7
      BY DEF EndBits
    <3>3. (n - 1) \div 8 \in DOMAIN bits
      BY <1>1
    <3> QED BY <3>1, <3>2, <3>3, <2>1, <1>1, Zenon DEF Within
  <2> QED BY <2>2, <2>3, Zenon DEF BitmaskIsComplete
<1> QED BY <1>2, <1>3, Zenon

(***************************************************************************)
(* The inductive invariant                                                 *)
(***************************************************************************)
\* A fragment in flight carries the bytes its header announces.
FragmentOK(f) ==
    /\ f.seq \in MsgId /\ f.frag_off \in Nat /\ f.frag_len \in Nat
    /\ f.frag_off + f.frag_len <= MsgLen[f.seq]
    /\ f.frag_len = 0 => MsgLen[f.seq] = 0
    /\ f.data = [i \in 0 .. f.frag_len - 1 |-> Byte(f.seq, f.frag_off + i)]

\* The write in progress: hdr.frag_off bytes are sent.  Within a call of
\* dtls1_do_write the header's room is still to be made, between two calls it
\* has been; the bytes not yet sent are untouched by the headers.
WriteOK ==
    LET q == hdr.seq  o == hdr.frag_off
    IN  /\ q \in MsgId /\ (o = 0 \/ o < MsgLen[q])
        /\ \/ frag_off = o /\ o > 0 /\ init_off = o + HL /\ init_num = MsgLen[q] - o
           \/ frag_off = 0 /\ init_off = o /\ init_num = HL + MsgLen[q] - o
        /\ DOMAIN buf = 0 .. HL + MsgLen[q] - 1
        /\ \A c \in HL + o .. HL + MsgLen[q] - 1 : buf[c] = Byte(q, c - HL)

SenderInv ==
    /\ init_off \in Nat /\ init_num \in Nat /\ frag_off \in Nat
    /\ hdr \in [seq : Nat, frag_off : Nat]
    /\ retry \in BOOLEAN /\ retransmitting \in BOOLEAN
    /\ next_seq \in 0 .. Count
    /\ IF init_num > 0 THEN WriteOK ELSE init_off = 0 /\ frag_off = 0

\* A message under reassembly: where a bit is set the byte is the message's.
ItemInv(q, item) ==
    \/ item = NoItem
    \/ /\ item.present = TRUE /\ item.whole = TRUE /\ item.bits = <<>> /\ item.frag = Body(q)
    \/ /\ item.present = TRUE /\ item.whole = FALSE
       /\ item.bits \in Bitmasks(MsgLen[q]) /\ Within(item.bits, MsgLen[q])
       /\ item.frag \in [0 .. MsgLen[q] - 1 -> Cell]
       /\ \A i \in 0 .. MsgLen[q] - 1 : Marked(item.bits, i) => item.frag[i] = Byte(q, i)

ReceiverInv ==
    /\ failed = FALSE /\ read_seq \in 0 .. Count
    /\ delivered = [i \in 1 .. read_seq |-> Body(i - 1)]
    /\ DOMAIN buffered = MsgId
    /\ \A q \in MsgId : ItemInv(q, buffered[q])

IInv == SenderInv /\ (\A f \in net : FragmentOK(f)) /\ ReceiverInv

\* The constants' types.
LEMMA Constants ==
    /\ Count \in Nat /\ HL \in Nat /\ HL > 0
    /\ \A q \in MsgId : q \in Nat /\ q < Count /\ MsgLen[q] \in Nat
    /\ \A r \in Rooms : r \in Nat /\ r > HL
  BY CountAssumption, HLAssumption, MsgLenAssumption, RoomsAssumption DEF MsgId

\* Nothing written, sent or received: the invariant holds at the start.
LEMMA InitInv == Init => IInv
<1> SUFFICES ASSUME Init PROVE IInv
  BY Zenon
<1>1. SenderInv
  <2>1. retry \in BOOLEAN /\ retransmitting \in BOOLEAN
    BY Zenon DEF Init
  <2>2. /\ init_off = 0 /\ init_num = 0 /\ frag_off = 0 /\ next_seq = 0
        /\ hdr = [seq |-> 0, frag_off |-> 0]
    BY Zenon DEF Init
  <2> QED BY <2>1, <2>2, Constants DEF SenderInv
<1>2. ReceiverInv
  <2>1. delivered = [i \in 1 .. read_seq |-> Body(i - 1)]
    BY DEF Init
  <2>2. \A q \in MsgId : buffered[q] = NoItem
    BY Zenon DEF Init
  <2> QED BY <2>1, <2>2, Constants DEF Init, ReceiverInv, ItemInv
<1> QED BY <1>1, <1>2, Zenon DEF IInv, Init

(***************************************************************************)
(* The sender                                                              *)
(***************************************************************************)
\* One turn of the loop sees the offset the header holds, on either path.
LEMMA Turn ==
  ASSUME SenderInv, init_num > 0
  PROVE  /\ WriteOK
         /\ Offset = hdr.frag_off /\ Start = hdr.frag_off
         /\ Left = HL + MsgLen[hdr.seq] - hdr.frag_off
         /\ ~(MakesRoom /\ init_off <= HL)
<1>1. WriteOK /\ hdr.frag_off \in Nat /\ MsgLen[hdr.seq] \in Nat
  BY Constants, Zenon DEF SenderInv, WriteOK
<1>2. CASE frag_off = hdr.frag_off /\ hdr.frag_off > 0 /\ init_off = hdr.frag_off + HL
           /\ init_num = MsgLen[hdr.seq] - hdr.frag_off
  BY <1>1, <1>2, Constants DEF Offset, Start, Left, MakesRoom
<1>3. CASE frag_off = 0 /\ init_off = hdr.frag_off /\ init_num = HL + MsgLen[hdr.seq] - hdr.frag_off
  BY <1>1, <1>3, Constants DEF Offset, Start, Left, MakesRoom
<1> QED BY <1>1, <1>2, <1>3, Zenon DEF WriteOK

\* A message that has just been put into init_buf can be written.
LEMMA LoadOK ==
  ASSUME NEW q \in MsgId, Load(q), init_off' = 0, frag_off' = 0
  PROVE  /\ WriteOK' /\ init_num' \in Nat /\ init_num' > 0
         /\ hdr' \in [seq : Nat, frag_off : Nat]
<1>1. hdr' = [seq |-> q, frag_off |-> 0] /\ hdr'.seq = q /\ hdr'.frag_off = 0
  BY Zenon DEF Load
<1>2. MsgLen[q] \in Nat /\ HL \in Nat /\ HL > 0 /\ q \in Nat
  BY Constants, Zenon
<1>3. init_num' = HL + MsgLen[q]
  BY Zenon DEF Load
<1>4. DOMAIN buf' = 0 .. HL + MsgLen[q] - 1
  BY Zenon DEF Load
<1>5. \A c \in HL .. HL + MsgLen[q] - 1 : buf'[c] = Byte(q, c - HL)
  BY <1>2 DEF Load
<1> QED BY <1>1, <1>2, <1>3, <1>4, <1>5 DEF WriteOK

\* The header of a fragment is written in front of its data.
LEMMA HeaderOverSent ==
  ASSUME SenderInv, init_num > 0
  PROVE  /\ DOMAIN WithHeader = DOMAIN buf
         /\ \A c \in HL + hdr.frag_off .. HL + MsgLen[hdr.seq] - 1 : WithHeader[c] = buf[c]
<1>1. Start = hdr.frag_off /\ WriteOK /\ hdr.frag_off \in Nat
  BY Turn, Zenon DEF SenderInv
<1>2. MsgLen[hdr.seq] \in Nat
  BY <1>1, Constants, Zenon DEF WriteOK
<1> QED BY <1>1, <1>2, Constants DEF WithHeader, WriteOK

\* The fragment that is written is a piece of its message.
LEMMA FragmentWritten ==
  ASSUME SenderInv, init_num > 0, NEW room \in Rooms, NEW len,
         len = IF Left > room THEN room ELSE Left
  PROVE  /\ len \in Nat /\ len >= HL /\ len <= Left
         /\ len < Left => len > HL
         /\ FragmentOK([seq |-> hdr.seq, frag_off |-> Offset, frag_len |-> len - HL,
                        data |-> [i \in 0 .. len - HL - 1 |-> buf[Start + HL + i]]])
<1> DEFINE q == hdr.seq  o == hdr.frag_off
<1>1. /\ WriteOK /\ Offset = o /\ Start = o /\ Left = HL + MsgLen[q] - o
      /\ o \in Nat /\ q \in MsgId /\ MsgLen[q] \in Nat /\ (o = 0 \/ o < MsgLen[q])
  BY Turn, Constants, Zenon DEF SenderInv, WriteOK
<1>2. /\ len \in Nat /\ len >= HL /\ len <= Left /\ (len < Left => len > HL)
      /\ o + (len - HL) <= MsgLen[q] /\ (len - HL = 0 => MsgLen[q] = 0)
  <2>1. room \in Nat /\ room > HL /\ HL \in Nat
    BY Constants, Zenon
  <2>2. CASE Left > room
    BY <2>1, <2>2, <1>1
  <2>3. CASE ~(Left > room)
    BY <2>1, <2>3, <1>1
  <2> QED BY <2>2, <2>3, Zenon
<1>3. [i \in 0 .. len - HL - 1 |-> buf[Start + HL + i]] = [i \in 0 .. len - HL - 1 |-> Byte(q, o + i)]
  <2>1. ASSUME NEW i \in 0 .. len - HL - 1
        PROVE  buf[Start + HL + i] = Byte(q, o + i)
    <3>1. o + HL + i \in HL + o .. HL + MsgLen[q] - 1 /\ (o + HL + i) - HL = o + i
      BY <1>1, <1>2, Constants
    <3> QED BY <3>1, <1>1, Zenon DEF WriteOK
  <2> QED BY <2>1, Zenon
<1> QED BY <1>1, <1>2, <1>3, Constants DEF FragmentOK

\* A message is serialised, or the first one of the flight loaded again.
LEMMA LoadStep ==
  ASSUME SenderInv, dtls1_set_handshake_header \/ dtls1_retransmit_buffered_messages
  PROVE  SenderInv'
<1>1. PICK q \in MsgId : Load(q)
  <2>1. next_seq \in 0 .. Count /\ Count \in Nat
    BY Constants, Zenon DEF SenderInv
  <2>2. CASE dtls1_set_handshake_header
    BY <2>1, <2>2 DEF dtls1_set_handshake_header, MsgId
  <2>3. CASE dtls1_retransmit_buffered_messages
    BY <2>1, <2>3 DEF dtls1_retransmit_buffered_messages, MsgId
  <2> QED BY <2>2, <2>3, Zenon
<1>2. init_off' = 0 /\ frag_off' = 0
  BY DEF SenderInv, dtls1_set_handshake_header, dtls1_retransmit_buffered_messages
<1>3. retry' \in BOOLEAN /\ retransmitting' \in BOOLEAN
  BY Zenon DEF SenderInv, dtls1_set_handshake_header, dtls1_retransmit_buffered_messages
<1>4. next_seq' \in 0 .. Count
  BY Constants DEF SenderInv, dtls1_set_handshake_header, dtls1_retransmit_buffered_messages
<1> QED BY <1>1, <1>2, <1>3, <1>4, LoadOK, Zenon DEF SenderInv

\* The write of a fragment blocks, and the call returns: the room for its
\* header has been made.
LEMMA BlockedStep ==
  ASSUME WritesFail => NoQueryMtu, SenderInv, FlushBlocks \/ WriteFails
  PROVE  SenderInv'
<1> DEFINE q == hdr.seq  o == hdr.frag_off
<1>1. init_num > 0
  BY Zenon DEF FlushBlocks, WriteFails
<1>2. /\ WriteOK /\ Offset = o /\ Start = o /\ Left = HL + MsgLen[q] - o
      /\ ~(MakesRoom /\ init_off <= HL)
  BY <1>1, Turn, Zenon
<1>3. /\ o \in Nat /\ q \in MsgId /\ MsgLen[q] \in Nat /\ HL \in Nat /\ HL > 0
      /\ hdr \in [seq : Nat, frag_off : Nat] /\ (o = 0 \/ o < MsgLen[q])
  BY <1>2, Constants, Zenon DEF SenderInv, WriteOK
<1>4. hdr' = hdr
  <2>1. CASE FlushBlocks
    BY <2>1, Zenon DEF FlushBlocks
  <2>2. CASE WriteFails
    BY <2>2, <1>2, <1>3, Zenon DEF WriteFails
  <2> QED BY <2>1, <2>2, Zenon
<1>5. init_off' = o /\ init_num' = HL + MsgLen[q] - o
  BY <1>2, Zenon DEF FlushBlocks, WriteFails
<1>6. frag_off' = 0 /\ retry' = TRUE
  BY <1>2, Zenon DEF FlushBlocks, WriteFails, Return
<1>7. buf' = buf \/ buf' = WithHeader
  BY <1>2, Zenon DEF FlushBlocks, WriteFails
<1>8. /\ DOMAIN buf' = 0 .. HL + MsgLen[q] - 1
      /\ \A c \in HL + o .. HL + MsgLen[q] - 1 : buf'[c] = Byte(q, c - HL)
  BY <1>7, <1>1, <1>2, HeaderOverSent, Zenon DEF WriteOK
<1>9. next_seq' = next_seq /\ retransmitting' = retransmitting
  BY Zenon DEF FlushBlocks, WriteFails
<1>10. retry' \in BOOLEAN /\ retransmitting' \in BOOLEAN
  BY <1>6, <1>9, Zenon DEF SenderInv
<1>11. WriteOK'
  BY <1>3, <1>4, <1>5, <1>6, <1>8, Zenon DEF WriteOK
<1> QED BY <1>3, <1>4, <1>5, <1>6, <1>9, <1>10, <1>11 DEF SenderInv

\* A fragment is written.
LEMMA WriteStep ==
  ASSUME SenderInv, NEW room \in Rooms, WritesFragment(room)
  PROVE  SenderInv' /\ ((\A f \in net : FragmentOK(f)) => \A f \in net' : FragmentOK(f))
<1> DEFINE q == hdr.seq  o == hdr.frag_off
<1>0. PICK len : len = IF Left > room THEN room ELSE Left
  BY Zenon
<1>1. init_num > 0
  BY Zenon DEF WritesFragment
<1>2. /\ WriteOK /\ Offset = o /\ Start = o /\ Left = HL + MsgLen[q] - o
  BY <1>1, Turn, Zenon
<1>3. /\ o \in Nat /\ q \in MsgId /\ MsgLen[q] \in Nat /\ HL \in Nat /\ HL > 0
      /\ hdr \in [seq : Nat, frag_off : Nat] /\ (o = 0 \/ o < MsgLen[q])
  BY <1>2, Constants, Zenon DEF SenderInv, WriteOK
<1>4. /\ len \in Nat /\ len >= HL /\ len <= Left /\ (len < Left => len > HL)
  BY <1>0, <1>1, FragmentWritten, Zenon
<1>5. ASSUME \A f \in net : FragmentOK(f)
      PROVE  \A f \in net' : FragmentOK(f)
  <2>1. FragmentOK([seq |-> hdr.seq, frag_off |-> Offset, frag_len |-> len - HL,
                    data |-> [i \in 0 .. len - HL - 1 |-> buf[Start + HL + i]]])
    BY <1>0, <1>1, FragmentWritten, Zenon
  <2> QED BY <1>0, <2>1, <1>5, Zenon DEF WritesFragment
<1>6. next_seq' = next_seq
  BY Zenon DEF WritesFragment
<1>7. retry' \in BOOLEAN /\ retransmitting' \in BOOLEAN
  BY Zenon DEF WritesFragment, Return, SenderInv
<1>8. CASE len < Left
  <2> DEFINE n == o + len - HL
  <2>1. /\ buf' = WithHeader /\ init_off' = Start + len /\ init_num' = Left - len
        /\ frag_off' = Offset + len - HL
    BY <1>0, <1>8, Zenon DEF WritesFragment
  <2>2. n \in Nat /\ n > 0 /\ n < MsgLen[q]
    BY <1>2, <1>3, <1>4, <1>8
  <2>3. frag_off' = n /\ init_off' = n + HL /\ init_num' = MsgLen[q] - n
    <3>1. init_off' = o + len /\ init_num' = (HL + MsgLen[q] - o) - len /\ frag_off' = n
      BY <2>1, <1>2, Zenon
    <3>2. o + len = n + HL /\ (HL + MsgLen[q] - o) - len = MsgLen[q] - n
      BY <1>3, <1>4
    <3> QED BY <3>1, <3>2, Zenon
  <2>4. hdr'.seq = q /\ hdr'.frag_off = n /\ hdr' \in [seq : Nat, frag_off : Nat]
    <3>1. hdr' = [hdr EXCEPT !.frag_off = Offset + len - HL]
      BY <1>0, <1>8, Zenon DEF WritesFragment
    <3> QED BY <3>1, <2>2, <1>2, <1>3, Zenon
  <2>5. /\ DOMAIN buf' = 0 .. HL + MsgLen[q] - 1
        /\ \A c \in HL + o .. HL + MsgLen[q] - 1 : buf'[c] = Byte(q, c - HL)
    BY <2>1, <1>1, <1>2, HeaderOverSent, Zenon DEF WriteOK
  <2>6. \A c \in HL + n .. HL + MsgLen[q] - 1 : c \in HL + o .. HL + MsgLen[q] - 1
    BY <1>3, <1>4, <1>8
  <2> HIDE DEF n
  <2>7. WriteOK'
    BY <2>2, <2>3, <2>4, <2>5, <2>6, <1>3, Zenon DEF WriteOK
  <2>8. init_num' > 0 /\ init_num' \in Nat /\ init_off' \in Nat /\ frag_off' \in Nat
    BY <2>2, <2>3, <1>3
  <2> QED BY <2>4, <2>7, <2>8, <1>5, <1>6, <1>7, Zenon DEF SenderInv
<1>9. CASE ~(len < Left) /\ retransmitting /\ hdr.seq + 1 < next_seq
  <2>1. Load(q + 1) /\ init_off' = 0 /\ frag_off' = 0
    BY <1>0, <1>9, Zenon DEF WritesFragment, Return
  <2>2. q + 1 \in MsgId
    BY <1>9, <1>3, Constants DEF SenderInv, MsgId
  <2> QED BY <2>1, <2>2, <1>5, <1>6, <1>7, LoadOK, Zenon DEF SenderInv
<1>10. CASE ~(len < Left) /\ ~(retransmitting /\ hdr.seq + 1 < next_seq)
  <2>1. /\ init_num' = 0 /\ init_off' = 0 /\ frag_off' = 0
        /\ hdr' = [hdr EXCEPT !.frag_off = Offset]
    BY <1>0, <1>10, Zenon DEF WritesFragment, Return
  <2>2. hdr' \in [seq : Nat, frag_off : Nat]
    BY <2>1, <1>2, <1>3, Zenon
  <2> QED BY <2>1, <2>2, <1>5, <1>6, <1>7 DEF SenderInv
<1> QED BY <1>8, <1>9, <1>10, Zenon

(***************************************************************************)
(* The receiver                                                            *)
(***************************************************************************)
\* Dropping what is past keeps the queue good.
LEMMA FreshOK ==
  ASSUME ReceiverInv
  PROVE  DOMAIN Fresh = MsgId /\ \A q \in MsgId : ItemInv(q, Fresh[q])
<1>1. DOMAIN Fresh = MsgId
  BY Zenon DEF Fresh
<1>2. ASSUME NEW q \in MsgId
      PROVE  ItemInv(q, Fresh[q])
  <2>1. Fresh[q] = NoItem \/ Fresh[q] = buffered[q]
    BY Zenon DEF Fresh
  <2>2. ItemInv(q, NoItem)
    BY Zenon DEF ItemInv
  <2> QED BY <2>1, <2>2, Zenon DEF ReceiverInv
<1> QED BY <1>1, <1>2, Zenon

\* No item is neither there nor whole.
LEMMA NoItemFields == NoItem.present = FALSE /\ NoItem.whole = FALSE
  BY Zenon DEF NoItem

\* A good item of message q that is not whole.
Partial(q, bits, frag) ==
    /\ bits \in Bitmasks(MsgLen[q]) /\ Within(bits, MsgLen[q])
    /\ frag \in [0 .. MsgLen[q] - 1 -> Cell]
    /\ \A i \in 0 .. MsgLen[q] - 1 : Marked(bits, i) => frag[i] = Byte(q, i)

\* What dtls1_reassemble_fragment keeps of an incomplete message.
LEMMA PartialItem ==
  ASSUME NEW q, NEW bits, NEW frag, Partial(q, bits, frag)
  PROVE  ItemInv(q, Item(FALSE, bits, frag))
<1>1. PICK item : item = Item(FALSE, bits, frag)
  BY Zenon
<1>2. item.present = TRUE /\ item.whole = FALSE /\ item.bits = bits /\ item.frag = frag
  BY <1>1, Zenon DEF Item
<1>3. ItemInv(q, item)
  BY <1>2, Zenon DEF ItemInv, Partial
<1> QED BY <1>1, <1>3, Zenon

\* What dtls1_process_out_of_seq_message keeps of a message in one fragment.
LEMMA WholeItem ==
  ASSUME NEW q
  PROVE  ItemInv(q, Item(TRUE, <<>>, Body(q)))
<1>1. PICK item : item = Item(TRUE, <<>>, Body(q))
  BY Zenon
<1>2. item.present = TRUE /\ item.whole = TRUE /\ item.bits = <<>> /\ item.frag = Body(q)
  BY <1>1, Zenon DEF Item
<1>3. ItemInv(q, item)
  BY <1>2, Zenon DEF ItemInv
<1> QED BY <1>1, <1>3, Zenon

\* No bit of a new item is set.
LEMMA NewUnmarked ==
  ASSUME NEW q \in MsgId, NEW i \in 0 .. MsgLen[q] - 1
  PROVE  ~Marked(NewItem(q).bits, i)
<1>1. PICK bits : bits = [b \in 0 .. BitmaskSize(MsgLen[q]) - 1 |-> {}]
  BY Zenon
<1>2. NewItem(q).bits = bits
  <2>1. \A frag : Item(FALSE, bits, frag).bits = bits
    BY Zenon DEF Item
  <2> QED BY <1>1, <2>1, Zenon DEF NewItem
<1>3. i \div 8 \in 0 .. BitmaskSize(MsgLen[q]) - 1
  BY Constants DEF BitmaskSize
<1> QED BY <1>1, <1>2, <1>3, Zenon DEF Marked

\* A new item: nothing is marked and nothing known.
LEMMA NewItemOK ==
  ASSUME NEW q \in MsgId
  PROVE  Partial(q, NewItem(q).bits, NewItem(q).frag)
<1>1. PICK bits : bits = [b \in 0 .. BitmaskSize(MsgLen[q]) - 1 |-> {}]
  BY Zenon
<1>2. PICK frag : frag = [i \in 0 .. MsgLen[q] - 1 |-> Junk]
  BY Zenon
<1>3. NewItem(q) = Item(FALSE, bits, frag)
  BY <1>1, <1>2, Zenon DEF NewItem
<1>4. NewItem(q).bits = bits /\ NewItem(q).frag = frag
  <2>1. Item(FALSE, bits, frag).bits = bits /\ Item(FALSE, bits, frag).frag = frag
    BY Zenon DEF Item
  <2> QED BY <1>3, <2>1, Zenon
<1>5. bits \in Bitmasks(MsgLen[q]) /\ Within(bits, MsgLen[q])
  BY <1>1, Zenon DEF Bitmasks, Within
<1>6. \A i \in 0 .. MsgLen[q] - 1 : ~Marked(bits, i)
  BY <1>4, NewUnmarked, Zenon
<1>7. frag \in [0 .. MsgLen[q] - 1 -> Cell]
  BY <1>2, Zenon DEF Cell
<1> QED BY <1>4, <1>5, <1>6, <1>7, Zenon DEF Partial

\* An item stays good when a fragment is put into it: its bytes are written
\* where its bits are set, and it becomes whole when all of them are.
LEMMA CopiedOK ==
  ASSUME NEW f, FragmentOK(f), f.frag_len # 0, NEW item, Partial(f.seq, item.bits, item.frag)
  PROVE  ItemInv(f.seq, CopiedInto(item, f))
<1> DEFINE q == f.seq  n == MsgLen[f.seq]  s == f.frag_off  e == f.frag_off + f.frag_len
<1>1. q \in MsgId /\ n \in Nat \ {0} /\ s \in Nat /\ e \in Nat /\ s < e /\ e <= n
  BY Constants DEF FragmentOK
<1> DEFINE bits == BitmaskMark(item.bits, s, e)
           frag == [i \in DOMAIN item.frag |->
                      IF i \in s .. s + f.frag_len - 1 THEN f.data[i - s] ELSE item.frag[i]]
<1>2. bits = BitmaskMark(item.bits, s, e)
  BY Zenon
<1>3. frag = [i \in DOMAIN item.frag |-> IF i \in s .. e - 1 THEN f.data[i - s] ELSE item.frag[i]]
  <2>1. s + f.frag_len - 1 = e - 1
    BY DEF FragmentOK
  <2> QED BY <2>1, Zenon
<1>4. CopiedInto(item, f) =
        IF BitmaskIsComplete(bits, n) THEN Item(TRUE, <<>>, frag) ELSE Item(FALSE, bits, frag)
  BY Zenon DEF CopiedInto
<1> HIDE DEF bits, frag
<1>5. bits \in Bitmasks(n) /\ Within(bits, n)
  BY <1>1, <1>2, MarkWithin, Zenon DEF Partial
<1>6. \A i \in 0 .. n - 1 : Marked(bits, i) <=> Marked(item.bits, i) \/ i \in s .. e - 1
  BY <1>1, <1>2, MarkExact DEF Partial
<1>7. \A i \in s .. e - 1 : f.data[i - s] = Byte(q, i)
  BY <1>1 DEF FragmentOK
<1>8. DOMAIN item.frag = 0 .. n - 1
  BY Zenon DEF Partial
<1>9. \A i \in 0 .. n - 1 : Marked(bits, i) => frag[i] = Byte(q, i)
  BY <1>3, <1>6, <1>7, <1>8, Zenon DEF Partial
<1>10. frag \in [0 .. n - 1 -> Cell]
  <2>1. \A i \in s .. e - 1 : Byte(q, i) \in Cell
    BY <1>1 DEF Byte, Cell
  <2> QED BY <2>1, <1>3, <1>7, <1>8, Zenon DEF Partial
<1>11. CASE BitmaskIsComplete(bits, n)
  <2>1. \A i \in 0 .. n - 1 : Marked(bits, i)
    BY <1>11, <1>5, <1>1, CompleteExact, Zenon
  <2>2. frag = Body(q)
    BY <2>1, <1>9, <1>10, Zenon DEF Body
  <2>3. CopiedInto(item, f) = Item(TRUE, <<>>, Body(q))
    BY <1>4, <1>11, <2>2, Zenon
  <2> QED BY <2>3, WholeItem, Zenon
<1>12. CASE ~BitmaskIsComplete(bits, n)
  <2>1. CopiedInto(item, f) = Item(FALSE, bits, frag)
    BY <1>4, <1>12, Zenon
  <2>2. Partial(q, bits, frag)
    BY <1>5, <1>9, <1>10, Zenon DEF Partial
  <2> QED BY <2>1, <2>2, PartialItem, Zenon
<1> QED BY <1>11, <1>12, Zenon

\* dtls1_reassemble_fragment keeps every marked byte right.
LEMMA ReassembledOK ==
  ASSUME ReceiverInv, NEW f, FragmentOK(f), f.frag_len # 0
  PROVE  ItemInv(f.seq, Reassembled(f))
<1> DEFINE item == IF Fresh[f.seq].present THEN Fresh[f.seq] ELSE NewItem(f.seq)
<1>1. f.seq \in MsgId /\ ItemInv(f.seq, Fresh[f.seq])
  BY FreshOK, Zenon DEF FragmentOK
<1>2. CASE item.whole
  BY <1>1, <1>2, Zenon DEF Reassembled
<1>3. CASE ~item.whole
  <2>1. Reassembled(f) = CopiedInto(item, f)
    BY <1>3, Zenon DEF Reassembled
  <2>2. Partial(f.seq, item.bits, item.frag)
    <3>1. CASE Fresh[f.seq].present
      <4>1. item = Fresh[f.seq] /\ Fresh[f.seq] # NoItem
        BY <3>1, NoItemFields, Zenon
      <4> QED BY <4>1, <1>1, <1>3, Zenon DEF ItemInv, Partial
    <3>2. CASE ~Fresh[f.seq].present
      <4>1. item = NewItem(f.seq)
        BY <3>2, Zenon
      <4> QED BY <4>1, <1>1, NewItemOK, Zenon
    <3> QED BY <3>1, <3>2, Zenon
  <2> QED BY <2>1, <2>2, CopiedOK, Zenon
<1> QED BY <1>2, <1>3, Zenon

\* The next message is handed on.
LEMMA GotMessage ==
  ASSUME ReceiverInv, read_seq < Count, dtls1_get_message(Body(read_seq))
  PROVE  read_seq' \in 0 .. Count /\ delivered' = [i \in 1 .. read_seq' |-> Body(i - 1)]
<1>1. read_seq \in Nat /\ Count \in Nat /\ read_seq' = read_seq + 1
  BY Constants DEF ReceiverInv, dtls1_get_message
<1>2. delivered = [i \in 1 .. read_seq |-> Body(i - 1)] /\ Len(delivered) = read_seq
  BY <1>1 DEF ReceiverInv
<1>3. delivered' = [i \in 1 .. read_seq + 1 |-> IF i = read_seq + 1 THEN Body(read_seq) ELSE delivered[i]]
  BY <1>1, <1>2 DEF dtls1_get_message
<1>4. delivered' = [i \in 1 .. read_seq + 1 |-> Body(i - 1)]
  BY <1>1, <1>2, <1>3
<1> QED BY <1>1, <1>4

\* The head of the queue is handed on.
LEMMA RetrieveStep ==
  ASSUME ReceiverInv, dtls1_retrieve_buffered_fragment
  PROVE  ReceiverInv'
<1>1. /\ read_seq < Count /\ read_seq \in MsgId
      /\ Fresh[read_seq].present /\ Fresh[read_seq].whole
  BY Constants DEF ReceiverInv, dtls1_retrieve_buffered_fragment, Ready, MsgId
<1>2. ItemInv(read_seq, Fresh[read_seq])
  BY <1>1, FreshOK, Zenon
<1>3. Fresh[read_seq].frag = Body(read_seq)
  <2>1. Fresh[read_seq] # NoItem
    BY <1>1, NoItemFields, Zenon
  <2> QED BY <1>1, <1>2, <2>1, Zenon DEF ItemInv
<1>4. dtls1_get_message(Body(read_seq))
  BY <1>3, Zenon DEF dtls1_retrieve_buffered_fragment
<1>5. read_seq' \in 0 .. Count /\ delivered' = [i \in 1 .. read_seq' |-> Body(i - 1)]
  BY <1>1, <1>4, GotMessage, Zenon
<1>6. buffered' = [Fresh EXCEPT ![read_seq] = NoItem] /\ failed' = FALSE
  BY Zenon DEF dtls1_retrieve_buffered_fragment, ReceiverInv
<1>7. DOMAIN buffered' = MsgId /\ \A q \in MsgId : ItemInv(q, buffered'[q])
  <2>1. ASSUME NEW q \in MsgId
        PROVE  ItemInv(q, buffered'[q])
    <3>1. buffered'[q] = NoItem \/ buffered'[q] = Fresh[q]
      BY <1>6, FreshOK, Zenon
    <3>2. ItemInv(q, NoItem)
      BY Zenon DEF ItemInv
    <3> QED BY <3>1, <3>2, FreshOK, Zenon
  <2> QED BY <2>1, <1>6, FreshOK, Zenon
<1> QED BY <1>5, <1>6, <1>7, Zenon DEF ReceiverInv

\* One item of the queue is replaced by a good one.
LEMMA QueueOK ==
  ASSUME ReceiverInv, NEW q \in MsgId, NEW item, ItemInv(q, item)
  PROVE  /\ DOMAIN [Fresh EXCEPT ![q] = item] = MsgId
         /\ \A p \in MsgId : ItemInv(p, [Fresh EXCEPT ![q] = item][p])
<1>1. ASSUME NEW p \in MsgId
      PROVE  ItemInv(p, [Fresh EXCEPT ![q] = item][p])
  <2>1. CASE p = q
    <3>1. [Fresh EXCEPT ![q] = item][p] = item
      BY <2>1, FreshOK, Zenon
    <3> QED BY <3>1, <2>1, Zenon
  <2>2. CASE p # q
    <3>1. [Fresh EXCEPT ![q] = item][p] = Fresh[p]
      BY <2>2, FreshOK, Zenon
    <3> QED BY <3>1, FreshOK, Zenon
  <2> QED BY <2>1, <2>2, Zenon
<1> QED BY <1>1, FreshOK, Zenon

\* A record is read.
LEMMA ReadStep ==
  ASSUME ReceiverInv, NEW f \in net, FragmentOK(f), dtls1_get_message_fragment(f)
  PROVE  ReceiverInv'
<1> DEFINE whole == f.frag_len = MsgLen[f.seq]
<1>1. /\ f.seq \in MsgId /\ MsgLen[f.seq] \in Nat /\ f.frag_len \in Nat /\ f.frag_off \in Nat
      /\ f.frag_off + f.frag_len <= MsgLen[f.seq] /\ (f.frag_len = 0 => whole)
  BY Constants, Zenon DEF FragmentOK
<1>2. ASSUME whole
      PROVE  f.data = Body(f.seq)
  <2>1. f.frag_off = 0
    BY <1>1, <1>2
  <2>2. \A i \in 0 .. f.frag_len - 1 : 0 + i = i
    BY <1>1
  <2> QED BY <1>1, <1>2, <2>1, <2>2, Zenon DEF FragmentOK, Body
<1>3. ~(f.frag_off + f.frag_len > MsgLen[f.seq])
  BY <1>1
<1>4. ASSUME ~whole
      PROVE  ItemInv(f.seq, Reassembled(f))
  BY <1>1, <1>4, ReassembledOK, Zenon
<1>5. ASSUME whole
      PROVE  ItemInv(f.seq, Item(TRUE, <<>>, f.data))
  BY <1>2, <1>5, WholeItem, Zenon
<1>6. CASE f.seq # read_seq
  <2>1. buffered' = OutOfSeq(f) /\ UNCHANGED <<read_seq, delivered, failed>>
    BY <1>3, <1>6, Zenon DEF dtls1_get_message_fragment
  <2>2. \/ OutOfSeq(f) = Fresh
        \/ \E item : ItemInv(f.seq, item) /\ OutOfSeq(f) = [Fresh EXCEPT ![f.seq] = item]
    <3>1. CASE whole
      BY <3>1, <1>5, Zenon DEF OutOfSeq
    <3>2. CASE ~whole
      BY <3>2, <1>4, Zenon DEF OutOfSeq
    <3> QED BY <3>1, <3>2, Zenon
  <2>3. DOMAIN buffered' = MsgId /\ \A q \in MsgId : ItemInv(q, buffered'[q])
    BY <2>1, <2>2, <1>1, FreshOK, QueueOK, Zenon
  <2> QED BY <2>1, <2>3, Zenon DEF ReceiverInv
<1>7. CASE f.seq = read_seq /\ ~whole
  <2>1. f.frag_len # 0 /\ f.frag_len < MsgLen[f.seq]
    BY <1>1, <1>7
  <2>2. /\ buffered' = [Fresh EXCEPT ![f.seq] = Reassembled(f)]
        /\ UNCHANGED <<read_seq, delivered, failed>>
    BY <2>1, <1>3, <1>7, Zenon DEF dtls1_get_message_fragment
  <2>3. DOMAIN buffered' = MsgId /\ \A q \in MsgId : ItemInv(q, buffered'[q])
    BY <2>2, <1>1, <1>4, <1>7, QueueOK, Zenon
  <2> QED BY <2>2, <2>3, Zenon DEF ReceiverInv
<1>8. CASE f.seq = read_seq /\ whole
  <2>1. ~(f.frag_len < MsgLen[f.seq])
    BY <1>1, <1>8
  <2>2. dtls1_get_message(f.data) /\ buffered' = Fresh /\ failed' = failed
    BY <2>1, <1>3, <1>8, Zenon DEF dtls1_get_message_fragment
  <2>3. dtls1_get_message(Body(read_seq)) /\ read_seq < Count
    BY <2>2, <1>1, <1>2, <1>8, Constants, Zenon
  <2>4. read_seq' \in 0 .. Count /\ delivered' = [i \in 1 .. read_seq' |-> Body(i - 1)]
    BY <2>3, GotMessage, Zenon
  <2> QED BY <2>2, <2>4, FreshOK, Zenon DEF ReceiverInv
<1> QED BY <1>6, <1>7, <1>8, Zenon

(***************************************************************************)
(* The theorems                                                            *)
(***************************************************************************)
\* What does not change keeps its part of the invariant.
LEMMA SenderKept == SenderInv /\ UNCHANGED sender => SenderInv'
  BY Zenon DEF SenderInv, WriteOK, sender

\* The sender's steps leave the receiver's part alone.
LEMMA ReceiverKept == ReceiverInv /\ UNCHANGED receiver => ReceiverInv'
  BY Zenon DEF ReceiverInv, receiver

\* Every step of the flight keeps the invariant.
LEMMA NextInv ==
  ASSUME WritesFail => NoQueryMtu, IInv, [Next]_vars
  PROVE  IInv'
<1> USE DEF IInv
<1>1. CASE dtls1_set_handshake_header \/ dtls1_retransmit_buffered_messages
  <2>1. net' = net /\ UNCHANGED receiver
    BY <1>1, Zenon DEF dtls1_set_handshake_header, dtls1_retransmit_buffered_messages
  <2> QED BY <1>1, <2>1, LoadStep, ReceiverKept, Zenon
<1>2. CASE FlushBlocks \/ WriteFails
  <2>1. net' = net /\ UNCHANGED receiver
    BY <1>2, Zenon DEF FlushBlocks, WriteFails
  <2> QED BY <1>2, <2>1, BlockedStep, ReceiverKept, Zenon
<1>3. ASSUME NEW room \in Rooms, WritesFragment(room)
      PROVE  IInv'
  <2>1. UNCHANGED receiver
    BY <1>3, Zenon DEF WritesFragment
  <2> QED BY <1>3, <2>1, WriteStep, ReceiverKept, Zenon
<1>4. CASE dtls1_retrieve_buffered_fragment
  <2>1. net' = net /\ UNCHANGED sender
    BY <1>4, Zenon DEF dtls1_retrieve_buffered_fragment
  <2> QED BY <1>4, <2>1, RetrieveStep, SenderKept, Zenon
<1>5. ASSUME NEW f \in net, dtls1_get_message_fragment(f)
      PROVE  IInv'
  <2>1. net' \subseteq net /\ UNCHANGED sender
    BY <1>5, Zenon DEF dtls1_get_message_fragment
  <2> QED BY <1>5, <2>1, ReadStep, SenderKept, Zenon
<1>6. ASSUME NEW f \in net, Lose(f)
      PROVE  IInv'
  <2>1. net' \subseteq net /\ UNCHANGED sender /\ UNCHANGED receiver
    BY <1>6, Zenon DEF Lose
  <2> QED BY <2>1, SenderKept, ReceiverKept, Zenon
<1>7. CASE UNCHANGED vars
  <2>1. net' = net /\ UNCHANGED sender /\ UNCHANGED receiver
    BY <1>7, Zenon DEF vars
  <2> QED BY <2>1, SenderKept, ReceiverKept, Zenon
<1> QED BY <1>1, <1>2, <1>3, <1>4, <1>5, <1>6, <1>7, Zenon DEF Next, dtls1_do_write

\* The invariant says what the properties say.
LEMMA InvImplies == IInv => TypeOK /\ DeliveredIntact /\ HeaderRoomMadeOnce
<1> SUFFICES ASSUME IInv PROVE TypeOK /\ DeliveredIntact /\ HeaderRoomMadeOnce
  BY Zenon
<1> USE DEF IInv
<1>1. DeliveredIntact
  BY Zenon DEF ReceiverInv, DeliveredIntact
<1>2. HeaderRoomMadeOnce
  BY Turn, Zenon DEF HeaderRoomMadeOnce
<1>3. ASSUME NEW q \in MsgId
      PROVE  ItemOK(q)
  <2>1. ItemInv(q, buffered[q])
    BY Zenon DEF ReceiverInv
  <2>2. Body(q) \in [0 .. MsgLen[q] - 1 -> Cell]
    BY Constants DEF Body, Cell, Byte
  <2> QED BY <2>1, <2>2, Zenon DEF ItemInv, ItemOK, Bitmasks, Within
<1>4. {retry, retransmitting, failed} \subseteq BOOLEAN
  BY Zenon DEF SenderInv, ReceiverInv
<1>5. {init_off, init_num, frag_off} \subseteq Nat /\ {next_seq, read_seq} \subseteq 0 .. Count
      /\ hdr \in [seq : Nat, frag_off : Nat]
  BY Zenon DEF SenderInv, ReceiverInv
<1> QED BY <1>1, <1>2, <1>3, <1>4, <1>5, Zenon DEF TypeOK

\* Every flight is delivered intact: any number of messages of any length,
\* any room for a fragment at any write, losses, repetitions, any order of
\* arrival, and writes that block if the MTU is not queried then.
THEOREM FlightIntact ==
  ASSUME WritesFail => NoQueryMtu
  PROVE  Spec => []DeliveredIntact
<1>1. Init => IInv
  BY InitInv, Zenon
<1>2. IInv /\ [Next]_vars => IInv'
  BY NextInv, Zenon
<1>3. IInv => DeliveredIntact
  BY InvImplies, Zenon
<1> QED BY <1>1, <1>2, <1>3, PTL DEF Spec

\* Bit masks keep within their messages, in every such flight.
THEOREM TypeCorrect ==
  ASSUME WritesFail => NoQueryMtu
  PROVE  Spec => []TypeOK
<1>1. IInv /\ [Next]_vars => IInv'
  BY NextInv, Zenon
<1>2. IInv => TypeOK
  BY InvImplies, Zenon
<1> QED BY InitInv, <1>1, <1>2, PTL DEF Spec

\* The room for a header is made once for every fragment, however often its
\* write blocks, if the MTU is not queried then.
THEOREM RoomMadeOnce ==
  ASSUME WritesFail => NoQueryMtu
  PROVE  Spec => []HeaderRoomMadeOnce
<1>1. IInv /\ [Next]_vars => IInv'
  BY NextInv, Zenon
<1>2. IInv => HeaderRoomMadeOnce
  BY InvImplies, Zenon
<1> QED BY InitInv, <1>1, <1>2, PTL DEF Spec

(***************************************************************************)
(* The transcripts                                                         *)
(***************************************************************************)
\* A message is written for the first time.  The messages below Done have
\* been written completely; e bytes of message q have been.
FirstWrite == init_num > 0 /\ ~retransmitting
Done == IF FirstWrite THEN next_seq - 1 ELSE next_seq
Written(q, e) ==
    \/ q < Done
    \/ FirstWrite /\ q = hdr.seq /\ hdr.frag_off > 0 /\ e <= hdr.frag_off

\* Bytes that have arrived have been written.
ItemWritten(q, item) ==
    item # NoItem =>
        IF item.whole THEN q < Done
        ELSE \A i \in 0 .. MsgLen[q] - 1 : Marked(item.bits, i) => Written(q, i + 1)

\* The receiver is never ahead of the first transmission, which only the
\* newest message can still be in.
SendingInv ==
    /\ retransmitting => init_num > 0
    /\ init_num > 0 => hdr.seq < next_seq
    /\ FirstWrite => hdr.seq = next_seq - 1
ProgressInv ==
    /\ SendingInv /\ read_seq <= Done
    /\ \A f \in net : Written(f.seq, f.frag_off + f.frag_len)
    /\ \A q \in MsgId : ItemWritten(q, buffered[q])

\* Cell c of message q in a handshake hash.
MsgCell(q, c) == IF c <= HL THEN Header ELSE Byte(q, c - HL - 1)

\* The message that is written for the first time is in the hash up to here.
InHash == IF hdr.frag_off = 0 THEN 0 ELSE HL + hdr.frag_off

\* Message q lies in the sender's hash from m[q] on, as far as it is there.
SenderHash(m) ==
    /\ m[0] = 0
    /\ \A q \in 0 .. next_seq - 1 : m[q + 1] = m[q] + HL + MsgLen[q]
    /\ \A p, q \in 0 .. next_seq : p <= q => m[p] <= m[q]
    /\ Len(hashed) = m[Done] + (IF FirstWrite THEN InHash ELSE 0)
    /\ \A q \in 0 .. next_seq - 1 : \A c \in 1 .. HL + MsgLen[q] :
          m[q] + c <= Len(hashed) => hashed[m[q] + c] = MsgCell(q, c)

\* The receiver's hash ends where message read_seq will begin.
ReceiverHash(m) ==
    /\ Len(read_hashed) = m[read_seq]
    /\ \A i \in 1 .. Len(read_hashed) : i <= Len(hashed) /\ read_hashed[i] = hashed[i]

HashInv ==
    /\ hashed \in Seq(Cell) /\ read_hashed \in Seq(Cell)
    /\ \E m \in [0 .. next_seq -> Nat] : SenderHash(m) /\ ReceiverHash(m)

\* What the step that writes a fragment does.
LEMMA WriteFacts ==
  ASSUME SenderInv, NEW room \in Rooms, WritesFragment(room)
  PROVE  \E len, f :
           /\ len \in Nat /\ init_num > 0 /\ len >= HL /\ len <= Left /\ next_seq' = next_seq
           /\ net' = net \cup {f} /\ f.seq = hdr.seq
           /\ f.frag_off + f.frag_len = hdr.frag_off + len - HL
           /\ hashed' = IF retransmitting THEN hashed ELSE hashed \o Hashed(len)
           /\ \/ /\ len < Left /\ len > HL /\ init_num' > 0 /\ retransmitting' = retransmitting
                 /\ hdr'.seq = hdr.seq /\ hdr'.frag_off = hdr.frag_off + len - HL
              \/ /\ len = Left /\ retransmitting /\ hdr.seq + 1 < next_seq
                 /\ init_num' > 0 /\ retransmitting' = TRUE /\ hdr'.seq = hdr.seq + 1
              \/ /\ len = Left /\ ~(retransmitting /\ hdr.seq + 1 < next_seq)
                 /\ init_num' = 0 /\ retransmitting' = FALSE
<1> DEFINE q == hdr.seq  o == hdr.frag_off
           len == IF Left > room THEN room ELSE Left
           f == [seq |-> hdr.seq, frag_off |-> Offset, frag_len |-> len - HL,
                 data |-> [i \in 0 .. len - HL - 1 |-> buf[Start + HL + i]]]
<1>1. init_num > 0
  BY Zenon DEF WritesFragment
<1>2. WriteOK /\ Offset = o /\ Left = HL + MsgLen[q] - o
  BY <1>1, Turn, Zenon
<1>3. /\ o \in Nat /\ q \in MsgId /\ MsgLen[q] \in Nat /\ HL \in Nat /\ HL > 0
      /\ hdr \in [seq : Nat, frag_off : Nat]
  BY <1>2, Constants, Zenon DEF SenderInv, WriteOK
<1>4. /\ len \in Nat /\ len >= HL /\ len <= Left /\ (len < Left => len > HL)
  BY <1>1, FragmentWritten, Zenon
<1>5. /\ next_seq' = next_seq /\ net' = net \cup {f}
      /\ hashed' = IF retransmitting THEN hashed ELSE hashed \o Hashed(len)
  BY Zenon DEF WritesFragment
<1>6. f.seq = hdr.seq /\ f.frag_off + f.frag_len = hdr.frag_off + len - HL
  <2>1. f.seq = q /\ f.frag_off = Offset /\ f.frag_len = len - HL
    BY Zenon
  <2> QED BY <2>1, <1>2, <1>3, <1>4, Zenon
<1>7. CASE len < Left
  <2>1. /\ init_num' = Left - len /\ retransmitting' = retransmitting
        /\ hdr' = [hdr EXCEPT !.frag_off = Offset + len - HL]
    BY <1>7, Zenon DEF WritesFragment
  <2>2. hdr'.seq = q /\ hdr'.frag_off = o + len - HL /\ init_num' > 0
    BY <2>1, <1>2, <1>3, <1>4, <1>7
  <2> HIDE DEF len, f
  <2> QED BY <1>1, <1>4, <1>5, <1>6, <1>7, <2>1, <2>2, Zenon
<1>8. CASE len = Left /\ retransmitting /\ hdr.seq + 1 < next_seq
  <2>0. ~(len < Left)
    BY <1>8, <1>2, <1>3
  <2>1. Load(q + 1) /\ retransmitting' = retransmitting
    BY <1>8, <2>0, Zenon DEF WritesFragment
  <2>2. q + 1 \in MsgId
    BY <1>8, <1>3, Constants DEF SenderInv, MsgId
  <2>3. init_num' > 0 /\ hdr'.seq = q + 1
    BY <2>1, <2>2, Constants DEF Load
  <2>4. retransmitting' = TRUE
    BY <2>1, <1>8, Zenon DEF SenderInv
  <2> HIDE DEF len, f
  <2> QED BY <1>1, <1>4, <1>5, <1>6, <1>8, <2>3, <2>4, Zenon
<1>9. CASE len = Left /\ ~(retransmitting /\ hdr.seq + 1 < next_seq)
  <2>0. ~(len < Left)
    BY <1>9, <1>2, <1>3
  <2>1. init_num' = 0 /\ retransmitting' = FALSE
    BY <1>9, <2>0, Zenon DEF WritesFragment
  <2> HIDE DEF len, f
  <2> QED BY <1>1, <1>4, <1>5, <1>6, <1>9, <2>1, Zenon
<1> HIDE DEF len
<1>10. len < Left \/ len = Left
  BY <1>2, <1>3, <1>4
<1> QED BY <1>7, <1>8, <1>9, <1>10, Zenon

\* What an action of the sender keeps: a byte once written stays written.
Keeps ==
    /\ SendingInv' /\ Done \in Int /\ Done' \in Int /\ Done <= Done'
    /\ \A q \in MsgId, e \in Int : Written(q, e) => Written(q, e)'

\* The next message is serialised, or the flight is sent again from its
\* start: in both cases everything before is written.
LEMMA LoadKeeps ==
  ASSUME SenderInv, SendingInv,
         dtls1_set_handshake_header \/ dtls1_retransmit_buffered_messages
  PROVE  Keeps
<1>1. init_num = 0 /\ ~retransmitting /\ next_seq \in Nat
  BY DEF SendingInv, SenderInv, dtls1_set_handshake_header, dtls1_retransmit_buffered_messages
<1>2. Done = next_seq /\ ~FirstWrite
  BY <1>1 DEF Done, FirstWrite
<1>3. CASE dtls1_set_handshake_header
  <2>1. /\ hdr'.seq = next_seq /\ next_seq' = next_seq + 1 /\ retransmitting' = retransmitting
        /\ init_num' = HL + MsgLen[next_seq] /\ next_seq \in MsgId
    BY <1>3, <1>1, Constants DEF dtls1_set_handshake_header, Load, SenderInv, MsgId
  <2>2. init_num' > 0
    BY <2>1, Constants
  <2>3. FirstWrite' /\ Done' = next_seq
    BY <1>1, <2>1, <2>2 DEF Done, FirstWrite
  <2>4. SendingInv'
    BY <1>1, <2>1, <2>2 DEF SendingInv, FirstWrite
  <2> QED BY <1>1, <1>2, <2>3, <2>4 DEF Keeps, Written
<1>4. CASE dtls1_retransmit_buffered_messages
  <2>1. /\ hdr'.seq = 0 /\ next_seq' = next_seq /\ retransmitting' = TRUE
        /\ init_num' = HL + MsgLen[0] /\ 0 \in MsgId /\ next_seq > 0
    BY <1>4, <1>1, Constants DEF dtls1_retransmit_buffered_messages, Load, SenderInv, MsgId
  <2>2. init_num' > 0
    BY <2>1, Constants
  <2>3. ~FirstWrite' /\ Done' = next_seq
    BY <1>1, <2>1, <2>2, Zenon DEF Done, FirstWrite
  <2>4. SendingInv'
    BY <1>1, <2>1, <2>2, Zenon DEF SendingInv, FirstWrite
  <2> QED BY <1>1, <1>2, <2>3, <2>4 DEF Keeps, Written
<1> QED BY <1>3, <1>4, Zenon

\* A write that blocks leaves the message where it was.
LEMMA BlockedKeeps ==
  ASSUME WritesFail => NoQueryMtu, SenderInv, SendingInv, FlushBlocks \/ WriteFails
  PROVE  Keeps /\ hdr' = hdr /\ FirstWrite /\ FirstWrite' /\ Done' = Done
<1>1. init_num > 0 /\ ~retransmitting /\ next_seq \in Nat
  BY DEF FlushBlocks, WriteFails, SenderInv
<1>2. /\ Offset = hdr.frag_off /\ Left = HL + MsgLen[hdr.seq] - hdr.frag_off
      /\ ~(MakesRoom /\ init_off <= HL) /\ WriteOK
  BY <1>1, Turn, Zenon
<1>3. hdr' = hdr
  <2>1. CASE FlushBlocks
    BY <2>1, Zenon DEF FlushBlocks
  <2>2. CASE WriteFails
    BY <2>2, <1>2, Zenon DEF WriteFails, SenderInv
  <2> QED BY <2>1, <2>2, Zenon
<1>4. init_num' = Left /\ retransmitting' = retransmitting /\ next_seq' = next_seq
  BY <1>2, Zenon DEF FlushBlocks, WriteFails
<1>5. init_num' > 0
  BY <1>2, <1>4, Constants DEF WriteOK, SenderInv
<1>6. FirstWrite /\ FirstWrite' /\ Done' = Done /\ Done \in Int
  BY <1>1, <1>4, <1>5 DEF FirstWrite, Done
<1>7. SendingInv'
  BY <1>1, <1>3, <1>4, <1>5, Zenon DEF SendingInv, FirstWrite
<1> QED BY <1>3, <1>6, <1>7 DEF Keeps, Written

\* A fragment that is written is written.
LEMMA WriteKeeps ==
  ASSUME SenderInv, SendingInv, NEW room \in Rooms, WritesFragment(room),
         \A f \in net : FragmentOK(f) /\ Written(f.seq, f.frag_off + f.frag_len)
  PROVE  Keeps /\ \A f \in net' : Written(f.seq, f.frag_off + f.frag_len)'
<1> DEFINE q == hdr.seq  o == hdr.frag_off
<1>1. PICK len, f :
           /\ len \in Nat /\ init_num > 0 /\ len >= HL /\ len <= Left /\ next_seq' = next_seq
           /\ net' = net \cup {f} /\ f.seq = hdr.seq
           /\ f.frag_off + f.frag_len = hdr.frag_off + len - HL
           /\ \/ /\ len < Left /\ len > HL /\ init_num' > 0 /\ retransmitting' = retransmitting
                 /\ hdr'.seq = hdr.seq /\ hdr'.frag_off = hdr.frag_off + len - HL
              \/ /\ len = Left /\ retransmitting /\ hdr.seq + 1 < next_seq
                 /\ init_num' > 0 /\ retransmitting' = TRUE /\ hdr'.seq = hdr.seq + 1
              \/ /\ len = Left /\ ~(retransmitting /\ hdr.seq + 1 < next_seq)
                 /\ init_num' = 0 /\ retransmitting' = FALSE
  BY WriteFacts, Zenon
<1>2. /\ o \in Nat /\ q \in Nat /\ q < next_seq /\ next_seq \in Nat /\ HL \in Nat
      /\ Done \in Int /\ Done' \in Int
  BY <1>1, Constants DEF SenderInv, SendingInv, Done
<1>3. \A g \in net : g.seq \in MsgId /\ g.frag_off + g.frag_len \in Int
                      /\ Written(g.seq, g.frag_off + g.frag_len)
  <2>1. ASSUME NEW g \in net
        PROVE  g.seq \in MsgId /\ g.frag_off \in Nat /\ g.frag_len \in Nat
    BY Zenon DEF FragmentOK
  <2> QED BY <2>1
<1>4. CASE len < Left /\ len > HL /\ init_num' > 0 /\ retransmitting' = retransmitting
           /\ hdr'.seq = hdr.seq /\ hdr'.frag_off = hdr.frag_off + len - HL
  <2>1. FirstWrite' = FirstWrite /\ Done' = Done
    BY <1>1, <1>4, Zenon DEF FirstWrite, Done
  <2>2. SendingInv'
    BY <1>1, <1>2, <1>4, Zenon DEF SendingInv, FirstWrite
  <2>3. \A p \in MsgId, e \in Int : Written(p, e) => Written(p, e)'
    BY <1>1, <1>2, <1>4, <2>1 DEF Written
  <2>4. Written(f.seq, f.frag_off + f.frag_len)'
    BY <1>1, <1>2, <1>4, <2>1 DEF Written, SendingInv, FirstWrite, Done
  <2>5. \A g \in net : Written(g.seq, g.frag_off + g.frag_len)'
    BY <1>3, <2>3, Zenon
  <2> QED BY <1>1, <1>2, <2>1, <2>2, <2>3, <2>4, <2>5 DEF Keeps
<1>5. CASE \/ /\ len = Left /\ retransmitting /\ hdr.seq + 1 < next_seq
              /\ init_num' > 0 /\ retransmitting' = TRUE /\ hdr'.seq = hdr.seq + 1
           \/ /\ len = Left /\ ~(retransmitting /\ hdr.seq + 1 < next_seq)
              /\ init_num' = 0 /\ retransmitting' = FALSE
  <2>1. ~FirstWrite' /\ Done' = next_seq
    BY <1>1, <1>5 DEF FirstWrite, Done
  <2>2. SendingInv'
    BY <1>1, <1>2, <1>5 DEF SendingInv, FirstWrite
  <2>3. Done <= Done'
    BY <1>2, <2>1 DEF Done
  <2>4. \A p \in MsgId, e \in Int : Written(p, e) => p < Done'
    BY <1>2, <2>1, <2>3, Constants DEF Written
  <2>5. \A g \in net : g.seq < Done'
    BY <1>3, <2>4, Zenon
  <2>6. f.seq < Done'
    BY <1>1, <1>2, <2>1, Zenon
  <2> QED BY <1>1, <1>2, <2>2, <2>3, <2>4, <2>5, <2>6, Zenon DEF Keeps, Written
<1> QED BY <1>1, <1>4, <1>5, Zenon

\* What has arrived stays written.
LEMMA ItemsKept ==
  ASSUME IInv, ProgressInv, Keeps, UNCHANGED receiver,
         \A f \in net' : Written(f.seq, f.frag_off + f.frag_len)'
  PROVE  ProgressInv'
<1>1. read_seq' <= Done'
  BY SMTT(30) DEF ProgressInv, Keeps, IInv, ReceiverInv, receiver
<1>2. ASSUME NEW q \in MsgId
      PROVE  ItemWritten(q, buffered[q])'
  <2>1. ItemWritten(q, buffered[q]) /\ buffered' = buffered
    BY Zenon DEF ProgressInv, receiver
  <2>2. q < Done => q < Done'
    BY Constants DEF Keeps
  <2>3. \A i \in 0 .. MsgLen[q] - 1 : Written(q, i + 1) => Written(q, i + 1)'
    BY Constants DEF Keeps
  <2> QED BY <2>1, <2>2, <2>3, Zenon DEF ItemWritten
<1> QED BY <1>1, <1>2, Zenon DEF ProgressInv, Keeps

\* All bytes of a message are written only when it is done.
LEMMA WholeWritten ==
  ASSUME SenderInv, NEW q \in MsgId, Written(q, MsgLen[q])
  PROVE  q < Done
<1>1. CASE FirstWrite /\ q = hdr.seq /\ hdr.frag_off > 0 /\ MsgLen[q] <= hdr.frag_off
  BY <1>1, SMTT(30), Constants DEF FirstWrite, SenderInv, WriteOK
<1> QED BY <1>1, Zenon DEF Written

\* More bytes written are also fewer bytes written.
LEMMA WrittenLess ==
  ASSUME SenderInv, NEW q \in MsgId, NEW e \in Int, NEW d \in Int, d <= e, Written(q, e)
  PROVE  Written(q, d)
  BY DEF Written, SenderInv

\* Nothing kept, nothing to be written.
LEMMA NoItemWritten == \A q \in MsgId : ItemWritten(q, NoItem)
  BY Zenon DEF ItemWritten

\* What is left of the queue when the past is dropped.
LEMMA FreshWritten ==
  ASSUME ProgressInv, NEW q \in MsgId
  PROVE  ItemWritten(q, Fresh[q])
  BY NoItemWritten, Zenon DEF ProgressInv, Fresh

\* A fragment that is put into an item has been written, and an item that
\* becomes whole by it has been written completely.
LEMMA CopiedWritten ==
  ASSUME SenderInv, NEW f, FragmentOK(f), f.frag_len # 0,
         Written(f.seq, f.frag_off + f.frag_len),
         NEW item, Partial(f.seq, item.bits, item.frag),
         \A i \in 0 .. MsgLen[f.seq] - 1 : Marked(item.bits, i) => Written(f.seq, i + 1)
  PROVE  ItemWritten(f.seq, CopiedInto(item, f))
<1> DEFINE q == f.seq  n == MsgLen[f.seq]  s == f.frag_off  e == f.frag_off + f.frag_len
           bits == BitmaskMark(item.bits, s, e)
<1>1. q \in MsgId /\ n \in Nat \ {0} /\ s \in Nat /\ e \in Nat /\ s < e /\ e <= n
  BY Constants DEF FragmentOK
<1>2. PICK frag : CopiedInto(item, f) =
        IF BitmaskIsComplete(bits, n) THEN Item(TRUE, <<>>, frag) ELSE Item(FALSE, bits, frag)
  BY Zenon DEF CopiedInto
<1>3. bits \in Bitmasks(n) /\ Within(bits, n)
  BY <1>1, MarkWithin, Zenon DEF Partial
<1>4. \A i \in 0 .. n - 1 : Marked(bits, i) <=> Marked(item.bits, i) \/ i \in s .. e - 1
  BY <1>1, MarkExact DEF Partial
<1> HIDE DEF bits
<1>5. \A i \in 0 .. n - 1 : Marked(bits, i) => Written(q, i + 1)
  <2>1. ASSUME NEW i \in s .. e - 1
        PROVE  Written(q, i + 1)
    BY <1>1, WrittenLess
  <2> QED BY <2>1, <1>4, Zenon
<1>6. CASE BitmaskIsComplete(bits, n)
  <2>1. \A i \in 0 .. n - 1 : Marked(bits, i)
    BY <1>6, <1>3, <1>1, CompleteExact, Zenon
  <2>2. n - 1 \in 0 .. n - 1 /\ (n - 1) + 1 = n
    BY <1>1
  <2>3. Written(q, n)
    BY <2>1, <2>2, <1>5, Zenon
  <2>4. q < Done
    BY <2>3, <1>1, WholeWritten, Zenon
  <2>5. CopiedInto(item, f).whole = TRUE
    <3>1. Item(TRUE, <<>>, frag).whole = TRUE
      BY Zenon DEF Item
    <3> QED BY <1>2, <1>6, <3>1, Zenon
  <2> QED BY <2>4, <2>5, Zenon DEF ItemWritten
<1>7. CASE ~BitmaskIsComplete(bits, n)
  <2>1. CopiedInto(item, f).whole = FALSE /\ CopiedInto(item, f).bits = bits
    <3>1. Item(FALSE, bits, frag).whole = FALSE /\ Item(FALSE, bits, frag).bits = bits
      BY Zenon DEF Item
    <3> QED BY <1>2, <1>7, <3>1, Zenon
  <2> QED BY <2>1, <1>5, Zenon DEF ItemWritten
<1> QED BY <1>6, <1>7, Zenon

\* dtls1_reassemble_fragment keeps only what has been written.
LEMMA ReassembledWritten ==
  ASSUME SenderInv, ReceiverInv, ProgressInv, NEW f, FragmentOK(f), f.frag_len # 0,
         Written(f.seq, f.frag_off + f.frag_len)
  PROVE  ItemWritten(f.seq, Reassembled(f))
<1> DEFINE item == IF Fresh[f.seq].present THEN Fresh[f.seq] ELSE NewItem(f.seq)
<1>1. f.seq \in MsgId /\ ItemInv(f.seq, Fresh[f.seq]) /\ ItemWritten(f.seq, Fresh[f.seq])
  BY FreshOK, FreshWritten, Zenon DEF FragmentOK
<1>2. CASE item.whole
  BY <1>1, <1>2, Zenon DEF Reassembled
<1>3. CASE ~item.whole
  <2>1. Reassembled(f) = CopiedInto(item, f)
    BY <1>3, Zenon DEF Reassembled
  <2>2. /\ Partial(f.seq, item.bits, item.frag)
        /\ \A i \in 0 .. MsgLen[f.seq] - 1 : Marked(item.bits, i) => Written(f.seq, i + 1)
    <3>1. CASE Fresh[f.seq].present
      <4>1. item = Fresh[f.seq] /\ Fresh[f.seq] # NoItem
        BY <3>1, NoItemFields, Zenon
      <4> QED BY <4>1, <1>1, <1>3, Zenon DEF ItemInv, Partial, ItemWritten
    <3>2. CASE ~Fresh[f.seq].present
      <4>1. item = NewItem(f.seq)
        BY <3>2, Zenon
      <4>2. Partial(f.seq, item.bits, item.frag)
        BY <4>1, <1>1, NewItemOK, Zenon
      <4>3. \A i \in 0 .. MsgLen[f.seq] - 1 : ~Marked(item.bits, i)
        BY <4>1, <1>1, NewUnmarked, Zenon
      <4> QED BY <4>2, <4>3, Zenon
    <3> QED BY <3>1, <3>2, Zenon
  <2> QED BY <2>1, <2>2, CopiedWritten, Zenon
<1> QED BY <1>2, <1>3, Zenon

\* The sender's part of the progress, seen from the receiver.
LEMMA ReceiverProgress ==
  ASSUME ProgressInv, UNCHANGED sender, net' \subseteq net,
         read_seq' <= Done, \A q \in MsgId : ItemWritten(q, buffered'[q])
  PROVE  ProgressInv'
<1>1. FirstWrite' = FirstWrite /\ Done' = Done /\ hdr' = hdr
  BY Zenon DEF FirstWrite, Done, sender
<1>2. \A q, e : Written(q, e)' <=> Written(q, e)
  BY <1>1, Zenon DEF Written
<1>3. SendingInv'
  BY Zenon DEF ProgressInv, SendingInv, FirstWrite, sender
<1>4. \A q \in MsgId : ItemWritten(q, buffered[q])'
  BY <1>1, <1>2, Zenon DEF ItemWritten
<1> QED BY <1>1, <1>2, <1>3, <1>4, Zenon DEF ProgressInv

\* The head of the queue has been written completely.
LEMMA RetrieveProgress ==
  ASSUME ReceiverInv, ProgressInv, SenderInv, dtls1_retrieve_buffered_fragment
  PROVE  ProgressInv' /\ read_seq < Done
<1>1. /\ read_seq \in MsgId /\ Fresh[read_seq].present /\ Fresh[read_seq].whole
  BY Constants DEF ReceiverInv, dtls1_retrieve_buffered_fragment, Ready, MsgId
<1>2. read_seq < Done
  <2>1. Fresh[read_seq] # NoItem
    BY <1>1, NoItemFields, Zenon
  <2> QED BY <1>1, <2>1, FreshWritten, Zenon DEF ItemWritten
<1>3. read_seq' <= Done
  BY <1>1, <1>2, Constants DEF dtls1_retrieve_buffered_fragment, dtls1_get_message, Done, SenderInv
<1>4. \A q \in MsgId : ItemWritten(q, buffered'[q])
  <2>1. ASSUME NEW q \in MsgId
        PROVE  buffered'[q] = NoItem \/ buffered'[q] = Fresh[q]
    BY FreshOK, Zenon DEF dtls1_retrieve_buffered_fragment
  <2> QED BY <2>1, FreshWritten, NoItemWritten, Zenon
<1>5. net' = net /\ UNCHANGED sender
  BY Zenon DEF dtls1_retrieve_buffered_fragment
<1> QED BY <1>2, <1>3, <1>4, <1>5, ReceiverProgress, Zenon

\* One item of the queue is replaced by one that has been written.
LEMMA QueueWritten ==
  ASSUME ReceiverInv, ProgressInv, NEW q \in MsgId, NEW item, ItemWritten(q, item)
  PROVE  \A p \in MsgId : ItemWritten(p, [Fresh EXCEPT ![q] = item][p])
<1>1. ASSUME NEW p \in MsgId
      PROVE  ItemWritten(p, [Fresh EXCEPT ![q] = item][p])
  <2>1. CASE p = q
    <3>1. [Fresh EXCEPT ![q] = item][p] = item
      BY <2>1, FreshOK, Zenon
    <3> QED BY <3>1, <2>1, Zenon
  <2>2. CASE p # q
    <3>1. [Fresh EXCEPT ![q] = item][p] = Fresh[p]
      BY <2>2, FreshOK, Zenon
    <3> QED BY <3>1, FreshWritten, Zenon
  <2> QED BY <2>1, <2>2, Zenon
<1> QED BY <1>1, Zenon

\* A record is read: what it brings has been written, and a message that it
\* completes has been written completely.
LEMMA ReadProgress ==
  ASSUME SenderInv, ReceiverInv, ProgressInv, NEW f \in net, FragmentOK(f),
         dtls1_get_message_fragment(f)
  PROVE  /\ ProgressInv'
         /\ \/ UNCHANGED <<read_seq, read_hashed>>
            \/ dtls1_get_message(Body(read_seq)) /\ read_seq < Done /\ read_seq \in MsgId
<1> DEFINE whole == f.frag_len = MsgLen[f.seq]
<1>1. /\ f.seq \in MsgId /\ MsgLen[f.seq] \in Nat /\ f.frag_len \in Nat /\ f.frag_off \in Nat
      /\ f.frag_off + f.frag_len <= MsgLen[f.seq] /\ (f.frag_len = 0 => whole)
      /\ read_seq \in Nat /\ Done \in Int
  BY Constants DEF FragmentOK, ReceiverInv, Done, SenderInv
<1>2. Written(f.seq, f.frag_off + f.frag_len)
  BY Zenon DEF ProgressInv
<1>3. ~(f.frag_off + f.frag_len > MsgLen[f.seq])
  BY <1>1
<1>4. ASSUME whole
      PROVE  f.data = Body(f.seq) /\ f.seq < Done
  <2>1. f.frag_off = 0 /\ f.frag_off + f.frag_len = MsgLen[f.seq]
    BY <1>1, <1>4
  <2>2. \A i \in 0 .. f.frag_len - 1 : 0 + i = i
    BY <1>1
  <2>3. f.data = Body(f.seq)
    BY <1>1, <1>4, <2>1, <2>2, Zenon DEF FragmentOK, Body
  <2>4. f.seq < Done
    BY <1>1, <1>2, <2>1, WholeWritten, Zenon
  <2> QED BY <2>3, <2>4, Zenon
<1>5. ASSUME ~whole
      PROVE  ItemWritten(f.seq, Reassembled(f))
  BY <1>1, <1>2, <1>5, ReassembledWritten, Zenon
<1>6. ASSUME whole
      PROVE  ItemWritten(f.seq, Item(TRUE, <<>>, f.data))
  <2>1. Item(TRUE, <<>>, f.data).whole = TRUE
    BY Zenon DEF Item
  <2> QED BY <2>1, <1>4, <1>6, Zenon DEF ItemWritten
<1>7. net' \subseteq net /\ UNCHANGED sender
  BY Zenon DEF dtls1_get_message_fragment
<1>8. CASE f.seq # read_seq
  <2>1. buffered' = OutOfSeq(f) /\ UNCHANGED <<read_seq, read_hashed>>
    BY <1>3, <1>8, Zenon DEF dtls1_get_message_fragment
  <2>2. \/ OutOfSeq(f) = Fresh
        \/ \E item : ItemWritten(f.seq, item) /\ OutOfSeq(f) = [Fresh EXCEPT ![f.seq] = item]
    <3>1. CASE whole
      BY <3>1, <1>6, Zenon DEF OutOfSeq
    <3>2. CASE ~whole
      BY <3>2, <1>5, Zenon DEF OutOfSeq
    <3> QED BY <3>1, <3>2, Zenon
  <2>3. \A q \in MsgId : ItemWritten(q, buffered'[q])
    BY <2>1, <2>2, <1>1, FreshWritten, QueueWritten, Zenon
  <2>4. read_seq' <= Done
    BY <2>1, Zenon DEF ProgressInv
  <2> QED BY <2>1, <2>3, <2>4, <1>7, ReceiverProgress, Zenon
<1>9. CASE f.seq = read_seq /\ ~whole
  <2>1. f.frag_len # 0 /\ f.frag_len < MsgLen[f.seq]
    BY <1>1, <1>9
  <2>2. /\ buffered' = [Fresh EXCEPT ![f.seq] = Reassembled(f)]
        /\ UNCHANGED <<read_seq, read_hashed>>
    BY <2>1, <1>3, <1>9, Zenon DEF dtls1_get_message_fragment
  <2>3. \A q \in MsgId : ItemWritten(q, buffered'[q])
    BY <2>2, <1>1, <1>5, <1>9, QueueWritten, Zenon
  <2>4. read_seq' <= Done
    BY <2>2, Zenon DEF ProgressInv
  <2> QED BY <2>2, <2>3, <2>4, <1>7, ReceiverProgress, Zenon
<1>10. CASE f.seq = read_seq /\ whole
  <2>1. ~(f.frag_len < MsgLen[f.seq])
    BY <1>1, <1>10
  <2>2. dtls1_get_message(f.data) /\ buffered' = Fresh
    BY <2>1, <1>3, <1>10, Zenon DEF dtls1_get_message_fragment
  <2>3. dtls1_get_message(Body(read_seq)) /\ read_seq < Done /\ read_seq \in MsgId
    BY <2>2, <1>1, <1>4, <1>10, Zenon
  <2>4. read_seq' <= Done
    BY <2>3, <1>1 DEF dtls1_get_message
  <2>5. \A q \in MsgId : ItemWritten(q, buffered'[q])
    BY <2>2, FreshWritten, Zenon
  <2> QED BY <2>3, <2>4, <2>5, <1>7, ReceiverProgress, Zenon
<1> QED BY <1>8, <1>9, <1>10, Zenon

\* Every byte of a message that is written for the first time enters the
\* hash once, and the header in front of the first of them.
LEMMA HashedPiece ==
  ASSUME SenderInv, init_num > 0, NEW len \in Nat, HL <= len, len <= Left
  PROVE  LET n == IF hdr.frag_off = 0 THEN len ELSE len - HL
         IN  Hashed(len) = [i \in 1 .. n |-> MsgCell(hdr.seq, InHash + i)]
<1> DEFINE q == hdr.seq  o == hdr.frag_off
           n == IF hdr.frag_off = 0 THEN len ELSE len - HL
           from == IF Offset = 0 THEN Start ELSE Start + HL
<1>1. /\ WriteOK /\ Offset = o /\ Start = o /\ Left = HL + MsgLen[q] - o
      /\ o \in Nat /\ q \in MsgId /\ MsgLen[q] \in Nat /\ HL \in Nat /\ HL > 0
  BY Turn, Constants, Zenon DEF SenderInv, WriteOK
<1>2. Hashed(len) = [i \in 1 .. Start + len - from |-> WithHeader[from + i - 1]]
  BY Zenon DEF Hashed
<1>3. Start + len - from = n /\ from = InHash
  <2>1. CASE o = 0
    BY <1>1, <2>1 DEF InHash
  <2>2. CASE o # 0
    BY <1>1, <2>2 DEF InHash
  <2> QED BY <2>1, <2>2, Zenon
<1>4. ASSUME NEW i \in 1 .. n
      PROVE  WithHeader[InHash + i - 1] = MsgCell(q, InHash + i)
  <2>1. /\ InHash + i - 1 \in 0 .. HL + MsgLen[q] - 1
        /\ InHash + i - 1 >= HL => InHash + i - 1 \in HL + o .. HL + MsgLen[q] - 1
        /\ InHash + i - 1 < HL => o = 0
    <3>1. CASE o = 0
      BY <1>1, <3>1 DEF InHash
    <3>2. CASE o # 0
      BY <1>1, <3>2 DEF InHash
    <3> QED BY <3>1, <3>2, Zenon
  <2>2. InHash \in Nat /\ DOMAIN buf = 0 .. HL + MsgLen[q] - 1
    BY <1>1 DEF InHash, WriteOK
  <2>3. CASE InHash + i - 1 < HL
    BY <2>1, <2>2, <2>3, <1>1 DEF WithHeader, MsgCell
  <2>4. CASE InHash + i - 1 >= HL
    <3>1. WithHeader[InHash + i - 1] = buf[InHash + i - 1]
      BY <2>1, <2>4, HeaderOverSent, Zenon
    <3>2. PICK c : c = InHash + i - 1
      BY Zenon
    <3>3. c \in HL + o .. HL + MsgLen[q] - 1
      BY <2>1, <2>4, <3>2, Zenon
    <3>4. buf[c] = Byte(q, c - HL)
      BY <3>3, <1>1, Zenon DEF WriteOK
    <3>5. c - HL = (InHash + i) - HL - 1 /\ ~(InHash + i <= HL)
      BY <2>2, <2>4, <3>2, <1>1
    <3>6. MsgCell(q, InHash + i) = Byte(q, c - HL)
      BY <3>5, Zenon DEF MsgCell
    <3> QED BY <3>1, <3>2, <3>4, <3>6, Zenon
  <2> QED BY <2>3, <2>4, <2>2, <1>1
<1> HIDE DEF n, from
<1>5. Hashed(len) = [i \in 1 .. n |-> WithHeader[InHash + i - 1]]
  BY <1>2, <1>3, Zenon
<1>6. Hashed(len) = [i \in 1 .. n |-> MsgCell(q, InHash + i)]
  BY <1>4, <1>5, Zenon
<1> QED BY <1>6, Zenon DEF n

\* The cells of a message in the hash.
LEMMA MsgCellType ==
  ASSUME NEW q \in MsgId, NEW c \in Nat
  PROVE  MsgCell(q, c) \in Cell
  BY Constants DEF MsgCell, Cell, Byte, Header

\* A piece added to a hash leaves what is there.
LEMMA Grown ==
  ASSUME NEW s \in Seq(Cell), NEW n \in Nat, NEW g \in [1 .. n -> Cell]
  PROVE  /\ s \o g \in Seq(Cell) /\ Len(s \o g) = Len(s) + n
         /\ \A i \in 1 .. Len(s) : (s \o g)[i] = s[i]
         /\ \A i \in 1 .. n : (s \o g)[Len(s) + i] = g[i]
<1>1. g \in Seq(Cell) /\ Len(g) = n
  OBVIOUS
<1>2. PICK l \in Nat : l = Len(s)
  OBVIOUS
<1>3. /\ s \o g \in Seq(Cell) /\ Len(s \o g) = l + n
      /\ \A i \in 1 .. l + n : (s \o g)[i] = IF i <= l THEN s[i] ELSE g[i - l]
  BY <1>1, <1>2, ConcatProperties, Zenon
<1>4. ASSUME NEW i \in 1 .. l
      PROVE  (s \o g)[i] = s[i]
  BY <1>3
<1>5. ASSUME NEW i \in 1 .. n
      PROVE  (s \o g)[l + i] = g[i]
  <2>1. l + i \in 1 .. l + n /\ ~(l + i <= l) /\ (l + i) - l = i
    OBVIOUS
  <2> QED BY <2>1, <1>3, Zenon
<1> QED BY <1>2, <1>3, <1>4, <1>5, Zenon

\* A message is serialised; the flight is sent again; a write blocks: the
\* hashes are left alone.
LEMMA LoadHash ==
  ASSUME IInv, ProgressInv, HashInv,
         dtls1_set_handshake_header \/ dtls1_retransmit_buffered_messages
  PROVE  HashInv'
<1>1. /\ init_num = 0 /\ ~retransmitting /\ next_seq \in Nat /\ ~FirstWrite /\ Done = next_seq
      /\ hashed' = hashed /\ read_hashed' = read_hashed /\ read_seq' = read_seq
      /\ read_seq \in Nat /\ read_seq <= next_seq
  BY DEF ProgressInv, SendingInv, SenderInv, dtls1_set_handshake_header, dtls1_retransmit_buffered_messages,
         Done, FirstWrite, receiver, IInv, ReceiverInv
<1>2. PICK m \in [0 .. next_seq -> Nat] : SenderHash(m) /\ ReceiverHash(m)
  BY Zenon DEF HashInv
<1>3. CASE dtls1_set_handshake_header
  <2>1. /\ hdr'.seq = next_seq /\ hdr'.frag_off = 0 /\ next_seq' = next_seq + 1
        /\ init_num' = HL + MsgLen[next_seq] /\ next_seq \in MsgId
        /\ retransmitting' = retransmitting
    BY <1>3, <1>1, Constants DEF dtls1_set_handshake_header, Load, MsgId
  <2>2. /\ MsgLen[next_seq] \in Nat /\ HL \in Nat /\ init_num' > 0
    BY <2>1, Constants
  <2>3. FirstWrite' /\ Done' = next_seq /\ InHash' = 0
    BY <1>1, <2>1, <2>2 DEF FirstWrite, Done, InHash
  <2> PICK k : k = [q \in 0 .. next_seq + 1 |->
                     IF q = next_seq + 1 THEN m[next_seq] + HL + MsgLen[next_seq] ELSE m[q]]
    BY Zenon
  <2>4. /\ k \in [0 .. next_seq' -> Nat] /\ \A q \in 0 .. next_seq : k[q] = m[q]
        /\ k[next_seq + 1] = m[next_seq] + HL + MsgLen[next_seq]
    BY <1>1, <2>1, <2>2
  <2>5. k[0] = 0
    BY <1>1, <1>2, <2>4 DEF SenderHash
  <2>6. \A q \in 0 .. next_seq' - 1 : k[q + 1] = k[q] + HL + MsgLen[q]
    <3>1. ASSUME NEW q \in 0 .. next_seq' - 1
          PROVE  k[q + 1] = k[q] + HL + MsgLen[q]
      <4>1. CASE q = next_seq
        BY <4>1, <1>1, <2>4
      <4>2. CASE q # next_seq
        <5>1. q \in 0 .. next_seq - 1 /\ q \in 0 .. next_seq /\ q + 1 \in 0 .. next_seq
          BY <4>2, <1>1, <2>1
        <5> QED BY <5>1, <2>4, <1>2, Zenon DEF SenderHash
      <4> QED BY <4>1, <4>2, Zenon
    <3> QED BY <3>1, Zenon
  <2>7. ASSUME NEW p \in 0 .. next_seq', NEW q \in 0 .. next_seq', p <= q
        PROVE  k[p] <= k[q]
    <3>1. CASE q \in 0 .. next_seq
      <4>1. p \in 0 .. next_seq
        BY <3>1, <2>7, <1>1, <2>1
      <4> QED BY <3>1, <4>1, <2>4, <2>7, <1>2, Zenon DEF SenderHash
    <3>2. CASE q = next_seq + 1 /\ p \in 0 .. next_seq
      <4>1. m[p] <= m[next_seq] /\ m[p] \in Nat /\ m[next_seq] \in Nat
        BY <3>2, <1>1, <1>2 DEF SenderHash
      <4>2. k[p] = m[p] /\ k[q] = m[next_seq] + HL + MsgLen[next_seq]
        BY <3>2, <2>4, Zenon
      <4> QED BY <4>1, <4>2, <2>2
    <3>3. CASE q = next_seq + 1 /\ p = next_seq + 1
      BY <3>3, <2>4, <1>1, <2>2
    <3> QED BY <3>1, <3>2, <3>3, <1>1, <2>1
  <2>8. Len(hashed) = m[next_seq] /\ Len(hashed) = k[next_seq] /\ m[next_seq] \in Nat
    BY <1>1, <1>2, <2>4 DEF SenderHash
  <2>9. ASSUME NEW q \in 0 .. next_seq' - 1, NEW c \in 1 .. HL + MsgLen[q],
               k[q] + c <= Len(hashed)
        PROVE  hashed[k[q] + c] = MsgCell(q, c)
    <3>1. q # next_seq
      BY <2>8, <2>9, <2>4, <1>1, <2>2
    <3>2. q \in 0 .. next_seq - 1 /\ q \in 0 .. next_seq
      BY <3>1, <1>1, <2>1
    <3>3. k[q] = m[q]
      BY <3>2, <2>4, Zenon
    <3> QED BY <3>2, <3>3, <2>9, <1>2, Zenon DEF SenderHash
  <2>10. SenderHash(k)'
    <3>1. Len(hashed') = k[Done'] + (IF FirstWrite' THEN InHash' ELSE 0)
      BY <2>3, <2>8, <1>1
    <3>2. \A q \in 0 .. next_seq' - 1 : \A c \in 1 .. HL + MsgLen[q] :
            k[q] + c <= Len(hashed') => hashed'[k[q] + c] = MsgCell(q, c)
      BY <2>9, <1>1, Zenon
    <3> QED BY <3>1, <3>2, <2>5, <2>6, <2>7, Zenon DEF SenderHash
  <2>11. ReceiverHash(k)'
    <3>1. read_seq \in 0 .. next_seq
      BY <1>1
    <3> QED BY <3>1, <1>1, <1>2, <2>4, Zenon DEF ReceiverHash
  <2> QED BY <2>4, <2>10, <2>11, <1>1, Zenon DEF HashInv
<1>4. CASE dtls1_retransmit_buffered_messages
  <2>1. next_seq' = next_seq /\ retransmitting' = TRUE
    BY <1>4, Zenon DEF dtls1_retransmit_buffered_messages
  <2>2. ~FirstWrite' /\ Done' = next_seq
    BY <2>1, Zenon DEF FirstWrite, Done
  <2>3. Len(hashed') = m[Done']
    BY <1>1, <1>2, <2>2 DEF SenderHash
  <2>4. SenderHash(m)'
    BY <1>1, <1>2, <2>1, <2>2, <2>3, Zenon DEF SenderHash
  <2>5. ReceiverHash(m)'
    BY <1>1, <1>2, Zenon DEF ReceiverHash
  <2> QED BY <1>1, <2>1, <2>4, <2>5, Zenon DEF HashInv
<1> QED BY <1>3, <1>4, Zenon

\* A write that blocks hashes nothing.
LEMMA BlockedHash ==
  ASSUME WritesFail => NoQueryMtu, SenderInv, SendingInv, HashInv, FlushBlocks \/ WriteFails
  PROVE  HashInv'
<1>1. hdr' = hdr /\ FirstWrite /\ FirstWrite' /\ Done' = Done
  BY BlockedKeeps, Zenon
<1>2. UNCHANGED <<hashed, read_hashed, read_seq, next_seq>>
  BY Zenon DEF FlushBlocks, WriteFails, receiver
<1>3. InHash' = InHash
  BY <1>1, Zenon DEF InHash
<1>4. PICK m \in [0 .. next_seq -> Nat] : SenderHash(m) /\ ReceiverHash(m)
  BY Zenon DEF HashInv
<1>5. Len(hashed') = m[Done'] + (IF FirstWrite' THEN InHash' ELSE 0)
  BY <1>1, <1>2, <1>3, <1>4, Zenon DEF SenderHash
<1>6. SenderHash(m)'
  BY <1>2, <1>4, <1>5, Zenon DEF SenderHash
<1>7. ReceiverHash(m)'
  BY <1>2, <1>4, Zenon DEF ReceiverHash
<1> QED BY <1>2, <1>6, <1>7, Zenon DEF HashInv

\* The next piece of a message enters the hash when it is first written, and
\* nothing does when it is written again.
LEMMA WriteHash ==
  ASSUME SenderInv, SendingInv, HashInv, NEW room \in Rooms, WritesFragment(room)
  PROVE  HashInv'
<1> DEFINE q == hdr.seq  o == hdr.frag_off
<1>1. PICK len \in Nat :
           /\ init_num > 0 /\ len >= HL /\ len <= Left /\ next_seq' = next_seq
           /\ hashed' = IF retransmitting THEN hashed ELSE hashed \o Hashed(len)
           /\ \/ /\ len < Left /\ len > HL /\ init_num' > 0 /\ retransmitting' = retransmitting
                 /\ hdr'.seq = hdr.seq /\ hdr'.frag_off = hdr.frag_off + len - HL
              \/ /\ len = Left /\ retransmitting /\ hdr.seq + 1 < next_seq
                 /\ init_num' > 0 /\ retransmitting' = TRUE /\ hdr'.seq = hdr.seq + 1
              \/ /\ len = Left /\ ~(retransmitting /\ hdr.seq + 1 < next_seq)
                 /\ init_num' = 0 /\ retransmitting' = FALSE
  BY WriteFacts, Zenon
<1>2. read_seq' = read_seq /\ read_hashed' = read_hashed
  BY Zenon DEF WritesFragment, receiver
<1>3. PICK m : m \in [0 .. next_seq -> Nat] /\ SenderHash(m) /\ ReceiverHash(m)
  BY Zenon DEF HashInv
<1>4. /\ Left = HL + MsgLen[q] - o
      /\ o \in Nat /\ q \in MsgId /\ q \in Nat /\ MsgLen[q] \in Nat /\ HL \in Nat /\ HL > 0
      /\ next_seq \in Nat /\ (o = 0 \/ o < MsgLen[q])
  BY <1>1, Turn, Constants DEF SenderInv, WriteOK
<1>5. CASE retransmitting
  <2>1. hashed' = hashed /\ ~FirstWrite /\ Done = next_seq
    BY <1>1, <1>5, Zenon DEF FirstWrite, Done
  <2>2. ~FirstWrite' /\ Done' = next_seq
    <3>1. init_num' = 0 \/ retransmitting'
      BY <1>1, <1>5, Zenon
    <3> QED BY <1>1, <3>1 DEF FirstWrite, Done
  <2>3. Len(hashed') = m[Done'] + (IF FirstWrite' THEN InHash' ELSE 0)
    <3>1. Len(hashed) = m[next_seq] + 0
      BY <1>3, <2>1, Zenon DEF SenderHash
    <3> QED BY <3>1, <2>1, <2>2, Zenon
  <2>4. SenderHash(m)'
    BY <1>1, <1>3, <2>1, <2>2, <2>3, Zenon DEF SenderHash
  <2>5. ReceiverHash(m)'
    BY <1>2, <1>3, <2>1, Zenon DEF ReceiverHash
  <2> QED BY <1>1, <1>2, <1>3, <2>1, <2>4, <2>5, Zenon DEF HashInv
<1>6. CASE ~retransmitting
  <2> DEFINE n == IF o = 0 THEN len ELSE len - HL
  <2>1. FirstWrite /\ Done = next_seq - 1 /\ q = next_seq - 1
    BY <1>1, <1>6, Zenon DEF FirstWrite, Done, SendingInv
  <2>2. PICK g : g = Hashed(len)
    BY Zenon
  <2>3. g = [i \in 1 .. n |-> MsgCell(q, InHash + i)] /\ n \in Nat /\ InHash \in Nat
    <3>1. n \in Nat /\ InHash \in Nat
      BY <1>1, <1>4 DEF InHash
    <3> QED BY <1>1, <2>2, <3>1, HashedPiece, Zenon
  <2>4. \A i \in 1 .. n : g[i] = MsgCell(q, InHash + i) /\ g[i] \in Cell
    BY <2>3, <1>4, MsgCellType
  <2>5. hashed' = hashed \o g /\ hashed \in Seq(Cell) /\ Len(hashed) \in Nat
    BY <1>1, <1>6, <2>2 DEF HashInv
  <2> HIDE DEF n
  <2>6a. g \in [1 .. n -> Cell]
    BY <2>3, <2>4, Zenon
  <2>6. n \in Nat /\ InHash \in Nat
    BY <2>3, Zenon
  <2>7. /\ hashed' \in Seq(Cell) /\ Len(hashed') = Len(hashed) + n
        /\ \A i \in 1 .. Len(hashed) : hashed'[i] = hashed[i]
        /\ \A i \in 1 .. n : hashed'[Len(hashed) + i] = g[i]
    BY <2>5, <2>6a, <2>6, Grown, Zenon
  <2>8. PICK a \in Nat, b \in Nat, l \in Nat, k \in Nat, r \in Nat :
          /\ a = m[q] /\ b = m[next_seq] /\ l = Len(hashed) /\ k = InHash /\ r = MsgLen[q]
          /\ l = a + k /\ b = a + HL + r
    <3>1. m[q] \in Nat /\ m[next_seq] \in Nat
      BY <1>3, <1>4, <2>1
    <3>2. Len(hashed) = m[q] + InHash
      BY <1>3, <2>1, Zenon DEF SenderHash
    <3>3. m[next_seq] = m[q] + HL + MsgLen[q]
      <4>1. q \in 0 .. next_seq - 1 /\ q + 1 = next_seq
        BY <1>4, <2>1
      <4> QED BY <1>3, <4>1, Zenon DEF SenderHash
    <3> QED BY <1>4, <2>5, <2>6, <3>1, <3>2, <3>3, Zenon
  <2>9. Len(hashed') = m[Done'] + (IF FirstWrite' THEN InHash' ELSE 0)
    <3>1. CASE len < Left /\ len > HL /\ init_num' > 0 /\ retransmitting' = retransmitting
               /\ hdr'.frag_off = hdr.frag_off + len - HL
      <4>1. FirstWrite' /\ Done' = q
        BY <1>1, <1>6, <2>1, <3>1, Zenon DEF FirstWrite, Done
      <4>2. PICK j \in Nat : j = InHash' /\ j = o + len
        BY <1>4, <3>1 DEF InHash
      <4>3. k + n = o + len
        BY <1>4, <2>8 DEF InHash, n
      <4>4. l + n = a + j
        BY <2>6, <2>8, <4>2, <4>3
      <4>5. Len(hashed') = l + n
        BY <2>7, <2>8, Zenon
      <4> QED BY <2>8, <4>1, <4>2, <4>4, <4>5, Zenon
    <3>2. CASE len = Left /\ init_num' = 0
      <4>1. ~FirstWrite' /\ Done' = next_seq
        BY <1>1, <3>2 DEF FirstWrite, Done
      <4>2. k + n = HL + r
        BY <1>4, <2>8, <3>2 DEF InHash, n
      <4>3. l + n = b + 0
        <5>1. l + n = a + (k + n) /\ b = a + (HL + r)
          BY <1>4, <2>6, <2>8
        <5> QED BY <5>1, <4>2
      <4>4. Len(hashed') = l + n
        BY <2>7, <2>8, Zenon
      <4> QED BY <2>8, <4>1, <4>3, <4>4, Zenon
    <3> QED BY <1>1, <1>6, <3>1, <3>2, Zenon
  <2>10. ASSUME NEW p \in 0 .. next_seq - 1, NEW c \in 1 .. HL + MsgLen[p],
                m[p] + c <= Len(hashed')
         PROVE  hashed'[m[p] + c] = MsgCell(p, c)
    <3>0. /\ m[p] \in Nat /\ MsgLen[p] \in Nat /\ p \in MsgId /\ p + 1 \in 0 .. next_seq
          /\ c \in Nat /\ c > 0
      BY <1>3, <1>4, Constants DEF SenderInv, MsgId
    <3> PICK z \in Nat, y \in Nat : z = m[p] /\ y = MsgLen[p]
      BY <3>0, Zenon
    <3>1. CASE z + c <= l
      <4>1. hashed[z + c] = MsgCell(p, c)
        BY <1>3, <2>8, <3>1, Zenon DEF SenderHash
      <4>2. z + c \in 1 .. l
        BY <3>0, <3>1
      <4> QED BY <4>1, <4>2, <2>7, <2>8, Zenon
    <3>2. CASE z + c > l
      <4>1. p = q
        <5>1. m[p + 1] = z + HL + y
          BY <1>3, Zenon DEF SenderHash
        <5>2. CASE p # q
          <6>1. p + 1 <= q /\ q \in 0 .. next_seq
            BY <5>2, <2>1, <1>4
          <6>2. m[p + 1] <= a
            BY <1>3, <2>8, <3>0, <6>1, Zenon DEF SenderHash
          <6>3. z + HL + y <= a /\ c <= HL + y
            BY <5>1, <6>2
          <6> QED BY <6>3, <3>0, <3>2, <2>8, <1>4
        <5> QED BY <5>2, Zenon
      <4>2. PICK i \in Int : i = z + c - l
        BY <3>0
      <4>3. z + c <= l + n
        BY <2>7, <2>8, <2>10, Zenon
      <4>4. i \in 1 .. n /\ z + c = l + i
        <5>1. z + c = l + i /\ i > 0
          BY <4>2, <3>0, <3>2
        <5> QED BY <5>1, <4>3, <2>6
      <4>5. c = k + i
        <5>1. z = a
          BY <4>1, <2>8, Zenon
        <5> QED BY <5>1, <4>4, <3>0, <2>8
      <4>6. hashed'[l + i] = MsgCell(q, k + i)
        BY <4>4, <2>4, <2>7, <2>8, Zenon
      <4> QED BY <4>1, <4>4, <4>5, <4>6, Zenon
    <3> QED BY <3>0, <3>1, <3>2
  <2>11. SenderHash(m)'
    BY <1>1, <1>3, <2>9, <2>10, Zenon DEF SenderHash
  <2>12. ReceiverHash(m)'
    <3>1. Len(read_hashed) = m[read_seq] /\ Len(read_hashed) \in Nat
      BY <1>3 DEF ReceiverHash, HashInv
    <3>2. ASSUME NEW i \in 1 .. Len(read_hashed)
          PROVE  i <= Len(hashed') /\ read_hashed[i] = hashed'[i]
      <4>1. i <= Len(hashed) /\ read_hashed[i] = hashed[i]
        BY <1>3, Zenon DEF ReceiverHash
      <4> QED BY <4>1, <2>5, <2>6, <2>7, <3>1
    <3> QED BY <3>1, <3>2, <1>2, Zenon DEF ReceiverHash
  <2> QED BY <1>1, <1>2, <1>3, <2>7, <2>11, <2>12, Zenon DEF HashInv
<1> QED BY <1>5, <1>6, Zenon

\* A message that is handed on enters the receiver's hash where the sender
\* put it into its own.
LEMMA ReadHash ==
  ASSUME IInv, HashInv, UNCHANGED sender, dtls1_get_message(Body(read_seq)),
         read_seq < Done, read_seq \in MsgId
  PROVE  HashInv'
<1>1. PICK m : m \in [0 .. next_seq -> Nat] /\ SenderHash(m) /\ ReceiverHash(m)
  BY Zenon DEF HashInv
<1>2. PICK q \in MsgId : q = read_seq
  BY Zenon
<1>3. /\ q \in Nat /\ MsgLen[q] \in Nat /\ HL \in Nat /\ next_seq \in Nat
      /\ Done \in 0 .. next_seq /\ q \in 0 .. next_seq - 1 /\ q + 1 \in 0 .. next_seq
      /\ q + 1 <= Done /\ q \in 0 .. next_seq
  BY <1>2, Constants DEF IInv, SenderInv, Done, FirstWrite, MsgId
<1> DEFINE n == HL + MsgLen[q]
<1>4. PICK g : g = [c \in 1 .. n |-> IF c <= HL THEN Header ELSE Body(q)[c - HL - 1]]
  BY Zenon
<1>5. \A c \in 1 .. n : g[c] = MsgCell(q, c)
  BY <1>3, <1>4 DEF MsgCell, Body
<1>6. \A c \in 1 .. n : g[c] \in Cell
  BY <1>3, <1>5, MsgCellType
<1>7. read_hashed' = read_hashed \o g /\ read_seq' = q + 1
  BY <1>2, <1>4, Zenon DEF dtls1_get_message
<1>8a. g \in [1 .. n -> Cell]
  <2>1. n \in Nat /\ DOMAIN g = 1 .. n /\ g = [c \in DOMAIN g |-> g[c]]
    BY <1>3, <1>4
  <2> HIDE DEF n
  <2> QED BY <2>1, <1>6, Zenon
<1>8. n \in Nat
  BY <1>3
<1>9. UNCHANGED <<hashed, next_seq>> /\ SenderHash(m)'
  BY <1>1, Zenon DEF sender, SenderHash, Done, FirstWrite, InHash
<1>10. hashed \in Seq(Cell) /\ read_hashed \in Seq(Cell) /\ Len(hashed) \in Nat
       /\ Len(read_hashed) \in Nat
  BY DEF HashInv
<1> HIDE DEF n
<1>11. /\ read_hashed' \in Seq(Cell) /\ Len(read_hashed') = Len(read_hashed) + n
       /\ \A i \in 1 .. Len(read_hashed) : read_hashed'[i] = read_hashed[i]
       /\ \A i \in 1 .. n : read_hashed'[Len(read_hashed) + i] = g[i]
  BY <1>8a, <1>7, <1>8, <1>10, Grown, Zenon
<1>12. /\ m[q + 1] = m[q] + n /\ m[q] \in Nat /\ m[q + 1] \in Nat /\ m[Done] \in Nat
       /\ m[q + 1] <= m[Done] /\ m[Done] <= Len(hashed) /\ Len(read_hashed) = m[q]
  <2>1. m[q + 1] = m[q] + n
    BY <1>1, <1>3 DEF SenderHash, n
  <2>2. m[q + 1] <= m[Done]
    BY <1>1, <1>3, Zenon DEF SenderHash
  <2>3. m[q] \in Nat /\ m[q + 1] \in Nat /\ m[Done] \in Nat
    BY <1>1, <1>3, Zenon
  <2>4. InHash \in Nat
    BY <1>3 DEF InHash, IInv, SenderInv
  <2>5. m[Done] <= Len(hashed)
    BY <1>1, <2>3, <2>4 DEF SenderHash
  <2>6. Len(read_hashed) = m[q]
    BY <1>1, <1>2, Zenon DEF ReceiverHash
  <2> QED BY <2>1, <2>2, <2>3, <2>5, <2>6, Zenon
<1>13. ASSUME NEW i \in 1 .. Len(read_hashed')
       PROVE  i <= Len(hashed) /\ read_hashed'[i] = hashed[i]
  <2>1. CASE i <= Len(read_hashed)
    <3>1. i \in 1 .. Len(read_hashed)
      BY <2>1, <1>8, <1>10, <1>11
    <3> QED BY <3>1, <1>1, <1>11, Zenon DEF ReceiverHash
  <2>2. CASE i > Len(read_hashed)
    <3>1. PICK c \in Int : c = i - Len(read_hashed)
      <4>1. Len(read_hashed') \in Nat
        BY <1>8, <1>10, <1>11
      <4> QED BY <4>1, <1>10
    <3>2. c \in 1 .. n /\ i = Len(read_hashed) + c
      BY <2>2, <3>1, <1>8, <1>10, <1>11
    <3>4. i = m[q] + c
      BY <3>2, <1>12, Zenon
    <3>5. i <= Len(hashed)
      <4>1. i <= m[q] + n
        BY <1>11, <1>12
      <4>2. i <= m[q + 1]
        BY <4>1, <1>12, Zenon
      <4> QED BY <4>2, <1>10, <1>12
    <3>6. c \in 1 .. HL + MsgLen[q] /\ m[q] + c <= Len(hashed)
      BY <3>2, <3>4, <3>5, Zenon DEF n
    <3>3. hashed[m[q] + c] = MsgCell(q, c)
      BY <3>6, <1>1, <1>3, Zenon DEF SenderHash
    <3> QED BY <3>2, <3>3, <3>4, <3>5, <3>6, <1>5, <1>11, Zenon DEF n
  <2> QED BY <2>1, <2>2, <1>8, <1>10, <1>11
<1>14. ReceiverHash(m)'
  BY <1>7, <1>9, <1>11, <1>12, <1>13, Zenon DEF ReceiverHash
<1> QED BY <1>1, <1>9, <1>10, <1>11, <1>14, Zenon DEF HashInv

\* Nothing is written and nothing hashed.
LEMMA InitProgress == Init => ProgressInv /\ HashInv
<1> SUFFICES ASSUME Init PROVE ProgressInv /\ HashInv
  BY Zenon
<1>1. /\ init_num = 0 /\ retransmitting = FALSE /\ next_seq = 0 /\ net = {}
      /\ read_seq = 0 /\ hashed = <<>> /\ read_hashed = <<>>
  BY Zenon DEF Init
<1>2. ~FirstWrite /\ Done = 0
  BY <1>1 DEF FirstWrite, Done
<1>3. \A q \in MsgId : buffered[q] = NoItem
  BY Zenon DEF Init
<1>4. SendingInv
  BY <1>1, <1>2 DEF SendingInv
<1>5. ProgressInv
  BY <1>1, <1>2, <1>3, <1>4, NoItemWritten DEF ProgressInv
<1>6. PICK m : m = [q \in 0 .. 0 |-> 0]
  BY Zenon
<1>7. m \in [0 .. next_seq -> Nat] /\ m[0] = 0 /\ Len(hashed) = 0 /\ Len(read_hashed) = 0
  BY <1>1, <1>6
<1>8. SenderHash(m)
  <2>1. Len(hashed) = m[Done] + (IF FirstWrite THEN InHash ELSE 0)
    BY <1>2, <1>7
  <2>2. \A p, q \in 0 .. next_seq : p <= q => m[p] <= m[q]
    <3>1. \A p \in 0 .. next_seq : p = 0
      BY <1>1
    <3> QED BY <3>1, <1>7, Zenon
  <2>3. 0 .. next_seq - 1 = {}
    BY <1>1
  <2> QED BY <1>7, <2>1, <2>2, <2>3, Zenon DEF SenderHash
<1>9. ReceiverHash(m)
  BY <1>1, <1>7 DEF ReceiverHash
<1> QED BY <1>1, <1>5, <1>7, <1>8, <1>9 DEF HashInv

\* What does not change keeps the hashes.
LEMMA HashKept ==
  ASSUME HashInv, UNCHANGED <<sender, read_seq, read_hashed>>
  PROVE  HashInv'
<1>1. PICK m : m \in [0 .. next_seq -> Nat] /\ SenderHash(m) /\ ReceiverHash(m)
  BY Zenon DEF HashInv
<1>2. Done' = Done /\ FirstWrite' = FirstWrite /\ InHash' = InHash
  BY Zenon DEF Done, FirstWrite, InHash, sender
<1>3. hashed' = hashed /\ next_seq' = next_seq
  BY Zenon DEF sender
<1>4. SenderHash(m)'
  BY <1>1, <1>2, <1>3, Zenon DEF SenderHash
<1>5. ReceiverHash(m)'
  BY <1>1, <1>3, Zenon DEF ReceiverHash
<1> QED BY <1>1, <1>3, <1>4, <1>5, Zenon DEF HashInv

\* Every step of the flight keeps the hashes together.
LEMMA NextProgress ==
  ASSUME WritesFail => NoQueryMtu, IInv, ProgressInv, HashInv, [Next]_vars
  PROVE  ProgressInv' /\ HashInv'
<1>0. SenderInv /\ ReceiverInv /\ SendingInv
      /\ \A f \in net : FragmentOK(f) /\ Written(f.seq, f.frag_off + f.frag_len)
  BY Zenon DEF IInv, ProgressInv
<1>1. ASSUME Keeps, UNCHANGED <<net, receiver>>
      PROVE  ProgressInv'
  <2>1. ASSUME NEW f \in net'
        PROVE  Written(f.seq, f.frag_off + f.frag_len)'
    <3>1. f \in net /\ f.seq \in MsgId /\ f.frag_off \in Nat /\ f.frag_len \in Nat
      BY <1>0, <1>1, <2>1, Zenon DEF FragmentOK
    <3>2. f.frag_off + f.frag_len \in Int
      BY <3>1
    <3> QED BY <1>0, <1>1, <3>1, <3>2, Zenon DEF Keeps
  <2> QED BY <1>1, <2>1, ItemsKept, Zenon
<1>2. CASE dtls1_set_handshake_header \/ dtls1_retransmit_buffered_messages
  <2>1. UNCHANGED <<net, receiver>>
    BY <1>2, Zenon DEF dtls1_set_handshake_header, dtls1_retransmit_buffered_messages
  <2> QED BY <1>0, <1>1, <1>2, <2>1, LoadKeeps, LoadHash, Zenon
<1>3. CASE FlushBlocks \/ WriteFails
  <2>1. UNCHANGED <<net, receiver>>
    BY <1>3, Zenon DEF FlushBlocks, WriteFails
  <2> QED BY <1>0, <1>1, <1>3, <2>1, BlockedKeeps, BlockedHash, Zenon
<1>4. ASSUME NEW room \in Rooms, WritesFragment(room)
      PROVE  ProgressInv' /\ HashInv'
  <2>1. UNCHANGED receiver
    BY <1>4, Zenon DEF WritesFragment
  <2>2. Keeps /\ \A f \in net' : Written(f.seq, f.frag_off + f.frag_len)'
    BY <1>0, <1>4, WriteKeeps, Zenon
  <2> QED BY <1>0, <1>4, <2>1, <2>2, ItemsKept, WriteHash, Zenon
<1>5. CASE dtls1_retrieve_buffered_fragment
  <2>1. UNCHANGED sender
    BY <1>5, Zenon DEF dtls1_retrieve_buffered_fragment
  <2>2. ProgressInv' /\ read_seq < Done
    BY <1>0, <1>5, RetrieveProgress, Zenon
  <2>3. read_seq \in MsgId /\ dtls1_get_message(Body(read_seq))
    <3>1. /\ read_seq \in MsgId /\ Fresh[read_seq].present /\ Fresh[read_seq].whole
      BY <1>0, <1>5, Constants DEF ReceiverInv, dtls1_retrieve_buffered_fragment, Ready, MsgId
    <3>2. Fresh[read_seq] # NoItem
      BY <3>1, NoItemFields, Zenon
    <3>3. Fresh[read_seq].frag = Body(read_seq)
      BY <1>0, <3>1, <3>2, FreshOK, Zenon DEF ItemInv
    <3> QED BY <1>5, <3>1, <3>3, Zenon DEF dtls1_retrieve_buffered_fragment
  <2> QED BY <2>1, <2>2, <2>3, ReadHash, Zenon
<1>6. ASSUME NEW f \in net, dtls1_get_message_fragment(f)
      PROVE  ProgressInv' /\ HashInv'
  <2>1. UNCHANGED sender
    BY <1>6, Zenon DEF dtls1_get_message_fragment
  <2>2. /\ ProgressInv'
        /\ \/ UNCHANGED <<read_seq, read_hashed>>
           \/ dtls1_get_message(Body(read_seq)) /\ read_seq < Done /\ read_seq \in MsgId
    BY <1>0, <1>6, ReadProgress, Zenon
  <2> QED BY <2>1, <2>2, ReadHash, HashKept, Zenon
<1>7. CASE UNCHANGED vars \/ \E f \in net : Lose(f)
  <2>1. net' \subseteq net /\ UNCHANGED sender /\ UNCHANGED receiver
    BY <1>7, Zenon DEF vars, Lose
  <2>2. read_seq' <= Done /\ \A q \in MsgId : ItemWritten(q, buffered'[q])
    BY <2>1, Zenon DEF receiver, ProgressInv
  <2>3. UNCHANGED <<read_seq, read_hashed>>
    BY <2>1, Zenon DEF receiver
  <2> QED BY <2>1, <2>2, <2>3, ReceiverProgress, HashKept, Zenon
<1> QED BY <1>2, <1>3, <1>4, <1>5, <1>6, <1>7, Zenon DEF Next, dtls1_do_write

\* Both ends hash the same bytes in every such flight: however the sender
\* cuts, repeats and fails to write its messages, the receiver's handshake
\* hash is a prefix of the sender's.
THEOREM SameTranscript ==
  ASSUME WritesFail => NoQueryMtu
  PROVE  Spec => []TranscriptsAgree
<1>1. Init => IInv /\ ProgressInv /\ HashInv
  BY InitInv, InitProgress, Zenon
<1>2. IInv /\ ProgressInv /\ HashInv /\ [Next]_vars => IInv' /\ ProgressInv' /\ HashInv'
  BY NextInv, NextProgress, Zenon
<1>3. HashInv => TranscriptsAgree
  <2> SUFFICES ASSUME HashInv PROVE TranscriptsAgree
    BY Zenon
  <2>1. PICK n \in Nat : n = Len(read_hashed)
    BY DEF HashInv
  <2>2. hashed \in Seq(Cell) /\ read_hashed \in Seq(Cell)
        /\ \A i \in 1 .. n : i <= Len(hashed) /\ read_hashed[i] = hashed[i]
    BY <2>1, Zenon DEF HashInv, ReceiverHash
  <2>3. n <= Len(hashed) /\ Len(hashed) \in Nat
    <3>1. CASE n = 0
      BY <2>2, <3>1
    <3>2. CASE n # 0
      <4>1. n \in 1 .. n
        BY <3>2
      <4> QED BY <2>2, <4>1
    <3> QED BY <3>1, <3>2, Zenon
  <2>4. /\ SubSeq(hashed, 1, n) \in Seq(Cell) /\ Len(SubSeq(hashed, 1, n)) = n
        /\ \A i \in 1 .. n : SubSeq(hashed, 1, n)[i] = hashed[i]
    BY <2>2, <2>3
  <2>5. SubSeq(hashed, 1, n) = read_hashed
    BY <2>1, <2>2, <2>4, SeqEqual, Zenon
  <2> QED BY <2>1, <2>3, <2>5, Zenon DEF TranscriptsAgree
<1> QED BY <1>1, <1>2, <1>3, PTL DEF Spec
=============================================================================
