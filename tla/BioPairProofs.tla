--------------------------- MODULE BioPairProofs ---------------------------
(***************************************************************************)
(* BioPair implements BioPipe for every set of BIOs, every buffer size and *)
(* every sequence of calls.  The lemmas on the ring buffer come first: one *)
(* round of the loops of bio_write and bio_read, then both rounds.         *)
(***************************************************************************)
EXTENDS BioPair, SequenceTheorems, TLAPS

USE PairAssumption

(* A ring of a BIO, and one that belongs to a pair. *)
RingInv(r) ==
    /\ r \in Rings
    /\ r.has => r.buf \in [0 .. r.size - 1 -> Bytes \cup {NULL}]
    /\ r.len <= r.size
    /\ r.offset < r.size
    /\ r.len = 0 => r.offset = 0
    /\ \A i \in 1 .. r.len : Contents(r)[i] \in Bytes

Good(r) == RingInv(r) /\ r.has

(* The contents of a ring are a sequence of bytes as long as len says. *)
LEMMA ContentsSeq ==
    ASSUME NEW r, Good(r)
    PROVE  /\ Contents(r) \in Seq(Bytes)
           /\ Len(Contents(r)) = r.len
           /\ r.len \in Nat /\ r.offset \in Nat /\ r.size \in Nat \ {0}
<1>1. r.len \in Nat /\ r.offset \in Nat /\ r.size \in Nat \ {0}
  BY Zenon DEF Good, RingInv, Rings
<1>2. Contents(r) \in [1 .. r.len -> Bytes]
  BY <1>1, Zenon DEF Good, RingInv, Contents
<1>3. Contents(r) \in Seq(Bytes)
  BY <1>1, <1>2, SeqDef, Zenon
<1>4. DOMAIN Contents(r) = 1 .. r.len
  BY <1>2, Zenon
<1> QED
  BY <1>1, <1>3, <1>4, LenProperties

(* w is r with the bytes of d from k on, as many as the chunk, appended. *)
Appends(r, d, k, rest, w) ==
    /\ WriteChunk(r, rest) \in 1 .. rest
    /\ Good(w)
    /\ w.size = r.size
    /\ w.offset = r.offset
    /\ w.len = r.len + WriteChunk(r, rest)
    /\ Contents(w) = Contents(r) \o SubSeq(d, k, k + WriteChunk(r, rest) - 1)

(* One round of the loop in bio_write appends one chunk of the data. *)
LEMMA WriteOnceAppends ==
    ASSUME NEW r, Good(r), NEW d \in Seq(Bytes), NEW k \in Nat \ {0},
           NEW rest \in Nat \ {0}, rest <= Space(r), k + rest - 1 <= Len(d)
    PROVE  Appends(r, d, k, rest, WriteOnce(r, d, k, rest))
<1>0. PICK c, w : c = WriteChunk(r, rest) /\ w = WriteOnce(r, d, k, rest)
  BY Zenon
<1>1. PICK wo : wo = WriteOffset(r)
  BY Zenon
<1>2. PICK tail : tail = SubSeq(d, k, k + c - 1)
  BY Zenon
<1>3. /\ r.len \in Nat /\ r.offset \in Nat /\ r.size \in Nat \ {0}
      /\ r.len <= r.size /\ r.offset < r.size
      /\ r.size \in Sizes
      /\ r.buf \in [0 .. r.size - 1 -> Bytes \cup {NULL}]
  BY Zenon DEF Good, RingInv, Rings
<1>4. PICK len, offset, size : len = r.len /\ offset = r.offset /\ size = r.size
  BY Zenon
<1>typed. /\ len \in Nat /\ offset \in Nat /\ size \in Nat \ {0}
          /\ len <= size /\ offset < size
  BY <1>3, <1>4, Zenon
<1>5. /\ wo = (IF offset + len >= size THEN offset + len - size ELSE offset + len)
      /\ c = (IF rest <= size - wo THEN rest ELSE size - wo)
      /\ rest <= size - len
  BY <1>0, <1>1, <1>4, Zenon DEF WriteOffset, WriteChunk, Least, Space
<1>6. /\ wo \in 0 .. size - 1 /\ c \in 1 .. rest /\ wo + c <= size
      /\ \A i \in 1 .. len + c :
            LET p == IF offset + i - 1 >= size THEN offset + i - 1 - size
                                               ELSE offset + i - 1
            IN  /\ p \in 0 .. size - 1
                /\ i <= len => ~(p >= wo /\ p < wo + c)
                /\ i > len => p = wo + (i - len) - 1
  <2>1. ASSUME NEW i \in 1 .. len + c, wo + c <= size, wo \in 0 .. size - 1,
               c \in 1 .. rest
        PROVE  LET p == IF offset + i - 1 >= size THEN offset + i - 1 - size
                                                  ELSE offset + i - 1
               IN  /\ p \in 0 .. size - 1
                   /\ i <= len => ~(p >= wo /\ p < wo + c)
                   /\ i > len => p = wo + (i - len) - 1
    BY <1>5, <2>1, <1>typed
  <2>2. wo \in 0 .. size - 1 /\ c \in 1 .. rest /\ wo + c <= size
    BY <1>5, <1>typed
  <2> QED
    BY <2>1, <2>2, Zenon
<1>7. /\ w.size = size /\ w.offset = offset /\ w.len = len + c
      /\ w.has = r.has
      /\ w.buf = [i \in 0 .. size - 1 |->
                    IF i >= wo /\ i < wo + c THEN d[k + i - wo] ELSE r.buf[i]]
      /\ w = [size |-> size, len |-> len + c, offset |-> offset, has |-> r.has,
              buf |-> w.buf]
  BY <1>0, <1>1, <1>4, <1>5, Zenon DEF WriteOnce, WriteChunk
<1>8. Len(d) \in Nat /\ \A i \in 1 .. Len(d) : d[i] \in Bytes
  BY ElementOfSeq, LenProperties, Zenon
<1>9. w.buf \in [0 .. size - 1 -> Bytes \cup {NULL}]
  <2> SUFFICES ASSUME NEW i \in 0 .. size - 1
               PROVE  (IF i >= wo /\ i < wo + c THEN d[k + i - wo] ELSE r.buf[i])
                         \in Bytes \cup {NULL}
    BY <1>7, Zenon
  <2>1. CASE i >= wo /\ i < wo + c
    <3>1. k + i - wo \in 1 .. Len(d)
      BY <1>3, <1>4, <1>6, <1>8, <2>1
    <3> QED
      BY <1>8, <2>1, <3>1, Zenon
  <2>2. CASE ~(i >= wo /\ i < wo + c)
    BY <1>3, <1>4, <2>2, Zenon
  <2> QED
    BY <2>1, <2>2, Zenon
<1>10. /\ tail \in Seq(Bytes) /\ Len(tail) = c
       /\ \A i \in 1 .. c : tail[i] = d[k + i - 1]
  <2>1. \A i \in k .. k + c - 1 : d[i] \in Bytes
    BY <1>6, <1>8
  <2>2. k \in Int /\ k + c - 1 \in Int /\ k <= k + c - 1
        /\ (k + c - 1) - k + 1 = c
    BY <1>6
  <2> QED
    BY <1>2, <2>1, <2>2, SubSeqProperties
<1>11. PICK old : old = Contents(r)
  BY Zenon
<1>12. /\ old \in Seq(Bytes) /\ Len(old) = len
       /\ \A i \in 1 .. len :
             old[i] = r.buf[IF offset + i - 1 >= size THEN offset + i - 1 - size
                                                      ELSE offset + i - 1]
  BY <1>4, <1>11, ContentsSeq, Zenon DEF Contents
<1>13. PICK all : all = old \o tail
  BY Zenon
<1>14. /\ all \in Seq(Bytes)
       /\ Len(all) = len + c
       /\ \A i \in 1 .. len + c : all[i] = IF i <= len THEN old[i] ELSE tail[i - len]
  <2>1. /\ old \o tail \in Seq(Bytes)
        /\ Len(old \o tail) = Len(old) + Len(tail)
        /\ \A i \in 1 .. Len(old) + Len(tail) :
             (old \o tail)[i] = IF i <= Len(old) THEN old[i] ELSE tail[i - Len(old)]
    BY <1>10, <1>12, ConcatProperties, ZenonT(30)
  <2> QED
    BY <1>10, <1>12, <1>13, <2>1, Zenon
<1>15. PICK new : new = Contents(w)
  BY Zenon
<1>16. new = [i \in 1 .. len + c |->
                w.buf[IF offset + i - 1 >= size THEN offset + i - 1 - size
                                                ELSE offset + i - 1]]
  BY <1>7, <1>15, Zenon DEF Contents
<1>17. ASSUME NEW i \in 1 .. len + c
       PROVE  new[i] = all[i]
  <2>1. PICK p : p = IF offset + i - 1 >= size THEN offset + i - 1 - size
                                               ELSE offset + i - 1
    BY Zenon
  <2>2. new[i] = w.buf[p] /\ p \in 0 .. size - 1
    BY <1>6, <1>16, <2>1, Zenon
  <2>3. CASE i <= len
    <3>1. ~(p >= wo /\ p < wo + c)
      BY <1>6, <2>1, <2>3, Zenon
    <3>2. i \in 1 .. len
      BY <1>3, <1>4, <1>6, <2>3
    <3>3. old[i] = r.buf[p]
      BY <1>12, <2>1, <3>2, Zenon
    <3> QED
      BY <1>7, <1>14, <2>2, <2>3, <3>1, <3>3, Zenon
  <2>4. CASE i > len
    <3>0. p = wo + (i - len) - 1
      BY <1>6, <2>1, <2>4, Zenon
    <3>1. p = wo + (i - len) - 1 /\ i - len \in 1 .. c
      BY <1>typed, <1>6, <2>4, <3>0
    <3>2. p >= wo /\ p < wo + c /\ k + p - wo = k + (i - len) - 1
      BY <1>typed, <1>6, <3>1
    <3>3. w.buf[p] = d[k + (i - len) - 1]
      BY <1>7, <2>2, <3>2, Zenon
    <3>4. ~(i <= len)
      BY <1>typed, <1>6, <2>4
    <3> QED
      BY <1>10, <1>14, <2>2, <3>1, <3>3, <3>4, Zenon
  <2> QED
    BY <1>3, <1>4, <1>6, <2>3, <2>4, SMTT(30)
<1>18. new = all
  <2>1. DOMAIN all = 1 .. len + c /\ all = [i \in 1 .. len + c |-> all[i]]
    BY <1>14, LenProperties, Zenon
  <2> QED
    BY <1>16, <1>17, <2>1, Zenon
<1>19. \A i \in 1 .. w.len : Contents(w)[i] \in Bytes
  BY <1>7, <1>14, <1>15, <1>18, ElementOfSeq
<1>20. Good(w)
  <2>1. w \in Rings
    <3>1. size \in Sizes /\ len + c \in Nat /\ offset \in Nat /\ r.has \in BOOLEAN
      BY <1>3, <1>4, <1>6, SMTT(30) DEF Good, RingInv, Rings
    <3> QED
      BY <1>7, <1>9, <3>1, SMTT(30) DEF Rings
  <2>2. w.has /\ w.len <= w.size /\ w.offset < w.size /\ w.len # 0
    <3>1. len + c <= size /\ len + c # 0
      BY <1>typed, <1>5, <1>6
    <3> QED
      BY <1>typed, <1>7, <3>1, Zenon DEF Good, RingInv
  <2> QED
    BY <1>7, <1>9, <1>19, <2>1, <2>2, Zenon DEF Good, RingInv
<1> QED
  BY <1>0, <1>2, <1>4, <1>6, <1>7, <1>11, <1>13, <1>15, <1>18, <1>20, Zenon DEF Appends

(* Both rounds of bio_write together append all that is to be written. *)
LEMMA RingWriteAppends ==
    ASSUME NEW r, Good(r), NEW d \in Seq(Bytes),
           NEW num \in Nat \ {0}, num <= Space(r), num <= Len(d),
           NEW w, w = RingWrite(r, d, num)
    PROVE  /\ Good(w)
           /\ w.size = r.size
           /\ w.len = r.len + num
           /\ Contents(w) = Contents(r) \o SubSeq(d, 1, num)
<1>1. PICK c : c = WriteChunk(r, num)
  BY Zenon
<1>2. PICK once : once = WriteOnce(r, d, 1, num)
  BY Zenon
<1>3. Len(d) \in Nat
  BY LenProperties, Zenon
<1>4. r.len \in Nat /\ r.offset \in Nat /\ r.size \in Nat \ {0}
  BY ContentsSeq, Zenon
<1>5. r.len <= r.size /\ r.offset < r.size
  BY Zenon DEF Good, RingInv
<1>6. /\ c \in 1 .. num
      /\ Good(once)
      /\ once.size = r.size /\ once.offset = r.offset /\ once.len = r.len + c
      /\ Contents(once) = Contents(r) \o SubSeq(d, 1, c)
  <2>2. /\ c \in 1 .. num
        /\ Good(once)
        /\ once.size = r.size /\ once.offset = r.offset /\ once.len = r.len + c
        /\ Contents(once) = Contents(r) \o SubSeq(d, 1, 1 + c - 1)
    <3>1. 1 \in Nat \ {0} /\ 1 + num - 1 <= Len(d)
      BY <1>3
    <3>2. Appends(r, d, 1, num, once)
      BY <1>2, <3>1, WriteOnceAppends, Zenon
    <3> QED
      BY <1>1, <3>2, Zenon DEF Appends
  <2>3. 1 + c - 1 = c
    BY <2>2
  <2> QED
    BY <2>2, <2>3, Zenon
<1>7. CASE c = num
  <2>1. w = once
    BY <1>1, <1>2, <1>7, Zenon DEF RingWrite
  <2> QED
    BY <1>6, <1>7, <2>1, Zenon
<1>8. CASE c # num
  <2>1. w = WriteOnce(once, d, c + 1, num - c)
    BY <1>1, <1>2, <1>8, Zenon DEF RingWrite
  <2>2. WriteOffset(once) = 0
    <3>1. PICK wo : wo = WriteOffset(r)
      BY Zenon
    <3>2. c = r.size - wo /\ num > r.size - wo /\ num <= r.size - r.len
      BY <1>1, <1>8, <3>1 DEF WriteChunk, Least, Space
    <3>3. wo = IF r.offset + r.len >= r.size THEN r.offset + r.len - r.size
                                             ELSE r.offset + r.len
      BY <3>1, Zenon DEF WriteOffset
    <3>4. r.offset + (r.len + c) = r.size
      <4>1. PICK len, offset, size : len = r.len /\ offset = r.offset /\ size = r.size
        BY Zenon
      <4>2. /\ len \in Nat /\ offset \in Nat /\ size \in Nat \ {0}
            /\ len <= size /\ offset < size
            /\ c = size - wo /\ num > size - wo /\ num <= size - len
            /\ wo = IF offset + len >= size THEN offset + len - size ELSE offset + len
        BY <1>4, <1>5, <3>2, <3>3, <4>1, Zenon
      <4>3. offset + (len + c) = size
        BY <4>2
      <4> QED
        BY <4>1, <4>3, Zenon
    <3>5. once.offset + once.len = once.size
      BY <1>6, <3>4, Zenon
    <3> QED
      BY <1>4, <1>6, <3>5, SMTT(30) DEF WriteOffset
  <2>3. num - c \in Nat \ {0} /\ c + 1 \in Nat \ {0} /\ num - c <= Space(once)
        /\ (c + 1) + (num - c) - 1 <= Len(d)
    BY <1>3, <1>4, <1>6, <1>8, SMTT(30) DEF Space
  <2>4. WriteChunk(once, num - c) = num - c
    BY <1>4, <1>6, <2>2, <2>3, SMTT(30) DEF WriteChunk, Least, Space
  <2>5. PICK k, rest : k = c + 1 /\ rest = num - c
    BY Zenon
  <2>6. /\ Good(w) /\ w.size = once.size /\ w.len = once.len + rest
        /\ Contents(w) = Contents(once) \o SubSeq(d, k, k + rest - 1)
    <3>1. /\ rest \in Nat \ {0} /\ k \in Nat \ {0} /\ rest <= Space(once)
          /\ k + rest - 1 <= Len(d) /\ Good(once) /\ d \in Seq(Bytes)
      BY <1>6, <2>3, <2>5, Zenon
    <3>2. w = WriteOnce(once, d, k, rest)
      BY <2>1, <2>5, Zenon
    <3>4. WriteChunk(once, rest) = rest
      BY <2>4, <2>5, Zenon
    <3>3. Appends(once, d, k, rest, WriteOnce(once, d, k, rest))
      BY <3>1, WriteOnceAppends, Zenon
    <3> QED
      BY <3>2, <3>3, <3>4, Zenon DEF Appends
  <2>a. k + rest - 1 = num /\ (r.len + c) + rest = r.len + num
    BY <1>4, <1>6, <2>5
  <2>b. /\ w.len = r.len + num
        /\ Contents(w) = Contents(once) \o SubSeq(d, c + 1, num)
    BY <1>6, <2>5, <2>6, <2>a, Zenon
  <2>7. SubSeq(d, 1, c) \o SubSeq(d, c + 1, num) = SubSeq(d, 1, num)
    <3>1. 1 \in 1 .. Len(d) + 1 /\ c \in 0 .. Len(d) /\ num \in c .. Len(d)
      BY <1>3, <1>6
    <3> QED
      BY <3>1, ConcatAdjacentSubSeq
  <2>8. SubSeq(d, 1, c) \in Seq(Bytes) /\ SubSeq(d, c + 1, num) \in Seq(Bytes)
    <3>1. /\ \A i \in 1 .. c : d[i] \in Bytes
          /\ \A i \in c + 1 .. num : d[i] \in Bytes
      BY <1>3, <1>6, ElementOfSeq
    <3>2. c \in Int /\ c + 1 \in Int /\ num \in Int /\ 1 \in Int
      BY <1>6
    <3> QED
      BY <3>1, <3>2, SubSeqProperties, Zenon
  <2>9. Contents(r) \in Seq(Bytes)
    BY ContentsSeq, Zenon
  <2>10. (Contents(r) \o SubSeq(d, 1, c)) \o SubSeq(d, c + 1, num)
           = Contents(r) \o (SubSeq(d, 1, c) \o SubSeq(d, c + 1, num))
    <3>1. PICK x, y, z : x = Contents(r) /\ y = SubSeq(d, 1, c)
                         /\ z = SubSeq(d, c + 1, num)
      BY Zenon
    <3>2. x \in Seq(Bytes) /\ y \in Seq(Bytes) /\ z \in Seq(Bytes)
      BY <2>8, <2>9, <3>1, Zenon
    <3>3. (x \o y) \o z = x \o (y \o z)
      BY ONLY <3>2, ConcatAssociative, SMTT(30)
    <3> QED
      BY <3>1, <3>3, Zenon
  <2> QED
    BY <1>6, <2>6, <2>7, <2>10, <2>b, Zenon
<1> QED
  BY <1>7, <1>8, Zenon

(* One round of the loop in bio_read takes one chunk off the front. *)
LEMMA ReadOnceTakes ==
    ASSUME NEW r, Good(r), NEW rest \in Nat \ {0}, rest <= r.len,
           NEW c, c = ReadChunk(r, rest),
           NEW w, w = ReadOnce(r, rest)
    PROVE  /\ c \in 1 .. rest
           /\ Good(w)
           /\ w.size = r.size
           /\ w.len = r.len - c
           /\ c < rest => w.offset = 0
           /\ Copied(r, c) = SubSeq(Contents(r), 1, c)
           /\ Contents(w) = SubSeq(Contents(r), c + 1, r.len)
<1>1. /\ r.len \in Nat /\ r.offset \in Nat /\ r.size \in Nat \ {0}
      /\ r.len <= r.size /\ r.offset < r.size
      /\ r.size \in Sizes
      /\ r.buf \in [0 .. r.size - 1 -> Bytes \cup {NULL}]
  BY Zenon DEF Good, RingInv, Rings
<1>2. PICK len, offset, size, off, buf :
         len = r.len /\ offset = r.offset /\ size = r.size /\ off = w.offset
         /\ buf = r.buf
  BY Zenon
<1>3. len \in Nat /\ offset \in Nat /\ size \in Nat \ {0} /\ len <= size
      /\ offset < size /\ rest <= len
  BY <1>1, <1>2, Zenon
<1>4. c = IF rest <= size - offset THEN rest ELSE size - offset
  BY <1>2, Zenon DEF ReadChunk, Least
<1>5. c \in 1 .. rest /\ offset + c <= size
  BY <1>3, <1>4
<1>6. /\ w.size = size /\ w.len = len - c /\ w.has = r.has /\ w.buf = buf
      /\ off = IF len = c \/ offset + c = size THEN 0 ELSE offset + c
      /\ w = [size |-> size, len |-> len - c, offset |-> off, has |-> r.has,
              buf |-> buf]
  <2>1. w = [size |-> r.size, len |-> r.len - c,
             offset |-> IF r.len = c \/ r.offset + c = r.size THEN 0 ELSE r.offset + c,
             has |-> r.has, buf |-> r.buf]
    BY Zenon DEF ReadOnce
  <2> QED
    BY <1>2, <2>1
<1>7. PICK old : old = Contents(r)
  BY Zenon
<1>8. /\ old \in Seq(Bytes) /\ Len(old) = len
      /\ \A i \in 1 .. len : old[i] \in Bytes
      /\ \A i \in 1 .. len :
             old[i] = buf[IF offset + i - 1 >= size THEN offset + i - 1 - size
                                                    ELSE offset + i - 1]
  BY <1>2, <1>7, ContentsSeq, ElementOfSeq, Zenon DEF Contents
<1>9. Copied(r, c) = SubSeq(old, 1, c)
  <2>1. PICK head : head = SubSeq(old, 1, c)
    BY Zenon
  <2>2. /\ head \in Seq(Bytes) /\ Len(head) = c
        /\ \A i \in 1 .. c : head[i] = old[i]
    <3>1. 1 \in Int /\ c \in Int /\ 1 <= c /\ c - 1 + 1 = c
          /\ \A i \in 1 .. c : old[i] \in Bytes
      BY <1>3, <1>5, <1>8
    <3>2. /\ head \in Seq(Bytes) /\ Len(head) = c
          /\ \A i \in 1 .. c : head[i] = old[1 + i - 1]
      BY <2>1, <3>1, SubSeqProperties
    <3>3. \A i \in 1 .. c : 1 + i - 1 = i
      BY <1>5
    <3> QED
      BY <3>2, <3>3, Zenon
  <2>3. Copied(r, c) = [i \in 1 .. c |-> buf[offset + i - 1]]
    BY <1>2, Zenon DEF Copied
  <2>4. \A i \in 1 .. c : buf[offset + i - 1] = head[i]
    <3> SUFFICES ASSUME NEW i \in 1 .. c
                 PROVE  buf[offset + i - 1] = head[i]
      BY Zenon
    <3>1. ~(offset + i - 1 >= size) /\ i \in 1 .. len
      BY <1>3, <1>5
    <3> QED
      BY <1>8, <2>2, <3>1, Zenon
  <2>5. head = [i \in 1 .. c |-> head[i]]
    BY <2>2, LenProperties, Zenon
  <2> QED
    BY <2>1, <2>3, <2>4, <2>5, Zenon
<1>10. PICK new, rem : new = Contents(w) /\ rem = SubSeq(old, c + 1, len)
  BY Zenon
<1>11. /\ rem \in Seq(Bytes) /\ Len(rem) = len - c
       /\ \A i \in 1 .. len - c : rem[i] = old[c + i]
  <2>1. c + 1 \in Int /\ len \in Int /\ len - (c + 1) + 1 = len - c
        /\ \A i \in c + 1 .. len : old[i] \in Bytes
    BY <1>3, <1>5, <1>8
  <2>2. /\ rem \in Seq(Bytes)
        /\ Len(rem) = IF c + 1 <= len THEN len - (c + 1) + 1 ELSE 0
        /\ \A i \in 1 .. len - (c + 1) + 1 : rem[i] = old[(c + 1) + i - 1]
    BY <1>10, <2>1, SubSeqProperties
  <2>3. \A i \in 1 .. len - c : (c + 1) + i - 1 = c + i
    BY <1>3, <1>5
  <2>4. (IF c + 1 <= len THEN len - (c + 1) + 1 ELSE 0) = len - c
    BY <1>3, <1>5
  <2> QED
    BY <2>1, <2>2, <2>3, <2>4
<1>12. new = [i \in 1 .. len - c |->
                buf[IF off + i - 1 >= size THEN off + i - 1 - size
                                           ELSE off + i - 1]]
  BY <1>2, <1>6, <1>10, Zenon DEF Contents
<1>13. ASSUME NEW i \in 1 .. len - c
       PROVE  new[i] = rem[i]
  <2>1. c + i \in 1 .. len
    BY <1>3, <1>5
  <2>2. (IF off + i - 1 >= size THEN off + i - 1 - size ELSE off + i - 1)
          = (IF offset + (c + i) - 1 >= size THEN offset + (c + i) - 1 - size
                                             ELSE offset + (c + i) - 1)
    <3>1. off = 0 \/ off = offset + c
      BY <1>6, Zenon
    <3>2. CASE offset + c = size
      BY <1>3, <1>5, <1>6, <3>2, SMTT(30)
    <3>3. CASE offset + c < size
      <4>1. len # c /\ offset + c # size
        BY <1>3, <1>5, <3>3
      <4>2. off = offset + c
        BY <1>6, <4>1, Zenon
      <4> QED
        BY <1>3, <1>5, <4>2, SMTT(30)
    <3>4. offset + c = size \/ offset + c < size
      BY <1>3, <1>5
    <3> QED
      BY <3>2, <3>3, <3>4, Zenon
  <2> QED
    BY <1>8, <1>11, <1>12, <2>1, <2>2, Zenon
<1>14. new = rem
  <2>1. rem = [i \in 1 .. len - c |-> rem[i]]
    BY <1>11, LenProperties, Zenon
  <2> QED
    BY <1>12, <1>13, <2>1, Zenon
<1>15. Good(w)
  <2>1. w \in Rings
    <3>1. size \in Sizes /\ len - c \in Nat /\ off \in Nat /\ r.has \in BOOLEAN
      BY <1>1, <1>2, <1>3, <1>5, <1>6 DEF Good, RingInv, Rings
    <3> QED
      BY <1>1, <1>2, <1>6, <3>1, Zenon DEF Rings
  <2>2. len - c <= size /\ off < size /\ (len - c = 0 => off = 0)
    BY <1>3, <1>5, <1>6
  <2>3. \A i \in 1 .. w.len : Contents(w)[i] \in Bytes
    <3>1. \A i \in 1 .. len - c : rem[i] \in Bytes
      BY <1>11, ElementOfSeq, Zenon
    <3> QED
      BY <1>6, <1>10, <1>14, <3>1, Zenon
  <2> QED
    BY <1>1, <1>2, <1>6, <2>1, <2>2, <2>3, Zenon DEF Good, RingInv
<1>16. c < rest => off = 0
  BY <1>3, <1>4, <1>5, <1>6
<1> QED
  BY <1>2, <1>5, <1>6, <1>7, <1>9, <1>10, <1>14, <1>15, <1>16, Zenon

(* The same without names for the chunk and the new ring. *)
LEMMA ReadOnceResult ==
    ASSUME NEW r, Good(r), NEW rest \in Nat \ {0}, rest <= r.len
    PROVE  /\ ReadChunk(r, rest) \in 1 .. rest
           /\ Good(ReadOnce(r, rest))
           /\ ReadOnce(r, rest).size = r.size
           /\ ReadOnce(r, rest).len = r.len - ReadChunk(r, rest)
           /\ Copied(r, ReadChunk(r, rest))
                = SubSeq(Contents(r), 1, ReadChunk(r, rest))
           /\ Contents(ReadOnce(r, rest))
                = SubSeq(Contents(r), ReadChunk(r, rest) + 1, r.len)
<1>1. PICK c, w : c = ReadChunk(r, rest) /\ w = ReadOnce(r, rest)
  BY Zenon
<1>2. /\ c \in 1 .. rest /\ Good(w) /\ w.size = r.size /\ w.len = r.len - c
      /\ Copied(r, c) = SubSeq(Contents(r), 1, c)
      /\ Contents(w) = SubSeq(Contents(r), c + 1, r.len)
  BY <1>1, ReadOnceTakes
<1> QED
  BY <1>1, <1>2, Zenon

(* A piece of a piece of a sequence. *)
LEMMA NestedSubSeq ==
    ASSUME NEW s \in Seq(Bytes),
           NEW i \in 1 .. Len(s), NEW j \in 1 .. Len(s),
           NEW m \in 1 .. j - i + 1, NEW n \in 1 .. j - i + 1
    PROVE  SubSeq(SubSeq(s, i, j), m, n) = SubSeq(s, i + m - 1, i + n - 1)
<1>1. PICK u : u = SubSeq(s, i, j)
  BY Zenon
<1>2. Len(s) \in Nat /\ \A x \in 1 .. Len(s) : s[x] \in Bytes
  BY LenProperties, ElementOfSeq, Zenon
<1>3. i <= j /\ j - i + 1 \in Nat
  BY <1>2
<1>4. \A x \in 1 .. j - i + 1 : u[x] = s[i + x - 1]
  <2>1. \A x \in i .. j : s[x] \in Bytes
    BY <1>2
  <2> QED
    BY <1>1, <1>2, <2>1, SubSeqProperties
<1>5. CASE n < m
  <2>1. i + n - 1 < i + m - 1 /\ i + n - 1 \in Int /\ i + m - 1 \in Int
        /\ m \in Int /\ n \in Int
    BY <1>2, <1>3, <1>5
  <2> QED
    BY <1>1, <1>5, <2>1, SubSeqEmpty, Zenon
<1>6. CASE m <= n
  <2>1. PICK lo, hi, x, y : lo = i + m - 1 /\ hi = i + n - 1
                            /\ x = SubSeq(u, m, n) /\ y = SubSeq(s, lo, hi)
    BY Zenon
  <2>2. lo \in Int /\ hi \in Int /\ m \in Int /\ n \in Int /\ lo <= hi
        /\ hi - lo + 1 = n - m + 1
    BY <1>2, <1>3, <1>6, <2>1
  <2>3. \A z \in lo .. hi : s[z] \in Bytes
    BY <1>2, <1>3, <2>1, <2>2
  <2>4. y \in Seq(Bytes) /\ Len(y) = hi - lo + 1
        /\ \A z \in 1 .. hi - lo + 1 : y[z] = s[lo + z - 1]
    BY <2>1, <2>2, <2>3, SubSeqProperties
  <2>5. \A z \in m .. n : u[z] \in Bytes
    <3> SUFFICES ASSUME NEW z \in m .. n
                 PROVE  u[z] \in Bytes
      BY Zenon
    <3>1. z \in 1 .. j - i + 1 /\ i + z - 1 \in 1 .. Len(s)
      BY <1>2, <1>3
    <3> QED
      BY <1>2, <1>4, <3>1, Zenon
  <2>6. x \in Seq(Bytes) /\ Len(x) = n - m + 1
        /\ \A z \in 1 .. n - m + 1 : x[z] = u[m + z - 1]
    BY <1>6, <2>1, <2>2, <2>5, SubSeqProperties
  <2>7. \A z \in 1 .. n - m + 1 : x[z] = y[z]
    <3> SUFFICES ASSUME NEW z \in 1 .. n - m + 1
                 PROVE  x[z] = y[z]
      BY Zenon
    <3>1. m + z - 1 \in 1 .. j - i + 1 /\ i + (m + z - 1) - 1 = lo + z - 1
      BY <1>2, <1>3, <2>1, <2>2
    <3> QED
      BY <1>4, <2>2, <2>4, <2>6, <3>1, Zenon
  <2>8. x = y
    BY <2>2, <2>4, <2>6, <2>7, SeqEqual, Zenon
  <2> QED
    BY <1>1, <2>1, <2>8, Zenon
<1> QED
  BY <1>2, <1>3, <1>5, <1>6

(* Both rounds of bio_read together take the first num bytes. *)
LEMMA RingReadTakes ==
    ASSUME NEW r, Good(r), NEW num \in Nat \ {0}, num <= r.len,
           NEW w, w = RingRead(r, num)
    PROVE  /\ Good(w)
           /\ w.size = r.size
           /\ w.len = r.len - num
           /\ BytesRead(r, num) = SubSeq(Contents(r), 1, num)
           /\ Contents(w) = SubSeq(Contents(r), num + 1, r.len)
<1>1. PICK c, once, len : c = ReadChunk(r, num) /\ once = ReadOnce(r, num)
                          /\ len = r.len
  BY Zenon
<1>2. PICK old : old = Contents(r)
  BY Zenon
<1>3. /\ c \in 1 .. num /\ Good(once) /\ once.size = r.size /\ once.len = len - c
      /\ c < num => once.offset = 0
      /\ Copied(r, c) = SubSeq(old, 1, c)
      /\ Contents(once) = SubSeq(old, c + 1, len)
  BY <1>1, <1>2, ReadOnceTakes
<1>4. /\ old \in Seq(Bytes) /\ Len(old) = len /\ len \in Nat /\ num <= len
      /\ r.size \in Nat /\ len <= r.size
  BY <1>1, <1>2, ContentsSeq, Zenon DEF Good, RingInv
<1>5. CASE c = num
  BY <1>1, <1>2, <1>3, <1>5, Zenon DEF RingRead, BytesRead
<1>6. CASE c # num
  <2>1. PICK rest : rest = num - c
    BY Zenon
  <2>2. rest \in Nat \ {0} /\ rest <= once.len /\ c < num
    BY <1>3, <1>4, <1>6, <2>1
  <2>3. PICK c2, w2 : c2 = ReadChunk(once, rest) /\ w2 = ReadOnce(once, rest)
    BY Zenon
  <2>4. c2 = rest
    BY <1>3, <1>4, <2>1, <2>2, <2>3 DEF ReadChunk, Least
  <2>5. w = w2 /\ BytesRead(r, num) = Copied(r, c) \o Copied(once, rest)
    BY <1>1, <1>6, <2>1, <2>3, Zenon DEF RingRead, BytesRead
  <2>6. PICK mid : mid = Contents(once)
    BY Zenon
  <2>7. /\ Good(w2) /\ w2.size = once.size /\ w2.len = once.len - c2
        /\ Copied(once, c2) = SubSeq(mid, 1, c2)
        /\ Contents(w2) = SubSeq(mid, c2 + 1, once.len)
    BY <1>3, <2>2, <2>3, <2>6, ReadOnceResult, Zenon
  <2>8. SubSeq(mid, 1, rest) = SubSeq(old, c + 1, num)
    <3>1. mid = SubSeq(old, c + 1, len)
      BY <1>3, <2>6, Zenon
    <3>2. /\ c + 1 \in 1 .. Len(old) /\ len \in 1 .. Len(old)
          /\ 1 \in 1 .. len - (c + 1) + 1 /\ rest \in 1 .. len - (c + 1) + 1
          /\ (c + 1) + 1 - 1 = c + 1 /\ (c + 1) + rest - 1 = num
      BY <1>3, <1>4, <2>1, <2>2
    <3>3. SubSeq(SubSeq(old, c + 1, len), 1, rest)
            = SubSeq(old, (c + 1) + 1 - 1, (c + 1) + rest - 1)
      BY ONLY <1>4, <3>2, NestedSubSeq, Zenon
    <3> QED
      BY <3>1, <3>2, <3>3, Zenon
  <2>9. SubSeq(mid, rest + 1, len - c) = SubSeq(old, num + 1, len)
    <3>1. mid = SubSeq(old, c + 1, len)
      BY <1>3, <2>6, Zenon
    <3>2. CASE num = len
      <4>1. rest + 1 \in Int /\ len - c \in Int /\ len - c < rest + 1
            /\ num + 1 \in Int /\ len \in Int /\ len < num + 1
        BY <1>3, <1>4, <2>1, <2>2, <3>2
      <4> QED
        BY <4>1, SubSeqEmpty, Zenon
    <3>3. CASE num # len
      <4>1. /\ c + 1 \in 1 .. Len(old) /\ len \in 1 .. Len(old)
            /\ rest + 1 \in 1 .. len - (c + 1) + 1 /\ len - c \in 1 .. len - (c + 1) + 1
            /\ (c + 1) + (rest + 1) - 1 = num + 1 /\ (c + 1) + (len - c) - 1 = len
        BY <1>3, <1>4, <2>1, <2>2, <3>3
      <4>2. SubSeq(SubSeq(old, c + 1, len), rest + 1, len - c)
              = SubSeq(old, (c + 1) + (rest + 1) - 1, (c + 1) + (len - c) - 1)
        BY ONLY <1>4, <4>1, NestedSubSeq, Zenon
      <4> QED
        BY <3>1, <4>1, <4>2, Zenon
    <3> QED
      BY <3>2, <3>3, Zenon
  <2>10. SubSeq(old, 1, c) \o SubSeq(old, c + 1, num) = SubSeq(old, 1, num)
    <3>1. 1 \in 1 .. Len(old) + 1 /\ c \in 0 .. Len(old) /\ num \in c .. Len(old)
      BY <1>3, <1>4
    <3> QED
      BY <1>4, <3>1, ConcatAdjacentSubSeq
  <2>11. once.len - c2 = len - num
    BY <1>3, <1>4, <2>1, <2>4
  <2>12. BytesRead(r, num) = SubSeq(old, 1, num)
    BY <1>3, <2>4, <2>5, <2>7, <2>8, <2>10, Zenon
  <2>13. Contents(w) = SubSeq(old, num + 1, len)
    BY <1>3, <2>4, <2>5, <2>7, <2>9, Zenon
  <2> QED
    BY <1>1, <1>2, <1>3, <2>5, <2>7, <2>11, <2>12, <2>13, Zenon
<1> QED
  BY <1>5, <1>6, Zenon

-----------------------------------------------------------------------------
(* What reading and writing do to a ring, by the calls that do it. *)

(* w is r without its first num bytes, data are these bytes. *)
Taken(r, num, w, data) ==
    /\ Good(w)
    /\ w.size = r.size
    /\ w.len = r.len - num
    /\ data = SubSeq(Contents(r), 1, num)
    /\ Contents(w) = SubSeq(Contents(r), num + 1, r.len)

(* w is r with the first num bytes of d after its own. *)
Given(r, d, num, w) ==
    /\ Good(w)
    /\ w.size = r.size
    /\ w.len = r.len + num
    /\ Contents(w) = Contents(r) \o SubSeq(d, 1, num)

(* bio_read *)
LEMMA ReadTakes ==
    ASSUME NEW r, Good(r), NEW n \in Nat \ {0}, r.len > 0
    PROVE  /\ Least(n, r.len) \in 1 .. n
           /\ Least(n, r.len) <= r.len
           /\ Taken(r, Least(n, r.len), RingRead(r, Least(n, r.len)),
                    BytesRead(r, Least(n, r.len)))
<1>1. r.len \in Nat
  BY ContentsSeq, Zenon
<1>2. PICK num : num = Least(n, r.len)
  BY Zenon
<1>3. num \in 1 .. n /\ num <= r.len /\ num \in Nat \ {0}
  BY <1>1, <1>2 DEF Least
<1>4. Taken(r, num, RingRead(r, num), BytesRead(r, num))
  BY <1>3, RingReadTakes, Zenon DEF Taken
<1> QED
  BY <1>2, <1>3, <1>4, Zenon

(* bio_nread, and bio_nread0 with n = len *)
LEMMA NreadTakes ==
    ASSUME NEW r, Good(r), NEW n \in Nat \ {0}, r.len > 0,
           NEW num, num = Least(n, ReadChunk(r, r.len))
    PROVE  /\ num \in 1 .. n
           /\ num <= r.len
           /\ Taken(r, num, ReadOnce(r, num), Copied(r, num))
<1>1. r.len \in Nat /\ r.offset \in Nat /\ r.size \in Nat \ {0} /\ r.offset < r.size
  BY ContentsSeq, Zenon DEF Good, RingInv
<1>2. num \in 1 .. n /\ num <= r.len /\ num \in Nat \ {0} /\ ReadChunk(r, num) = num
  BY <1>1 DEF Least, ReadChunk
<1>3. Taken(r, ReadChunk(r, num), ReadOnce(r, num), Copied(r, ReadChunk(r, num)))
  BY <1>2, ReadOnceResult, Zenon DEF Taken
<1> QED
  BY <1>2, <1>3, Zenon

(* bio_write *)
LEMMA WriteGives ==
    ASSUME NEW r, Good(r), NEW d \in Seq(Bytes), d # << >>, Space(r) > 0,
           NEW num, num = Least(Len(d), Space(r))
    PROVE  /\ num \in 1 .. Len(d)
           /\ num <= Space(r)
           /\ Given(r, d, num, RingWrite(r, d, num))
<1>1. r.len \in Nat /\ r.size \in Nat \ {0}
  BY ContentsSeq, Zenon
<1>2. Len(d) \in Nat \ {0}
  BY EmptySeq, LenProperties, Zenon
<1>3. num \in 1 .. Len(d) /\ num <= Space(r) /\ num \in Nat \ {0} /\ num <= Len(d)
  BY <1>1, <1>2 DEF Least, Space
<1>4. Given(r, d, num, RingWrite(r, d, num))
  BY <1>3, RingWriteAppends DEF Given
<1> QED
  BY <1>3, <1>4, Zenon

(* bio_nwrite *)
LEMMA NwriteGives ==
    ASSUME NEW r, Good(r), NEW d \in Seq(Bytes), d # << >>, Space(r) > 0,
           NEW num, num = Least(Len(d), Space(r)),
           NEW c, c = WriteChunk(r, num)
    PROVE  /\ c \in 1 .. Len(d)
           /\ c <= Space(r)
           /\ Given(r, d, c, WriteOnce(r, d, 1, num))
<1>1. r.len \in Nat /\ r.size \in Nat \ {0}
  BY ContentsSeq, Zenon
<1>2. Len(d) \in Nat \ {0}
  BY EmptySeq, LenProperties, Zenon
<1>3. num \in 1 .. Len(d) /\ num <= Space(r) /\ num \in Nat \ {0}
      /\ 1 + num - 1 <= Len(d) /\ 1 \in Nat \ {0}
  BY <1>1, <1>2 DEF Least, Space
<1>4. Appends(r, d, 1, num, WriteOnce(r, d, 1, num))
  BY <1>3, WriteOnceAppends, Zenon
<1>5. c \in 1 .. num /\ 1 + c - 1 = c
  BY <1>4 DEF Appends
<1>6. c \in 1 .. Len(d) /\ c <= Space(r)
  BY <1>1, <1>2, <1>3, <1>5 DEF Space
<1>7. Given(r, d, c, WriteOnce(r, d, 1, num))
  BY <1>4, <1>5, Zenon DEF Appends, Given
<1> QED
  BY <1>6, <1>7, Zenon

(* The rings of fresh, resized, allocated and emptied buffers. *)
LEMMA OtherRings ==
    ASSUME NEW r, RingInv(r), NEW n \in Sizes
    PROVE  /\ RingInv(NewRing(n)) /\ NewRing(n).len = 0 /\ NewRing(n).size = n
           /\ Good(Emptied(r)) /\ Emptied(r).len = 0 /\ Emptied(r).size = r.size
           /\ r.len = 0 => /\ Good(Allocated(r)) /\ Allocated(r).len = 0
                          /\ Allocated(r).size = r.size
           /\ r.len = 0 => RingInv([size |-> n, len |-> r.len, offset |-> r.offset,
                                   has |-> FALSE, buf |-> << >>])
<1>1. n \in Nat \ {0}
  BY Zenon
<1>2. RingInv(NewRing(n)) /\ NewRing(n).len = 0 /\ NewRing(n).size = n
  BY <1>1 DEF RingInv, NewRing, Rings
<1>3. /\ r.size \in Sizes /\ r.size \in Nat \ {0} /\ r.len \in Nat /\ r.has \in BOOLEAN
      /\ r.buf \in {<< >>} \cup UNION {[0 .. m - 1 -> Bytes \cup {NULL}] : m \in Sizes}
      /\ r.has => r.buf \in [0 .. r.size - 1 -> Bytes \cup {NULL}]
  BY Zenon DEF RingInv, Rings
<1>4. Good(Emptied(r)) /\ Emptied(r).len = 0 /\ Emptied(r).size = r.size
  <2>1. PICK a : a = Emptied(r)
    BY Zenon
  <2>2. a = [size |-> r.size, len |-> 0, offset |-> 0, has |-> TRUE,
             buf |-> [i \in 0 .. r.size - 1 |-> NULL]]
    BY <2>1, Zenon DEF Emptied
  <2>3. a.buf \in [0 .. r.size - 1 -> Bytes \cup {NULL}]
    BY <2>2, Zenon
  <2>4. a \in Rings
    BY <1>3, <2>2, <2>3 DEF Rings
  <2> QED
    BY <1>3, <2>1, <2>2, <2>3, <2>4 DEF Good, RingInv
<1>5. ASSUME r.len = 0
      PROVE  Good(Allocated(r)) /\ Allocated(r).len = 0 /\ Allocated(r).size = r.size
  <2>1. CASE r.has
    BY <1>5, <2>1, Zenon DEF Allocated, Good
  <2>2. CASE ~r.has
    BY <1>4, <2>2, Zenon DEF Allocated
  <2> QED
    BY <2>1, <2>2, Zenon
<1>6. ASSUME r.len = 0
      PROVE  RingInv([size |-> n, len |-> r.len, offset |-> r.offset,
                      has |-> FALSE, buf |-> << >>])
  <2>1. r.offset = 0
    BY <1>6, Zenon DEF RingInv
  <2> QED
    BY <1>1, <1>6, <2>1 DEF RingInv, Rings
<1> QED
  BY <1>2, <1>4, <1>5, <1>6, Zenon

-----------------------------------------------------------------------------
(* The inductive invariant *)

Types ==
    /\ alive \in [Bios -> BOOLEAN]
    /\ init \in [Bios -> BOOLEAN]
    /\ peer \in [Bios -> Bios \cup {NULL}]
    /\ closed \in [Bios -> BOOLEAN]
    /\ request \in [Bios -> Nat]
    /\ res \in [ret : Int, data : Seq(Bytes), retry : {"none", "read", "write"}]
    /\ copied \in [Bios -> BOOLEAN]

RingsInv ==
    /\ ring = [b \in Bios |-> ring[b]]
    /\ \A b \in Bios : RingInv(ring[b])
    /\ \A b \in Bios : peer[b] = NULL => ring[b].len = 0

(* The properties of BioPair, and that what a ring holds was written. *)
IInv == Types /\ RingsInv /\ PeersAgree /\ RequestSound

(* A buffer as bio_new makes it is empty and well formed. *)
LEMMA FreshRing ==
    /\ RingInv(NewRing(DefaultSize))
    /\ NewRing(DefaultSize).len = 0
    /\ NewRing(DefaultSize).size \in Sizes
<1>1. DefaultSize \in Nat \ {0} /\ DefaultSize \in Sizes
  BY Zenon
<1> QED
  BY <1>1 DEF RingInv, NewRing, Rings

(* The invariant holds before the first BIO is made. *)
LEMMA IInvInit == Init => IInv
<1> SUFFICES ASSUME Init
             PROVE  IInv
  BY Zenon
<1>2. RingsInv
  BY FreshRing, Zenon DEF Init, RingsInv
<1>3. Types
  <2>1. res \in [ret : Int, data : Seq(Bytes), retry : {"none", "read", "write"}]
    BY EmptySeq DEF Init, Result
  <2> QED
    BY <2>1, Zenon DEF Init, Types
<1>4. PeersAgree /\ RequestSound
  BY Zenon DEF Init, PeersAgree, RequestSound
<1> QED
  BY <1>2, <1>3, <1>4, Zenon DEF IInv

(* A half with a peer owns a good ring, and so does the peer. *)
LEMMA Paired ==
    ASSUME IInv, NEW b \in Bios, peer[b] # NULL
    PROVE  /\ peer[b] \in Bios /\ peer[peer[b]] = b
           /\ Good(ring[b]) /\ Good(ring[peer[b]])
           /\ alive[b] /\ alive[peer[b]] /\ init[b] /\ init[peer[b]]
<1>1. peer[b] \in Bios /\ peer[peer[b]] = b
  BY Zenon DEF IInv, Types, PeersAgree
<1>2. peer[peer[b]] # NULL
  BY <1>1, Zenon
<1> QED
  BY <1>1, <1>2, Zenon DEF IInv, RingsInv, PeersAgree, Good

(* A result of the right shape. *)
LEMMA ResultType ==
    ASSUME NEW n \in Int, NEW d \in Seq(Bytes), NEW f \in {"none", "read", "write"}
    PROVE  Result(n, d, f) \in [ret : Int, data : Seq(Bytes),
                               retry : {"none", "read", "write"}]
  BY Zenon DEF Result

(* A call that leaves the rings and the pairing alone. *)
LEMMA QuietStep ==
    ASSUME IInv, UNCHANGED <<alive, init, peer, ring, copied>>,
           closed' \in [Bios -> BOOLEAN],
           res' \in [ret : Int, data : Seq(Bytes), retry : {"none", "read", "write"}],
           request' \in [Bios -> Nat],
           \A b \in Bios : \/ request'[b] \in {0, request[b]}
                           \/ ring[b].len = 0 /\ request'[b] <= ring[b].size
    PROVE  IInv'
<1>1. Types' /\ RingsInv' /\ PeersAgree'
  BY Zenon DEF IInv, Types, RingsInv, PeersAgree
<1>2. ASSUME NEW b \in Bios, peer[b] # NULL, request'[b] # 0
      PROVE  ring[b].len = 0 /\ request'[b] <= Space(ring[b])
  <2>1. ring[b].size \in Nat
    BY Zenon DEF IInv, RingsInv, RingInv, Rings
  <2> QED
    BY <1>2, <2>1 DEF IInv, RequestSound, Space
<1>3. RequestSound'
  BY <1>2, Zenon DEF RequestSound, Space
<1> QED
  BY <1>1, <1>3, Zenon DEF IInv

(* A call that changes the ring of one half of a pair and withdraws the    *)
(* request for its data.                                                   *)
LEMMA RingStep ==
    ASSUME IInv, NEW p \in Bios, peer[p] # NULL, NEW w, Good(w),
           ring' = [ring EXCEPT ![p] = w],
           request' = [request EXCEPT ![p] = 0],
           res' \in [ret : Int, data : Seq(Bytes), retry : {"none", "read", "write"}],
           UNCHANGED <<alive, init, peer, closed, copied>>
    PROVE  IInv'
<1>1. /\ ring'[p] = w
      /\ \A b \in Bios \ {p} : ring'[b] = ring[b]
      /\ ring' = [b \in Bios |-> ring'[b]]
  BY Zenon DEF IInv, RingsInv
<1>2. RingsInv'
  BY <1>1, Zenon DEF IInv, RingsInv, Good
<1>3. Types'
  BY Zenon DEF IInv, Types
<1>4. PeersAgree'
  BY <1>1, Zenon DEF IInv, PeersAgree, Good
<1>5. request'[p] = 0 /\ \A b \in Bios \ {p} : request'[b] = request[b]
  BY Zenon DEF IInv, Types
<1>6. RequestSound'
  BY <1>1, <1>5, Zenon DEF IInv, RequestSound, Space
<1> QED
  BY <1>2, <1>3, <1>4, <1>6, Zenon DEF IInv

(* A BIO that is created, resized, prepared or freed while it has no peer. *)
LEMMA UnpairedStep ==
    ASSUME IInv, NEW b \in Bios, peer[b] = NULL, NEW w, RingInv(w), w.len = 0,
           ring' = [ring EXCEPT ![b] = w],
           alive' \in [Bios -> BOOLEAN], closed' \in [Bios -> BOOLEAN],
           init' \in [Bios -> BOOLEAN], copied' \in [Bios -> BOOLEAN],
           request' \in [Bios -> Nat],
           \A c \in Bios \ {b} : /\ alive'[c] = alive[c] /\ init'[c] = init[c]
                                 /\ copied'[c] = copied[c] /\ request'[c] = request[c],
           init'[b] => copied'[b],
           UNCHANGED <<peer, res>>
    PROVE  IInv'
<1>1. /\ ring'[b] = w
      /\ \A c \in Bios \ {b} : ring'[c] = ring[c]
      /\ ring' = [c \in Bios |-> ring'[c]]
  BY Zenon DEF IInv, RingsInv
<1>2. RingsInv'
  BY <1>1, Zenon DEF IInv, RingsInv
<1>3. Types'
  BY Zenon DEF IInv, Types
<1>4. PeersAgree'
  <2> SUFFICES ASSUME NEW c \in Bios
               PROVE  /\ init'[c] /\ ~copied'[c] => peer[c] # NULL
                      /\ peer[c] # NULL =>
                           init'[c] /\ alive'[c] /\ peer[peer[c]] = c /\ ring'[c].has
    BY Zenon DEF PeersAgree
  <2>1. /\ init[c] /\ ~copied[c] => peer[c] # NULL
        /\ peer[c] # NULL => init[c] /\ alive[c] /\ peer[peer[c]] = c /\ ring[c].has
    BY Zenon DEF IInv, PeersAgree
  <2>2. CASE c = b
    BY <2>2, Zenon
  <2>3. CASE c # b
    <3>1. init'[c] = init[c] /\ copied'[c] = copied[c] /\ alive'[c] = alive[c]
          /\ ring'[c] = ring[c]
      BY <1>1, <2>3, Zenon
    <3> QED
      BY <2>1, <3>1, Zenon
  <2> QED
    BY <2>2, <2>3, Zenon
<1>5. RequestSound'
  BY <1>1, Zenon DEF IInv, RequestSound, Space
<1> QED
  BY <1>2, <1>3, <1>4, <1>5, Zenon DEF IInv

(* bio_new and BIO_dup_chain keep the invariant. *)
LEMMA NewStep ==
    ASSUME IInv, NEW b \in Bios, NEW n \in Sizes,
           NEW ready \in BOOLEAN, NEW dup \in BOOLEAN, ready => dup,
           New(b, n, ready, dup)
    PROVE  IInv' /\ peer[b] = NULL /\ peer' = peer
<1>1. ~alive[b] /\ peer[b] = NULL
  BY Zenon DEF New, IInv, PeersAgree
<1>3. peer' = peer
  BY <1>1, Zenon DEF New, IInv, Types
<1>4. RingInv(NewRing(n)) /\ NewRing(n).len = 0
  BY OtherRings, Zenon DEF IInv, RingsInv
<1>5. /\ alive' \in [Bios -> BOOLEAN] /\ closed' \in [Bios -> BOOLEAN]
      /\ init' \in [Bios -> BOOLEAN] /\ copied' \in [Bios -> BOOLEAN]
      /\ request' \in [Bios -> Nat]
  BY Zenon DEF New, IInv, Types
<1>6. /\ \A c \in Bios \ {b} : /\ alive'[c] = alive[c] /\ init'[c] = init[c]
                               /\ copied'[c] = copied[c] /\ request'[c] = request[c]
      /\ init'[b] => copied'[b]
      /\ ring' = [ring EXCEPT ![b] = NewRing(n)]
      /\ res' = res
  BY Zenon DEF New, IInv, Types
<1>7. IInv'
  BY <1>1, <1>3, <1>4, <1>5, <1>6, UnpairedStep, Zenon
<1> QED
  BY <1>1, <1>3, <1>7, Zenon

(* bio_make_pair keeps the invariant and empties both buffers. *)
LEMMA PairStep ==
    ASSUME IInv, NEW a \in Bios, NEW b \in Bios, bio_make_pair(a, b)
    PROVE  /\ IInv'
           /\ Good(ring'[a]) /\ ring'[a].len = 0 /\ ring'[a].size = ring[a].size
           /\ Good(ring'[b]) /\ ring'[b].len = 0 /\ ring'[b].size = ring[b].size
           /\ \A c \in Bios \ {a, b} : ring'[c] = ring[c]
<1>1. peer[a] = NULL /\ peer[b] = NULL /\ alive[a] /\ alive[b]
  BY Zenon DEF bio_make_pair
<1>2. ring[a].len = 0 /\ ring[b].len = 0 /\ RingInv(ring[a]) /\ RingInv(ring[b])
  BY <1>1, Zenon DEF IInv, RingsInv
<1>3. /\ Good(Allocated(ring[a])) /\ Allocated(ring[a]).len = 0
      /\ Allocated(ring[a]).size = ring[a].size
      /\ Good(Allocated(ring[b])) /\ Allocated(ring[b]).len = 0
      /\ Allocated(ring[b]).size = ring[b].size
  BY <1>2, OtherRings, Zenon
<1>4. /\ ring'[a] = Allocated(ring[a]) /\ ring'[b] = Allocated(ring[b])
      /\ \A c \in Bios \ {a, b} : ring'[c] = ring[c]
      /\ ring' = [c \in Bios |-> ring'[c]]
  BY <1>1, Zenon DEF bio_make_pair, IInv, RingsInv
<1>5. /\ peer'[a] = b /\ peer'[b] = a /\ peer' \in [Bios -> Bios \cup {NULL}]
      /\ \A c \in Bios \ {a, b} : peer'[c] = peer[c]
      /\ request'[a] = 0 /\ request'[b] = 0 /\ request' \in [Bios -> Nat]
      /\ \A c \in Bios \ {a, b} : request'[c] = request[c]
      /\ alive' = alive /\ res' = res
  BY <1>1, Zenon DEF bio_make_pair, IInv, Types
<1>6. /\ init' \in [Bios -> BOOLEAN] /\ closed' \in [Bios -> BOOLEAN]
      /\ init'[a] /\ init'[b] /\ copied' \in [Bios -> BOOLEAN]
      /\ \A c \in Bios \ {a, b} : init'[c] = init[c] /\ copied'[c] = copied[c]
  BY <1>1, Zenon DEF bio_make_pair, IInv, Types
<1>7. RingsInv'
  <2> SUFFICES ASSUME NEW c \in Bios
               PROVE  RingInv(ring'[c]) /\ (peer'[c] = NULL => ring'[c].len = 0)
    BY <1>4, Zenon DEF RingsInv
  <2>1. CASE c \in {a, b}
    BY <1>3, <1>4, <2>1, Zenon DEF Good
  <2>2. CASE c \notin {a, b}
    BY <1>4, <1>5, <2>2, Zenon DEF IInv, RingsInv
  <2> QED
    BY <2>1, <2>2, Zenon
<1>8. Types'
  BY <1>5, <1>6, Zenon DEF IInv, Types
<1>9. PeersAgree'
  <2> SUFFICES ASSUME NEW c \in Bios
               PROVE  /\ init'[c] /\ ~copied'[c] => peer'[c] # NULL
                      /\ peer'[c] # NULL =>
                           init'[c] /\ alive'[c] /\ peer'[peer'[c]] = c /\ ring'[c].has
    BY Zenon DEF PeersAgree
  <2>1. CASE c = a
    BY <1>1, <1>3, <1>4, <1>5, <1>6, <2>1, Zenon DEF Good
  <2>2. CASE c = b
    BY <1>1, <1>3, <1>4, <1>5, <1>6, <2>2 DEF Good
  <2>3. CASE c \notin {a, b}
    <3>4. /\ init[c] /\ ~copied[c] => peer[c] # NULL
          /\ peer[c] # NULL => init[c] /\ alive[c] /\ peer[peer[c]] = c /\ ring[c].has
      BY Zenon DEF IInv, PeersAgree
    <3>1. peer[c] # a /\ peer[c] # b
      BY <1>1, <3>4, Zenon
    <3>2. peer[c] # NULL => peer[c] \in Bios \ {a, b}
      BY <3>1, Zenon DEF IInv, Types
    <3>3. init'[c] = init[c] /\ copied'[c] = copied[c] /\ ring'[c] = ring[c]
          /\ peer'[c] = peer[c] /\ alive' = alive
      BY <1>4, <1>5, <1>6, <2>3, Zenon
    <3>5. peer[c] # NULL => peer'[peer[c]] = peer[peer[c]]
      BY <1>5, <3>2, Zenon
    <3> QED
      BY <3>3, <3>4, <3>5, Zenon
  <2> QED
    BY <2>1, <2>2, <2>3, Zenon
<1>10. RequestSound'
  BY <1>4, <1>5, Zenon DEF IInv, RequestSound, Space
<1> QED
  BY <1>3, <1>4, <1>7, <1>8, <1>9, <1>10, Zenon DEF IInv

(* bio_destroy_pair, on its own and within bio_free. *)
LEMMA DestroyStep ==
    ASSUME IInv, NEW b \in Bios, peer[b] # NULL, NEW own, RingInv(own),
           own.len = 0, own.size = ring[b].size, bio_destroy_pair(b, own),
           alive' \in [Bios -> BOOLEAN], copied' \in [Bios -> BOOLEAN],
           request' \in [Bios -> Nat],
           \A c \in Bios \ {b} : /\ alive'[c] = alive[c] /\ copied'[c] = copied[c]
                                 /\ request'[c] = request[c],
           UNCHANGED <<closed, res>>
    PROVE  /\ IInv'
           /\ ring'[b].len = 0 /\ ring'[b].size = ring[b].size
           /\ ring'[peer[b]].len = 0 /\ ring'[peer[b]].size = ring[peer[b]].size
           /\ \A c \in Bios \ {b, peer[b]} : ring'[c] = ring[c]
<1>1. PICK a \in Bios : a = peer[b] /\ peer[a] = b
  BY Paired, Zenon
<1>2. RingInv(ring[a]) /\ ring[b].size \in Sizes
  BY Zenon DEF IInv, RingsInv, RingInv, Rings
<1>3. /\ RingInv(Emptied(ring[a])) /\ Emptied(ring[a]).len = 0
      /\ Emptied(ring[a]).size = ring[a].size
  BY <1>2, OtherRings, Zenon DEF Good
<1>4. /\ a # b => ring'[a] = Emptied(ring[a])
      /\ ring'[b] = own
      /\ \A c \in Bios \ {a, b} : ring'[c] = ring[c]
      /\ ring' = [c \in Bios |-> ring'[c]]
  BY <1>1, Zenon DEF bio_destroy_pair, IInv, RingsInv
<1>5. /\ peer'[a] = NULL /\ peer'[b] = NULL /\ peer' \in [Bios -> Bios \cup {NULL}]
      /\ \A c \in Bios \ {a, b} : peer'[c] = peer[c]
  BY <1>1, Zenon DEF bio_destroy_pair, IInv, Types
<1>6. /\ init' \in [Bios -> BOOLEAN] /\ ~init'[a] /\ ~init'[b]
      /\ \A c \in Bios \ {a, b} : init'[c] = init[c]
  BY <1>1, Zenon DEF bio_destroy_pair, IInv, Types
<1>7. RingsInv'
  <2> SUFFICES ASSUME NEW c \in Bios
               PROVE  RingInv(ring'[c]) /\ (peer'[c] = NULL => ring'[c].len = 0)
    BY <1>4, Zenon DEF RingsInv
  <2>1. CASE c = b
    BY <1>4, <2>1, Zenon
  <2>2. CASE c = a /\ a # b
    <3>1. ring'[c] = Emptied(ring[a])
      BY <1>4, <2>2, Zenon
    <3> QED
      BY <1>3, <3>1, Zenon
  <2>3. CASE c \in Bios \ {a, b}
    <3>1. ring'[c] = ring[c] /\ peer'[c] = peer[c]
      BY <1>4, <1>5, <2>3, Zenon
    <3>2. RingInv(ring[c]) /\ (peer[c] = NULL => ring[c].len = 0)
      BY Zenon DEF IInv, RingsInv
    <3> QED
      BY <3>1, <3>2, Zenon
  <2> QED
    BY <2>1, <2>2, <2>3, Zenon
<1>8. Types'
  BY <1>5, <1>6, Zenon DEF IInv, Types
<1>9. PeersAgree'
  <2> SUFFICES ASSUME NEW c \in Bios
               PROVE  /\ init'[c] /\ ~copied'[c] => peer'[c] # NULL
                      /\ peer'[c] # NULL =>
                           init'[c] /\ alive'[c] /\ peer'[peer'[c]] = c /\ ring'[c].has
    BY Zenon DEF PeersAgree
  <2>1. CASE c \in {a, b}
    BY <1>5, <1>6, <2>1, Zenon
  <2>2. CASE c \notin {a, b}
    <3>4. /\ init[c] /\ ~copied[c] => peer[c] # NULL
          /\ peer[c] # NULL => init[c] /\ alive[c] /\ peer[peer[c]] = c /\ ring[c].has
      BY Zenon DEF IInv, PeersAgree
    <3>1. peer[c] # a /\ peer[c] # b
      <4>1. peer[c] # NULL => peer[peer[c]] = c
        BY <3>4, Zenon
      <4>2. a # NULL /\ b # NULL /\ peer[a] # c /\ peer[b] # c
        BY <1>1, <2>2, Zenon
      <4> QED
        BY <4>1, <4>2, Zenon
    <3>2. peer[c] # NULL => peer[c] \in Bios \ {a, b}
      BY <3>1, Zenon DEF IInv, Types
    <3>3. /\ init'[c] = init[c] /\ copied'[c] = copied[c] /\ ring'[c] = ring[c]
          /\ peer'[c] = peer[c] /\ alive'[c] = alive[c]
      BY <1>4, <1>5, <1>6, <2>2, Zenon
    <3>5. peer[c] # NULL => peer'[peer[c]] = peer[peer[c]]
      BY <1>5, <3>2, Zenon
    <3> QED
      BY <3>3, <3>4, <3>5, Zenon
  <2> QED
    BY <2>1, <2>2, Zenon
<1>10. RequestSound'
  <2> SUFFICES ASSUME NEW c \in Bios, peer'[c] # NULL, request'[c] # 0
               PROVE  ring'[c].len = 0 /\ request'[c] <= Space(ring'[c])
    BY Zenon DEF RequestSound
  <2>1. c \notin {a, b}
    BY <1>5, Zenon
  <2>2. ring'[c] = ring[c] /\ request'[c] = request[c] /\ peer'[c] = peer[c]
    BY <1>4, <1>5, <2>1, Zenon
  <2> QED
    BY <2>2, Zenon DEF IInv, RequestSound
<1> QED
  BY <1>1, <1>3, <1>4, <1>7, <1>8, <1>9, <1>10, Zenon DEF IInv

-----------------------------------------------------------------------------
(* Every call keeps the invariant and is a step of BioPipe, or none. *)

Simulated == [Pipe!Next]_(Pipe!vars)

(* A buffer of length 0 holds the empty sequence. *)
LEMMA EmptyContents ==
    ASSUME NEW r, RingInv(r), r.len = 0
    PROVE  Contents(r) = << >>
<1>1. Contents(r) \in [1 .. 0 -> Bytes]
  BY DEF Contents
<1>2. Contents(r) \in Seq(Bytes)
  BY <1>1, SeqDef
<1>3. Len(Contents(r)) = 0
  BY <1>1, <1>2, LenProperties
<1> QED
  BY <1>2, <1>3, EmptySeq, Zenon

(* The abstract pipes and sizes after a step that changes one ring. *)
LEMMA OneRingChanges ==
    ASSUME IInv, NEW p \in Bios, NEW w, ring' = [ring EXCEPT ![p] = w]
    PROVE  /\ [b \in Bios |-> Contents(ring[b])]'
                = [[b \in Bios |-> Contents(ring[b])] EXCEPT ![p] = Contents(w)]
           /\ [b \in Bios |-> ring[b].size]'
                = [[b \in Bios |-> ring[b].size] EXCEPT ![p] = w.size]
  BY Zenon DEF IInv, RingsInv

(* A step that keeps the size of one buffer keeps all sizes. *)
LEMMA SameSize ==
    ASSUME IInv, NEW p \in Bios, NEW w, w.size = ring[p].size,
           ring' = [ring EXCEPT ![p] = w]
    PROVE  [b \in Bios |-> ring[b].size]' = [b \in Bios |-> ring[b].size]
  BY Zenon DEF IInv, RingsInv

(* bio_read and bio_nread when there is something to read. *)
LEMMA TakeStep ==
    ASSUME IInv, NEW b \in Bios, peer[b] # NULL, NEW n \in Amounts, NEW num, NEW w, NEW data,
           num \in 1 .. n, num <= ring[peer[b]].len,
           Taken(ring[peer[b]], num, w, data),
           ring' = [ring EXCEPT ![peer[b]] = w],
           request' = [request EXCEPT ![peer[b]] = 0],
           res' = Result(num, data, "none"),
           UNCHANGED <<alive, init, peer, closed, copied>>
    PROVE  IInv' /\ Pipe!Take(b, n, num)
<1>2. PICK p \in Bios : p = peer[b] /\ peer[p] = b /\ Good(ring[p]) /\ Good(w)
  BY Paired, Zenon DEF Taken
<1>3. PICK old : old = Contents(ring[p])
  BY Zenon
<1>4. /\ old \in Seq(Bytes) /\ Len(old) = ring[p].len
      /\ n \in Nat \ {0} /\ num \in Nat \ {0} /\ ring[p].len \in Nat
      /\ num <= ring[p].len
  BY <1>2, <1>3, ContentsSeq
<1>5. data = SubSeq(old, 1, num) /\ Contents(w) = SubSeq(old, num + 1, Len(old))
      /\ w.size = ring[p].size
  BY <1>2, <1>3, <1>4, Zenon DEF Taken
<1>6. data \in Seq(Bytes)
  <2>1. \A i \in 1 .. num : old[i] \in Bytes
    BY <1>4, ElementOfSeq
  <2> QED
    BY <1>4, <1>5, <2>1, SubSeqProperties
<1>7. IInv'
  <2>1. res' \in [ret : Int, data : Seq(Bytes), retry : {"none", "read", "write"}]
    BY <1>4, <1>6, ResultType
  <2>2. peer[p] # NULL
    BY <1>2, Zenon
  <2> QED
    BY <1>2, <2>1, <2>2, RingStep, Zenon
<1>8. Pipe!Take(b, n, num)
  <2>1. PICK pipe : pipe = [c \in Bios |-> Contents(ring[c])]
    BY Zenon
  <2>2. pipe[p] = old /\ [c \in Bios |-> Contents(ring[c])]'
                           = [pipe EXCEPT ![p] = SubSeq(@, num + 1, Len(@))]
    <3>1. [c \in Bios |-> Contents(ring[c])]' = [pipe EXCEPT ![p] = Contents(w)]
      BY <1>2, <2>1, OneRingChanges, Zenon
    <3>2. pipe[p] = old
      BY <1>3, <2>1, Zenon
    <3> QED
      BY <1>5, <3>1, <3>2, Zenon
  <2>3. [c \in Bios |-> ring[c].size]' = [c \in Bios |-> ring[c].size]
    BY <1>2, <1>5, SameSize, Zenon
  <2>4. num \in 1 .. Pipe!Minimum(n, Len(pipe[p]))
    BY <1>4, <2>2 DEF Pipe!Minimum
  <2>5. res' = Pipe!Result(num, SubSeq(pipe[p], 1, num), "none")
    BY <1>5, <2>2, Zenon DEF Result, Pipe!Result
  <2> QED
    BY <1>2, <2>1, <2>2, <2>3, <2>4, <2>5, Zenon DEF Pipe!Take
<1> QED
  BY <1>7, <1>8, Zenon

(* bio_write and bio_nwrite when there is room. *)
LEMMA PutStep ==
    ASSUME IInv, NEW b \in Bios, peer[b] # NULL, ~closed[b], NEW d \in Data, NEW num, NEW w,
           num \in 1 .. Len(d), num <= Space(ring[b]),
           Given(ring[b], d, num, w),
           ring' = [ring EXCEPT ![b] = w],
           request' = [request EXCEPT ![b] = 0],
           res' = Result(num, SubSeq(d, 1, num), "none"),
           UNCHANGED <<alive, init, peer, closed, copied>>
    PROVE  IInv' /\ Pipe!Put(b, d, num)
<1>2. Good(ring[b]) /\ Good(w)
  BY Paired, Zenon DEF Given
<1>3. PICK old : old = Contents(ring[b])
  BY Zenon
<1>4. /\ old \in Seq(Bytes) /\ Len(old) = ring[b].len /\ ring[b].len \in Nat
      /\ ring[b].size \in Nat /\ d \in Seq(Bytes)
  BY <1>2, <1>3, ContentsSeq, Zenon
<1>5. Len(d) \in Nat /\ num \in Nat \ {0} /\ num <= ring[b].size - Len(old)
  BY <1>4, LenProperties DEF Space
<1>6. Contents(w) = old \o SubSeq(d, 1, num) /\ w.size = ring[b].size
  BY <1>3, Zenon DEF Given
<1>7. IInv'
  <2>1. res' \in [ret : Int, data : Seq(Bytes), retry : {"none", "read", "write"}]
    <3>1. \A i \in 1 .. num : d[i] \in Bytes
      BY <1>4, <1>5, ElementOfSeq
    <3>2. PICK data \in Seq(Bytes) : data = SubSeq(d, 1, num)
      <4>1. 1 \in Int /\ num \in Int
        BY <1>5
      <4>2. SubSeq(d, 1, num) \in Seq(Bytes)
        BY <1>4, <3>1, <4>1, SubSeqProperties, Zenon
      <4> QED
        BY <4>2, Zenon
    <3>3. num \in Int /\ "none" \in {"none", "read", "write"}
      BY <1>5
    <3> QED
      BY <3>2, <3>3, ResultType, Zenon
  <2> QED
    BY <1>2, <2>1, RingStep, Zenon
<1>8. Pipe!Put(b, d, num)
  <2>1. PICK pipe, size : pipe = [c \in Bios |-> Contents(ring[c])]
                          /\ size = [c \in Bios |-> ring[c].size]
    BY Zenon
  <2>2. pipe[b] = old /\ [c \in Bios |-> Contents(ring[c])]'
                           = [pipe EXCEPT ![b] = @ \o SubSeq(d, 1, num)]
    <3>1. [c \in Bios |-> Contents(ring[c])]' = [pipe EXCEPT ![b] = Contents(w)]
      BY <2>1, OneRingChanges, Zenon
    <3>2. pipe[b] = old
      BY <1>3, <2>1, Zenon
    <3> QED
      BY <1>6, <3>1, <3>2, Zenon
  <2>3. [c \in Bios |-> ring[c].size]' = size /\ size[b] = ring[b].size
    BY <1>6, <2>1, SameSize, Zenon
  <2>4. num \in 1 .. Pipe!Minimum(Len(d), size[b] - Len(pipe[b]))
    BY <1>4, <1>5, <2>2, <2>3 DEF Pipe!Minimum
  <2>5. res' = Pipe!Result(num, SubSeq(d, 1, num), "none")
    BY Zenon DEF Result, Pipe!Result
  <2> QED
    BY <2>1, <2>2, <2>3, <2>4, <2>5, Zenon DEF Pipe!Put
<1> QED
  BY <1>7, <1>8, Zenon

(* The rings stay: so do the abstract pipes. *)
LEMMA SameRings ==
    ASSUME ring' = ring
    PROVE  /\ [b \in Bios |-> Contents(ring[b])]' = [b \in Bios |-> Contents(ring[b])]
           /\ [b \in Bios |-> ring[b].size]' = [b \in Bios |-> ring[b].size]
  BY Zenon

(* The results of calls that deliver no data. *)
LEMMA PlainResults ==
    ASSUME NEW n \in Int
    PROVE  \A f \in {"none", "read", "write"} :
             Result(n, << >>, f) \in [ret : Int, data : Seq(Bytes),
                                     retry : {"none", "read", "write"}]
  BY EmptySeq, Zenon DEF Result

(* A call that only returns a result, and may withdraw a request. *)
LEMMA ReturnStep ==
    ASSUME IInv, NEW p \in Bios,
           request' = request \/ request' = Setting(p, 0),
           res' \in [ret : Int, data : Seq(Bytes), retry : {"none", "read", "write"}],
           UNCHANGED <<alive, init, peer, closed, ring, copied>>
    PROVE  IInv'
<1>1. request \in [Bios -> Nat]
  BY Zenon DEF IInv, Types
<1>2. request' \in [Bios -> Nat] /\ \A b \in Bios : request'[b] \in {0, request[b]}
  <2>1. CASE request' = request
    BY <1>1, <2>1, Zenon
  <2>2. CASE request' = [request EXCEPT ![p] = 0]
    BY <1>1, <2>2, Zenon
  <2> QED
    BY <2>1, <2>2, Zenon DEF Setting
<1>3. closed' \in [Bios -> BOOLEAN]
  BY Zenon DEF IInv, Types
<1> QED
  BY <1>2, <1>3, QuietStep, Zenon

(* Nothing to read. *)
LEMMA EmptyStep ==
    ASSUME IInv, NEW b \in Bios, peer[b] # NULL, NEW n \in Nat, ReadEmpty(b, n),
           UNCHANGED <<alive, init, peer, closed, copied>>
    PROVE  IInv' /\ Pipe!NothingToRead(b)
<1>2. PICK p \in Bios : p = peer[b] /\ Good(ring[p]) /\ peer[p] # NULL
  BY Paired, Zenon DEF IInv
<1>3. ring[p].len = 0 /\ ring' = ring /\ ring[p].size \in Nat
  BY <1>2, ContentsSeq, Zenon DEF ReadEmpty
<1>5. IInv'
  <2>1. CASE closed[p]
    <3>1. request' = Setting(p, 0) /\ res' = Result(0, << >>, "none")
      BY <1>2, <2>1, Zenon DEF ReadEmpty
    <3>2. res' \in [ret : Int, data : Seq(Bytes), retry : {"none", "read", "write"}]
      BY <3>1, PlainResults
    <3> QED
      BY <1>3, <3>1, <3>2, ReturnStep, Zenon
  <2>2. CASE ~closed[p]
    <3>1. request' = [request EXCEPT ![p] = Least(n, ring[p].size)]
          /\ res' = Result(-1, << >>, "read")
      BY <1>2, <2>2, Zenon DEF ReadEmpty, Setting
    <3>2. Least(n, ring[p].size) \in Nat /\ Least(n, ring[p].size) <= ring[p].size
      BY <1>3 DEF Least
    <3>3. request' \in [Bios -> Nat]
      BY <3>1, <3>2, Zenon DEF IInv, Types
    <3>4. \A c \in Bios : \/ request'[c] \in {0, request[c]}
                          \/ ring[c].len = 0 /\ request'[c] <= ring[c].size
      BY <1>3, <3>1, <3>2, Zenon DEF IInv, Types
    <3>5. res' \in [ret : Int, data : Seq(Bytes), retry : {"none", "read", "write"}]
      <4>1. -1 \in Int
        OBVIOUS
      <4> QED
        BY <3>1, <4>1, PlainResults, Zenon
    <3>6. closed' \in [Bios -> BOOLEAN]
      BY Zenon DEF IInv, Types
    <3> QED
      BY <1>3, <3>3, <3>4, <3>5, <3>6, QuietStep, Zenon
  <2> QED
    BY <2>1, <2>2, Zenon
<1>6. Pipe!NothingToRead(b)
  <2>1. Contents(ring[p]) = << >>
    BY <1>2, <1>3, EmptyContents, Zenon DEF Good
  <2>2. res' = IF closed[p] THEN Pipe!Result(0, << >>, "none")
                            ELSE Pipe!Result(-1, << >>, "read")
    BY <1>2, Zenon DEF ReadEmpty, Result, Pipe!Result
  <2> QED
    BY <1>2, <1>3, <2>1, <2>2, SameRings, Zenon DEF Pipe!NothingToRead
<1> QED
  BY <1>5, <1>6, Zenon

(* A write that is refused. *)
LEMMA RefuseStep ==
    ASSUME IInv, NEW b \in Bios, peer[b] # NULL, WriteRefused(b),
           request' = Setting(b, 0),
           UNCHANGED <<alive, init, peer, closed, copied>>
    PROVE  IInv' /\ Pipe!WriteRefused(b)
<1>2. Good(ring[b]) /\ ring' = ring
  BY Paired, Zenon DEF WriteRefused
<1>3. Len(Contents(ring[b])) = ring[b].len /\ ring[b].len \in Nat /\ ring[b].size \in Nat
  BY <1>2, ContentsSeq, Zenon
<1>5. \/ closed[b] /\ res' = Result(-1, << >>, "none")
      \/ ~closed[b] /\ Space(ring[b]) = 0 /\ res' = Result(-1, << >>, "write")
  BY Zenon DEF WriteRefused
<1>6. IInv'
  <2>1. -1 \in Int
    OBVIOUS
  <2>2. res' \in [ret : Int, data : Seq(Bytes), retry : {"none", "read", "write"}]
    BY <1>5, <2>1, PlainResults, Zenon
  <2> QED
    BY <1>2, <2>2, ReturnStep, Zenon
<1>7. Pipe!WriteRefused(b)
  <2>1. \/ closed[b] /\ res' = Pipe!Result(-1, << >>, "none")
        \/ /\ ~closed[b] /\ Len(Contents(ring[b])) = ring[b].size
           /\ res' = Pipe!Result(-1, << >>, "write")
    BY <1>3, <1>5 DEF Space, Result, Pipe!Result
  <2> QED
    BY <1>2, <2>1, SameRings, Zenon DEF Pipe!WriteRefused
<1> QED
  BY <1>6, <1>7, Zenon

(* bio_read is a step of the pipe. *)
LEMMA ReadStep ==
    ASSUME IInv, NEW b \in Bios, NEW n \in Amounts, bio_read(b, n)
    PROVE  IInv' /\ Pipe!Next
<1>1. UNCHANGED <<alive, init, peer, closed, copied>> /\ peer[b] # NULL
      /\ n \in Nat \ {0}
  BY ZenonT(30) DEF bio_read, Connected
<1>2. CASE ReadEmpty(b, n)
  BY <1>1, <1>2, EmptyStep, Zenon DEF Pipe!Next
<1>3. CASE ~ReadEmpty(b, n)
  <2>1. PICK p \in Bios : p = peer[b] /\ Good(ring[p])
    BY <1>1, Paired, Zenon
  <2>2. PICK num : num = Least(n, ring[p].len)
    BY Zenon
  <2>3. /\ ring[p].len > 0
        /\ ring' = [ring EXCEPT ![p] = RingRead(ring[p], num)]
        /\ request' = [request EXCEPT ![p] = 0]
        /\ res' = Result(num, BytesRead(ring[p], num), "none")
    BY <1>3, <2>1, <2>2, Zenon DEF bio_read, Setting
  <2>4. /\ num \in 1 .. n /\ num <= ring[p].len
        /\ Taken(ring[p], num, RingRead(ring[p], num), BytesRead(ring[p], num))
    BY <1>1, <2>1, <2>2, <2>3, ReadTakes, Zenon
  <2>5. IInv' /\ Pipe!Take(b, n, num)
    BY <1>1, <2>1, <2>3, <2>4, TakeStep, ZenonT(30)
  <2> QED
    BY <2>4, <2>5, Zenon DEF Pipe!Next
<1> QED
  BY <1>2, <1>3, Zenon

(* bio_nread is a step of the pipe. *)
LEMMA NreadStep ==
    ASSUME IInv, NEW b \in Bios, NEW n \in Amounts, bio_nread(b, n)
    PROVE  IInv' /\ Pipe!Next
<1>1. UNCHANGED <<alive, init, peer, closed, copied>> /\ peer[b] # NULL
      /\ n \in Nat \ {0} /\ 1 \in Nat
  BY Zenon DEF bio_nread, Connected
<1>2. CASE ReadEmpty(b, 1)
  BY <1>1, <1>2, EmptyStep, ZenonT(30) DEF Pipe!Next
<1>3. CASE ~ReadEmpty(b, 1)
  <2>1. PICK p \in Bios : p = peer[b] /\ Good(ring[p])
    BY <1>1, Paired, Zenon
  <2>2. PICK num : num = Least(n, ReadChunk(ring[p], ring[p].len))
    BY Zenon
  <2>3. /\ ring[p].len > 0
        /\ ring' = [ring EXCEPT ![p] = ReadOnce(ring[p], num)]
        /\ request' = [request EXCEPT ![p] = 0]
        /\ res' = Result(num, Copied(ring[p], num), "none")
    BY <1>3, <2>1, <2>2, ZenonT(30) DEF bio_nread, Setting
  <2>4. /\ num \in 1 .. n /\ num <= ring[p].len
        /\ Taken(ring[p], num, ReadOnce(ring[p], num), Copied(ring[p], num))
    BY <1>1, <2>1, <2>2, <2>3, NreadTakes, Zenon
  <2>5. IInv' /\ Pipe!Take(b, n, num)
    BY <1>1, <2>1, <2>3, <2>4, TakeStep, ZenonT(30)
  <2> QED
    BY <2>4, <2>5, ZenonT(30) DEF Pipe!Next
<1> QED
  BY <1>2, <1>3, Zenon

(* bio_nread0 is a step of the pipe. *)
LEMMA Nread0Step ==
    ASSUME IInv, NEW b \in Bios, bio_nread0(b)
    PROVE  IInv' /\ Pipe!Next
<1>1. UNCHANGED <<alive, init, peer, closed, copied>> /\ peer[b] # NULL /\ 1 \in Nat
  BY Zenon DEF bio_nread0, Connected
<1>2. CASE ReadEmpty(b, 1)
  BY <1>1, <1>2, EmptyStep, Zenon DEF Pipe!Next
<1>3. CASE ~ReadEmpty(b, 1)
  <2>1. PICK p \in Bios : p = peer[b] /\ Good(ring[p])
    BY <1>1, Paired, Zenon
  <2>2. PICK num, len : num = ReadChunk(ring[p], len) /\ len = ring[p].len
    BY Zenon
  <2>3. /\ len > 0 /\ ring' = ring
        /\ request' = Setting(p, 0)
        /\ res' = Result(num, Copied(ring[p], num), "none")
    BY <1>3, <2>1, <2>2, Zenon DEF bio_nread0
  <2>4. /\ len \in Nat \ {0} /\ ring[p].size \in Nat /\ len <= ring[p].size
        /\ Len(Contents(ring[p])) = len /\ Contents(ring[p]) \in Seq(Bytes)
    <3>1. RingInv(ring[p]) /\ Contents(ring[p]) \in Seq(Bytes)
          /\ Len(Contents(ring[p])) = ring[p].len
      BY <2>1, ContentsSeq, Zenon DEF Good
    <3>2. ring[p] \in Rings /\ ring[p].len <= ring[p].size
      BY <3>1, Zenon DEF RingInv
    <3>3. ring[p].len \in Nat /\ ring[p].size \in Nat
      BY <3>2, Zenon DEF Rings
    <3> QED
      BY <2>2, <2>3, <3>1, <3>2, <3>3
  <2>5. /\ num \in 1 .. len
        /\ Copied(ring[p], num) = SubSeq(Contents(ring[p]), 1, num)
    <3>1. num = ReadChunk(ring[p], len) /\ len \in 1 .. ring[p].len
      BY <2>2, <2>4
    <3> QED
      BY <2>1, <2>2, <3>1, ReadOnceResult, SMTT(20)
  <2>6. Copied(ring[p], num) \in Seq(Bytes)
    <3>1. \A i \in 1 .. num : Contents(ring[p])[i] \in Bytes
      BY <2>4, <2>5, ElementOfSeq
    <3>2. 1 \in Int /\ num \in Int
      BY <2>5
    <3> QED
      BY <2>5, <3>1, <3>2, SubSeqProperties
  <2>7. IInv'
    <3>1. res' \in [ret : Int, data : Seq(Bytes), retry : {"none", "read", "write"}]
      <4>1. num \in Int
        BY <2>5
      <4>2. PICK d \in Seq(Bytes) : d = Copied(ring[p], num)
        BY <2>6, Zenon
      <4> QED
        BY <2>3, <4>1, <4>2, ResultType, Zenon
    <3> QED
      BY <1>1, <2>3, <3>1, ReturnStep, Zenon
  <2>8. Pipe!Peek(b, num)
    <3>1. res' = Pipe!Result(num, SubSeq(Contents(ring[p]), 1, num), "none")
      BY <2>3, <2>5, Zenon DEF Result, Pipe!Result
    <3> QED
      BY <1>1, <2>1, <2>3, <2>4, <2>5, <3>1, SameRings, ZenonT(30) DEF Pipe!Peek
  <2>9. num \in 1 .. ring[p].size
    BY <2>4, <2>5
  <2>10. num \in 1 .. [c \in Bios |-> ring[c].size][peer[b]]
    BY <2>1, <2>9, Zenon
  <2> QED
    BY <1>1, <2>7, <2>8, <2>10, ZenonT(30) DEF Pipe!Next
<1> QED
  BY <1>2, <1>3, Zenon

(* bio_write is a step of the pipe. *)
LEMMA WriteStep ==
    ASSUME IInv, NEW b \in Bios, NEW d \in Data, bio_write(b, d)
    PROVE  IInv' /\ Pipe!Next
<1>1. UNCHANGED <<alive, init, peer, closed, copied>> /\ peer[b] # NULL
      /\ request' = Setting(b, 0) /\ d \in Seq(Bytes) /\ d # << >>
  BY Zenon DEF bio_write, Connected
<1>2. CASE WriteRefused(b)
  BY <1>1, <1>2, RefuseStep, ZenonT(30) DEF Pipe!Next
<1>3. CASE ~WriteRefused(b)
  <2>1. Good(ring[b])
    BY <1>1, Paired, Zenon
  <2>2. PICK num : num = Least(Len(d), Space(ring[b]))
    BY Zenon
  <2>3. /\ ~closed[b] /\ Space(ring[b]) > 0
        /\ ring' = [ring EXCEPT ![b] = RingWrite(ring[b], d, num)]
        /\ res' = Result(num, SubSeq(d, 1, num), "none")
    BY <1>3, <2>2, Zenon DEF bio_write
  <2>4. /\ num \in 1 .. Len(d) /\ num <= Space(ring[b])
        /\ Given(ring[b], d, num, RingWrite(ring[b], d, num))
    BY <1>1, <2>1, <2>2, <2>3, WriteGives, Zenon
  <2>5. IInv' /\ Pipe!Put(b, d, num)
    BY <1>1, <2>3, <2>4, PutStep, ZenonT(30) DEF Setting
  <2> QED
    BY <2>4, <2>5, ZenonT(30) DEF Pipe!Next
<1> QED
  BY <1>2, <1>3, Zenon

(* bio_nwrite is a step of the pipe. *)
LEMMA NwriteStep ==
    ASSUME IInv, NEW b \in Bios, NEW d \in Data, bio_nwrite(b, d)
    PROVE  IInv' /\ Pipe!Next
<1>1. UNCHANGED <<alive, init, peer, closed, copied>> /\ peer[b] # NULL
      /\ request' = Setting(b, 0) /\ d \in Seq(Bytes) /\ d # << >>
  BY ZenonT(30) DEF bio_nwrite, Connected
<1>2. CASE WriteRefused(b)
  BY <1>1, <1>2, RefuseStep, ZenonT(30) DEF Pipe!Next
<1>3. CASE ~WriteRefused(b)
  <2>1. Good(ring[b])
    BY <1>1, Paired, Zenon
  <2>2. PICK num, c : num = Least(Len(d), Space(ring[b])) /\ c = WriteChunk(ring[b], num)
    BY Zenon
  <2>3. /\ ~closed[b] /\ Space(ring[b]) > 0
        /\ ring' = [ring EXCEPT ![b] = WriteOnce(ring[b], d, 1, num)]
        /\ res' = Result(c, SubSeq(d, 1, c), "none")
    BY <1>3, <2>2, Zenon DEF bio_nwrite
  <2>4. /\ c \in 1 .. Len(d) /\ c <= Space(ring[b])
        /\ Given(ring[b], d, c, WriteOnce(ring[b], d, 1, num))
    BY <1>1, <2>1, <2>2, <2>3, NwriteGives, Zenon
  <2>5. IInv' /\ Pipe!Put(b, d, c)
    BY <1>1, <2>3, <2>4, PutStep, Zenon DEF Setting
  <2> QED
    BY <2>4, <2>5, Zenon DEF Pipe!Next
<1> QED
  BY <1>2, <1>3, Zenon

(* bio_nwrite0 is a step of the pipe. *)
LEMMA Nwrite0Step ==
    ASSUME IInv, NEW b \in Bios, bio_nwrite0(b)
    PROVE  IInv' /\ Pipe!Next
<1>1. UNCHANGED <<alive, init, peer, closed, copied>> /\ peer[b] # NULL
      /\ request' = Setting(b, 0)
  BY Zenon DEF bio_nwrite0, Connected
<1>2. CASE WriteRefused(b)
  BY <1>1, <1>2, RefuseStep, ZenonT(30) DEF Pipe!Next
<1>3. CASE ~WriteRefused(b)
  <2>1. PICK r : r = ring[b]
    BY Zenon
  <2>2. PICK num : num = WriteChunk(r, Space(r))
    BY Zenon
  <2>3. ~closed[b] /\ Space(r) > 0 /\ ring' = ring /\ res' = Result(num, << >>, "none")
    BY <1>3, <2>1, <2>2, Zenon DEF bio_nwrite0
  <2>4. /\ Good(r) /\ r.len \in Nat /\ r.offset \in Nat /\ r.size \in Nat
        /\ r.len <= r.size /\ r.offset < r.size
        /\ Len(Contents(r)) = r.len
    BY <1>1, <2>1, Paired, ContentsSeq, Zenon DEF Good, RingInv
  <2>5. num \in 1 .. r.size - r.len
    BY <2>2, <2>3, <2>4 DEF WriteChunk, WriteOffset, Least, Space
  <2>6. IInv'
    <3>1. res' \in [ret : Int, data : Seq(Bytes), retry : {"none", "read", "write"}]
      BY <2>3, <2>5, PlainResults, SMTT(30)
    <3> QED
      BY <1>1, <2>3, <3>1, ReturnStep, Zenon
  <2>7. Pipe!Room(b, num)
    <3>1. res' = Pipe!Result(num, << >>, "none")
      BY <2>3, Zenon DEF Result, Pipe!Result
    <3> QED
      BY <1>1, <2>1, <2>3, <2>4, <2>5, <3>1, SameRings, Zenon DEF Pipe!Room
  <2>8. num \in 1 .. [c \in Bios |-> ring[c].size][b]
    BY <2>1, <2>4, <2>5
  <2> QED
    BY <2>6, <2>7, <2>8, Zenon DEF Pipe!Next
<1> QED
  BY <1>2, <1>3, Zenon

(* Calls that only return a result, and ctrls that touch no ring. *)
LEMMA PlainSteps ==
    ASSUME IInv, NEW b \in Bios,
           \/ ReadZero(b) \/ Uninitialised(b)
           \/ CtrlShutdownWr(b) \/ CtrlResetReadRequest(b)
    PROVE  IInv' /\ Simulated
<1> DEFINE Res == [ret : Int, data : Seq(Bytes), retry : {"none", "read", "write"}]
<1>1. Result(-2, << >>, "none") \in Res
  <2>1. -2 \in Int /\ "none" \in {"none", "read", "write"}
    OBVIOUS
  <2>2. PICK m \in Int : m = -2
    BY <2>1, Zenon
  <2>3. Result(m, << >>, "none") \in Res
    BY <2>1, PlainResults, Zenon
  <2> QED
    BY <2>2, <2>3, Zenon
<1>2. CASE ReadZero(b)
  <2>1. peer[b] # NULL
    BY <1>2, Zenon DEF ReadZero, Connected
  <2>2. peer[b] \in Bios
    BY <2>1, Paired, Zenon
  <2>3. res' \in Res
    BY <1>2, Zenon DEF ReadZero, IInv, Types
  <2>4. IInv'
    BY <1>2, <2>2, <2>3, ReturnStep, Zenon DEF ReadZero
  <2>5. UNCHANGED Pipe!vars
    BY <1>2, SameRings, Zenon DEF ReadZero, Pipe!vars
  <2> QED
    BY <2>4, <2>5, Zenon DEF Simulated
<1>4. CASE Uninitialised(b)
  <2>1. peer[b] = NULL
    BY <1>4, ZenonT(30) DEF Uninitialised, IInv, PeersAgree
  <2>3. IInv'
    BY <1>1, <1>4, ReturnStep, ZenonT(30) DEF Uninitialised
  <2>4. Pipe!Uninitialised(b)
    BY <1>4, <2>1, SameRings, Zenon DEF Uninitialised, Pipe!Uninitialised, Result, Pipe!Result
  <2> QED
    BY <2>3, <2>4, ZenonT(30) DEF Simulated, Pipe!Next
<1>5. CASE CtrlShutdownWr(b)
  <2>1. closed' \in [Bios -> BOOLEAN]
    BY <1>5, Zenon DEF CtrlShutdownWr, IInv, Types
  <2>2. res' \in Res /\ request' \in [Bios -> Nat]
    BY <1>5, Zenon DEF CtrlShutdownWr, IInv, Types
  <2>3. IInv'
    BY <1>5, <2>1, <2>2, QuietStep, Zenon DEF CtrlShutdownWr
  <2>4. Pipe!Shutdown(b)
    BY <1>5, SameRings, Zenon DEF CtrlShutdownWr, Pipe!Shutdown
  <2> QED
    BY <2>3, <2>4, Zenon DEF Simulated, Pipe!Next
<1>6. CASE CtrlResetReadRequest(b)
  <2>1. res' \in Res
    BY <1>6, Zenon DEF CtrlResetReadRequest, IInv, Types
  <2>2. IInv'
    BY <1>6, <2>1, ReturnStep, Zenon DEF CtrlResetReadRequest
  <2>3. UNCHANGED Pipe!vars
    BY <1>6, SameRings, Zenon DEF CtrlResetReadRequest, Pipe!vars
  <2> QED
    BY <2>2, <2>3, Zenon DEF Simulated
<1> QED
  BY <1>2, <1>4, <1>5, <1>6, Zenon

(* BIO_CTRL_RESET is a step of the pipe. *)
LEMMA ResetStep ==
    ASSUME IInv, NEW b \in Bios, CtrlReset(b)
    PROVE  IInv' /\ Pipe!Next
<1>1. RingInv(ring[b])
  BY Zenon DEF IInv, RingsInv
<1>7. ring[b].size \in Sizes
  BY <1>1, Zenon DEF RingInv, Rings
<1>2. PICK w : w = Emptied(ring[b])
  BY Zenon
<1>3. RingInv(w) /\ w.len = 0 /\ w.size = ring[b].size /\ w.has
  BY <1>1, <1>2, <1>7, OtherRings, Zenon DEF Good
<1>4. /\ ring' = [ring EXCEPT ![b] = w]
      /\ UNCHANGED <<alive, init, peer, closed, request, res, copied>>
  BY <1>2, Zenon DEF CtrlReset
<1>5. IInv'
  <2>1. RingsInv'
    BY <1>3, <1>4, Zenon DEF IInv, RingsInv
  <2>2. Types'
    BY <1>4, Zenon DEF IInv, Types
  <2>3. PeersAgree'
    BY <1>3, <1>4, Zenon DEF IInv, RingsInv, PeersAgree
  <2>4. RequestSound'
    <3> SUFFICES ASSUME NEW c \in Bios, peer[c] # NULL, request[c] # 0
                 PROVE  ring'[c].len = 0 /\ request[c] <= Space(ring'[c])
      BY <1>4, Zenon DEF RequestSound
    <3>1. ring[c].len = 0 /\ request[c] <= Space(ring[c])
      BY Zenon DEF IInv, RequestSound
    <3>2. CASE c = b
      BY <1>3, <1>4, <3>1, <3>2, Zenon DEF IInv, RingsInv, Space
    <3>3. CASE c # b
      BY <1>4, <3>1, <3>3, Zenon DEF IInv, RingsInv
    <3> QED
      BY <3>2, <3>3, Zenon
  <2> QED
    BY <2>1, <2>2, <2>3, <2>4, Zenon DEF IInv
<1>6. Pipe!Reset(b)
  <2>1. Contents(w) = << >>
    BY <1>3, EmptyContents, Zenon
  <2>2. [c \in Bios |-> Contents(ring[c])]'
          = [[c \in Bios |-> Contents(ring[c])] EXCEPT ![b] = << >>]
    BY <1>4, <2>1, OneRingChanges, Zenon
  <2>3. UNCHANGED [c \in Bios |-> ring[c].size]
    BY <1>3, <1>4, SameSize, Zenon
  <2> QED
    BY <1>4, <2>2, <2>3, Zenon DEF Pipe!Reset
<1> QED
  BY <1>5, <1>6, Zenon DEF Pipe!Next

(* Setting up a BIO that has no peer is a step of the pipe. *)
LEMMA ConfigureStep ==
    ASSUME IInv, NEW b \in Bios, NEW w, RingInv(w), w.len = 0, peer[b] = NULL,
           NEW c \in BOOLEAN, closed' = [closed EXCEPT ![b] = c],
           ring' = [ring EXCEPT ![b] = w], UNCHANGED <<peer, res>>
    PROVE  Pipe!Next
<1>1. Contents(w) = << >>
  BY EmptyContents, Zenon
<1>2. Contents(ring[b]) = << >>
  BY EmptyContents, Zenon DEF IInv, RingsInv
<1>3. w.size \in Sizes
  BY Zenon DEF RingInv, Rings
<1>4. UNCHANGED [a \in Bios |-> Contents(ring[a])]
  BY <1>1, <1>2, OneRingChanges
<1>5. Pipe!Configure(b)
  BY <1>3, <1>4, OneRingChanges, Zenon DEF Pipe!Configure
<1> QED
  BY <1>5, Zenon DEF Pipe!Next

(* Making a BIO is a step of the pipe. *)
LEMMA CreateStep ==
    ASSUME IInv, NEW b \in Bios, NEW n \in Sizes,
           NEW ready \in BOOLEAN, NEW dup \in BOOLEAN, ready => dup,
           New(b, n, ready, dup)
    PROVE  IInv' /\ Pipe!Next
<1>1. IInv' /\ peer[b] = NULL /\ peer' = peer
  BY NewStep, Zenon
<1>2. RingInv(NewRing(n)) /\ NewRing(n).len = 0
  BY OtherRings, ZenonT(30) DEF IInv, RingsInv
<1> QED
  BY <1>1, <1>2, ConfigureStep, Zenon DEF New

(* BIO_C_SET_WRITE_BUF_SIZE is a step of the pipe. *)
LEMMA ResizeStep ==
    ASSUME IInv, NEW b \in Bios, NEW n \in Sizes, CtrlSetWriteBufSize(b, n)
    PROVE  IInv' /\ Pipe!Next
<1>1. RingInv(ring[b]) /\ ring[b].len = 0 /\ peer[b] = NULL
  BY Zenon DEF CtrlSetWriteBufSize, IInv, RingsInv
<1>2. PICK w : w = [size |-> n, len |-> ring[b].len, offset |-> ring[b].offset,
                    has |-> FALSE, buf |-> << >>]
  BY Zenon
<1>3. RingInv(w) /\ w.len = 0
  BY <1>1, <1>2, OtherRings, Zenon
<1>4. /\ ring' = [ring EXCEPT ![b] = w]
      /\ UNCHANGED <<alive, init, peer, closed, request, res, copied>>
  BY <1>2, Zenon DEF CtrlSetWriteBufSize
<1>5. /\ closed' = [closed EXCEPT ![b] = closed[b]] /\ closed[b] \in BOOLEAN
      /\ alive \in [Bios -> BOOLEAN] /\ closed \in [Bios -> BOOLEAN]
      /\ init \in [Bios -> BOOLEAN] /\ copied \in [Bios -> BOOLEAN]
      /\ request \in [Bios -> Nat]
  BY <1>4, Zenon DEF IInv, Types
<1>7. init[b] => copied[b]
  BY <1>1, Zenon DEF IInv, PeersAgree
<1>6. IInv'
  BY <1>1, <1>3, <1>4, <1>5, <1>7, UnpairedStep, Zenon
<1> QED
  BY <1>1, <1>3, <1>4, <1>5, <1>6, ConfigureStep, Zenon

(* bio_make_pair is a step of the pipe. *)
LEMMA JoinStep ==
    ASSUME IInv, NEW a \in Bios, NEW b \in Bios, bio_make_pair(a, b)
    PROVE  IInv' /\ Pipe!Next
<1>1. /\ IInv'
      /\ Good(ring'[a]) /\ ring'[a].len = 0 /\ ring'[a].size = ring[a].size
      /\ Good(ring'[b]) /\ ring'[b].len = 0 /\ ring'[b].size = ring[b].size
      /\ \A c \in Bios \ {a, b} : ring'[c] = ring[c]
  BY PairStep, Zenon
<1>2. Contents(ring'[a]) = << >> /\ Contents(ring'[b]) = << >>
  BY <1>1, EmptyContents, Zenon DEF Good
<1>3. [c \in Bios |-> Contents(ring[c])]'
        = [[c \in Bios |-> Contents(ring[c])] EXCEPT ![a] = << >>, ![b] = << >>]
  BY <1>1, <1>2, Zenon
<1>4. UNCHANGED [c \in Bios |-> ring[c].size]
  BY <1>1, Zenon
<1>5. Pipe!Pair(a, b)
  BY <1>3, <1>4, Zenon DEF bio_make_pair, Pipe!Pair
<1> QED
  BY <1>1, <1>5, Zenon DEF Pipe!Next

(* bio_make_pair that runs out of memory changes nothing in the pipe. *)
LEMMA JoinFailsStep ==
    ASSUME IInv, NEW a \in Bios, NEW b \in Bios, MakePairFails(a, b)
    PROVE  IInv' /\ UNCHANGED Pipe!vars
<1>1. RingInv(ring[a]) /\ ring[a].len = 0 /\ peer[a] = NULL
  BY Zenon DEF MakePairFails, IInv, RingsInv
<1>2. PICK w : w = Allocated(ring[a])
  BY Zenon
<1>3. RingInv(w) /\ w.len = 0 /\ w.size = ring[a].size
  BY <1>1, <1>2, OtherRings, Zenon DEF Good
<1>4. /\ ring' = [ring EXCEPT ![a] = w]
      /\ UNCHANGED <<alive, init, peer, closed, request, res, copied>>
  BY <1>2, Zenon DEF MakePairFails
<1>5. /\ alive \in [Bios -> BOOLEAN] /\ closed \in [Bios -> BOOLEAN]
      /\ init \in [Bios -> BOOLEAN] /\ copied \in [Bios -> BOOLEAN]
      /\ request \in [Bios -> Nat]
  BY Zenon DEF IInv, Types
<1>10. init[a] => copied[a]
  BY <1>1, Zenon DEF IInv, PeersAgree
<1>6. IInv'
  BY <1>1, <1>3, <1>4, <1>5, <1>10, UnpairedStep, ZenonT(30)
<1>7. Contents(w) = << >> /\ Contents(ring[a]) = << >>
  BY <1>1, <1>3, EmptyContents, Zenon
<1>8. UNCHANGED [c \in Bios |-> Contents(ring[c])]
  BY <1>4, <1>7, OneRingChanges
<1>9. UNCHANGED [c \in Bios |-> ring[c].size]
  BY <1>3, <1>4, SameSize, Zenon
<1> QED
  BY <1>4, <1>6, <1>8, <1>9, Zenon DEF Pipe!vars

(* bio_destroy_pair is a step of the pipe. *)
LEMMA PartStep ==
    ASSUME IInv, NEW b \in Bios, peer[b] # NULL, NEW own, RingInv(own),
           own.len = 0, own.size = ring[b].size, bio_destroy_pair(b, own),
           alive' \in [Bios -> BOOLEAN], copied' \in [Bios -> BOOLEAN],
           request' \in [Bios -> Nat],
           \A c \in Bios \ {b} : /\ alive'[c] = alive[c] /\ copied'[c] = copied[c]
                                 /\ request'[c] = request[c],
           UNCHANGED <<closed, res>>
    PROVE  IInv' /\ Pipe!Next
<1>1. PICK p \in Bios : p = peer[b]
  BY Paired, Zenon
<1>2. /\ IInv'
      /\ ring'[b].len = 0 /\ ring'[b].size = ring[b].size
      /\ ring'[p].len = 0 /\ ring'[p].size = ring[p].size
      /\ \A c \in Bios \ {b, p} : ring'[c] = ring[c]
  BY <1>1, DestroyStep, Zenon
<1>3. RingInv(ring'[b]) /\ RingInv(ring'[p])
  BY <1>2, Zenon DEF IInv, RingsInv
<1>4. Contents(ring'[b]) = << >> /\ Contents(ring'[p]) = << >>
  BY <1>2, <1>3, EmptyContents, Zenon
<1>5. [c \in Bios |-> Contents(ring[c])]'
        = [[c \in Bios |-> Contents(ring[c])] EXCEPT ![b] = << >>, ![p] = << >>]
  BY <1>2, <1>4, Zenon
<1>6. UNCHANGED [c \in Bios |-> ring[c].size]
  BY <1>2, Zenon
<1>7. Pipe!Unpair(b)
  BY <1>1, <1>5, <1>6, Zenon DEF bio_destroy_pair, Pipe!Unpair
<1> QED
  BY <1>2, <1>7, ZenonT(30) DEF Pipe!Next

(* bio_free is a step of the pipe. *)
LEMMA FreeStep ==
    ASSUME IInv, NEW b \in Bios, bio_free(b)
    PROVE  IInv' /\ Pipe!Next
<1>1. PICK own : own = Unallocated(ring[b])
  BY Zenon
<1>2. RingInv(own) /\ own.len = 0 /\ own.size = ring[b].size
  <2>1. RingInv(ring[b]) /\ ring[b].size \in Sizes
    BY Zenon DEF IInv, RingsInv, RingInv, Rings
  <2> QED
    BY <1>1, <2>1, OtherRings, Zenon DEF Unallocated
<1>3. /\ alive' \in [Bios -> BOOLEAN] /\ copied' \in [Bios -> BOOLEAN]
      /\ request' \in [Bios -> Nat]
      /\ \A c \in Bios \ {b} : /\ alive'[c] = alive[c] /\ copied'[c] = copied[c]
                               /\ request'[c] = request[c]
      /\ UNCHANGED <<closed, res>>
  BY Zenon DEF bio_free, IInv, Types
<1>4. CASE peer[b] # NULL
  <2>1. bio_destroy_pair(b, own)
    BY <1>1, <1>4, Zenon DEF bio_free
  <2> QED
    BY <1>2, <1>3, <1>4, <2>1, PartStep, Zenon
<1>5. CASE peer[b] = NULL
  <2>1. init' = [init EXCEPT ![b] = FALSE] /\ ring' = [ring EXCEPT ![b] = own] /\ peer' = peer
    BY <1>1, <1>5, Zenon DEF bio_free
  <2>2. /\ init' \in [Bios -> BOOLEAN] /\ ~init'[b]
        /\ \A c \in Bios \ {b} : init'[c] = init[c]
    BY <2>1, Zenon DEF IInv, Types
  <2>3. closed' = [closed EXCEPT ![b] = closed[b]] /\ closed[b] \in BOOLEAN
        /\ closed' \in [Bios -> BOOLEAN]
    BY <1>3, Zenon DEF IInv, Types
  <2>4. IInv'
    BY <1>2, <1>3, <1>5, <2>1, <2>2, <2>3, UnpairedStep, Zenon
  <2>5. Pipe!Next
    BY <1>2, <1>3, <1>5, <2>1, <2>3, ConfigureStep, Zenon
  <2> QED
    BY <2>4, <2>5, Zenon
<1> QED
  BY <1>4, <1>5, Zenon

(* Every call keeps the invariant and is a step, or no step, of the pipe. *)
LEMMA IInvStep ==
    ASSUME IInv, [Next]_vars
    PROVE  IInv' /\ Simulated
<1>1. CASE UNCHANGED vars
  <2>1. IInv'
    BY <1>1, Zenon DEF vars, IInv, Types, RingsInv, PeersAgree, RequestSound
  <2>2. UNCHANGED Pipe!vars
    BY <1>1, SameRings, Zenon DEF vars, Pipe!vars
  <2> QED
    BY <2>1, <2>2, Zenon DEF Simulated
<1>2. CASE Next
  <2>1. PICK b \in Bios :
          \/ bio_new(b) \/ bio_free(b) \/ CtrlDestroyPair(b)
          \/ \E a \in Bios : BIO_dup_chain(a, b) \/ bio_make_pair(a, b) \/ MakePairFails(a, b)
          \/ \E n \in Sizes : CtrlSetWriteBufSize(b, n)
          \/ \E n \in Amounts : bio_read(b, n) \/ bio_nread(b, n)
          \/ ReadZero(b) \/ bio_nread0(b)
          \/ b \in Writers /\ \E d \in Data : bio_write(b, d) \/ bio_nwrite(b, d)
          \/ bio_nwrite0(b) \/ CtrlShutdownWr(b) \/ CtrlResetReadRequest(b) \/ CtrlReset(b)
          \/ Uninitialised(b)
    BY <1>2, Zenon DEF Next
  <2>2. CASE bio_new(b)
    BY <2>2, CreateStep, Zenon DEF bio_new, Simulated
  <2>3. CASE bio_free(b)
    BY <2>3, FreeStep, Zenon DEF Simulated
  <2>4. CASE CtrlDestroyPair(b)
    <3>1. UNCHANGED <<alive, closed, request, res, copied>>
          /\ peer[b] # NULL /\ bio_destroy_pair(b, Emptied(ring[b]))
      BY <2>4, Zenon DEF CtrlDestroyPair
    <3>2. /\ alive' \in [Bios -> BOOLEAN] /\ copied' \in [Bios -> BOOLEAN]
          /\ request' \in [Bios -> Nat]
      BY <3>1, Zenon DEF IInv, Types
    <3>3. RingInv(ring[b]) /\ ring[b].size \in Sizes
      BY Zenon DEF IInv, RingsInv, RingInv, Rings
    <3>4. /\ RingInv(Emptied(ring[b])) /\ Emptied(ring[b]).len = 0
          /\ Emptied(ring[b]).size = ring[b].size
      BY <3>3, OtherRings, Zenon DEF Good
    <3> QED
      BY <3>1, <3>2, <3>4, PartStep, Zenon DEF Simulated
  <2>5. ASSUME NEW a \in Bios, BIO_dup_chain(a, b)
        PROVE  IInv' /\ Simulated
    <3>1. ring[a].size \in Sizes /\ init[a] \in BOOLEAN /\ TRUE \in BOOLEAN
      BY Zenon DEF IInv, Types, RingsInv, RingInv, Rings
    <3> QED
      BY <2>5, <3>1, CreateStep, Zenon DEF BIO_dup_chain, Simulated
  <2>6. ASSUME NEW a \in Bios, bio_make_pair(a, b)
        PROVE  IInv' /\ Simulated
    BY <2>6, JoinStep, Zenon DEF Simulated
  <2>7. ASSUME NEW a \in Bios, MakePairFails(a, b)
        PROVE  IInv' /\ Simulated
    BY <2>7, JoinFailsStep, Zenon DEF Simulated
  <2>8. ASSUME NEW n \in Sizes, CtrlSetWriteBufSize(b, n)
        PROVE  IInv' /\ Simulated
    BY <2>8, ResizeStep, Zenon DEF Simulated
  <2>9. ASSUME NEW n \in Amounts, bio_read(b, n) \/ bio_nread(b, n)
        PROVE  IInv' /\ Simulated
    BY <2>9, ReadStep, NreadStep, Zenon DEF Simulated
  <2>10. ASSUME NEW d \in Data, bio_write(b, d) \/ bio_nwrite(b, d)
         PROVE  IInv' /\ Simulated
    BY <2>10, WriteStep, NwriteStep, Zenon DEF Simulated
  <2>11. CASE bio_nread0(b) \/ bio_nwrite0(b) \/ CtrlReset(b)
    BY <2>11, Nread0Step, Nwrite0Step, ResetStep, Zenon DEF Simulated
  <2>12. CASE \/ ReadZero(b) \/ Uninitialised(b)
              \/ CtrlShutdownWr(b) \/ CtrlResetReadRequest(b)
    BY <2>12, PlainSteps, Zenon
  <2> QED
    BY <2>1, <2>2, <2>3, <2>4, <2>5, <2>6, <2>7, <2>8, <2>9, <2>10, <2>11, <2>12, Zenon
<1> QED
  BY <1>1, <1>2, Zenon

(* The invariant holds in every reachable state. *)
LEMMA IInvAlways == Spec => []IInv
<1>1. IInv /\ [Next]_vars => IInv'
  BY IInvStep, Zenon
<1> QED
  BY IInvInit, <1>1, PTL DEF Spec

-----------------------------------------------------------------------------
(* Theorems *)

(* Every field has its type, and whenever a half has a buffer, the array   *)
(* has the size the half says: BIO_set_write_buf_size throws away a buffer *)
(* that a failed bio_make_pair left behind.                                *)
THEOREM TypeCorrect == Spec => []TypeOK
<1>1. IInv => TypeOK
  BY Zenon DEF IInv, Types, RingsInv, RingInv, TypeOK
<1> QED
  BY <1>1, IInvAlways, PTL

(* Peers point at each other, exist, own a buffer and have init set, and   *)
(* only a copy that BIO_dup_chain made has init set without a peer:        *)
(* bio_destroy_pair, also from bio_free, undoes both sides of              *)
(* bio_make_pair, of a BIO paired with itself too.                         *)
THEOREM PeersAlwaysAgree == Spec => []PeersAgree
<1>1. IInv => PeersAgree
  BY Zenon DEF IInv
<1> QED
  BY <1>1, IInvAlways, PTL

(* The comments on len, offset and size of struct bio_bio_st hold after    *)
(* any sequence of calls, in particular at the end of the array.           *)
THEOREM RingAlwaysSound == Spec => []RingSound
<1>1. IInv => RingSound
  BY Zenon DEF IInv, RingsInv, RingInv, RingSound
<1> QED
  BY <1>1, IInvAlways, PTL

(* The comment on request holds: what a reader asked for is forgotten as   *)
(* soon as the writer or the reader moves.                                 *)
THEOREM RequestAlwaysSound == Spec => []RequestSound
<1>1. IInv => RequestSound
  BY Zenon DEF IInv
<1> QED
  BY <1>1, IInvAlways, PTL

(* The ring buffers implement two bounded first-in first-out pipes, for    *)
(* all sizes, all data and any mixture of the copying and the non-copying  *)
(* calls.                                                                  *)
THEOREM Implements == Spec => ImplementsPipe
<1>1. Init => Pipe!Init
  <2> SUFFICES ASSUME Init
               PROVE  Pipe!Init
    BY Zenon
  <2>2. Contents(NewRing(DefaultSize)) = << >>
    BY FreshRing, EmptyContents, Zenon
  <2>3. [b \in Bios |-> Contents(ring[b])] = [b \in Bios |-> << >>]
    BY <2>2, Zenon DEF Init
  <2>4. [b \in Bios |-> ring[b].size] \in [Bios -> Sizes]
    BY FreshRing, Zenon DEF Init
  <2> QED
    BY <2>3, <2>4, Zenon DEF Init, Pipe!Init, Result, Pipe!Result
<1>2. IInv /\ [Next]_vars => [Pipe!Next]_(Pipe!vars)
  BY IInvStep, Zenon DEF Simulated
<1> QED
  BY <1>1, <1>2, IInvAlways, PTL DEF Spec, ImplementsPipe, Pipe!Spec
====
