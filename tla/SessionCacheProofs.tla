---- MODULE SessionCacheProofs ----
(***************************************************************************)
(* Proofs about SessionCache, for any connections, sessions, ids and cache *)
(* size: the reference counts are exact, so that every pointer is to a     *)
(* live session; the table, the list and the limit stay in step; a session *)
(* under negotiation is nobody else's.  First the inductive invariant and  *)
(* the facts its proof rests on (counting references, the least recently   *)
(* used list, the helpers of ssl_sess.c, what any step must do to keep the *)
(* invariant), then the actions, then the theorems.                        *)
(***************************************************************************)
EXTENDS SessionCache, FiniteSetTheorems, TLAPS

----------------------------------------------------------------------------
(* Counting.                                                               *)

At(x, o) == IF x = o THEN 1 ELSE 0

(* A count is a natural number, and above zero when something is counted. *)
LEMMA CountNat ==
    ASSUME NEW D, IsFiniteSet(D), NEW f, NEW o
    PROVE  /\ Count(f, D, o) \in Nat
           /\ Count(f, D, o) = 0 <=> \A x \in D : f[x] # o
<1> DEFINE S == {x \in D : f[x] = o}
<1>1. S \subseteq D
  BY Zenon
<1>2. IsFiniteSet(S) /\ Cardinality(S) \in Nat
  BY <1>1, FS_Subset, FS_CardinalityType, Zenon
<1>3. Cardinality(S) = 0 <=> S = {}
  BY <1>2, FS_EmptySet, Zenon
<1>4. S = {} <=> \A x \in D : f[x] # o
  BY Zenon
<1> QED
  BY <1>2, <1>3, <1>4, Zenon DEF Count

(* What one assignment to f[d] does to the counts. *)
LEMMA CountMove ==
    ASSUME NEW D, IsFiniteSet(D), NEW f, NEW g, NEW d \in D, NEW o,
           \A x \in D \ {d} : g[x] = f[x]
    PROVE  Count(g, D, o) = Count(f, D, o) + At(g[d], o) - At(f[d], o)
<1> DEFINE S == {x \in D : f[x] = o}
           T == {x \in D : g[x] = o}
           R == {x \in D \ {d} : f[x] = o}
<1>1. R \subseteq D /\ d \notin R
  BY Zenon
<1>2. IsFiniteSet(R) /\ Cardinality(R) \in Nat
  BY <1>1, FS_Subset, FS_CardinalityType, Zenon
<1>3. Cardinality(R \cup {d}) = Cardinality(R) + 1
  BY <1>1, <1>2, FS_AddElement, Zenon
<1>4. S = IF f[d] = o THEN R \cup {d} ELSE R
  BY Zenon
<1>5. T = IF g[d] = o THEN R \cup {d} ELSE R
  BY Zenon
<1> HIDE DEF S, T, R
<1>6. Cardinality(S) = Cardinality(R) + At(f[d], o)
  BY <1>2, <1>3, <1>4 DEF At
<1>7. Cardinality(T) = Cardinality(R) + At(g[d], o)
  BY <1>2, <1>3, <1>5 DEF At
<1>8. Cardinality(S) \in Int /\ Cardinality(T) = Cardinality(S) + At(g[d], o) - At(f[d], o)
  BY <1>2, <1>6, <1>7 DEF At
<1> QED
  BY <1>8, Zenon DEF Count, S, T

----------------------------------------------------------------------------
(* The list.                                                               *)

Injective(l) == \A m, n \in 1 .. Len(l) : l[m] = l[n] => m = n

InList(o, l) == \E n \in 1 .. Len(l) : l[n] = o

(* What SSL_SESSION_list_add does to a list without the session. *)
LEMMA ListAdd ==
    ASSUME NEW l \in Seq(Sessions), NEW o \in Sessions, Injective(l), ~InList(o, l)
    PROVE  LET r == SSL_SESSION_list_add(l, o)
           IN  /\ r \in Seq(Sessions) /\ Injective(r) /\ Len(r) = Len(l) + 1
               /\ \A p : InList(p, r) <=> p = o \/ InList(p, l)
<1> DEFINE r == SSL_SESSION_list_add(l, o)
<1>1. r \in Seq(Sessions) /\ Len(r) = Len(l) + 1
  BY DEF SSL_SESSION_list_add
<1>2. r[1] = o /\ \A n \in 1 .. Len(l) : r[n + 1] = l[n]
  BY DEF SSL_SESSION_list_add
<1>3. \A n \in 1 .. Len(r) : n = 1 \/ (n - 1 \in 1 .. Len(l) /\ r[n] = l[n - 1])
  BY <1>1 DEF SSL_SESSION_list_add
<1>4. Injective(r)
  <2> SUFFICES ASSUME NEW m \in 1 .. Len(r), NEW n \in 1 .. Len(r), r[m] = r[n]
               PROVE  m = n
    BY Zenon DEF Injective
  <2>1. ASSUME NEW k \in 1 .. Len(r), k # 1 PROVE r[k] # o
    BY <1>3, <2>1, Zenon DEF InList
  <2>2. CASE m = 1 \/ n = 1
    BY <1>2, <2>1, <2>2, Zenon
  <2>3. CASE m # 1 /\ n # 1
    <3>1. /\ m - 1 \in 1 .. Len(l) /\ r[m] = l[m - 1]
          /\ n - 1 \in 1 .. Len(l) /\ r[n] = l[n - 1]
      BY <1>3, <2>3, Zenon
    <3>2. m - 1 = n - 1
      BY <3>1, Zenon DEF Injective
    <3> QED
      BY <3>2
  <2> QED
    BY <2>2, <2>3, Zenon
<1>5. ASSUME NEW p PROVE InList(p, r) <=> p = o \/ InList(p, l)
  <2>1. InList(p, r) => p = o \/ InList(p, l)
    BY <1>1, <1>2, <1>3 DEF InList
  <2>2. p = o => InList(p, r)
    BY <1>1, <1>2 DEF InList
  <2>3. ASSUME InList(p, l) PROVE InList(p, r)
    <3>1. PICK n \in 1 .. Len(l) : l[n] = p
      BY <2>3, Zenon DEF InList
    <3>2. n + 1 \in 1 .. Len(r) /\ r[n + 1] = p
      BY <1>1, <1>2, <3>1
    <3> QED
      BY <3>2, Zenon DEF InList
  <2> QED
    BY <2>1, <2>2, <2>3, Zenon
<1> QED
  BY <1>1, <1>4, <1>5, Zenon

(* What SSL_SESSION_list_remove does to a list with the session. *)
LEMMA ListRemove ==
    ASSUME NEW l \in Seq(Sessions), NEW o, Injective(l), InList(o, l)
    PROVE  LET r == SSL_SESSION_list_remove(l, o)
           IN  /\ r \in Seq(Sessions) /\ Injective(r) /\ Len(r) = Len(l) - 1
               /\ \A p : InList(p, r) <=> p # o /\ InList(p, l)
<1> DEFINE r == SSL_SESSION_list_remove(l, o)
           k == CHOOSE n \in 1 .. Len(l) : l[n] = o
<1>1. k \in 1 .. Len(l) /\ l[k] = o
  BY Zenon DEF InList
<1>2. r = [n \in 1 .. Len(l) - 1 |-> IF n < k THEN l[n] ELSE l[n + 1]]
  BY Zenon DEF SSL_SESSION_list_remove, InList
<1> HIDE DEF r, k
<1>3. r \in Seq(Sessions) /\ Len(r) = Len(l) - 1
  BY <1>1, <1>2
<1>4. \A n \in 1 .. Len(r) : /\ n < k => n \in 1 .. Len(l) /\ r[n] = l[n] /\ n # k
                             /\ n >= k => n + 1 \in 1 .. Len(l) /\ r[n] = l[n + 1] /\ n + 1 # k
  BY <1>1, <1>2, <1>3
<1>5. Injective(r)
  BY <1>1, <1>3, <1>4 DEF Injective
<1>6. ASSUME NEW p PROVE InList(p, r) <=> p # o /\ InList(p, l)
  <2>1. ASSUME InList(p, r) PROVE p # o /\ InList(p, l)
    <3>1. PICK n \in 1 .. Len(r) : r[n] = p
      BY <2>1, Zenon DEF InList
    <3>2. CASE n < k
      BY <1>1, <1>4, <3>1, <3>2, Zenon DEF Injective, InList
    <3>3. CASE n >= k
      BY <1>1, <1>4, <3>1, <3>3 DEF Injective, InList
    <3> QED
      BY <1>1, <1>3, <3>1, <3>2, <3>3
  <2>2. ASSUME p # o, InList(p, l) PROVE InList(p, r)
    <3>1. PICK n \in 1 .. Len(l) : l[n] = p
      BY <2>2, Zenon DEF InList
    <3>2. n # k
      BY <1>1, <2>2, <3>1, Zenon
    <3>3. CASE n < k
      BY <1>1, <1>3, <1>4, <3>1, <3>3, SMTT(30) DEF InList
    <3>4. CASE n > k
      <4>1. n - 1 \in 1 .. Len(r) /\ r[n - 1] = p
        BY <1>1, <1>3, <1>4, <3>1, <3>4
      <4> QED
        BY <4>1, Zenon DEF InList
    <3> QED
      BY <1>1, <3>1, <3>2, <3>3, <3>4
  <2> QED
    BY <2>1, <2>2, Zenon
<1> QED
  BY <1>3, <1>5, <1>6, Zenon DEF r

----------------------------------------------------------------------------
(* The inductive invariant.                                                *)

Owned(ss, rt, rm, h, e, a, o) ==
    Count(ss, Conns, o) + Count(rt, Conns, o) + Count(rm, Conns, o)
    + Count(h, Ids, o) + Count(e, Ids, o) + (IF o \in a THEN 1 ELSE 0)

RetPlaces == {"store", "found", "ticketed", "drop"}
RemPlaces == {"drop", "ticket", "dying", "closing", "failing", "freeing", "clearing"}
Bare == {"before", "missed", "store", "found", "ticketed", "drop", "new", "failed"}

(* What the place of a connection says of its pointers. *)
Place(c) ==
    /\ ret[c] # NULL <=> pc[c] \in RetPlaces
    /\ rem[c] # NULL => pc[c] \in RemPlaces
    /\ session[c] = NULL => pc[c] \in Bare
    /\ pc[c] = "missed" => sid[c] # NULL
    /\ pc[c] = "newcb" => sess[session[c]].id # NULL
    /\ pc[c] = "store" => sess[ret[c]].id # NULL

PlaceInv == \A c \in Conns : Place(c)

(* What is stored under an id has that id. *)
IdInv == \A i \in Ids : /\ hash[i] # NULL => sess[hash[i]].id = i
                        /\ ext[i] # NULL => sess[ext[i]].id = i

(* The list has the sessions of a table, each once. *)
Lists(l, h) == /\ Injective(l)
               /\ \A o \in Sessions : InList(o, l) <=> \E i \in Ids : h[i] = o

(* TypeOK, but for counts below zero. *)
Typed ==
    /\ refs \in [Sessions -> Int]
    /\ sess \in [Sessions -> [id : Ids \cup {NULL}, not_resumable : BOOLEAN,
                              expired : BOOLEAN]]
    /\ hash \in [Ids -> Sessions \cup {NULL}]
    /\ list \in Seq(Sessions)
    /\ lock \in Conns \cup {NULL}
    /\ ext \in [Ids -> Sessions \cup {NULL}]
    /\ app \subseteq Sessions
    /\ pc \in [Conns -> Places]
    /\ session \in [Conns -> Sessions \cup {NULL}]
    /\ hit \in [Conns -> BOOLEAN]
    /\ sid \in [Conns -> Ids \cup {NULL}]
    /\ ret \in [Conns -> Sessions \cup {NULL}]
    /\ rem \in [Conns -> Sessions \cup {NULL}]

IInv == Typed /\ RefsExact /\ PlaceInv /\ IdInv /\ Lists(list, hash) /\ CacheBounded

(* A session has no owner exactly if nothing points to it. *)
LEMMA OwnedIsReferred ==
    ASSUME NEW ss, NEW rt, NEW rm, NEW h, NEW e, NEW a, NEW o
    PROVE  /\ Owned(ss, rt, rm, h, e, a, o) \in Nat
           /\ Owned(ss, rt, rm, h, e, a, o) = 0
              <=> /\ \A c \in Conns : ss[c] # o /\ rt[c] # o /\ rm[c] # o
                  /\ \A i \in Ids : h[i] # o /\ e[i] # o
                  /\ o \notin a
<1> DEFINE n1 == Count(ss, Conns, o)
           n2 == Count(rt, Conns, o)
           n3 == Count(rm, Conns, o)
           n4 == Count(h, Ids, o)
           n5 == Count(e, Ids, o)
           n6 == IF o \in a THEN 1 ELSE 0
           sum == n1 + n2 + n3 + n4 + n5 + n6
<1>1. IsFiniteSet(Conns) /\ IsFiniteSet(Ids)
  BY CacheAssumption, Zenon
<1>2. n1 \in Nat /\ (n1 = 0 <=> \A c \in Conns : ss[c] # o)
  BY <1>1, CountNat, Zenon
<1>3. n2 \in Nat /\ (n2 = 0 <=> \A c \in Conns : rt[c] # o)
  BY <1>1, CountNat, Zenon
<1>4. n3 \in Nat /\ (n3 = 0 <=> \A c \in Conns : rm[c] # o)
  BY <1>1, CountNat, Zenon
<1>5. n4 \in Nat /\ (n4 = 0 <=> \A i \in Ids : h[i] # o)
  BY <1>1, CountNat, Zenon
<1>6. n5 \in Nat /\ (n5 = 0 <=> \A i \in Ids : e[i] # o)
  BY <1>1, CountNat, Zenon
<1>7. n6 \in Nat /\ (n6 = 0 <=> o \notin a)
  OBVIOUS
<1>8. Owned(ss, rt, rm, h, e, a, o) = sum
  BY Zenon DEF Owned
<1> HIDE DEF n1, n2, n3, n4, n5, n6
<1>9. /\ sum \in Nat
      /\ sum = 0 <=> n1 = 0 /\ n2 = 0 /\ n3 = 0 /\ n4 = 0 /\ n5 = 0 /\ n6 = 0
  BY <1>2, <1>3, <1>4, <1>5, <1>6, <1>7
<1> HIDE DEF sum
<1> QED
  BY <1>2, <1>3, <1>4, <1>5, <1>6, <1>7, <1>8, <1>9, Zenon

----------------------------------------------------------------------------
(* Reference counts.                                                       *)

(* Taking a reference adds one to the count of that session alone. *)
LEMMA UpRef ==
    ASSUME NEW r \in [Sessions -> Int], NEW o \in Sessions
    PROVE  LET q == SSL_SESSION_up_ref(r, o)
           IN  q \in [Sessions -> Int] /\ \A p \in Sessions : q[p] = r[p] + At(o, p)
BY DEF SSL_SESSION_up_ref, At

(* SSL_SESSION_free takes one from the count of that session alone. *)
LEMMA FreeRef ==
    ASSUME NEW r \in [Sessions -> Int], NEW o \in Sessions \cup {NULL}
    PROVE  LET q == SSL_SESSION_free(r, o)
           IN  q \in [Sessions -> Int] /\ \A p \in Sessions : q[p] = r[p] - At(o, p)
<1>1. NULL \notin Sessions
  BY CacheAssumption, Zenon
<1>2. CASE o = NULL
  BY <1>1, <1>2 DEF SSL_SESSION_free, At
<1>3. CASE o # NULL
  BY <1>1, <1>3 DEF SSL_SESSION_free, At
<1> QED
  BY <1>2, <1>3, Zenon

(* A new session has the one reference of its maker. *)
LEMMA NewRef ==
    ASSUME NEW r \in [Sessions -> Int], NEW o \in Sessions, r[o] = 0
    PROVE  LET q == [r EXCEPT ![o] = 1]
           IN  q \in [Sessions -> Int] /\ \A p \in Sessions : q[p] = r[p] + At(o, p)
BY DEF At

(* The owner that remove_session_cb may take away. *)
ExtOwner(o) == IF Held(o) THEN o ELSE NULL

(* What SSL_SESSION_free after remove_session_cb takes from the counts. *)
LEMMA ReleasedRef ==
    ASSUME NEW r \in [Sessions -> Int], NEW o \in Sessions
    PROVE  LET q == Released(r, o)
           IN  /\ q \in [Sessions -> Int]
               /\ \A p \in Sessions : q[p] = r[p] - At(ExtOwner(o), p) - At(o, p)
<1> DEFINE r1 == SSL_SESSION_free(r, ExtOwner(o))
<1>1. ExtOwner(o) \in Sessions \cup {NULL}
  BY Zenon DEF ExtOwner
<1>2. r1 = IF Held(o) THEN SSL_SESSION_free(r, o) ELSE r
  BY Zenon DEF ExtOwner, SSL_SESSION_free
<1>3. r1 \in [Sessions -> Int] /\ \A p \in Sessions : r1[p] = r[p] - At(ExtOwner(o), p)
  BY <1>1, FreeRef, Zenon
<1>4. Released(r, o) = SSL_SESSION_free(r1, o)
  BY <1>2, Zenon DEF Released
<1> HIDE DEF r1
<1>5. LET q == SSL_SESSION_free(r1, o)
      IN  q \in [Sessions -> Int] /\ \A p \in Sessions : q[p] = r1[p] - At(o, p)
  BY <1>3, FreeRef, Zenon
<1> QED
  BY <1>3, <1>4, <1>5, Zenon

(* Counts and what remove_session_cb takes out. *)
LEMMA RemoveCbCount ==
    ASSUME Typed, NEW o \in Sessions
    PROVE  /\ remove_session_cb(o) \in [Ids -> Sessions \cup {NULL}]
           /\ \A i \in Ids : remove_session_cb(o)[i] \in {ext[i], NULL}
           /\ \A p \in Sessions :
                 Count(remove_session_cb(o), Ids, p) = Count(ext, Ids, p) - At(ExtOwner(o), p)
<1> DEFINE i == sess[o].id
           e == remove_session_cb(o)
<1>1. IsFiniteSet(Ids) /\ NULL \notin Sessions /\ NULL \notin Ids
  BY CacheAssumption, Zenon
<1>2. i \in Ids \cup {NULL} /\ ext \in [Ids -> Sessions \cup {NULL}]
  BY Zenon DEF Typed
<1>3. CASE ~Held(o)
  <2>1. e = ext /\ ExtOwner(o) = NULL
    BY <1>3, Zenon DEF remove_session_cb, ExtOwner
  <2>2. ASSUME NEW p \in Sessions PROVE Count(e, Ids, p) = Count(ext, Ids, p) - At(NULL, p)
    BY <1>1, <2>1, CountNat DEF At
  <2> QED
    BY <1>2, <2>1, <2>2, Zenon
<1>4. CASE Held(o)
  <2>1. i \in Ids /\ ext[i] = o /\ ExtOwner(o) = o
    BY <1>2, <1>4, Zenon DEF Held, ExtOwner
  <2>2. e = [ext EXCEPT ![i] = NULL]
    BY <1>4, Zenon DEF remove_session_cb
  <2>3. e \in [Ids -> Sessions \cup {NULL}] /\ e[i] = NULL /\ \A j \in Ids \ {i} : e[j] = ext[j]
    BY <1>2, <2>1, <2>2, Zenon
  <2>4. ASSUME NEW p \in Sessions PROVE Count(e, Ids, p) = Count(ext, Ids, p) - At(o, p)
    <3> HIDE DEF e, i
    <3>1. Count(e, Ids, p) = Count(ext, Ids, p) + At(e[i], p) - At(ext[i], p)
      BY <1>1, <2>1, <2>3, CountMove
    <3>2. Count(ext, Ids, p) \in Nat
      BY <1>1, CountNat, Zenon
    <3> QED
      BY <1>1, <2>1, <2>3, <3>1, <3>2 DEF At
  <2> QED
    BY <2>1, <2>3, <2>4, Zenon
<1> QED
  BY <1>3, <1>4, Zenon

----------------------------------------------------------------------------
(* The hash table with the list.                                           *)

(* Removing an entry from table and list keeps the two the same. *)
LEMMA ListsDrop ==
    ASSUME NEW l \in Seq(Sessions), NEW h \in [Ids -> Sessions \cup {NULL}], Lists(l, h),
           NEW i \in Ids, h[i] # NULL, \A j \in Ids : h[j] = h[i] => j = i
    PROVE  LET r == SSL_SESSION_list_remove(l, h[i])
           IN  r \in Seq(Sessions) /\ Lists(r, [h EXCEPT ![i] = NULL])
<1> DEFINE r == SSL_SESSION_list_remove(l, h[i])
           g == [h EXCEPT ![i] = NULL]
<1>1. NULL \notin Sessions /\ h[i] \in Sessions
  BY CacheAssumption, Zenon
<1>2. Injective(l) /\ InList(h[i], l)
  BY <1>1, Zenon DEF Lists
<1>3. r \in Seq(Sessions) /\ Injective(r) /\ \A p : InList(p, r) <=> p # h[i] /\ InList(p, l)
  BY <1>2, ListRemove, Zenon
<1>4. ASSUME NEW o \in Sessions
      PROVE  (\E j \in Ids : g[j] = o) <=> (o # h[i] /\ \E j \in Ids : h[j] = o)
  BY <1>1, Zenon
<1> QED
  BY <1>3, <1>4, Zenon DEF Lists

(* Adding an entry to table and list keeps the two the same. *)
LEMMA ListsPut ==
    ASSUME NEW l \in Seq(Sessions), NEW h \in [Ids -> Sessions \cup {NULL}], Lists(l, h),
           NEW i \in Ids, NEW o \in Sessions, h[i] = NULL, \A j \in Ids : h[j] # o
    PROVE  LET r == SSL_SESSION_list_add(l, o)
           IN  r \in Seq(Sessions) /\ Lists(r, [h EXCEPT ![i] = o])
<1> DEFINE r == SSL_SESSION_list_add(l, o)
           g == [h EXCEPT ![i] = o]
<1>1. NULL \notin Sessions
  BY CacheAssumption, Zenon
<1>2. Injective(l) /\ ~InList(o, l)
  BY Zenon DEF Lists
<1>3. r \in Seq(Sessions) /\ Injective(r) /\ \A p : InList(p, r) <=> p = o \/ InList(p, l)
  BY <1>2, ListAdd, Zenon
<1>4. ASSUME NEW p \in Sessions
      PROVE  (\E j \in Ids : g[j] = p) <=> (p = o \/ \E j \in Ids : h[j] = p)
  BY <1>1, Zenon
<1> QED
  BY <1>3, <1>4, Zenon DEF Lists

----------------------------------------------------------------------------
(* What every step has in common.                                          *)

(* What is pointed to is alive. *)
Alive ==
    /\ \A c \in Conns : /\ session[c] # NULL => refs[session[c]] # 0
                        /\ ret[c] # NULL => refs[ret[c]] # 0
                        /\ rem[c] # NULL => refs[rem[c]] # 0
    /\ \A i \in Ids : /\ hash[i] # NULL => refs[hash[i]] # 0
                      /\ ext[i] # NULL => refs[ext[i]] # 0
    /\ \A o \in app : refs[o] # 0

(* Exact counts mean that no owner points to a freed session. *)
LEMMA ExactIsAlive ==
    ASSUME Typed, RefsExact
    PROVE  Alive
<1>1. ASSUME NEW o \in Sessions, refs[o] = 0
      PROVE  /\ \A c \in Conns : session[c] # o /\ ret[c] # o /\ rem[c] # o
             /\ \A i \in Ids : hash[i] # o /\ ext[i] # o
             /\ o \notin app
  <2>1. Owned(session, ret, rem, hash, ext, app, o) = 0
    BY <1>1, Zenon DEF RefsExact, Owners, Owned
  <2> QED
    BY <2>1, OwnedIsReferred, Zenon
<1> QED
  BY <1>1, Zenon DEF Typed, Alive

(* The same after a step. *)
LEMMA ExactIsAlivePrimed ==
    ASSUME Typed', RefsExact'
    PROVE  Alive'
<1>1. ASSUME NEW o \in Sessions, refs'[o] = 0
      PROVE  /\ \A c \in Conns : session'[c] # o /\ ret'[c] # o /\ rem'[c] # o
             /\ \A i \in Ids : hash'[i] # o /\ ext'[i] # o
             /\ o \notin app'
  <2>1. Owned(session', ret', rem', hash', ext', app', o) = 0
    BY <1>1, Zenon DEF RefsExact, Owners, Owned, Count
  <2> QED
    BY <2>1, OwnedIsReferred, Zenon
<1> QED
  BY <1>1, Zenon DEF Typed, Alive

(* A session that stays alive keeps its id. *)
Steady == \A o \in Sessions :
              refs[o] # 0 /\ refs'[o] # 0 /\ sess[o].id # NULL => sess'[o].id = sess[o].id

SameAt(c) == /\ pc'[c] = pc[c] /\ session'[c] = session[c] /\ sid'[c] = sid[c]
             /\ ret'[c] = ret[c] /\ rem'[c] = rem[c]

(* What is enough for a step to keep the invariant. *)
LEMMA Step ==
    ASSUME IInv, Typed', RefsExact', Steady, Lists(list, hash)', CacheBounded',
           \A c \in Conns : SameAt(c) \/ Place(c)',
           \A i \in Ids : hash'[i] \in {hash[i], NULL} \/ sess'[hash'[i]].id = i,
           \A i \in Ids : ext'[i] \in {ext[i], NULL} \/ sess'[ext'[i]].id = i
    PROVE  IInv'
<1>1. Alive /\ Alive'
  BY ExactIsAlive, ExactIsAlivePrimed, Zenon DEF IInv
<1>2. NULL \notin Sessions /\ NULL \notin Ids
  BY CacheAssumption, Zenon
<1>3. ASSUME NEW c \in Conns, SameAt(c) PROVE Place(c)'
  <2>1. Place(c)
    BY Zenon DEF IInv, PlaceInv
  <2>2. ASSUME pc[c] = "newcb" PROVE sess'[session[c]].id # NULL
    <3>1. session[c] \in Sessions /\ sess[session[c]].id # NULL
      BY <2>1, <2>2, Zenon DEF Place, Bare, IInv, Typed
    <3> QED
      BY <1>1, <1>2, <1>3, <3>1, Zenon DEF Steady, Alive, SameAt
  <2>3. ASSUME pc[c] = "store" PROVE sess'[ret[c]].id # NULL
    <3>1. ret[c] \in Sessions /\ sess[ret[c]].id # NULL
      BY <2>1, <2>3, Zenon DEF Place, RetPlaces, IInv, Typed
    <3> QED
      BY <1>1, <1>2, <1>3, <3>1, Zenon DEF Steady, Alive, SameAt
  <2> QED
    BY <1>3, <2>1, <2>2, <2>3, Zenon DEF SameAt, Place
<1>4. PlaceInv'
  BY <1>3, Zenon DEF PlaceInv
<1>5. ASSUME NEW i \in Ids, hash'[i] # NULL PROVE sess'[hash'[i]].id = i
  <2>1. CASE hash'[i] = hash[i]
    <3>1. hash[i] \in Sessions /\ sess[hash[i]].id = i
      BY <1>5, <2>1 DEF IInv, IdInv, Typed
    <3> QED
      BY <1>1, <1>2, <1>5, <2>1, <3>1, Zenon DEF Steady, Alive
  <2> QED
    BY <1>5, <2>1, Zenon
<1>6. ASSUME NEW i \in Ids, ext'[i] # NULL PROVE sess'[ext'[i]].id = i
  <2>1. CASE ext'[i] = ext[i]
    <3>1. ext[i] \in Sessions /\ sess[ext[i]].id = i
      BY <1>6, <2>1 DEF IInv, IdInv, Typed
    <3> QED
      BY <1>1, <1>2, <1>6, <2>1, <3>1, Zenon DEF Steady, Alive
  <2> QED
    BY <1>6, <2>1, Zenon
<1> QED
  BY <1>4, <1>5, <1>6, Zenon DEF IInv, IdInv

----------------------------------------------------------------------------
(* Steps that touch the session and the lookup of one connection.          *)

(* A step in which one connection exchanges what it owns. *)
LEMMA Reown ==
    ASSUME IInv, Typed', Steady, NEW c \in Conns, Place(c)',
           \A d \in Conns \ {c} : SameAt(d),
           UNCHANGED <<hash, list, ext, app, rem>>,
           \A o \in Sessions : refs'[o] = refs[o] + At(session'[c], o) + At(ret'[c], o)
                                          - At(session[c], o) - At(ret[c], o)
    PROVE  IInv'
<1>1. IsFiniteSet(Conns)
  BY CacheAssumption, Zenon
<1>2. ASSUME NEW o \in Sessions PROVE refs'[o] = Owners(o)'
  <2> DEFINE n1 == Count(session, Conns, o)
             m1 == Count(session', Conns, o)
             n2 == Count(ret, Conns, o)
             m2 == Count(ret', Conns, o)
             n3 == Count(rem, Conns, o) + Count(hash, Ids, o) + Count(ext, Ids, o)
                   + (IF o \in app THEN 1 ELSE 0)
  <2>1. m1 = n1 + At(session'[c], o) - At(session[c], o) /\ n1 \in Nat
    BY <1>1, CountMove, CountNat DEF SameAt
  <2>2. m2 = n2 + At(ret'[c], o) - At(ret[c], o) /\ n2 \in Nat
    BY <1>1, CountMove, CountNat DEF SameAt
  <2>3. n3 \in Int /\ refs[o] = n1 + n2 + n3 /\ Owners(o)' = m1 + m2 + n3
    <3>1. /\ Count(rem, Conns, o) \in Nat /\ Count(hash, Ids, o) \in Nat
          /\ Count(ext, Ids, o) \in Nat
      BY CacheAssumption, CountNat, Zenon
    <3>2. refs[o] = Owners(o)
      BY Zenon DEF IInv, RefsExact
    <3>3. /\ Count(session, Conns, o)' = m1 /\ Count(ret, Conns, o)' = m2
          /\ Count(rem, Conns, o)' = Count(rem, Conns, o)
          /\ Count(hash, Ids, o)' = Count(hash, Ids, o) /\ Count(ext, Ids, o)' = Count(ext, Ids, o)
      BY Zenon DEF Count
    <3>4. m1 \in Int /\ m2 \in Int /\ n1 \in Int /\ n2 \in Int
      BY <2>1, <2>2 DEF At
    <3> HIDE DEF m1, m2
    <3> QED
      BY <3>1, <3>2, <3>3, <3>4 DEF Owners
  <2> HIDE DEF n1, n2, n3, m1, m2
  <2>4. refs'[o] = refs[o] + At(session'[c], o) + At(ret'[c], o)
                   - At(session[c], o) - At(ret[c], o)
    BY Zenon
  <2> QED
    BY <2>1, <2>2, <2>3, <2>4 DEF At
<1>3. RefsExact'
  BY <1>2, Zenon DEF RefsExact
<1>4. Lists(list, hash)' /\ CacheBounded'
  BY Zenon DEF IInv, CacheBounded, Lists, Injective, InList
<1> QED
  BY <1>3, <1>4, Step, Zenon

Rec == [id : Ids \cup {NULL}, not_resumable : BOOLEAN, expired : BOOLEAN]

(* Freeing sessions leaves the others as they are. *)
LEMMA WipedKeeps ==
    ASSUME NEW s \in [Sessions -> Rec], sess' = Wiped(s)
    PROVE  sess' \in [Sessions -> Rec] /\ \A o \in Sessions : refs'[o] # 0 => sess'[o] = s[o]
<1>1. Blank \in Rec
  BY Zenon DEF Blank, Rec
<1> QED
  BY <1>1, Zenon DEF Wiped

(* A new session with an id is well formed. *)
LEMMA RecOfId ==
    ASSUME NEW i \in Ids \cup {NULL}
    PROVE  [Blank EXCEPT !.id = i] \in Rec /\ [Blank EXCEPT !.id = i].id = i
BY Zenon DEF Blank, Rec

(* Nothing but the place and the lock changes. *)
LEMMA MoveStep ==
    ASSUME IInv, Typed', NEW c \in Conns, Place(c)', \A d \in Conns \ {c} : SameAt(d),
           UNCHANGED <<refs, sess, hash, list, ext, app, session, ret, rem>>
    PROVE  IInv'
<1>1. Steady
  BY Zenon DEF Steady
<1>2. ASSUME NEW o \in Sessions
      PROVE  refs'[o] = refs[o] + At(session'[c], o) + At(ret'[c], o) - At(session[c], o) - At(ret[c], o)
  BY DEF At, IInv, Typed
<1> QED
  BY <1>1, <1>2, Reown, Zenon

(* The steps that only move a connection on keep the invariant. *)
LEMMA Moves ==
    ASSUME IInv, NEW c \in Conns,
           \/ GetPrevNone(c) \/ FlushNot(c) \/ SSL_CTX_flush_sessions(c) \/ FlushEnd(c)
           \/ SSL_shutdown(c)
    PROVE  IInv'
<1>1. UNCHANGED <<refs, sess, hash, list, ext, app, session, ret, rem, sid, hit>>
  BY Zenon DEF GetPrevNone, FlushNot, SSL_CTX_flush_sessions, FlushEnd, SSL_shutdown, cache
<1>2. /\ pc' \in [Conns -> Places] /\ \A d \in Conns \ {c} : pc'[d] = pc[d]
      /\ lock' \in Conns \cup {NULL}
      /\ \/ pc'[c] = "new" /\ pc[c] \in {"before", "ok"}
         \/ pc'[c] = "ok" /\ pc[c] \in {"flush", "flushing"}
         \/ pc'[c] = "flushing" /\ pc[c] = "flush"
         \/ pc'[c] = "closed" /\ pc[c] = "ok"
  BY Zenon DEF GetPrevNone, FlushNot, SSL_CTX_flush_sessions, FlushEnd, SSL_shutdown, Goto, Starting,
         IInv, Typed, Places, Established
<1>3. Typed'
  BY <1>1, <1>2, Zenon DEF IInv, Typed
<1>4. \A d \in Conns \ {c} : SameAt(d)
  BY <1>1, <1>2, Zenon DEF SameAt
<1>5. Place(c)'
  BY <1>1, <1>2, Zenon DEF IInv, PlaceInv, Place, RetPlaces, RemPlaces, Bare
<1> QED
  BY <1>1, <1>3, <1>4, <1>5, MoveStep, Zenon

(* A step of c that leaves it at p, with session x and lookup y. *)
Assigned(c, p, x, y) ==
    /\ p \in Places /\ x \in Sessions \cup {NULL} /\ y \in Sessions \cup {NULL}
    /\ pc' = [pc EXCEPT ![c] = p]
    /\ session' = [session EXCEPT ![c] = x] /\ ret' = [ret EXCEPT ![c] = y]
    /\ sid' \in [Conns -> Ids \cup {NULL}] /\ \A d \in Conns \ {c} : sid'[d] = sid[d]
    /\ hit' \in [Conns -> BOOLEAN] /\ sess' \in [Sessions -> Rec]
    /\ UNCHANGED <<hash, list, lock, ext, app, rem>>
    /\ refs' \in [Sessions -> Int]
    /\ \A o \in Sessions :
          refs'[o] = refs[o] + At(x, o) + At(y, o) - At(session[c], o) - At(ret[c], o)
    /\ pc[c] \notin RemPlaces /\ p \notin {"missed", "newcb"}
    /\ y # NULL <=> p \in RetPlaces
    /\ x = NULL => p \in Bare

(* A step that gives a connection other pointers keeps the invariant. *)
LEMMA Reassign ==
    ASSUME IInv, Steady, NEW c \in Conns, NEW p, NEW x, NEW y, Assigned(c, p, x, y),
           p = "store" => sess'[y].id # NULL
    PROVE  IInv'
<1> USE DEF Assigned
<1>1. rem[c] = NULL
  BY Zenon DEF IInv, PlaceInv, Place
<1>2. pc'[c] = p /\ session'[c] = x /\ ret'[c] = y /\ rem'[c] = NULL
  BY <1>1, Zenon DEF IInv, Typed
<1>3. Typed'
  BY Zenon DEF IInv, Typed, Rec
<1>4. \A d \in Conns \ {c} : SameAt(d)
  BY Zenon DEF IInv, Typed, SameAt
<1>5. Place(c)'
  BY <1>2, Zenon DEF Place
<1>6. \A o \in Sessions :
          refs'[o] = refs[o] + At(session'[c], o) + At(ret'[c], o) - At(session[c], o) - At(ret[c], o)
  BY <1>2, Zenon
<1> QED
  BY <1>3, <1>4, <1>5, <1>6, Reown, Zenon

(* The pointers of a connection at a place, for the actions below. *)
LEMMA AtPlace ==
    ASSUME IInv, NEW c \in Conns
    PROVE  /\ refs \in [Sessions -> Int] /\ sess \in [Sessions -> Rec]
           /\ session \in [Conns -> Sessions \cup {NULL}] /\ ret \in [Conns -> Sessions \cup {NULL}]
           /\ session[c] \in Sessions \cup {NULL} /\ ret[c] \in Sessions \cup {NULL}
           /\ pc[c] \notin RetPlaces => ret[c] = NULL
           /\ pc[c] \in RetPlaces => ret[c] \in Sessions
           /\ pc[c] \notin Bare => session[c] \in Sessions
           /\ NULL \notin Sessions /\ NULL \notin Ids
           /\ sid \in [Conns -> Ids \cup {NULL}] /\ hit \in [Conns -> BOOLEAN]
           /\ \A o \in Sessions : At(NULL, o) = 0
           /\ session = [session EXCEPT ![c] = session[c]] /\ ret = [ret EXCEPT ![c] = ret[c]]
<1>1. NULL \notin Sessions /\ NULL \notin Ids
  BY CacheAssumption, Zenon
<1>2. /\ refs \in [Sessions -> Int] /\ sess \in [Sessions -> Rec]
      /\ session \in [Conns -> Sessions \cup {NULL}] /\ ret \in [Conns -> Sessions \cup {NULL}]
      /\ sid \in [Conns -> Ids \cup {NULL}] /\ hit \in [Conns -> BOOLEAN]
  BY Zenon DEF IInv, Typed, Rec
<1>3. Place(c)
  BY Zenon DEF IInv, PlaceInv
<1> QED
  BY <1>1, <1>2, <1>3, Zenon DEF Place, At

(* A session given up: what is left of it. *)
LEMMA SteadyWiped ==
    ASSUME NEW s \in [Sessions -> Rec], sess' = Wiped(s),
           \A o \in Sessions : refs[o] # 0 => s[o].id = sess[o].id
    PROVE  Steady /\ sess' \in [Sessions -> Rec]
BY WipedKeeps, Zenon DEF Steady

(* The counts of the five places that hold references, before and after. *)
LEMMA Balance ==
    ASSUME IInv, NEW p \in Sessions, app' = app,
           NEW d1 \in Int, NEW d2 \in Int, NEW d3 \in Int, NEW d4 \in Int, NEW d5 \in Int,
           Count(session', Conns, p) = Count(session, Conns, p) + d1,
           Count(ret', Conns, p) = Count(ret, Conns, p) + d2,
           Count(rem', Conns, p) = Count(rem, Conns, p) + d3,
           Count(hash', Ids, p) = Count(hash, Ids, p) + d4,
           Count(ext', Ids, p) = Count(ext, Ids, p) + d5,
           refs'[p] = refs[p] + d1 + d2 + d3 + d4 + d5
    PROVE  refs'[p] = Owners(p)'
<1> DEFINE n1 == Count(session, Conns, p)
           n2 == Count(ret, Conns, p)
           n3 == Count(rem, Conns, p)
           n4 == Count(hash, Ids, p)
           n5 == Count(ext, Ids, p)
           n6 == IF p \in app THEN 1 ELSE 0
<1>1. n1 \in Int /\ n2 \in Int /\ n3 \in Int /\ n4 \in Int /\ n5 \in Int /\ n6 \in Int
  BY CacheAssumption, CountNat
<1>2. refs[p] = n1 + n2 + n3 + n4 + n5 + n6
  BY Zenon DEF IInv, RefsExact, Owners
<1>3. Owners(p)' = (n1 + d1) + (n2 + d2) + (n3 + d3) + (n4 + d4) + (n5 + d5) + n6
  <2>1. Owners(p)' = Count(session', Conns, p) + Count(ret', Conns, p) + Count(rem', Conns, p)
                     + Count(hash', Ids, p) + Count(ext', Ids, p) + (IF p \in app' THEN 1 ELSE 0)
    BY Zenon DEF Owners, Count
  <2> QED
    BY <2>1, Zenon
<1> HIDE DEF n1, n2, n3, n4, n5, n6
<1>4. refs'[p] = refs[p] + d1 + d2 + d3 + d4 + d5
  BY Zenon
<1> QED
  BY ONLY <1>1, <1>2, <1>3, <1>4, d1 \in Int, d2 \in Int, d3 \in Int, d4 \in Int, d5 \in Int

Entries(h) == Cardinality({i \in Ids : h[i] # NULL})

(* The table has a finite number of entries. *)
LEMMA EntriesNat ==
    ASSUME NEW h
    PROVE  Entries(h) \in Nat /\ IsFiniteSet({i \in Ids : h[i] # NULL})
<1>1. IsFiniteSet(Ids) /\ {i \in Ids : h[i] # NULL} \subseteq Ids
  BY CacheAssumption, Zenon
<1>2. IsFiniteSet({i \in Ids : h[i] # NULL})
  BY <1>1, FS_Subset, Zenon
<1> QED
  BY <1>2, FS_CardinalityType, Zenon DEF Entries

(* Clearing entries does not add any. *)
LEMMA EntriesShrink ==
    ASSUME NEW h, NEW g, \A i \in Ids : g[i] \in {h[i], NULL}
    PROVE  Entries(g) <= Entries(h)
<1> DEFINE S == {i \in Ids : h[i] # NULL}
           T == {i \in Ids : g[i] # NULL}
<1>1. T \subseteq S
  BY Zenon
<1>2. IsFiniteSet(S)
  BY EntriesNat, Zenon
<1>3. Cardinality(T) <= Cardinality(S)
  BY <1>1, <1>2, FS_Subset, Zenon
<1> QED
  BY <1>3, Zenon DEF Entries

(* A step that adds no entry keeps the cache within its limit. *)
LEMMA BoundKept ==
    ASSUME IInv, Entries(hash') <= Entries(hash)
    PROVE  CacheBounded'
<1>1. Entries(hash) \in Nat /\ Entries(hash') \in Nat /\ CacheSize \in Nat
  BY CacheAssumption, EntriesNat, Zenon
<1>2. CacheSize > 0 => Entries(hash) <= CacheSize
  BY Zenon DEF IInv, CacheBounded, Entries
<1>3. CacheSize > 0 => Entries(hash') <= CacheSize
  BY <1>1, <1>2
<1> QED
  BY <1>3, Zenon DEF CacheBounded, Entries

(* A count that does not change, as a sum. *)
LEMMA SameCount ==
    ASSUME NEW f, NEW D, IsFiniteSet(D), NEW p
    PROVE  Count(f, D, p) = Count(f, D, p) + 0
BY CountNat

(* A session that is cached is in the table under its id, and only there. *)
LEMMA CachedAt ==
    ASSUME IInv, NEW o \in Sessions, Cached(o)
    PROVE  /\ sess[o].id \in Ids /\ hash[sess[o].id] = o
           /\ \A j \in Ids : hash[j] = o => j = sess[o].id
<1>1. sess[o].id \in Ids \cup {NULL} /\ NULL \notin Sessions
  BY CacheAssumption, Zenon DEF IInv, Typed
<1>2. sess[o].id \in Ids /\ hash[sess[o].id] = o
  BY <1>1, Zenon DEF Cached, Retrieve
<1> QED
  BY <1>1, <1>2, Zenon DEF IInv, IdInv

(* not_resumable is no part of what the invariant says. *)
LEMMA DiscardedKeeps ==
    ASSUME IInv, NEW o \in Sessions
    PROVE  /\ Discarded(o) \in [Sessions -> Rec]
           /\ \A p \in Sessions : Discarded(o)[p].id = sess[p].id
<1>1. sess \in [Sessions -> Rec]
  BY Zenon DEF IInv, Typed, Rec
<1> DEFINE t == Discarded(o)
<1>2. t = [sess EXCEPT ![o].not_resumable = TRUE]
  BY Zenon DEF Discarded
<1> HIDE DEF t
<1>3. t \in [Sessions -> Rec]
  BY <1>1, <1>2, Zenon DEF Rec
<1>4. \A p \in Sessions : t[p].id = sess[p].id
  BY <1>1, <1>2, Zenon DEF Rec
<1> QED
  BY <1>3, <1>4, Zenon DEF t


----------------------------------------------------------------------------
(* Lookups and the handshake.                                              *)

(* The lookup in the internal cache keeps the invariant. *)
LEMMA LookupCached ==
    ASSUME IInv, NEW c \in Conns, NEW i \in Ids, GetPrevCached(c, i)
    PROVE  IInv'
<1>1. CASE Retrieve(i) # NULL
  <2>1. Retrieve(i) = hash[i] /\ hash[i] \in Sessions
    BY <1>1, Zenon DEF Retrieve, IInv, Typed
  <2>2. /\ refs' = SSL_SESSION_up_ref(refs, hash[i]) /\ ret' = [ret EXCEPT ![c] = hash[i]]
        /\ pc' = [pc EXCEPT ![c] = "found"]
        /\ UNCHANGED <<sess, hash, list, lock, ext, app, session, hit, sid, rem>>
    BY <1>1, <2>1, Zenon DEF GetPrevCached, Goto
  <2>3. pc[c] \in {"before", "ok"}
    BY Zenon DEF GetPrevCached, Starting
  <2>4. Place(c) /\ NULL \notin Sessions
    BY CacheAssumption, Zenon DEF IInv, PlaceInv
  <2>5. refs' \in [Sessions -> Int] /\ \A o \in Sessions : refs'[o] = refs[o] + At(hash[i], o)
    BY <2>1, <2>2, UpRef, Zenon DEF IInv, Typed
  <2>6. ret[c] = NULL /\ ret'[c] = hash[i] /\ session'[c] = session[c] /\ rem[c] = NULL
    BY <2>2, <2>3, <2>4, Zenon DEF IInv, Typed, Place, RetPlaces, RemPlaces
  <2>7. Typed'
    BY <2>1, <2>2, <2>5, Zenon DEF IInv, Typed, Places
  <2>8. \A d \in Conns \ {c} : SameAt(d)
    BY <2>2, Zenon DEF SameAt, IInv, Typed
  <2>9. Place(c)'
    BY <2>1, <2>2, <2>3, <2>4, <2>6, Zenon DEF IInv, Typed, Place, RetPlaces, RemPlaces, Bare
  <2>10. Steady
    BY <2>2, Zenon DEF Steady
  <2>11. ASSUME NEW o \in Sessions
         PROVE  refs'[o] = refs[o] + At(session'[c], o) + At(ret'[c], o) - At(session[c], o) - At(ret[c], o)
    BY <2>4, <2>5, <2>6 DEF At, IInv, Typed
  <2> QED
    BY <2>2, <2>7, <2>8, <2>9, <2>10, <2>11, Reown, Zenon
<1>2. CASE Retrieve(i) = NULL
  <2>1. /\ sid' = [sid EXCEPT ![c] = i] /\ pc' = [pc EXCEPT ![c] = "missed"]
        /\ UNCHANGED <<refs, sess, hash, list, lock, ext, app, session, hit, ret, rem>>
    BY <1>2, Zenon DEF GetPrevCached, Goto
  <2>2. pc[c] \in {"before", "ok"} /\ NULL \notin Ids
    BY CacheAssumption, Zenon DEF GetPrevCached, Starting
  <2>3. Typed'
    BY <2>1, Zenon DEF IInv, Typed, Places
  <2>4. \A d \in Conns \ {c} : SameAt(d)
    BY <2>1, Zenon DEF SameAt, IInv, Typed
  <2>5. Place(c)'
    BY <2>1, <2>2, Zenon DEF IInv, PlaceInv, Typed, Place, RetPlaces, RemPlaces, Bare
  <2> QED
    BY <2>1, <2>3, <2>4, <2>5, MoveStep, Zenon
<1> QED
  BY <1>1, <1>2, Zenon

(* A session out of a ticket keeps the invariant. *)
LEMMA LookupTicket ==
    ASSUME IInv, NEW c \in Conns, NEW i \in Ids \cup {NULL}, NEW o \in Sessions,
           GetPrevTicket(c, i, o)
    PROVE  IInv'
<1>1. pc[c] \in {"before", "ok"} /\ refs[o] = 0
  BY Zenon DEF GetPrevTicket, Starting
<1>2. /\ refs' = [refs EXCEPT ![o] = 1] /\ ret' = [ret EXCEPT ![c] = o]
      /\ sess' = [sess EXCEPT ![o] = [Blank EXCEPT !.id = i]]
      /\ pc' = [pc EXCEPT ![c] = "ticketed"]
      /\ UNCHANGED <<hash, list, lock, ext, app, session, hit, sid, rem>>
  BY Zenon DEF GetPrevTicket, Goto
<1>3. refs' \in [Sessions -> Int] /\ \A p \in Sessions : refs'[p] = refs[p] + At(o, p)
  BY <1>1, <1>2, AtPlace, NewRef
<1>4. sess' \in [Sessions -> Rec] /\ Steady
  BY <1>1, <1>2, AtPlace, RecOfId, Zenon DEF Steady
<1>5. ret[c] = NULL
  BY <1>1, AtPlace, Zenon DEF RetPlaces
<1>6. \A p \in Sessions :
          refs'[p] = refs[p] + At(session[c], p) + At(o, p) - At(session[c], p) - At(ret[c], p)
  BY <1>3, <1>5, AtPlace DEF At
<1>7. Assigned(c, "ticketed", session[c], o)
  BY <1>1, <1>2, <1>3, <1>4, <1>6, AtPlace, Zenon DEF Assigned, RemPlaces, RetPlaces, Bare, Places
<1> QED
  BY <1>4, <1>7, Reassign, Zenon

(* get_session_cb keeps the invariant. *)
LEMMA LookupExternal ==
    ASSUME IInv, NEW c \in Conns, get_session_cb(c)
    PROVE  IInv'
<1>1. pc[c] = "missed" /\ sid[c] \in Ids /\ ret[c] = NULL
  BY Zenon DEF get_session_cb, IInv, PlaceInv, Place, RetPlaces, Typed
<1>2. /\ sid' = [sid EXCEPT ![c] = NULL]
      /\ UNCHANGED <<sess, hash, list, lock, ext, app, session, hit, rem>>
  BY Zenon DEF get_session_cb
<1>3. Steady
  BY <1>2, Zenon DEF Steady
<1>4. CASE ext[sid[c]] # NULL
  <2> DEFINE o == ext[sid[c]]
  <2>1. o \in Sessions /\ sess[o].id = sid[c]
    BY <1>1, <1>4, Zenon DEF IInv, Typed, IdInv
  <2>2. /\ refs' = SSL_SESSION_up_ref(refs, o) /\ ret' = [ret EXCEPT ![c] = o]
        /\ pc' = [pc EXCEPT ![c] = "store"]
    BY <1>4, Zenon DEF get_session_cb, Goto
  <2> HIDE DEF o
  <2>3. refs' \in [Sessions -> Int] /\ \A p \in Sessions : refs'[p] = refs[p] + At(o, p)
    BY <2>1, <2>2, AtPlace, UpRef
  <2>4. \A p \in Sessions :
            refs'[p] = refs[p] + At(session[c], p) + At(o, p) - At(session[c], p) - At(ret[c], p)
    BY <1>1, <2>3, AtPlace DEF At
  <2>5. Assigned(c, "store", session[c], o)
    BY <1>1, <1>2, <2>1, <2>2, <2>3, <2>4, AtPlace, Zenon
       DEF Assigned, RemPlaces, RetPlaces, Bare, Places
  <2>6. sess'[o].id # NULL
    BY <1>1, <1>2, <2>1, AtPlace, Zenon
  <2> QED
    BY <1>3, <2>5, <2>6, Reassign, Zenon
<1>5. CASE ext[sid[c]] = NULL
  <2>1. pc' = [pc EXCEPT ![c] = "new"] /\ UNCHANGED <<ret, refs>>
    BY <1>5, Zenon DEF get_session_cb, Goto
  <2>2. \A p \in Sessions :
            refs'[p] = refs[p] + At(session[c], p) + At(NULL, p) - At(session[c], p) - At(ret[c], p)
    BY <1>1, <2>1, AtPlace DEF At
  <2>3. Assigned(c, "new", session[c], NULL)
    BY <1>1, <1>2, <2>1, <2>2, AtPlace, Zenon DEF Assigned, RemPlaces, RetPlaces, Bare, Places
  <2> QED
    BY <1>3, <2>3, Reassign, Zenon
<1> QED
  BY <1>4, <1>5, Zenon

(* Refusing the session found keeps the invariant. *)
LEMMA LookupRefused ==
    ASSUME IInv, NEW c \in Conns, GetPrevRefused(c)
    PROVE  IInv'
<1>1. pc[c] \in {"found", "ticketed"} /\ ret[c] \in Sessions
  BY AtPlace, Zenon DEF GetPrevRefused, RetPlaces
<1>2. PICK q \in {"new", "failed"} : Goto(c, q)
  BY Zenon DEF GetPrevRefused
<1>3. /\ refs' = SSL_SESSION_free(refs, ret[c]) /\ sess' = Wiped(sess)
      /\ ret' = [ret EXCEPT ![c] = NULL]
      /\ UNCHANGED <<hash, list, lock, ext, app, session, hit, sid, rem>>
  BY Zenon DEF GetPrevRefused
<1>4. refs' \in [Sessions -> Int] /\ \A p \in Sessions : refs'[p] = refs[p] - At(ret[c], p)
  BY <1>1, <1>3, AtPlace, FreeRef
<1>5. sess' \in [Sessions -> Rec] /\ Steady
  BY <1>3, AtPlace, SteadyWiped, Zenon
<1>6. \A p \in Sessions :
          refs'[p] = refs[p] + At(session[c], p) + At(NULL, p) - At(session[c], p) - At(ret[c], p)
  BY <1>4, AtPlace DEF At
<1>7. Assigned(c, q, session[c], NULL)
  BY <1>1, <1>2, <1>3, <1>4, <1>5, <1>6, AtPlace, Zenon
     DEF Assigned, RemPlaces, RetPlaces, Bare, Places, Goto
<1> QED
  BY <1>2, <1>5, <1>7, Reassign, Zenon

(* Taking the session found keeps the invariant. *)
LEMMA Resumes ==
    ASSUME IInv, NEW c \in Conns, Resume(c)
    PROVE  IInv'
<1>1. pc[c] \in {"found", "ticketed"} /\ ret[c] \in Sessions
  BY AtPlace, Zenon DEF Resume, RetPlaces
<1>2. PICK q \in {"new", "handshake"} : Goto(c, q)
  BY Zenon DEF Resume
<1>3. /\ refs' = SSL_SESSION_free(refs, session[c]) /\ sess' = Wiped(sess)
      /\ session' = [session EXCEPT ![c] = ret[c]] /\ ret' = [ret EXCEPT ![c] = NULL]
      /\ UNCHANGED <<hash, list, lock, ext, app, sid, rem>>
  BY Zenon DEF Resume
<1>4. hit' \in [Conns -> BOOLEAN]
  BY AtPlace, Zenon DEF Resume
<1>5. refs' \in [Sessions -> Int] /\ \A p \in Sessions : refs'[p] = refs[p] - At(session[c], p)
  BY <1>3, AtPlace, FreeRef
<1>6. sess' \in [Sessions -> Rec] /\ Steady
  BY <1>3, AtPlace, SteadyWiped, Zenon
<1>7. \A p \in Sessions :
          refs'[p] = refs[p] + At(ret[c], p) + At(NULL, p) - At(session[c], p) - At(ret[c], p)
  BY <1>5, AtPlace DEF At
<1>8. Assigned(c, q, ret[c], NULL)
  BY <1>1, <1>2, <1>3, <1>4, <1>5, <1>6, <1>7, AtPlace, Zenon
     DEF Assigned, RemPlaces, RetPlaces, Bare, Places, Goto, Handshaking
<1> QED
  BY <1>2, <1>6, <1>8, Reassign, Zenon

(* A new session in place of the old one: NewSession, FreshSession and     *)
(* ssl_session_dup.                                                        *)
LEMMA Replaces ==
    ASSUME IInv, NEW c \in Conns, NEW o \in Sessions, NEW n \in Rec, NEW q \in Handshaking,
           refs[o] = 0, pc[c] \notin RemPlaces \cup RetPlaces,
           refs' = SSL_SESSION_free([refs EXCEPT ![o] = 1], session[c]),
           sess' = Wiped([sess EXCEPT ![o] = n]),
           session' = [session EXCEPT ![c] = o], pc' = [pc EXCEPT ![c] = q],
           hit' \in [Conns -> BOOLEAN],
           UNCHANGED <<hash, list, lock, ext, app, sid, ret, rem>>
    PROVE  IInv'
<1> DEFINE r == [refs EXCEPT ![o] = 1]
           s == [sess EXCEPT ![o] = n]
<1>1. r \in [Sessions -> Int] /\ \A p \in Sessions : r[p] = refs[p] + At(o, p)
  BY AtPlace, NewRef
<1>2. s \in [Sessions -> Rec] /\ \A p \in Sessions : refs[p] # 0 => s[p].id = sess[p].id
  BY AtPlace, Zenon
<1> HIDE DEF r, s
<1>3. refs' \in [Sessions -> Int] /\ \A p \in Sessions : refs'[p] = r[p] - At(session[c], p)
  <2>1. refs' = SSL_SESSION_free(r, session[c])
    BY Zenon DEF r
  <2>2. session[c] \in Sessions \cup {NULL}
    BY AtPlace, Zenon
  <2> QED
    BY ONLY <1>1, <2>1, <2>2, FreeRef, Zenon
<1>4. sess' \in [Sessions -> Rec] /\ Steady
  <2>1. sess' = Wiped(s)
    BY Zenon DEF s
  <2> QED
    BY <1>2, <2>1, SteadyWiped, Zenon
<1>5. \A p \in Sessions :
          refs'[p] = refs[p] + At(o, p) + At(NULL, p) - At(session[c], p) - At(ret[c], p)
  <2>1. refs \in [Sessions -> Int] /\ ret[c] = NULL /\ \A p \in Sessions : At(NULL, p) = 0
    BY AtPlace, Zenon
  <2> QED
    BY ONLY <1>1, <1>3, <2>1 DEF At
<1>6. Assigned(c, q, o, NULL)
  BY <1>3, <1>4, <1>5, AtPlace, Zenon DEF Assigned, RetPlaces, Places, Handshaking
<1> QED
  BY <1>4, <1>6, Reassign, Zenon DEF Handshaking

(* ssl_get_new_session keeps the invariant. *)
LEMMA NewSessions ==
    ASSUME IInv, NEW c \in Conns, NEW i \in Ids \cup {NULL}, NEW o \in Sessions,
           NewSession(c, i, o)
    PROVE  IInv'
<1>1. [Blank EXCEPT !.id = i] \in Rec
  BY RecOfId, Zenon
<1>2. pc[c] = "new" /\ "handshake" \in Handshaking
  BY Zenon DEF NewSession, Handshaking
<1>3. hit' \in [Conns -> BOOLEAN]
  BY AtPlace, Zenon DEF NewSession
<1> QED
  BY <1>1, <1>2, <1>3, Replaces, Zenon DEF NewSession, Goto, RemPlaces, RetPlaces

(* ssl_session_dup keeps the invariant. *)
LEMMA Duplicates ==
    ASSUME IInv, NEW c \in Conns, NEW t \in Ids, NEW o \in Sessions, ssl_session_dup(c, t, o)
    PROVE  IInv'
<1>1. pc[c] = "dup" /\ "handshake" \in Handshaking
  BY Zenon DEF ssl_session_dup, Handshaking
<1>2. session[c] \in Sessions
  BY <1>1, AtPlace, Zenon DEF Bare
<1>3. [sess[session[c]] EXCEPT !.id = t] \in Rec
  BY <1>2, AtPlace DEF Rec
<1>4. hit' \in [Conns -> BOOLEAN]
  BY AtPlace, Zenon DEF ssl_session_dup
<1> QED
  BY <1>1, <1>3, <1>4, Replaces, Zenon DEF ssl_session_dup, Goto, RemPlaces, RetPlaces

(* The session of c is given up, with nothing in its place. *)
LEMMA GivesUp ==
    ASSUME IInv, NEW c \in Conns, NEW q \in {"failed", "before"},
           pc[c] \notin RemPlaces \cup RetPlaces,
           refs' = SSL_SESSION_free(refs, session[c]), sess' = Wiped(sess),
           session' = [session EXCEPT ![c] = NULL], pc' = [pc EXCEPT ![c] = q],
           hit' \in [Conns -> BOOLEAN],
           UNCHANGED <<hash, list, lock, ext, app, sid, ret, rem>>
    PROVE  IInv'
<1>1. refs' \in [Sessions -> Int] /\ \A p \in Sessions : refs'[p] = refs[p] - At(session[c], p)
  BY AtPlace, FreeRef
<1>2. sess' \in [Sessions -> Rec] /\ Steady
  BY AtPlace, SteadyWiped, Zenon
<1>3. \A p \in Sessions :
          refs'[p] = refs[p] + At(NULL, p) + At(NULL, p) - At(session[c], p) - At(ret[c], p)
  <2>1. refs \in [Sessions -> Int] /\ ret[c] = NULL /\ \A p \in Sessions : At(NULL, p) = 0
    BY AtPlace, Zenon
  <2> QED
    BY ONLY <1>1, <2>1 DEF At
<1>4. Assigned(c, q, NULL, NULL)
  BY <1>1, <1>2, <1>3, AtPlace, Zenon DEF Assigned, RetPlaces, Places, Bare
<1> QED
  BY <1>2, <1>4, Reassign, Zenon

(* A failing ssl_get_new_session keeps the invariant. *)
LEMMA NewSessionsFail ==
    ASSUME IInv, NEW c \in Conns, NewSessionFails(c)
    PROVE  IInv'
<1>1. hit' \in [Conns -> BOOLEAN]
  BY AtPlace, Zenon DEF NewSessionFails
<1> QED
  BY <1>1, GivesUp, Zenon DEF NewSessionFails, Goto, RemPlaces, RetPlaces

(* SSL_set_session keeps the invariant. *)
LEMMA Sets ==
    ASSUME IInv, NEW c \in Conns, NEW o \in Sessions, SSL_set_session(c, o)
    PROVE  IInv'
<1> DEFINE r == SSL_SESSION_up_ref(refs, o)
<1>1. r \in [Sessions -> Int] /\ \A p \in Sessions : r[p] = refs[p] + At(o, p)
  BY AtPlace, UpRef
<1>2. refs' = SSL_SESSION_free(r, session[c]) /\ session[c] \in Sessions \cup {NULL}
  BY AtPlace, Zenon DEF SSL_set_session
<1>3. /\ pc[c] = "before" /\ sess' = Wiped(sess) /\ session' = [session EXCEPT ![c] = o]
      /\ UNCHANGED <<hash, list, lock, ext, app, pc, hit, sid, ret, rem>>
  BY Zenon DEF SSL_set_session
<1> HIDE DEF r
<1>4. refs' \in [Sessions -> Int] /\ \A p \in Sessions : refs'[p] = r[p] - At(session[c], p)
  BY ONLY <1>1, <1>2, FreeRef, Zenon
<1>5. sess' \in [Sessions -> Rec] /\ Steady
  BY <1>3, AtPlace, SteadyWiped, Zenon
<1>6. refs \in [Sessions -> Int] /\ ret[c] = NULL /\ \A p \in Sessions : At(NULL, p) = 0
  BY <1>3, AtPlace, Zenon DEF RetPlaces
<1>7. \A p \in Sessions :
          refs'[p] = refs[p] + At(o, p) + At(NULL, p) - At(session[c], p) - At(ret[c], p)
  BY ONLY <1>1, <1>4, <1>6 DEF At
<1>8. pc' = [pc EXCEPT ![c] = "before"]
  BY <1>3, Zenon DEF IInv, Typed
<1>9. Assigned(c, "before", o, NULL)
  BY <1>3, <1>4, <1>5, <1>6, <1>7, <1>8, AtPlace, Zenon DEF Assigned, RetPlaces, RemPlaces, Places, Bare
<1> QED
  BY <1>5, <1>9, Reassign, Zenon

(* c keeps its session and goes on; the id of the session may be set. *)
LEMMA Keeps ==
    ASSUME IInv, NEW c \in Conns, NEW q, NEW s \in [Sessions -> Rec],
           q \in Handshaking \/ q \in {"flush", "before"},
           pc[c] \notin RemPlaces \cup RetPlaces, session[c] = NULL => q = "before",
           \A o \in Sessions : sess[o].id # NULL => s[o].id = sess[o].id,
           pc' = [pc EXCEPT ![c] = q], sess' = s, hit' \in [Conns -> BOOLEAN],
           UNCHANGED <<refs, hash, list, lock, ext, app, session, sid, ret, rem>>
    PROVE  IInv'
<1>1. Steady
  BY Zenon DEF Steady
<1>2. \A p \in Sessions :
          refs'[p] = refs[p] + At(session[c], p) + At(NULL, p) - At(session[c], p) - At(ret[c], p)
  <2>1. refs \in [Sessions -> Int] /\ ret[c] = NULL /\ \A p \in Sessions : At(NULL, p) = 0
    BY AtPlace, Zenon
  <2> QED
    BY <2>1 DEF At
<1>3. Assigned(c, q, session[c], NULL)
  BY <1>2, AtPlace, Zenon DEF Assigned, RetPlaces, Places, Bare, Handshaking
<1> QED
  BY <1>1, <1>3, Reassign, Zenon DEF Handshaking

(* ssl3_client_hello keeps the invariant. *)
LEMMA ClientHellos ==
    ASSUME IInv, NEW c \in Conns, NEW o \in Sessions, ssl3_client_hello(c, o)
    PROVE  IInv'
<1>1. /\ pc[c] \in {"before", "ok"} /\ pc' = [pc EXCEPT ![c] = "sent"]
      /\ UNCHANGED <<hash, list, lock, ext, app, hit, sid, ret, rem>>
  BY Zenon DEF ssl3_client_hello, Starting, Goto
<1>2. "sent" \in Handshaking /\ pc[c] \notin RemPlaces \cup RetPlaces
  BY <1>1, Zenon DEF Handshaking, RemPlaces, RetPlaces
<1>3. hit' \in [Conns -> BOOLEAN]
  BY <1>1, AtPlace, Zenon
<1>4. CASE FreshSession(c, o, NULL)
  <2>1. [Blank EXCEPT !.id = NULL] \in Rec
    BY RecOfId, Zenon
  <2> QED
    BY <1>1, <1>2, <1>3, <1>4, <2>1, Replaces, Zenon DEF FreshSession
<1>5. CASE session[c] # NULL /\ UNCHANGED <<refs, sess, session>>
  BY <1>1, <1>2, <1>3, <1>5, AtPlace, Keeps, Zenon
<1> QED
  BY <1>4, <1>5, Zenon DEF ssl3_client_hello

(* ssl3_get_server_hello keeps the invariant. *)
LEMMA ServerHellos ==
    ASSUME IInv, NEW c \in Conns, NEW j \in Ids \cup {NULL}, NEW o \in Sessions,
           ssl3_get_server_hello(c, j, o)
    PROVE  IInv'
<1>1. /\ pc[c] = "sent" /\ pc' = [pc EXCEPT ![c] = "client"]
      /\ UNCHANGED <<hash, list, lock, ext, app, sid, ret, rem>>
  BY Zenon DEF ssl3_get_server_hello, Goto
<1>2. "client" \in Handshaking /\ pc[c] \notin RemPlaces \cup RetPlaces /\ session[c] \in Sessions
  BY <1>1, AtPlace, Zenon DEF Handshaking, RemPlaces, RetPlaces, Bare
<1>3. hit' \in [Conns -> BOOLEAN]
  BY AtPlace, Zenon DEF ssl3_get_server_hello
<1>4. CASE FreshSession(c, o, j)
  <2>1. [Blank EXCEPT !.id = j] \in Rec
    BY RecOfId, Zenon
  <2> QED
    BY <1>1, <1>2, <1>3, <1>4, <2>1, Replaces, Zenon DEF FreshSession
<1>5. CASE UNCHANGED <<refs, sess, session>>
  BY <1>1, <1>2, <1>3, <1>5, AtPlace, Keeps, Zenon
<1>6. CASE /\ sess[session[c]].id = NULL /\ sess' = [sess EXCEPT ![session[c]].id = j]
           /\ UNCHANGED <<refs, session>>
  <2>1. /\ sess' \in [Sessions -> Rec]
        /\ \A p \in Sessions : sess[p].id # NULL => sess'[p].id = sess[p].id
    BY <1>2, <1>6, AtPlace DEF Rec
  <2> QED
    BY <1>1, <1>2, <1>3, <1>6, <2>1, AtPlace, Keeps, Zenon
<1> QED
  BY <1>4, <1>5, <1>6, Zenon DEF ssl3_get_server_hello

(* A ticket for a session without an id keeps the invariant. *)
LEMMA NewTickets ==
    ASSUME IInv, NEW c \in Conns, NEW t \in Ids, NewTicket(c, t)
    PROVE  IInv'
<1>1. /\ pc[c] = "client" /\ pc' = [pc EXCEPT ![c] = "handshake"]
      /\ sess[session[c]].id = NULL /\ sess' = [sess EXCEPT ![session[c]].id = t]
      /\ UNCHANGED <<refs, hash, list, lock, ext, app, session, hit, sid, ret, rem>>
  BY Zenon DEF NewTicket, Goto
<1>2. "handshake" \in Handshaking /\ pc[c] \notin RemPlaces \cup RetPlaces /\ session[c] \in Sessions
  BY <1>1, AtPlace, Zenon DEF Handshaking, RemPlaces, RetPlaces, Bare
<1>3. /\ sess' \in [Sessions -> Rec] /\ hit' \in [Conns -> BOOLEAN]
      /\ \A p \in Sessions : sess[p].id # NULL => sess'[p].id = sess[p].id
  BY <1>1, <1>2, AtPlace DEF Rec
<1> QED
  BY <1>1, <1>2, <1>3, AtPlace, Keeps, Zenon

----------------------------------------------------------------------------
(* Steps on the application's references.                                  *)

(* No connection and no table changes. *)
LEMMA AppStep ==
    ASSUME IInv, Steady, refs' \in [Sessions -> Int], sess' \in [Sessions -> Rec], app' \subseteq Sessions,
           UNCHANGED <<hash, list, lock, ext, pc, session, hit, sid, ret, rem>>,
           \A o \in Sessions : refs'[o] - refs[o] = (IF o \in app' THEN 1 ELSE 0)
                                                    - (IF o \in app THEN 1 ELSE 0)
    PROVE  IInv'
<1>1. Typed'
  BY Zenon DEF IInv, Typed, Rec
<1>2. ASSUME NEW o \in Sessions PROVE refs'[o] = Owners(o)'
  <2> DEFINE n == Count(session, Conns, o) + Count(ret, Conns, o) + Count(rem, Conns, o)
                  + Count(hash, Ids, o) + Count(ext, Ids, o)
  <2>1. n \in Int
    BY CacheAssumption, CountNat
  <2>2. refs[o] = n + (IF o \in app THEN 1 ELSE 0)
    BY Zenon DEF IInv, RefsExact, Owners
  <2>3. Owners(o)' = n + (IF o \in app' THEN 1 ELSE 0)
    BY Zenon DEF Owners, Count
  <2> HIDE DEF n
  <2>4. refs'[o] \in Int /\ refs[o] \in Int
    BY Zenon DEF IInv, Typed
  <2>5. refs'[o] - refs[o] = (IF o \in app' THEN 1 ELSE 0) - (IF o \in app THEN 1 ELSE 0)
    BY Zenon
  <2> QED
    BY ONLY <2>1, <2>2, <2>3, <2>4, <2>5
<1>3. RefsExact'
  BY <1>2, Zenon DEF RefsExact
<1>4. Lists(list, hash)' /\ CacheBounded'
  BY Zenon DEF IInv, CacheBounded, Lists, Injective, InList
<1>5. \A c \in Conns : SameAt(c)
  BY Zenon DEF SameAt
<1> QED
  BY <1>1, <1>3, <1>4, <1>5, Step, Zenon

(* SSL_get1_session keeps the invariant. *)
LEMMA Gets1 ==
    ASSUME IInv, NEW c \in Conns, SSL_get1_session(c)
    PROVE  IInv'
<1>1. /\ pc[c] = "ok" /\ session[c] \notin app /\ app' = app \cup {session[c]}
      /\ refs' = SSL_SESSION_up_ref(refs, session[c])
      /\ UNCHANGED <<sess, hash, list, lock, ext, pc, session, hit, sid, ret, rem>>
  BY Zenon DEF SSL_get1_session
<1>2. session[c] \in Sessions
  BY <1>1, AtPlace, Zenon DEF Bare
<1>3. refs' \in [Sessions -> Int] /\ \A p \in Sessions : refs'[p] = refs[p] + At(session[c], p)
  BY <1>1, <1>2, AtPlace, UpRef
<1>4. refs \in [Sessions -> Int] /\ sess' \in [Sessions -> Rec] /\ Steady
  BY <1>1, AtPlace, Zenon DEF Steady
<1>5. app' \subseteq Sessions
  BY <1>1, <1>2, Zenon DEF IInv, Typed
<1>6. \A o \in Sessions : refs'[o] - refs[o] = (IF o \in app' THEN 1 ELSE 0)
                                               - (IF o \in app THEN 1 ELSE 0)
  BY <1>1, <1>3, <1>4 DEF At
<1> QED
  BY <1>1, <1>3, <1>4, <1>5, <1>6, AppStep, Zenon

(* SSL_SESSION_free by the application keeps the invariant. *)
LEMMA Forgets ==
    ASSUME IInv, NEW o \in Sessions, Forget(o)
    PROVE  IInv'
<1>1. /\ o \in app /\ app' = app \ {o}
      /\ refs' = SSL_SESSION_free(refs, o) /\ sess' = Wiped(sess)
      /\ UNCHANGED <<hash, list, lock, ext, pc, session, hit, sid, ret, rem>>
  BY Zenon DEF Forget
<1>2. refs \in [Sessions -> Int] /\ sess \in [Sessions -> Rec] /\ app \subseteq Sessions
  BY Zenon DEF IInv, Typed, Rec
<1>3. refs' \in [Sessions -> Int] /\ \A p \in Sessions : refs'[p] = refs[p] - At(o, p)
  BY <1>1, <1>2, FreeRef, Zenon
<1>4. sess' \in [Sessions -> Rec] /\ Steady
  BY <1>1, <1>2, SteadyWiped, Zenon
<1>5. \A p \in Sessions : refs'[p] - refs[p] = (IF p \in app' THEN 1 ELSE 0)
                                               - (IF p \in app THEN 1 ELSE 0)
  BY <1>1, <1>2, <1>3 DEF At
<1> QED
  BY <1>1, <1>2, <1>3, <1>4, <1>5, AppStep, Zenon

(* Time passing keeps the invariant. *)
LEMMA Expires ==
    ASSUME IInv, NEW o \in Sessions, Expire(o)
    PROVE  IInv'
<1>1. /\ sess' = [sess EXCEPT ![o].expired = TRUE]
      /\ UNCHANGED <<refs, hash, list, lock, ext, app, pc, session, hit, sid, ret, rem>>
  BY Zenon DEF Expire
<1>2. refs \in [Sessions -> Int] /\ sess \in [Sessions -> Rec] /\ app \subseteq Sessions
  BY Zenon DEF IInv, Typed, Rec
<1>3. sess' \in [Sessions -> Rec] /\ \A p \in Sessions : sess'[p].id = sess[p].id
  BY <1>1, <1>2, Zenon DEF Rec
<1> QED
  BY <1>1, <1>2, <1>3, AppStep DEF Steady

----------------------------------------------------------------------------
(* remove_session_lock.                                                    *)

(* The locked half of remove_session_lock keeps the invariant. *)
LEMMA Locks ==
    ASSUME IInv, NEW c \in Conns, NEW o \in Sessions \cup {NULL}, RemoveLocked(c, o),
           NEW q \in RemPlaces, pc[c] \notin RemPlaces \cup {"store"},
           q \in RetPlaces <=> pc[c] \in RetPlaces, session[c] = NULL => q \in Bare,
           pc' = [pc EXCEPT ![c] = q], hit' \in [Conns -> BOOLEAN],
           UNCHANGED <<lock, app, session, sid, ret>>
    PROVE  IInv'
<1>1. UNCHANGED <<refs, sess, ext>> /\ rem[c] = NULL
  BY Zenon DEF RemoveLocked, IInv, PlaceInv, Place
<1>2. q \in Places /\ q \notin {"missed", "newcb", "store"}
  BY Zenon DEF Places, RemPlaces
<1>3. CASE o # NULL /\ Cached(o)
  <2> DEFINE i == sess[o].id
  <2>1. /\ hash' = [hash EXCEPT ![i] = NULL] /\ list' = SSL_SESSION_list_remove(list, o)
        /\ rem' = [rem EXCEPT ![c] = o]
    BY <1>3, Zenon DEF RemoveLocked
  <2>2. o \in Sessions /\ NULL \notin Sessions
    BY <1>3, CacheAssumption, Zenon
  <2>3. i \in Ids /\ hash[i] = o /\ \A j \in Ids : hash[j] = o => j = i
    BY <1>3, <2>2, CachedAt, Zenon
  <2> HIDE DEF i
  <2>4. list' \in Seq(Sessions) /\ Lists(list, hash)'
    <3>1. list \in Seq(Sessions) /\ hash \in [Ids -> Sessions \cup {NULL}] /\ Lists(list, hash)
      BY Zenon DEF IInv, Typed
    <3>2. LET r == SSL_SESSION_list_remove(list, hash[i])
          IN  r \in Seq(Sessions) /\ Lists(r, [hash EXCEPT ![i] = NULL])
      BY ONLY <1>3, <2>3, <3>1, ListsDrop, Zenon
    <3>3. list' \in Seq(Sessions) /\ Lists(list', hash')
      BY <2>1, <2>3, <3>2, Zenon
    <3> QED
      BY <3>3, Zenon DEF Lists, Injective, InList
  <2>5. /\ hash' \in [Ids -> Sessions \cup {NULL}] /\ hash'[i] = NULL
        /\ \A j \in Ids \ {i} : hash'[j] = hash[j]
        /\ rem' \in [Conns -> Sessions \cup {NULL}] /\ rem'[c] = o
        /\ \A d \in Conns \ {c} : rem'[d] = rem[d]
    BY <2>1, <2>2, <2>3, Zenon DEF IInv, Typed
  <2>6. Typed'
    BY <1>1, <1>2, <2>4, <2>5, Zenon DEF IInv, Typed
  <2>7. ASSUME NEW p \in Sessions PROVE refs'[p] = Owners(p)'
    <3>1. IsFiniteSet(Conns) /\ IsFiniteSet(Ids)
      BY CacheAssumption, Zenon
    <3>2. Count(hash', Ids, p) = Count(hash, Ids, p) + At(NULL, p) - At(o, p)
      <4>1. Count(hash', Ids, p) = Count(hash, Ids, p) + At(hash'[i], p) - At(hash[i], p)
        BY ONLY <2>3, <2>5, <3>1, CountMove
      <4> QED
        BY ONLY <2>3, <2>5, <4>1, Zenon
    <3>3. Count(rem', Conns, p) = Count(rem, Conns, p) + At(o, p) - At(NULL, p)
      <4>1. Count(rem', Conns, p) = Count(rem, Conns, p) + At(rem'[c], p) - At(rem[c], p)
        <5>1. c \in Conns /\ IsFiniteSet(Conns) /\ \A d \in Conns \ {c} : rem'[d] = rem[d]
          BY <2>5, <3>1, Zenon
        <5> QED
          BY ONLY <5>1, CountMove
      <4> QED
        BY ONLY <1>1, <2>5, <4>1, Zenon
    <3>4. Count(hash, Ids, p) \in Nat /\ Count(rem, Conns, p) \in Nat /\ refs[p] \in Int
      BY <3>1, CountNat, Zenon DEF IInv, Typed
    <3>5. At(NULL, p) = 0 /\ At(o, p) \in Int
      BY <2>2 DEF At
    <3>6. /\ Count(hash', Ids, p) = Count(hash, Ids, p) + (0 - At(o, p))
          /\ Count(rem', Conns, p) = Count(rem, Conns, p) + At(o, p)
          /\ refs[p] = refs[p] + 0 + 0 + At(o, p) + (0 - At(o, p)) + 0
          /\ 0 - At(o, p) \in Int
      BY ONLY <3>2, <3>3, <3>4, <3>5
    <3>7. /\ Count(session', Conns, p) = Count(session, Conns, p) + 0
          /\ Count(ret', Conns, p) = Count(ret, Conns, p) + 0
          /\ Count(ext', Ids, p) = Count(ext, Ids, p) + 0
      BY <1>1, <3>1, SameCount, Zenon
    <3>8. refs'[p] = refs[p] + 0 + 0 + At(o, p) + (0 - At(o, p)) + 0 /\ app' = app
      BY <1>1, <3>6, Zenon
    <3>9. 0 \in Int
      OBVIOUS
    <3> HIDE DEF At
    <3> QED
      BY ONLY IInv, p \in Sessions, <3>5, <3>6, <3>7, <3>8, <3>9, Balance, Zenon
  <2>8. CacheBounded'
    BY <2>5, EntriesShrink, BoundKept, Zenon
  <2>9. \A d \in Conns \ {c} : SameAt(d)
    BY <2>5, Zenon DEF SameAt, IInv, Typed
  <2>10. Place(c)'
    BY <1>2, <2>2, <2>5, <2>6, Zenon DEF IInv, PlaceInv, Place, Typed
  <2>11. RefsExact' /\ Steady
    BY <1>1, <2>7, Zenon DEF RefsExact, Steady
  <2>12. \A j \in Ids : hash'[j] \in {hash[j], NULL}
    BY <2>5, Zenon
  <2> QED
    BY <1>1, <2>4, <2>6, <2>8, <2>9, <2>10, <2>11, <2>12, Step, Zenon
<1>4. CASE ~(o # NULL /\ Cached(o))
  <2>1. UNCHANGED <<hash, list, rem>>
    BY <1>4, Zenon DEF RemoveLocked
  <2>2. Typed'
    BY <1>1, <1>2, <2>1, Zenon DEF IInv, Typed
  <2>3. \A d \in Conns \ {c} : SameAt(d)
    BY <2>1, Zenon DEF SameAt, IInv, Typed
  <2>4. Place(c)'
    BY <1>1, <1>2, <2>1, Zenon DEF IInv, PlaceInv, Place, Typed
  <2> QED
    BY <1>1, <2>1, <2>2, <2>3, <2>4, MoveStep, Zenon
<1> QED
  BY <1>3, <1>4, Zenon

(* After the unlock: o is the other reference given up, with it session[c] *)
(* becomes x and ret[c] becomes y.                                         *)
Unlocking(c, o, q, x, y) ==
    /\ RemoveUnlocked(c, o) /\ o \in Sessions \cup {NULL}
    /\ q \in Places /\ x \in Sessions \cup {NULL} /\ y \in Sessions \cup {NULL}
    /\ pc' = [pc EXCEPT ![c] = q] /\ session' = [session EXCEPT ![c] = x]
    /\ ret' = [ret EXCEPT ![c] = y] /\ UNCHANGED <<lock, app, hit, sid>>
    /\ \A p \in Sessions : At(o, p) = At(session[c], p) + At(ret[c], p) - At(x, p) - At(y, p)
    /\ q \notin {"missed", "newcb", "store"}
    /\ y # NULL <=> q \in RetPlaces
    /\ x = NULL => q \in Bare

(* The unlocked half of remove_session_lock keeps the invariant. *)
LEMMA Unlocks ==
    ASSUME IInv, NEW c \in Conns, NEW o, NEW q, NEW x, NEW y, Unlocking(c, o, q, x, y)
    PROVE  IInv'
<1> USE DEF Unlocking
<1>1. /\ UNCHANGED <<hash, list>> /\ rem' = [rem EXCEPT ![c] = NULL]
  BY Zenon DEF RemoveUnlocked
<1>2. rem[c] \in Sessions \cup {NULL} /\ NULL \notin Sessions
  BY CacheAssumption, Zenon DEF IInv, Typed
<1>3. refs \in [Sessions -> Int] /\ sess \in [Sessions -> Rec]
  BY Zenon DEF IInv, Typed, Rec
<1> DEFINE e(p) == Count(ext, Ids, p) - Count(ext', Ids, p)
<1>4. /\ refs' \in [Sessions -> Int] /\ sess' \in [Sessions -> Rec] /\ Steady
      /\ ext' \in [Ids -> Sessions \cup {NULL}] /\ \A i \in Ids : ext'[i] \in {ext[i], NULL}
      /\ \A p \in Sessions : /\ e(p) \in Int /\ Count(ext', Ids, p) = Count(ext, Ids, p) - e(p)
                             /\ refs'[p] = refs[p] - e(p) - At(rem[c], p) - At(o, p)
  <2>1. CASE rem[c] # NULL
    <3> DEFINE r == Released(refs, rem[c])
    <3>1. rem[c] \in Sessions
      BY <1>2, <2>1, Zenon
    <3>2. /\ ext' = remove_session_cb(rem[c]) /\ refs' = SSL_SESSION_free(r, o)
          /\ sess' = Wiped(Discarded(rem[c]))
      BY <2>1, Zenon DEF RemoveUnlocked
    <3>3. /\ r \in [Sessions -> Int]
          /\ \A p \in Sessions : r[p] = refs[p] - At(ExtOwner(rem[c]), p) - At(rem[c], p)
      BY <1>3, <3>1, ReleasedRef, Zenon
    <3> HIDE DEF r
    <3>4. refs' \in [Sessions -> Int] /\ \A p \in Sessions : refs'[p] = r[p] - At(o, p)
      <4>1. refs' = SSL_SESSION_free(r, o) /\ o \in Sessions \cup {NULL}
        BY <3>2, Zenon
      <4> QED
        BY ONLY <3>3, <4>1, FreeRef, Zenon
    <3>5. sess' \in [Sessions -> Rec] /\ Steady
      BY <3>1, <3>2, DiscardedKeeps, SteadyWiped, Zenon
    <3>6. /\ ext' \in [Ids -> Sessions \cup {NULL}] /\ \A i \in Ids : ext'[i] \in {ext[i], NULL}
          /\ \A p \in Sessions :
                Count(ext', Ids, p) = Count(ext, Ids, p) - At(ExtOwner(rem[c]), p)
      BY <3>1, <3>2, RemoveCbCount, Zenon DEF IInv
    <3>7. ASSUME NEW p \in Sessions
          PROVE  /\ e(p) \in Int /\ Count(ext', Ids, p) = Count(ext, Ids, p) - e(p)
                 /\ refs'[p] = refs[p] - e(p) - At(rem[c], p) - At(o, p)
      <4>1. Count(ext, Ids, p) \in Nat /\ refs[p] \in Int
        BY <1>3, CacheAssumption, CountNat, Zenon
      <4>2. At(rem[c], p) \in Int /\ At(o, p) \in Int /\ At(ExtOwner(rem[c]), p) \in Int
        BY DEF At
      <4>3. /\ r[p] = refs[p] - At(ExtOwner(rem[c]), p) - At(rem[c], p)
            /\ refs'[p] = r[p] - At(o, p)
            /\ Count(ext', Ids, p) = Count(ext, Ids, p) - At(ExtOwner(rem[c]), p)
        BY <3>3, <3>4, <3>6, Zenon
      <4> QED
        BY ONLY <4>1, <4>2, <4>3
    <3> HIDE DEF e
    <3> QED
      BY <3>4, <3>5, <3>6, <3>7, Zenon
  <2>2. CASE rem[c] = NULL
    <3>1. refs' = SSL_SESSION_free(refs, o) /\ sess' = Wiped(sess) /\ ext' = ext
      BY <2>2, Zenon DEF RemoveUnlocked
    <3>2. refs' \in [Sessions -> Int] /\ \A p \in Sessions : refs'[p] = refs[p] - At(o, p)
      BY <1>3, <3>1, FreeRef, Zenon
    <3>3. sess' \in [Sessions -> Rec] /\ Steady
      BY <1>3, <3>1, SteadyWiped, Zenon
    <3>4. ASSUME NEW p \in Sessions
          PROVE  /\ e(p) \in Int /\ Count(ext', Ids, p) = Count(ext, Ids, p) - e(p)
                 /\ refs'[p] = refs[p] - e(p) - At(rem[c], p) - At(o, p)
      <4>1. Count(ext, Ids, p) \in Nat /\ refs[p] \in Int /\ At(o, p) \in Int
        BY <1>3, CacheAssumption, CountNat, SMTT(30) DEF At
      <4>2. At(rem[c], p) = 0 /\ refs'[p] = refs[p] - At(o, p) /\ ext' = ext
        BY <1>2, <2>2, <3>1, <3>2, Zenon DEF At
      <4> QED
        BY ONLY <4>1, <4>2, SMTT(30)
    <3>5. ext' \in [Ids -> Sessions \cup {NULL}] /\ \A i \in Ids : ext'[i] \in {ext[i], NULL}
      BY <3>1, Zenon DEF IInv, Typed
    <3> HIDE DEF e
    <3> QED
      BY <3>2, <3>3, <3>4, <3>5, Zenon
  <2> QED
    BY <2>1, <2>2, Zenon
<1> HIDE DEF e
<1>5. Typed'
  BY <1>1, <1>4, Zenon DEF IInv, Typed, Rec
<1>6. /\ session'[c] = x /\ ret'[c] = y /\ rem'[c] = NULL /\ pc'[c] = q
      /\ \A d \in Conns \ {c} : SameAt(d)
  BY <1>1, Zenon DEF SameAt, IInv, Typed
<1>7. Place(c)'
  BY <1>6, Zenon DEF Place
<1>8. ASSUME NEW p \in Sessions PROVE refs'[p] = Owners(p)'
  <2>1. /\ c \in Conns /\ IsFiniteSet(Conns) /\ IsFiniteSet(Ids)
        /\ \A d \in Conns \ {c} : session'[d] = session[d] /\ ret'[d] = ret[d] /\ rem'[d] = rem[d]
    BY <1>6, CacheAssumption, Zenon DEF SameAt
  <2>2. /\ Count(session', Conns, p) = Count(session, Conns, p) + At(session'[c], p) - At(session[c], p)
        /\ Count(ret', Conns, p) = Count(ret, Conns, p) + At(ret'[c], p) - At(ret[c], p)
        /\ Count(rem', Conns, p) = Count(rem, Conns, p) + At(rem'[c], p) - At(rem[c], p)
    <3>1. Count(session', Conns, p) = Count(session, Conns, p) + At(session'[c], p) - At(session[c], p)
      <4>1. c \in Conns /\ IsFiniteSet(Conns) /\ \A d \in Conns \ {c} : session'[d] = session[d]
        BY ONLY <2>1, Zenon
      <4> QED
        BY ONLY <4>1, CountMove
    <3>2. Count(ret', Conns, p) = Count(ret, Conns, p) + At(ret'[c], p) - At(ret[c], p)
      <4>1. c \in Conns /\ IsFiniteSet(Conns) /\ \A d \in Conns \ {c} : ret'[d] = ret[d]
        BY ONLY <2>1, Zenon
      <4> QED
        BY ONLY <4>1, CountMove
    <3>3. Count(rem', Conns, p) = Count(rem, Conns, p) + At(rem'[c], p) - At(rem[c], p)
      <4>1. c \in Conns /\ IsFiniteSet(Conns) /\ \A d \in Conns \ {c} : rem'[d] = rem[d]
        BY ONLY <2>1, Zenon
      <4> QED
        BY ONLY <4>1, CountMove
    <3> QED
      BY <3>1, <3>2, <3>3, Zenon
  <2>3. /\ Count(session, Conns, p) \in Nat /\ Count(ret, Conns, p) \in Nat
        /\ Count(rem, Conns, p) \in Nat /\ Count(ext, Ids, p) \in Nat
    BY ONLY <2>1, CountNat, Zenon
  <2>4. /\ At(x, p) \in Int /\ At(y, p) \in Int /\ At(session[c], p) \in Int
        /\ At(ret[c], p) \in Int /\ At(rem[c], p) \in Int /\ At(NULL, p) = 0 /\ refs[p] \in Int
    BY <1>2, <1>3 DEF At
  <2>5. /\ session'[c] = x /\ ret'[c] = y /\ rem'[c] = NULL
        /\ e(p) \in Int /\ Count(ext', Ids, p) = Count(ext, Ids, p) - e(p)
        /\ refs'[p] = refs[p] - e(p) - At(rem[c], p) - At(o, p)
        /\ At(o, p) = At(session[c], p) + At(ret[c], p) - At(x, p) - At(y, p)
    BY <1>4, <1>6, Zenon
  <2> DEFINE d1 == At(x, p) - At(session[c], p)
             d2 == At(y, p) - At(ret[c], p)
             d3 == 0 - At(rem[c], p)
             d5 == 0 - e(p)
  <2>6. /\ Count(session', Conns, p) = Count(session, Conns, p) + d1
        /\ Count(ret', Conns, p) = Count(ret, Conns, p) + d2
        /\ Count(rem', Conns, p) = Count(rem, Conns, p) + d3
        /\ Count(ext', Ids, p) = Count(ext, Ids, p) + d5
        /\ refs'[p] = refs[p] + d1 + d2 + d3 + 0 + d5
        /\ d1 \in Int /\ d2 \in Int /\ d3 \in Int /\ d5 \in Int /\ 0 \in Int
    <3>1. /\ Count(session', Conns, p) = Count(session, Conns, p) + At(x, p) - At(session[c], p)
          /\ Count(ret', Conns, p) = Count(ret, Conns, p) + At(y, p) - At(ret[c], p)
          /\ Count(rem', Conns, p) = Count(rem, Conns, p) + 0 - At(rem[c], p)
      BY ONLY <2>2, <2>4, <2>5, Zenon
    <3>2. d1 \in Int /\ d2 \in Int /\ d3 \in Int /\ d5 \in Int /\ 0 \in Int
      BY ONLY <2>4, <2>5
    <3>3. /\ Count(session', Conns, p) = Count(session, Conns, p) + d1
          /\ Count(ret', Conns, p) = Count(ret, Conns, p) + d2
          /\ Count(rem', Conns, p) = Count(rem, Conns, p) + d3
      BY ONLY <3>1, <2>3, <2>4, Zenon
    <3>4. Count(ext', Ids, p) = Count(ext, Ids, p) + d5
      BY ONLY <2>3, <2>5
    <3>5. refs'[p] = refs[p] + d1 + d2 + d3 + 0 + d5
      BY ONLY <2>4, <2>5
    <3> QED
      BY ONLY <3>2, <3>3, <3>4, <3>5, Zenon
  <2>7. Count(hash', Ids, p) = Count(hash, Ids, p) + 0 /\ app' = app
    BY <1>1, <2>1, SameCount, Zenon
  <2> HIDE DEF d1, d2, d3, d5
  <2> QED
    BY ONLY IInv, p \in Sessions, <2>6, <2>7, Balance, Zenon
<1>9. RefsExact'
  BY <1>8, Zenon DEF RefsExact
<1>10. Lists(list, hash)' /\ CacheBounded'
  BY <1>1, Zenon DEF IInv, CacheBounded, Lists, Injective, InList
<1> QED
  BY <1>1, <1>4, <1>5, <1>6, <1>7, <1>9, <1>10, Step, Zenon

----------------------------------------------------------------------------
(* The actions that remove a session.                                      *)

(* A lookup that finds an expired session keeps the invariant. *)
LEMMA TimeoutFound ==
    ASSUME IInv, NEW c \in Conns, GetPrevTimeout(c)
    PROVE  IInv'
<1>1. pc[c] = "found" /\ RemoveLocked(c, ret[c]) /\ pc' = [pc EXCEPT ![c] = "drop"]
  BY Zenon DEF GetPrevTimeout, Goto
<1>2. UNCHANGED <<lock, app, session, sid, ret>> /\ hit' \in [Conns -> BOOLEAN]
  BY AtPlace, Zenon DEF GetPrevTimeout
<1>3. ret[c] \in Sessions \cup {NULL}
  BY AtPlace, Zenon
<1> QED
  BY <1>1, <1>2, <1>3, Locks, Zenon DEF RemPlaces, RetPlaces, Bare

(* A ticket for a resumed session keeps the invariant. *)
LEMMA TicketRenewed ==
    ASSUME IInv, NEW c \in Conns, RenewTicket(c)
    PROVE  IInv'
<1>1. pc[c] = "client" /\ RemoveLocked(c, session[c]) /\ pc' = [pc EXCEPT ![c] = "ticket"]
  BY Zenon DEF RenewTicket, Goto
<1>2. UNCHANGED <<lock, app, session, sid, ret>> /\ hit' \in [Conns -> BOOLEAN]
  BY AtPlace, Zenon DEF RenewTicket
<1>3. session[c] \in Sessions /\ session[c] # NULL
  BY <1>1, AtPlace, Zenon DEF Bare
<1> QED
  BY <1>1, <1>2, <1>3, Locks, Zenon DEF RemPlaces, RetPlaces

(* A fatal alert keeps the invariant. *)
LEMMA AlertFatal ==
    ASSUME IInv, NEW c \in Conns, FatalAlert(c)
    PROVE  IInv'
<1>1. pc[c] \in Handshaking \cup {"dup", "ok", "closed"} /\ RemoveLocked(c, session[c])
  BY Zenon DEF FatalAlert
<1>2. PICK q \in {"dying", "closing", "failing"} : pc' = [pc EXCEPT ![c] = q]
  BY Zenon DEF FatalAlert, Goto
<1>3. UNCHANGED <<lock, app, session, sid, ret>> /\ hit' \in [Conns -> BOOLEAN]
  BY AtPlace, Zenon DEF FatalAlert
<1>4. session[c] \in Sessions /\ session[c] # NULL
  BY <1>1, AtPlace, Zenon DEF Bare, Handshaking
<1>5. /\ q \in RemPlaces /\ q \notin RetPlaces
      /\ pc[c] \notin RemPlaces \cup {"store"} /\ pc[c] \notin RetPlaces
  BY <1>1, <1>2, Zenon DEF RemPlaces, RetPlaces, Handshaking
<1> QED
  BY <1>1, <1>2, <1>3, <1>4, <1>5, Locks, Zenon

(* SSL_free keeps the invariant. *)
LEMMA Frees ==
    ASSUME IInv, NEW c \in Conns, SSL_free(c)
    PROVE  IInv'
<1>1. pc[c] \in {"before", "failed"} \cup Established \cup Handshaking
  BY Zenon DEF SSL_free
<1>2. pc[c] \notin RemPlaces \cup {"store"} /\ pc[c] \notin RetPlaces
  BY <1>1, Zenon DEF RemPlaces, RetPlaces, Established, Handshaking
<1>3. UNCHANGED <<lock, app, sid, ret>>
  BY Zenon DEF SSL_free
<1>4. CASE Bad(c)
  <2>1. /\ RemoveLocked(c, session[c]) /\ pc' = [pc EXCEPT ![c] = "freeing"]
        /\ UNCHANGED <<session, hit>>
    BY <1>4, Zenon DEF SSL_free, Goto
  <2>2. session[c] \in Sessions /\ session[c] # NULL /\ hit' \in [Conns -> BOOLEAN]
    BY <1>4, <2>1, AtPlace, Zenon DEF Bad
  <2> QED
    BY <1>2, <1>3, <2>1, <2>2, Locks, Zenon DEF RemPlaces, RetPlaces
<1>5. CASE ~Bad(c)
  <2>1. /\ refs' = SSL_SESSION_free(refs, session[c]) /\ sess' = Wiped(sess)
        /\ session' = [session EXCEPT ![c] = NULL] /\ pc' = [pc EXCEPT ![c] = "before"]
        /\ UNCHANGED <<hash, list, ext, rem>>
    BY <1>5, Zenon DEF SSL_free, Goto
  <2>2. hit' \in [Conns -> BOOLEAN]
    BY <1>5, AtPlace, Zenon DEF SSL_free
  <2> QED
    BY <1>2, <1>3, <2>1, <2>2, GivesUp, Zenon
<1> QED
  BY <1>4, <1>5, Zenon

(* SSL_clear keeps the invariant. *)
LEMMA Clears ==
    ASSUME IInv, NEW c \in Conns, SSL_clear(c)
    PROVE  IInv'
<1>1. pc[c] \in {"failed"} \cup Established
  BY Zenon DEF SSL_clear
<1>2. pc[c] \notin RemPlaces \cup {"store"} /\ pc[c] \notin RetPlaces
  BY <1>1, Zenon DEF RemPlaces, RetPlaces, Established
<1>3. UNCHANGED <<lock, app, session, sid, ret>> /\ hit' \in [Conns -> BOOLEAN]
  BY AtPlace, Zenon DEF SSL_clear
<1>4. CASE Bad(c)
  <2>1. RemoveLocked(c, session[c]) /\ pc' = [pc EXCEPT ![c] = "clearing"]
    BY <1>4, Zenon DEF SSL_clear, Goto
  <2>2. session[c] \in Sessions /\ session[c] # NULL
    BY <1>4, AtPlace, Zenon DEF Bad
  <2> QED
    BY <1>2, <1>3, <2>1, <2>2, Locks, Zenon DEF RemPlaces, RetPlaces
<1>5. CASE ~Bad(c)
  <2>1. UNCHANGED <<refs, sess, hash, list, ext, rem>> /\ pc' = [pc EXCEPT ![c] = "before"]
    BY <1>5, Zenon DEF SSL_clear, Goto, cache
  <2> QED
    BY <1>2, <1>3, <2>1, AtPlace, Keeps, Zenon
<1> QED
  BY <1>4, <1>5, Zenon

(* Dropping the expired session keeps the invariant. *)
LEMMA Drops ==
    ASSUME IInv, NEW c \in Conns, GetPrevDrop(c)
    PROVE  IInv'
<1>1. /\ pc[c] = "drop" /\ RemoveUnlocked(c, ret[c]) /\ ret' = [ret EXCEPT ![c] = NULL]
      /\ pc' = [pc EXCEPT ![c] = "new"] /\ UNCHANGED <<lock, app, session, hit, sid>>
  BY Zenon DEF GetPrevDrop, Goto
<1>2. /\ session' = [session EXCEPT ![c] = session[c]] /\ session[c] \in Sessions \cup {NULL}
      /\ ret[c] \in Sessions \cup {NULL}
  BY <1>1, AtPlace, Zenon
<1>3. \A p \in Sessions :
          At(ret[c], p) = At(session[c], p) + At(ret[c], p) - At(session[c], p) - At(NULL, p)
  BY AtPlace DEF At
<1>4. "new" \in Places /\ "new" \in Bare /\ "new" \notin RetPlaces
  BY Zenon DEF Places, Bare, RetPlaces
<1>5. Unlocking(c, ret[c], "new", session[c], NULL)
  BY <1>1, <1>2, <1>3, <1>4, Zenon DEF Unlocking
<1> QED
  BY <1>5, Unlocks, Zenon

(* The end of a removal keeps the invariant. *)
LEMMA Removed ==
    ASSUME IInv, NEW c \in Conns, RenewTicketRemoved(c) \/ FatalAlertRemoved(c)
    PROVE  IInv'
<1>1. PICK q \in {"dup", "dead", "closed", "failed"} :
          /\ pc' = [pc EXCEPT ![c] = q] /\ RemoveUnlocked(c, NULL)
          /\ UNCHANGED <<lock, app, session, hit, sid, ret>>
          /\ pc[c] \in {"ticket", "dying", "closing", "failing"}
  BY Zenon DEF RenewTicketRemoved, FatalAlertRemoved, Goto
<1>2. /\ session[c] \in Sessions /\ session[c] # NULL /\ ret[c] = NULL
      /\ session' = [session EXCEPT ![c] = session[c]] /\ ret' = [ret EXCEPT ![c] = NULL]
  BY <1>1, AtPlace, Zenon DEF Bare, RetPlaces
<1>3. \A p \in Sessions :
          At(NULL, p) = At(session[c], p) + At(ret[c], p) - At(session[c], p) - At(NULL, p)
  BY <1>2, AtPlace DEF At
<1>4. q \in Places /\ q \notin RetPlaces /\ q \notin {"missed", "newcb", "store"}
  BY <1>1, Zenon DEF Places, RetPlaces, Established
<1>5. Unlocking(c, NULL, q, session[c], NULL)
  BY <1>1, <1>2, <1>3, <1>4, Zenon DEF Unlocking
<1> QED
  BY <1>5, Unlocks, Zenon

(* The end of ssl_clear_bad_session keeps the invariant. *)
LEMMA BadRemoved ==
    ASSUME IInv, NEW c \in Conns, BadSessionRemoved(c)
    PROVE  IInv'
<1>1. /\ pc[c] \in {"freeing", "clearing"} /\ RemoveUnlocked(c, session[c])
      /\ session' = [session EXCEPT ![c] = NULL] /\ pc' = [pc EXCEPT ![c] = "before"]
      /\ UNCHANGED <<lock, app, hit, sid, ret>>
  BY Zenon DEF BadSessionRemoved, Goto
<1>2. session[c] \in Sessions \cup {NULL} /\ ret[c] = NULL /\ ret' = [ret EXCEPT ![c] = NULL]
  BY <1>1, AtPlace, Zenon DEF RetPlaces
<1>3. \A p \in Sessions :
          At(session[c], p) = At(session[c], p) + At(ret[c], p) - At(NULL, p) - At(NULL, p)
  BY <1>2, AtPlace DEF At
<1>4. "before" \in Places /\ "before" \in Bare /\ "before" \notin RetPlaces
  BY Zenon DEF Places, Bare, RetPlaces
<1>5. Unlocking(c, session[c], "before", NULL, NULL)
  BY <1>1, <1>2, <1>3, <1>4, Zenon DEF Unlocking
<1> QED
  BY <1>5, Unlocks, Zenon


----------------------------------------------------------------------------
(* The actions that change what the two caches hold.                       *)

(* A legal change of the table, the list and the external cache: what is   *)
(* stored is alive and stored under its id, and references are counted.    *)
Stores ==
    /\ refs' \in [Sessions -> Int] /\ sess' \in [Sessions -> Rec] /\ Steady
    /\ hash' \in [Ids -> Sessions \cup {NULL}] /\ ext' \in [Ids -> Sessions \cup {NULL}]
    /\ list' \in Seq(Sessions) /\ Lists(list', hash') /\ CacheBounded'
    /\ \A i \in Ids : \/ hash'[i] \in {hash[i], NULL}
                      \/ sess[hash'[i]].id = i /\ refs[hash'[i]] # 0
    /\ \A i \in Ids : \/ ext'[i] \in {ext[i], NULL}
                      \/ sess[ext'[i]].id = i /\ refs[ext'[i]] # 0
    /\ \A p \in Sessions : refs'[p] = refs[p] + (Count(hash', Ids, p) - Count(hash, Ids, p))
                                              + (Count(ext', Ids, p) - Count(ext, Ids, p))

(* A step that stores a session in the cache keeps the invariant. *)
LEMMA StoreStep ==
    ASSUME IInv, Stores, UNCHANGED <<lock, app, session, sid, ret, rem>>,
           NEW c \in Conns, NEW q \in Places, pc' = [pc EXCEPT ![c] = q],
           hit' \in [Conns -> BOOLEAN],
           \/ q = pc[c]
           \/ /\ pc[c] \notin RemPlaces /\ q \notin {"missed", "store"}
              /\ q \in RetPlaces <=> pc[c] \in RetPlaces
              /\ session[c] = NULL => q \in Bare
              /\ q = "newcb" => session[c] # NULL /\ sess[session[c]].id # NULL
    PROVE  IInv'
<1> USE DEF Stores
<1>1. Typed'
  BY Zenon DEF IInv, Typed, Rec
<1>2. IsFiniteSet(Ids) /\ IsFiniteSet(Conns) /\ NULL \notin Sessions /\ NULL \notin Ids
  BY CacheAssumption, Zenon
<1>3. ASSUME NEW p \in Sessions PROVE refs'[p] = Owners(p)'
  <2> DEFINE d4 == Count(hash', Ids, p) - Count(hash, Ids, p)
             d5 == Count(ext', Ids, p) - Count(ext, Ids, p)
  <2>1. /\ Count(hash, Ids, p) \in Nat /\ Count(hash', Ids, p) \in Nat
        /\ Count(ext, Ids, p) \in Nat /\ Count(ext', Ids, p) \in Nat /\ refs[p] \in Int
    BY <1>2, CountNat, Zenon DEF IInv, Typed
  <2>2. refs'[p] = refs[p] + d4 + d5
    BY Zenon
  <2>3. /\ d4 \in Int /\ d5 \in Int /\ 0 \in Int
        /\ Count(hash', Ids, p) = Count(hash, Ids, p) + d4
        /\ Count(ext', Ids, p) = Count(ext, Ids, p) + d5
        /\ refs'[p] = refs[p] + 0 + 0 + 0 + d4 + d5
    BY ONLY <2>1, <2>2
  <2>4. /\ Count(session', Conns, p) = Count(session, Conns, p) + 0
        /\ Count(ret', Conns, p) = Count(ret, Conns, p) + 0
        /\ Count(rem', Conns, p) = Count(rem, Conns, p) + 0 /\ app' = app
    BY <1>2, SameCount
  <2> HIDE DEF d4, d5
  <2> QED
    BY ONLY IInv, p \in Sessions, <2>3, <2>4, Balance, Zenon
<1>4. RefsExact'
  BY <1>3, Zenon DEF RefsExact
<1>5. Alive /\ Alive'
  BY <1>1, <1>4, ExactIsAlive, ExactIsAlivePrimed, Zenon DEF IInv
<1>6. \A i \in Ids : hash'[i] \in {hash[i], NULL} \/ sess'[hash'[i]].id = i
  BY <1>2, <1>5 DEF Alive, Steady
<1>7. \A i \in Ids : ext'[i] \in {ext[i], NULL} \/ sess'[ext'[i]].id = i
  BY <1>2, <1>5, SMTT(30) DEF Alive, Steady
<1>8. \A d \in Conns \ {c} : SameAt(d)
  BY Zenon DEF SameAt, IInv, Typed
<1>9. SameAt(c) \/ Place(c)'
  <2>1. CASE q = pc[c]
    BY <2>1, Zenon DEF SameAt, IInv, Typed
  <2>2. CASE q # pc[c]
    <3>1. q = "newcb" => sess'[session[c]].id # NULL
      BY <1>5, <2>2, Zenon DEF Alive, Steady, IInv, Typed
    <3>2. Place(c) /\ pc'[c] = q
      BY Zenon DEF IInv, PlaceInv, Typed
    <3> QED
      BY <2>2, <3>1, <3>2, Zenon DEF Place
  <2> QED
    BY <2>1, <2>2, Zenon
<1>10. Lists(list, hash)'
  BY Zenon DEF Lists, Injective, InList
<1> QED
  BY <1>1, <1>4, <1>6, <1>7, <1>8, <1>9, <1>10, Step, Zenon

(* The table does not hold o under another id than its own. *)
LEMMA NotElsewhere ==
    ASSUME IInv, NEW o \in Sessions, hash[sess[o].id] # o
    PROVE  \A j \in Ids : hash[j] # o
BY CacheAssumption, Zenon DEF IInv, IdInv

(* lh_SSL_SESSION_retrieve finds what the table has under the id. *)
LEMMA RetrieveIs ==
    ASSUME IInv, NEW i \in Ids
    PROVE  Retrieve(i) = hash[i]
BY CacheAssumption, Zenon DEF IInv, IdInv, Retrieve

(* Storing what is there already changes nothing. *)
LEMMA SameNoChange ==
    ASSUME IInv, UNCHANGED cache
    PROVE  Stores
<1>1. UNCHANGED <<refs, sess, hash, list, ext>>
  BY Zenon DEF cache
<1>2. ASSUME NEW p \in Sessions
      PROVE  refs'[p] = refs[p] + (Count(hash', Ids, p) - Count(hash, Ids, p))
                                + (Count(ext', Ids, p) - Count(ext, Ids, p))
  <2>1. Count(hash, Ids, p) \in Nat /\ Count(ext, Ids, p) \in Nat /\ refs[p] \in Int
    BY CacheAssumption, CountNat, Zenon DEF IInv, Typed
  <2> QED
    BY <1>1, <2>1
<1>3. CacheBounded'
  BY <1>1, Zenon DEF IInv, CacheBounded
<1> QED
  BY <1>1, <1>2, <1>3, Zenon DEF Stores, Steady, IInv, Typed, Rec

(* SSL_CTX_add_session in place of another session of that id. *)
LEMMA AddReplaceStores ==
    ASSUME IInv, NEW o \in Sessions, refs[o] # 0, sess[o].id # NULL, AddReplace(o)
    PROVE  Stores
<1> DEFINE i == sess[o].id
           old == hash[i]
           g == [hash EXCEPT ![i] = NULL]
           r == SSL_SESSION_up_ref(refs, o)
<1>1. /\ refs \in [Sessions -> Int] /\ sess \in [Sessions -> Rec] /\ list \in Seq(Sessions)
      /\ hash \in [Ids -> Sessions \cup {NULL}] /\ ext \in [Ids -> Sessions \cup {NULL}]
      /\ NULL \notin Sessions /\ IsFiniteSet(Ids) /\ Lists(list, hash)
  BY CacheAssumption, Zenon DEF IInv, Typed, Rec
<1>2. i \in Ids
  BY Zenon DEF IInv, Typed
<1>3. Retrieve(i) = old
  BY <1>2, RetrieveIs, Zenon
<1>4. /\ old \notin {o, NULL} /\ hash' = [hash EXCEPT ![i] = o]
      /\ list' = SSL_SESSION_list_add(SSL_SESSION_list_remove(list, old), o)
      /\ refs' = SSL_SESSION_free(r, old) /\ sess' = Wiped(sess) /\ ext' = ext
  BY <1>3, Zenon DEF AddReplace
<1>5. old \in Sessions /\ \A j \in Ids : hash[j] = old => j = i
  BY <1>1, <1>2, <1>4, Zenon DEF IInv, IdInv
<1>6. \A j \in Ids : hash[j] # o
  BY <1>4, NotElsewhere, Zenon
<1>7. LET l == SSL_SESSION_list_remove(list, old) IN l \in Seq(Sessions) /\ Lists(l, g)
  BY <1>1, <1>2, <1>4, <1>5, ListsDrop, Zenon
<1>8. g \in [Ids -> Sessions \cup {NULL}] /\ g[i] = NULL /\ \A j \in Ids : g[j] # o
  BY <1>1, <1>2, <1>6, Zenon
<1>9. [g EXCEPT ![i] = o] = hash'
  BY <1>1, <1>2, <1>4, Zenon
<1> HIDE DEF g
<1>10. list' \in Seq(Sessions) /\ Lists(list', hash')
  <2> DEFINE l == SSL_SESSION_list_remove(list, old)
  <2>1. l \in Seq(Sessions) /\ Lists(l, g) /\ list' = SSL_SESSION_list_add(l, o)
    BY <1>4, <1>7, Zenon
  <2> HIDE DEF l, i
  <2>2. SSL_SESSION_list_add(l, o) \in Seq(Sessions)
        /\ Lists(SSL_SESSION_list_add(l, o), [g EXCEPT ![i] = o])
    BY ONLY <1>2, <1>8, <2>1, o \in Sessions, ListsPut, Zenon
  <2> QED
    BY ONLY <1>9, <2>1, <2>2, Zenon
<1>11. r \in [Sessions -> Int] /\ \A p \in Sessions : r[p] = refs[p] + At(o, p)
  BY <1>1, UpRef, Zenon
<1> HIDE DEF r, old, i
<1>12. refs' \in [Sessions -> Int] /\ \A p \in Sessions : refs'[p] = r[p] - At(old, p)
  BY ONLY <1>4, <1>5, <1>11, FreeRef, Zenon
<1>13. sess' \in [Sessions -> Rec] /\ Steady
  BY <1>1, <1>4, SteadyWiped, Zenon
<1>14. /\ hash' \in [Ids -> Sessions \cup {NULL}] /\ hash'[i] = o /\ hash[i] = old
       /\ \A j \in Ids \ {i} : hash'[j] = hash[j]
  BY <1>1, <1>2, <1>4, Zenon DEF old
<1>15. CacheBounded'
  <2>1. {j \in Ids : hash'[j] # NULL} = {j \in Ids : hash[j] # NULL}
    BY <1>1, <1>4, <1>14, Zenon
  <2> QED
    BY <2>1, Zenon DEF CacheBounded, IInv
<1>16. ASSUME NEW p \in Sessions
       PROVE  refs'[p] = refs[p] + (Count(hash', Ids, p) - Count(hash, Ids, p))
                                 + (Count(ext', Ids, p) - Count(ext, Ids, p))
  <2>1. Count(hash', Ids, p) = Count(hash, Ids, p) + At(hash'[i], p) - At(hash[i], p)
    BY ONLY <1>1, <1>2, <1>14, CountMove
  <2>2. Count(hash, Ids, p) \in Nat /\ Count(ext, Ids, p) \in Nat
    BY ONLY <1>1, CountNat, Zenon
  <2>3. At(o, p) \in Int /\ At(old, p) \in Int /\ refs[p] \in Int
    BY <1>1 DEF At
  <2>4. Count(hash', Ids, p) = Count(hash, Ids, p) + At(o, p) - At(old, p)
    BY ONLY <1>14, <2>1, Zenon
  <2>5. refs'[p] = refs[p] + At(o, p) - At(old, p) /\ ext' = ext
    <3>1. r[p] = refs[p] + At(o, p) /\ refs'[p] = r[p] - At(old, p) /\ ext' = ext
      BY <1>4, <1>11, <1>12, Zenon
    <3> QED
      BY ONLY <2>3, <3>1
  <2> QED
    BY ONLY <2>2, <2>3, <2>4, <2>5
<1>17. \A j \in Ids : hash'[j] \in {hash[j], NULL} \/ (sess[hash'[j]].id = j /\ refs[hash'[j]] # 0)
  BY <1>14, Zenon DEF i
<1>18. \A j \in Ids : ext'[j] \in {ext[j], NULL}
  BY <1>4, Zenon
<1> QED
  BY <1>1, <1>4, <1>10, <1>12, <1>13, <1>14, <1>15, <1>16, <1>17, <1>18, Zenon DEF Stores

(* SSL_CTX_add_session while there is room. *)
LEMMA AddFreshStores ==
    ASSUME IInv, NEW o \in Sessions, refs[o] # 0, sess[o].id # NULL, AddFresh(o)
    PROVE  Stores
<1> DEFINE i == sess[o].id
<1>1. /\ refs \in [Sessions -> Int] /\ sess \in [Sessions -> Rec] /\ list \in Seq(Sessions)
      /\ hash \in [Ids -> Sessions \cup {NULL}] /\ ext \in [Ids -> Sessions \cup {NULL}]
      /\ NULL \notin Sessions /\ IsFiniteSet(Ids) /\ Lists(list, hash)
  BY CacheAssumption, Zenon DEF IInv, Typed, Rec
<1>2. i \in Ids
  BY Zenon DEF IInv, Typed
<1>3. Retrieve(i) = hash[i]
  BY <1>2, RetrieveIs, Zenon
<1>4. /\ hash[i] = NULL /\ ~CacheFull /\ hash' = [hash EXCEPT ![i] = o]
      /\ list' = SSL_SESSION_list_add(list, o)
      /\ refs' = SSL_SESSION_up_ref(refs, o) /\ UNCHANGED <<sess, ext>>
  BY <1>3, Zenon DEF AddFresh
<1>5. \A j \in Ids : hash[j] # o
  BY <1>1, <1>4, NotElsewhere, Zenon
<1> HIDE DEF i
<1>6. list' \in Seq(Sessions) /\ Lists(list', hash')
  <2>1. SSL_SESSION_list_add(list, o) \in Seq(Sessions)
        /\ Lists(SSL_SESSION_list_add(list, o), [hash EXCEPT ![i] = o])
    BY ONLY <1>1, <1>2, <1>4, <1>5, o \in Sessions, ListsPut, Zenon
  <2> QED
    BY ONLY <1>4, <2>1, Zenon
<1>7. refs' \in [Sessions -> Int] /\ \A p \in Sessions : refs'[p] = refs[p] + At(o, p)
  <2>1. refs \in [Sessions -> Int] /\ refs' = SSL_SESSION_up_ref(refs, o)
    BY <1>1, <1>4, Zenon
  <2> QED
    BY ONLY <2>1, o \in Sessions, UpRef, Zenon
<1>8. sess' \in [Sessions -> Rec] /\ Steady
  BY <1>1, <1>4, Zenon DEF Steady
<1>9. /\ hash' \in [Ids -> Sessions \cup {NULL}] /\ hash'[i] = o
      /\ \A j \in Ids \ {i} : hash'[j] = hash[j]
  BY <1>1, <1>2, <1>4, Zenon
<1>10. CacheBounded'
  <2> DEFINE S == {j \in Ids : hash[j] # NULL}
  <2>1. {j \in Ids : hash'[j] # NULL} = S \cup {i} /\ i \notin S
    BY <1>1, <1>2, <1>4, <1>9, Zenon
  <2>2. IsFiniteSet(S) /\ Cardinality(S) \in Nat /\ CacheSize \in Nat
    BY EntriesNat, CacheAssumption, Zenon DEF Entries
  <2>3. ~(CacheSize > 0 /\ Cardinality(S) >= CacheSize)
    BY <1>4, Zenon DEF CacheFull
  <2> HIDE DEF S
  <2>4. Cardinality(S \cup {i}) = Cardinality(S) + 1
    BY <2>1, <2>2, FS_AddElement, Zenon
  <2>5. CacheSize > 0 => Cardinality(S \cup {i}) <= CacheSize
    BY ONLY <2>2, <2>3, <2>4
  <2> QED
    BY <2>1, <2>5, Zenon DEF CacheBounded
<1>11. ASSUME NEW p \in Sessions
       PROVE  refs'[p] = refs[p] + (Count(hash', Ids, p) - Count(hash, Ids, p))
                                 + (Count(ext', Ids, p) - Count(ext, Ids, p))
  <2>1. Count(hash', Ids, p) = Count(hash, Ids, p) + At(hash'[i], p) - At(hash[i], p)
    BY ONLY <1>1, <1>2, <1>9, CountMove, SMTT(30)
  <2>2. Count(hash, Ids, p) \in Nat /\ Count(ext, Ids, p) \in Nat
    BY ONLY <1>1, CountNat, Zenon
  <2>3. At(o, p) \in Int /\ At(NULL, p) = 0 /\ refs[p] \in Int
    BY <1>1 DEF At
  <2>4. Count(hash', Ids, p) = Count(hash, Ids, p) + At(o, p) - At(NULL, p)
    BY ONLY <1>4, <1>9, <2>1, Zenon
  <2>5. refs'[p] = refs[p] + At(o, p) /\ ext' = ext
    BY <1>4, <1>7, Zenon
  <2> QED
    BY ONLY <2>2, <2>3, <2>4, <2>5
<1>12. \A j \in Ids : hash'[j] \in {hash[j], NULL} \/ (sess[hash'[j]].id = j /\ refs[hash'[j]] # 0)
  BY <1>9, Zenon DEF i
<1>13. \A j \in Ids : ext'[j] \in {ext[j], NULL}
  BY <1>4, Zenon
<1> QED
  BY <1>1, <1>4, <1>6, <1>7, <1>8, <1>9, <1>10, <1>11, <1>12, <1>13, Zenon DEF Stores

(* One session is taken out of the table and the list. *)
LEMMA TakesOut ==
    ASSUME IInv, NEW k \in Ids, hash[k] # NULL,
           NEW g, g = [hash EXCEPT ![k] = NULL],
           NEW l, l = SSL_SESSION_list_remove(list, hash[k])
    PROVE  /\ g \in [Ids -> Sessions \cup {NULL}] /\ \A j \in Ids : g[j] \in {hash[j], NULL}
           /\ l \in Seq(Sessions) /\ Lists(l, g)
           /\ \A p \in Sessions : Count(g, Ids, p) = Count(hash, Ids, p) - At(hash[k], p)
           /\ Entries(g) = Entries(hash) - 1
<1>1. /\ list \in Seq(Sessions) /\ hash \in [Ids -> Sessions \cup {NULL}]
      /\ NULL \notin Sessions /\ IsFiniteSet(Ids) /\ Lists(list, hash)
  BY CacheAssumption, Zenon DEF IInv, Typed
<1>2. \A j \in Ids : hash[j] = hash[k] => j = k
  BY Zenon DEF IInv, IdInv
<1>3. g \in [Ids -> Sessions \cup {NULL}] /\ g[k] = NULL /\ \A j \in Ids \ {k} : g[j] = hash[j]
  BY <1>1, Zenon
<1>4. l \in Seq(Sessions) /\ Lists(l, g)
  BY <1>1, <1>2, ListsDrop, Zenon
<1>5. ASSUME NEW p \in Sessions PROVE Count(g, Ids, p) = Count(hash, Ids, p) - At(hash[k], p)
  <2>1. Count(g, Ids, p) = Count(hash, Ids, p) + At(g[k], p) - At(hash[k], p)
    BY ONLY k \in Ids, <1>1, <1>3, CountMove
  <2>2. Count(hash, Ids, p) \in Nat /\ At(g[k], p) = 0 /\ At(hash[k], p) \in Int
    BY <1>1, <1>3, CountNat DEF At
  <2> QED
    BY ONLY <2>1, <2>2
<1>6. Entries(g) = Entries(hash) - 1
  <2> DEFINE S == {j \in Ids : hash[j] # NULL}
  <2>1. {j \in Ids : g[j] # NULL} = S \ {k} /\ k \in S
    BY <1>3, Zenon
  <2>2. IsFiniteSet(S)
    BY EntriesNat, Zenon
  <2> HIDE DEF S
  <2>3. Cardinality(S \ {k}) = Cardinality(S) - 1
    BY <2>1, <2>2, FS_RemoveElement, Zenon
  <2> QED
    BY <2>1, <2>3, Zenon DEF Entries, S
<1> QED
  BY <1>3, <1>4, <1>5, <1>6, Zenon

(* A full cache has an oldest session, and the table finds it. *)
LEMMA FullHasTail ==
    ASSUME IInv, CacheFull
    PROVE  LET t == list[Len(list)]
           IN  t \in Sessions /\ sess[t].id \in Ids /\ hash[sess[t].id] = t
<1> DEFINE t == list[Len(list)]
<1>0. /\ list \in Seq(Sessions) /\ hash \in [Ids -> Sessions \cup {NULL}]
      /\ NULL \notin Sessions /\ Lists(list, hash)
  BY CacheAssumption, Zenon DEF IInv, Typed
<1>1. CacheSize > 0 /\ Entries(hash) >= CacheSize /\ CacheSize \in Nat /\ Entries(hash) \in Nat
  BY CacheAssumption, EntriesNat, Zenon DEF CacheFull, Entries
<1>2. {j \in Ids : hash[j] # NULL} # {}
  BY <1>1, EntriesNat, FS_EmptySet DEF Entries
<1>3. PICK j \in Ids : hash[j] # NULL
  BY <1>2, Zenon
<1>4. InList(hash[j], list)
  BY <1>0, <1>3, Zenon DEF Lists
<1>5. Len(list) \in 1 .. Len(list)
  BY <1>0, <1>4 DEF InList
<1>6. t \in Sessions /\ InList(t, list)
  BY <1>0, <1>5 DEF InList
<1>7. PICK m \in Ids : hash[m] = t
  BY <1>0, <1>6, Zenon DEF Lists
<1> QED
  BY <1>0, <1>6, <1>7, Zenon DEF IInv, IdInv

(* SSL_CTX_add_session when the oldest session has to go. *)
LEMMA AddEvictStores ==
    ASSUME IInv, NEW o \in Sessions, refs[o] # 0, sess[o].id # NULL, AddEvict(o)
    PROVE  Stores
<1> DEFINE i == sess[o].id
           t == list[Len(list)]
           k == sess[t].id
           g == [hash EXCEPT ![k] = NULL]
           l == SSL_SESSION_list_remove(list, t)
           r == SSL_SESSION_up_ref(refs, o)
<1>1. /\ refs \in [Sessions -> Int] /\ sess \in [Sessions -> Rec] /\ list \in Seq(Sessions)
      /\ hash \in [Ids -> Sessions \cup {NULL}] /\ ext \in [Ids -> Sessions \cup {NULL}]
      /\ NULL \notin Sessions /\ IsFiniteSet(Ids) /\ Lists(list, hash)
  BY CacheAssumption, Zenon DEF IInv, Typed, Rec
<1>2. i \in Ids
  BY Zenon DEF IInv, Typed
<1>3. Retrieve(i) = hash[i]
  BY <1>2, RetrieveIs, Zenon
<1>4. /\ hash[i] = NULL /\ CacheFull
      /\ hash' = [hash EXCEPT ![i] = o, ![k] = NULL]
      /\ list' = SSL_SESSION_list_add(l, o) /\ ext' = remove_session_cb(t)
      /\ refs' = Released(r, t) /\ sess' = Wiped(Discarded(t))
  BY <1>3, Zenon DEF AddEvict
<1>5. \A j \in Ids : hash[j] # o
  BY <1>1, <1>4, NotElsewhere, Zenon
<1>6. t \in Sessions /\ k \in Ids /\ hash[k] = t
  BY <1>4, FullHasTail, Zenon
<1> HIDE DEF i, t, k, r
<1>7. i # k
  BY <1>1, <1>4, <1>6, Zenon
<1>8. /\ g \in [Ids -> Sessions \cup {NULL}] /\ \A j \in Ids : g[j] \in {hash[j], NULL}
      /\ l \in Seq(Sessions) /\ Lists(l, g)
      /\ \A p \in Sessions : Count(g, Ids, p) = Count(hash, Ids, p) - At(t, p)
      /\ Entries(g) = Entries(hash) - 1
  <2>1. hash[k] # NULL /\ l = SSL_SESSION_list_remove(list, hash[k])
    BY <1>1, <1>6, Zenon
  <2> QED
    BY <1>6, <2>1, TakesOut, Zenon
<1>9. /\ g[i] = NULL /\ \A j \in Ids : g[j] # o
  BY <1>1, <1>2, <1>4, <1>5, <1>8, Zenon
<1>10. hash' = [g EXCEPT ![i] = o]
  BY <1>1, <1>2, <1>4, <1>6, <1>7, Zenon
<1> HIDE DEF g, l
<1>11. list' \in Seq(Sessions) /\ Lists(list', hash')
  <2>1. SSL_SESSION_list_add(l, o) \in Seq(Sessions)
        /\ Lists(SSL_SESSION_list_add(l, o), [g EXCEPT ![i] = o])
    BY ONLY <1>2, <1>8, <1>9, o \in Sessions, ListsPut, Zenon
  <2> QED
    BY ONLY <1>4, <1>10, <2>1, Zenon
<1>12. /\ hash' \in [Ids -> Sessions \cup {NULL}] /\ hash'[i] = o
       /\ \A j \in Ids \ {i} : hash'[j] = g[j]
  BY <1>2, <1>8, <1>10, Zenon
<1>13. r \in [Sessions -> Int] /\ \A p \in Sessions : r[p] = refs[p] + At(o, p)
  BY <1>1, UpRef, Zenon DEF r
<1>14. /\ refs' \in [Sessions -> Int]
       /\ \A p \in Sessions : refs'[p] = r[p] - At(ExtOwner(t), p) - At(t, p)
  BY ONLY <1>4, <1>6, <1>13, ReleasedRef, Zenon
<1>15. sess' \in [Sessions -> Rec] /\ Steady
  BY <1>4, <1>6, DiscardedKeeps, SteadyWiped, Zenon
<1>16. /\ ext' \in [Ids -> Sessions \cup {NULL}] /\ \A j \in Ids : ext'[j] \in {ext[j], NULL}
       /\ \A p \in Sessions : Count(ext', Ids, p) = Count(ext, Ids, p) - At(ExtOwner(t), p)
  BY <1>4, <1>6, RemoveCbCount, Zenon DEF IInv
<1>17. CacheBounded'
  <2> DEFINE S == {j \in Ids : g[j] # NULL}
  <2>1. {j \in Ids : hash'[j] # NULL} = S \cup {i} /\ i \notin S
    BY <1>1, <1>2, <1>9, <1>12, SMTT(30)
  <2>2. IsFiniteSet(S) /\ Cardinality(S) = Entries(g)
    BY EntriesNat, Zenon DEF Entries
  <2> HIDE DEF S
  <2>3. Cardinality(S \cup {i}) = Cardinality(S) + 1
    BY <2>1, <2>2, FS_AddElement, Zenon
  <2>4. Entries(hash') = Cardinality(S) + 1
    BY <2>1, <2>3, Zenon DEF Entries
  <2>5. Entries(hash) \in Nat /\ Entries(hash') \in Nat /\ Entries(g) \in Nat
    BY EntriesNat, Zenon
  <2>6. Entries(hash') <= Entries(hash)
    BY ONLY <1>8, <2>2, <2>4, <2>5
  <2> QED
    BY <2>6, BoundKept, Zenon
<1>18. ASSUME NEW p \in Sessions
       PROVE  refs'[p] = refs[p] + (Count(hash', Ids, p) - Count(hash, Ids, p))
                                 + (Count(ext', Ids, p) - Count(ext, Ids, p))
  <2>1. Count(hash', Ids, p) = Count(g, Ids, p) + At(hash'[i], p) - At(g[i], p)
    BY ONLY <1>1, <1>2, <1>12, CountMove, SMTT(30)
  <2>2. Count(hash, Ids, p) \in Nat /\ Count(ext, Ids, p) \in Nat
    BY ONLY <1>1, CountNat, Zenon
  <2>3. /\ At(o, p) \in Int /\ At(t, p) \in Int /\ At(ExtOwner(t), p) \in Int
        /\ At(NULL, p) = 0 /\ refs[p] \in Int
    BY <1>1 DEF At
  <2>4. Count(hash', Ids, p) = Count(g, Ids, p) + At(o, p) - At(NULL, p)
    BY ONLY <1>9, <1>12, <2>1, Zenon
  <2>5. /\ r[p] = refs[p] + At(o, p) /\ refs'[p] = r[p] - At(ExtOwner(t), p) - At(t, p)
        /\ Count(g, Ids, p) = Count(hash, Ids, p) - At(t, p)
        /\ Count(ext', Ids, p) = Count(ext, Ids, p) - At(ExtOwner(t), p)
    BY <1>8, <1>13, <1>14, <1>16, Zenon
  <2> QED
    BY ONLY <2>2, <2>3, <2>4, <2>5
<1>19. \A j \in Ids : hash'[j] \in {hash[j], NULL} \/ (sess[hash'[j]].id = j /\ refs[hash'[j]] # 0)
  BY <1>8, <1>12, Zenon DEF i
<1> QED
  BY <1>11, <1>12, <1>14, <1>15, <1>16, <1>17, <1>18, <1>19, Zenon DEF Stores

(* One step of SSL_CTX_flush_sessions keeps the invariant. *)
LEMMA Timeouts ==
    ASSUME IInv, NEW c \in Conns, NEW i \in Ids, timeout_doall_arg(c, i)
    PROVE  IInv'
<1> DEFINE o == hash[i]
<1>1. o \in Sessions /\ sess[o].id = i /\ o # NULL
  BY DEF timeout_doall_arg, IInv, IdInv, Typed
<1>2. /\ hash' = [hash EXCEPT ![i] = NULL] /\ list' = SSL_SESSION_list_remove(list, o)
      /\ ext' = remove_session_cb(o) /\ refs' = Released(refs, o)
      /\ sess' = Wiped(Discarded(o)) /\ UNCHANGED <<lock, app, pc, session, hit, sid, ret, rem>>
  BY <1>1, Zenon DEF timeout_doall_arg
<1>3. /\ hash' \in [Ids -> Sessions \cup {NULL}] /\ \A j \in Ids : hash'[j] \in {hash[j], NULL}
      /\ list' \in Seq(Sessions) /\ Lists(list', hash')
      /\ \A p \in Sessions : Count(hash', Ids, p) = Count(hash, Ids, p) - At(o, p)
      /\ Entries(hash') = Entries(hash) - 1
  BY <1>1, <1>2, TakesOut, Zenon
<1> HIDE DEF o
<1>4. refs \in [Sessions -> Int]
  BY Zenon DEF IInv, Typed
<1>5. /\ refs' \in [Sessions -> Int]
      /\ \A p \in Sessions : refs'[p] = refs[p] - At(ExtOwner(o), p) - At(o, p)
  BY ONLY <1>1, <1>2, <1>4, ReleasedRef, Zenon
<1>6. sess' \in [Sessions -> Rec] /\ Steady
  BY <1>1, <1>2, DiscardedKeeps, SteadyWiped, Zenon
<1>7. /\ ext' \in [Ids -> Sessions \cup {NULL}] /\ \A j \in Ids : ext'[j] \in {ext[j], NULL}
      /\ \A p \in Sessions : Count(ext', Ids, p) = Count(ext, Ids, p) - At(ExtOwner(o), p)
  BY <1>1, <1>2, RemoveCbCount, Zenon DEF IInv
<1>8. CacheBounded'
  <2>1. Entries(hash) \in Nat /\ Entries(hash') \in Nat
    BY EntriesNat, Zenon
  <2>2. Entries(hash') <= Entries(hash)
    BY ONLY <1>3, <2>1
  <2> QED
    BY <2>2, BoundKept, Zenon
<1>9. ASSUME NEW p \in Sessions
      PROVE  refs'[p] = refs[p] + (Count(hash', Ids, p) - Count(hash, Ids, p))
                                + (Count(ext', Ids, p) - Count(ext, Ids, p))
  <2>1. Count(hash, Ids, p) \in Nat /\ Count(ext, Ids, p) \in Nat /\ refs[p] \in Int
    BY <1>4, CacheAssumption, CountNat, Zenon
  <2>2. At(o, p) \in Int /\ At(ExtOwner(o), p) \in Int
    BY DEF At
  <2>3. /\ refs'[p] = refs[p] - At(ExtOwner(o), p) - At(o, p)
        /\ Count(hash', Ids, p) = Count(hash, Ids, p) - At(o, p)
        /\ Count(ext', Ids, p) = Count(ext, Ids, p) - At(ExtOwner(o), p)
    BY <1>3, <1>5, <1>7, Zenon
  <2> QED
    BY ONLY <2>1, <2>2, <2>3
<1>10. Stores
  BY <1>3, <1>5, <1>6, <1>7, <1>8, <1>9, Zenon DEF Stores
<1>11. pc' = [pc EXCEPT ![c] = pc[c]] /\ pc[c] \in Places /\ hit' \in [Conns -> BOOLEAN]
  BY <1>2, Zenon DEF IInv, Typed
<1> QED
  BY <1>2, <1>10, <1>11, StoreStep, Zenon

(* new_session_cb, keeping a reference or not, keeps the invariant. *)
LEMMA NewCallbacks ==
    ASSUME IInv, NEW c \in Conns, new_session_cb(c)
    PROVE  IInv'
<1> DEFINE o == session[c]
           i == sess[o].id
           r == SSL_SESSION_up_ref(refs, o)
<1>1. /\ pc[c] = "newcb" /\ pc' = [pc EXCEPT ![c] = "flush"]
      /\ UNCHANGED <<hash, list, lock, app, session, hit, sid, ret, rem>>
  BY Zenon DEF new_session_cb, Goto
<1>2. o \in Sessions /\ i \in Ids
  BY <1>1, Zenon DEF IInv, PlaceInv, Place, Bare, Typed
<1>3. /\ refs \in [Sessions -> Int] /\ sess \in [Sessions -> Rec]
      /\ ext \in [Ids -> Sessions \cup {NULL}] /\ hash \in [Ids -> Sessions \cup {NULL}]
      /\ NULL \notin Sessions /\ IsFiniteSet(Ids) /\ IInv
  BY CacheAssumption, Zenon DEF IInv, Typed, Rec
<1>4. ASSUME UNCHANGED <<ext, refs, sess>>
      PROVE  Stores
  BY <1>1, <1>4, SameNoChange, Zenon DEF cache
<1>5. ASSUME ext' = [ext EXCEPT ![i] = o], refs' = SSL_SESSION_free(r, ext[i]),
             sess' = Wiped(sess)
      PROVE  Stores
  <2>1. refs[o] # 0
    BY <1>2, <1>3, ExactIsAlive, Zenon DEF IInv, Alive
  <2>2. r \in [Sessions -> Int] /\ \A p \in Sessions : r[p] = refs[p] + At(o, p)
    BY <1>2, <1>3, UpRef, Zenon
  <2> HIDE DEF r, i, o
  <2>3. ext[i] \in Sessions \cup {NULL} /\ refs' = SSL_SESSION_free(r, ext[i])
    BY <1>2, <1>3, <1>5, Zenon
  <2>4. refs' \in [Sessions -> Int] /\ \A p \in Sessions : refs'[p] = r[p] - At(ext[i], p)
    BY ONLY <2>2, <2>3, FreeRef, Zenon
  <2>5. sess' \in [Sessions -> Rec] /\ Steady
    BY <1>3, <1>5, SteadyWiped, Zenon
  <2>6. /\ ext' \in [Ids -> Sessions \cup {NULL}] /\ ext'[i] = o
        /\ \A j \in Ids \ {i} : ext'[j] = ext[j]
    BY <1>2, <1>3, <1>5, Zenon
  <2>7. ASSUME NEW p \in Sessions
        PROVE  refs'[p] = refs[p] + (Count(hash', Ids, p) - Count(hash, Ids, p))
                                  + (Count(ext', Ids, p) - Count(ext, Ids, p))
    <3>1. Count(ext', Ids, p) = Count(ext, Ids, p) + At(ext'[i], p) - At(ext[i], p)
      BY ONLY <1>2, <1>3, <2>6, CountMove
    <3>2. Count(hash, Ids, p) \in Nat /\ Count(ext, Ids, p) \in Nat
      BY ONLY <1>3, CountNat, Zenon
    <3>3. At(o, p) \in Int /\ At(ext[i], p) \in Int /\ refs[p] \in Int
      BY <1>3 DEF At
    <3>4. Count(ext', Ids, p) = Count(ext, Ids, p) + At(o, p) - At(ext[i], p)
      BY ONLY <2>6, <3>1, Zenon
    <3>5. r[p] = refs[p] + At(o, p) /\ refs'[p] = r[p] - At(ext[i], p) /\ hash' = hash
      BY <1>1, <2>2, <2>4, Zenon
    <3> QED
      BY ONLY <3>2, <3>3, <3>4, <3>5
  <2>8. /\ hash' \in [Ids -> Sessions \cup {NULL}] /\ \A j \in Ids : hash'[j] \in {hash[j], NULL}
        /\ list' \in Seq(Sessions) /\ Lists(list', hash')
    BY <1>1, Zenon DEF IInv, Typed
  <2>9. CacheBounded'
    BY <1>1, Zenon DEF IInv, CacheBounded
  <2>10. \A j \in Ids : ext'[j] \in {ext[j], NULL} \/ (sess[ext'[j]].id = j /\ refs[ext'[j]] # 0)
    BY <2>1, <2>6, Zenon DEF i
  <2> QED
    BY <2>4, <2>5, <2>6, <2>7, <2>8, <2>9, <2>10, Zenon DEF Stores
<1>6. Stores
  BY <1>4, <1>5, Zenon DEF new_session_cb
<1>7. session[c] # NULL /\ hit' \in [Conns -> BOOLEAN]
  BY <1>1, <1>2, <1>3, Zenon DEF IInv, Typed
<1>8. /\ "flush" \in Places /\ pc[c] \notin RemPlaces /\ pc[c] \notin RetPlaces
      /\ "flush" \notin RetPlaces
  BY <1>1, Zenon DEF Places, RemPlaces, RetPlaces
<1> QED
  BY <1>1, <1>6, <1>7, <1>8, StoreStep, Zenon

(* SSL_CTX_add_session in all its cases. *)
LEMMA Adds ==
    ASSUME IInv, NEW o \in Sessions, refs[o] # 0, sess[o].id # NULL, AddSame(o) \/ AddNew(o)
    PROVE  Stores
BY SameNoChange, AddReplaceStores, AddFreshStores, AddEvictStores, Zenon DEF AddSame, AddNew

(* Caching what get_session_cb returned keeps the invariant. *)
LEMMA LookupStored ==
    ASSUME IInv, NEW c \in Conns, GetPrevStore(c)
    PROVE  IInv'
<1>1. /\ pc[c] = "store" /\ pc' = [pc EXCEPT ![c] = "found"]
      /\ AddSame(ret[c]) \/ AddNew(ret[c])
      /\ UNCHANGED <<lock, app, session, hit, sid, ret, rem>>
  BY Zenon DEF GetPrevStore, Goto
<1>2. ret[c] \in Sessions /\ ret[c] # NULL /\ sess[ret[c]].id # NULL
  BY <1>1, Zenon DEF IInv, PlaceInv, Place, RetPlaces, Typed
<1>3. refs[ret[c]] # 0
  BY <1>2, ExactIsAlive, Zenon DEF IInv, Alive
<1>4. Stores
  BY <1>1, <1>2, <1>3, Adds, Zenon
<1>5. hit' \in [Conns -> BOOLEAN]
  BY <1>1, Zenon DEF IInv, Typed
<1>6. /\ "found" \in Places /\ pc[c] \notin RemPlaces /\ pc[c] \in RetPlaces
      /\ "found" \in RetPlaces /\ "found" \in Bare
  BY <1>1, Zenon DEF Places, RemPlaces, RetPlaces, Bare
<1> QED
  BY <1>1, <1>4, <1>5, <1>6, StoreStep, Zenon

(* ssl_update_cache at the end of a handshake keeps the invariant. *)
LEMMA Finishes ==
    ASSUME IInv, NEW c \in Conns, Finish(c)
    PROVE  IInv'
<1>1. /\ pc[c] \in {"handshake", "client"} /\ hit' = [hit EXCEPT ![c] = FALSE]
      /\ UNCHANGED <<lock, app, session, sid, ret, rem>>
  BY Zenon DEF Finish
<1>2. session[c] \in Sessions /\ session[c] # NULL
  BY <1>1, AtPlace, Zenon DEF Bare
<1>3. refs[session[c]] # 0
  BY <1>2, ExactIsAlive, Zenon DEF IInv, Alive
<1>4. hit' \in [Conns -> BOOLEAN]
  BY <1>1, AtPlace, Zenon
<1>5. PICK q \in {"flush", "newcb"} :
          /\ pc' = [pc EXCEPT ![c] = q] /\ Stores
          /\ q = "newcb" => sess[session[c]].id # NULL
  <2>1. CASE UNCHANGED cache /\ Goto(c, "flush")
    BY <2>1, SameNoChange, Zenon DEF Goto
  <2>2. CASE /\ sess[session[c]].id # NULL
             /\ \/ AddSame(session[c]) /\ Goto(c, "flush")
                \/ AddNew(session[c]) /\ Goto(c, "newcb")
    BY <1>2, <1>3, <2>2, Adds, Zenon DEF Goto
  <2> QED
    BY <2>1, <2>2, Zenon DEF Finish
<1>6. /\ q \in Places /\ pc[c] \notin RemPlaces /\ pc[c] \notin RetPlaces
      /\ q \notin RetPlaces /\ q \notin {"missed", "store"}
  BY <1>1, <1>5, Zenon DEF Places, RemPlaces, RetPlaces
<1> QED
  BY <1>1, <1>2, <1>4, <1>5, <1>6, StoreStep, Zenon

----------------------------------------------------------------------------
(* The theorems.                                                           *)

(* The invariant holds before the first connection. *)
LEMMA InitInv == Init => IInv
<1> SUFFICES ASSUME Init PROVE IInv
  BY Zenon
<1>1. NULL \notin Sessions /\ NULL \notin Ids /\ NULL \notin Conns /\ CacheSize \in Nat
  BY CacheAssumption, Zenon
<1>2. Blank \in Rec
  BY Zenon DEF Blank, Rec
<1>3. Typed
  BY <1>1, <1>2 DEF Init, Typed, Rec, Places
<1>4. RefsExact
  <2> SUFFICES ASSUME NEW o \in Sessions PROVE refs[o] = Owners(o)
    BY Zenon DEF RefsExact
  <2>1. Owned(session, ret, rem, hash, ext, app, o) = 0
    BY <1>1, OwnedIsReferred DEF Init
  <2> QED
    BY <2>1, Zenon DEF Init, Owned, Owners
<1>5. PlaceInv /\ IdInv
  BY Zenon DEF Init, PlaceInv, Place, IdInv, RetPlaces, Bare
<1>6. Lists(list, hash)
  BY <1>1 DEF Init, Lists, Injective, InList
<1>7. CacheBounded
  <2>1. {i \in Ids : hash[i] # NULL} = {}
    BY Zenon DEF Init
  <2> QED
    BY <1>1, <2>1, FS_EmptySet DEF CacheBounded
<1> QED
  BY <1>3, <1>4, <1>5, <1>6, <1>7, Zenon DEF IInv

(* The invariant is a statement about the state. *)
LEMMA StutterInv ==
    ASSUME IInv, UNCHANGED vars
    PROVE  IInv'
<1> USE DEF vars
<1>1. Typed' /\ CacheBounded'
  BY Zenon DEF IInv, Typed, CacheBounded
<1>2. RefsExact'
  BY Zenon DEF IInv, RefsExact, Owners, Count
<1>3. PlaceInv' /\ IdInv'
  BY Zenon DEF IInv, PlaceInv, Place, IdInv
<1>4. Lists(list, hash)'
  BY Zenon DEF IInv, Lists, Injective, InList
<1> QED
  BY <1>1, <1>2, <1>3, <1>4, Zenon DEF IInv

(* Every step keeps the invariant. *)
LEMMA NextInv ==
    ASSUME IInv, Next
    PROVE  IInv'
<1>1. ASSUME NEW c \in Conns,
             \/ SSL_shutdown(c) \/ GetPrevNone(c) \/ FlushNot(c) \/ SSL_CTX_flush_sessions(c)
             \/ FlushEnd(c)
      PROVE  IInv'
  BY <1>1, Moves, Zenon
<1>2. ASSUME NEW c \in Conns,
             \/ SSL_free(c) \/ SSL_clear(c) \/ BadSessionRemoved(c) \/ FatalAlert(c)
             \/ FatalAlertRemoved(c) \/ GetPrevTimeout(c) \/ GetPrevDrop(c)
             \/ RenewTicket(c) \/ RenewTicketRemoved(c)
      PROVE  IInv'
  BY <1>2, Frees, Clears, BadRemoved, AlertFatal, Removed, TimeoutFound, Drops, TicketRenewed, Zenon
<1>3. ASSUME NEW c \in Conns,
             \/ get_session_cb(c) \/ GetPrevStore(c) \/ GetPrevRefused(c) \/ Resume(c)
             \/ NewSessionFails(c) \/ Finish(c) \/ new_session_cb(c) \/ SSL_get1_session(c)
      PROVE  IInv'
  BY <1>3, LookupExternal, LookupStored, LookupRefused, Resumes, NewSessionsFail, Finishes,
     NewCallbacks, Gets1, Zenon
<1>4. ASSUME NEW c \in Conns, NEW i \in Ids,
             GetPrevCached(c, i) \/ NewTicket(c, i) \/ timeout_doall_arg(c, i)
      PROVE  IInv'
  BY <1>4, LookupCached, NewTickets, Timeouts, Zenon
<1>5. ASSUME NEW c \in Conns, NEW o \in Sessions,
             \/ SSL_set_session(c, o) \/ ssl3_client_hello(c, o)
             \/ \E i \in Ids : ssl_session_dup(c, i, o)
             \/ \E i \in Ids \cup {NULL} :
                   \/ GetPrevTicket(c, i, o) \/ NewSession(c, i, o)
                   \/ ssl3_get_server_hello(c, i, o)
      PROVE  IInv'
  BY <1>5, Sets, ClientHellos, Duplicates, LookupTicket, NewSessions, ServerHellos, Zenon
<1>6. ASSUME NEW o \in Sessions, Forget(o) \/ Expire(o)
      PROVE  IInv'
  BY <1>6, Forgets, Expires, Zenon
<1> QED
  BY <1>1, <1>2, <1>3, <1>4, <1>5, <1>6, Zenon DEF Next

(* The inductive invariant of the session cache holds in every reachable state. *)
THEOREM Invariance == Spec => []IInv
<1>1. IInv /\ [Next]_vars => IInv'
  BY NextInv, StutterInv, Zenon
<1> QED
  BY InitInv, <1>1, PTL DEF Spec

(* The count in every session is the number of its owners, for any number  *)
(* of connections, sessions and ids and any cache size.                    *)
THEOREM ExactReferences == Spec => []RefsExact
<1>1. IInv => RefsExact
  BY Zenon DEF IInv
<1> QED
  BY <1>1, Invariance, PTL

(* A pointer held by a connection, by a call in progress, by the internal  *)
(* or the external cache or by the application is to a session that has    *)
(* not been freed.                                                         *)
THEOREM NoDangling == Spec => []Alive
<1>1. IInv => Alive
  BY ExactIsAlive, Zenon DEF IInv
<1> QED
  BY <1>1, Invariance, PTL

(* Types; in particular no count goes below zero. *)
THEOREM TypeCorrect == Spec => []TypeOK
<1>1. IInv => TypeOK
  <2> SUFFICES ASSUME IInv PROVE TypeOK
    BY Zenon
  <2>1. ASSUME NEW o \in Sessions PROVE refs[o] \in Nat
    <3>1. refs[o] = Owned(session, ret, rem, hash, ext, app, o)
      BY Zenon DEF IInv, RefsExact, Owners, Owned
    <3>2. Owned(session, ret, rem, hash, ext, app, o) \in Nat
      BY ONLY OwnedIsReferred, Zenon
    <3> QED
      BY ONLY <3>1, <3>2, Zenon
  <2>2. refs \in [Sessions -> Nat]
    BY <2>1, Zenon DEF IInv, Typed
  <2> QED
    BY <2>2, Zenon DEF IInv, Typed, TypeOK
<1> QED
  BY <1>1, Invariance, PTL

(* SSL_CTX_add_session, remove_session_lock and timeout_doall_arg keep the *)
(* table and the list the same, each session in them once and under its id.*)
THEOREM CacheConsistent == Spec => []HashListAgree
<1>1. IInv => HashListAgree
  <2> SUFFICES ASSUME IInv PROVE HashListAgree
    BY Zenon
  <2>1. /\ NULL \notin Sessions /\ list \in Seq(Sessions) /\ Lists(list, hash)
        /\ hash \in [Ids -> Sessions \cup {NULL}] /\ NULL \notin Ids
    BY CacheAssumption, Zenon DEF IInv, Typed
  <2>2. ASSUME NEW n \in 1 .. Len(list) PROVE Cached(list[n])
    <3>1. list[n] \in Sessions /\ InList(list[n], list)
      BY <2>1 DEF InList
    <3>2. PICK i \in Ids : hash[i] = list[n]
      BY <2>1, <3>1, Zenon DEF Lists
    <3>3. sess[list[n]].id = i
      BY <2>1, <3>1, <3>2, Zenon DEF IInv, IdInv
    <3> QED
      BY <2>1, <3>1, <3>2, <3>3, Zenon DEF Cached, Retrieve
  <2>3. \A i \in Ids : hash[i] # NULL => \E n \in 1 .. Len(list) : list[n] = hash[i]
    BY <2>1, Zenon DEF Lists, InList
  <2> QED
    BY <2>1, <2>2, <2>3, Zenon DEF HashListAgree, Lists, Injective
<1> QED
  BY <1>1, Invariance, PTL

(* SSL_CTX_add_session never leaves more sessions than the limit. *)
THEOREM Bounded == Spec => []CacheBounded
<1>1. IInv => CacheBounded
  BY Zenon DEF IInv
<1> QED
  BY <1>1, Invariance, PTL

----------------------------------------------------------------------------
(* A session under negotiation.                                            *)

(* Only clients do what clients do. *)
RoleInv == \A c \in Conns \ Clients : pc[c] \notin {"sent", "client", "ticket", "dup"}

(* The session a server negotiates has no owner but the connection. *)
SoleInv == \A c \in Servers \ Clients :
               pc[c] = "handshake" /\ ~hit[c] => refs[session[c]] = 1

(* What a single reference means: nothing else points to the session. *)
LEMMA SoleOwner ==
    ASSUME IInv, NEW c \in Conns, NEW o \in Sessions, session[c] = o, refs[o] = 1
    PROVE  /\ \A d \in Conns : ret[d] # o /\ rem[d] # o /\ (d # c => session[d] # o)
           /\ \A i \in Ids : hash[i] # o /\ ext[i] # o
           /\ o \notin app
<1> DEFINE n1 == Count(session, Conns, o)
           n2 == Count(ret, Conns, o)
           n3 == Count(rem, Conns, o)
           n4 == Count(hash, Ids, o)
           n5 == Count(ext, Ids, o)
           n6 == IF o \in app THEN 1 ELSE 0
<1>1. IsFiniteSet(Conns) /\ IsFiniteSet(Ids)
  BY CacheAssumption, Zenon
<1>2. n1 \in Nat /\ n1 # 0
  BY <1>1, CountNat
<1>3. n2 \in Nat /\ (n2 = 0 <=> \A d \in Conns : ret[d] # o)
  BY <1>1, CountNat, SMTT(30)
<1>4. n3 \in Nat /\ (n3 = 0 <=> \A d \in Conns : rem[d] # o)
  BY <1>1, CountNat
<1>5. n4 \in Nat /\ (n4 = 0 <=> \A i \in Ids : hash[i] # o)
  BY <1>1, CountNat
<1>6. n5 \in Nat /\ (n5 = 0 <=> \A i \in Ids : ext[i] # o)
  BY <1>1, CountNat
<1>7. n6 \in Nat /\ (n6 = 0 <=> o \notin app)
  OBVIOUS
<1>8. n1 + n2 + n3 + n4 + n5 + n6 = 1
  BY Zenon DEF IInv, RefsExact, Owners
<1>9. \A d \in Conns : d # c => session[d] # o
  <2> DEFINE S == {x \in Conns : session[x] = o}
  <2> HIDE DEF n2, n3, n4, n5, n6
  <2>1. n1 = 1
    <3> HIDE DEF n1
    <3> QED BY <1>2, <1>3, <1>4, <1>5, <1>6, <1>7, <1>8, SMTT(30)
  <2>2. IsFiniteSet(S) /\ Cardinality(S) = 1
    BY <1>1, <2>1, FS_Subset, Zenon DEF Count
  <2>3. PICK x : S = {x}
    BY <2>2, FS_Singleton, Zenon
  <2> QED
    BY <2>3
<1> HIDE DEF n1, n2, n3, n4, n5, n6
<1>10. n2 = 0 /\ n3 = 0 /\ n4 = 0 /\ n5 = 0 /\ n6 = 0
  BY <1>2, <1>3, <1>4, <1>5, <1>6, <1>7, <1>8
<1> QED
  BY <1>3, <1>4, <1>5, <1>6, <1>7, <1>9, <1>10, Zenon

Counts == [Sessions -> Int]

(* Giving up a reference raises no count. *)
LEMMA FreeLess ==
    ASSUME NEW r \in Counts, NEW x \in Sessions \cup {NULL}, NEW o \in Sessions
    PROVE  SSL_SESSION_free(r, x) \in Counts /\ SSL_SESSION_free(r, x)[o] <= r[o]
  BY CacheAssumption DEF Counts, SSL_SESSION_free

(* Neither does what ends the removal of a session. *)
LEMMA ReleasedLess ==
    ASSUME NEW r \in Counts, NEW x \in Sessions, NEW o \in Sessions
    PROVE  Released(r, x) \in Counts /\ Released(r, x)[o] <= r[o]
<1>1. /\ SSL_SESSION_free(r, x) \in Counts /\ SSL_SESSION_free(r, x)[o] <= r[o]
      /\ r[o] \in Int /\ SSL_SESSION_free(r, x)[o] \in Int
  BY FreeLess, Zenon DEF Counts
<1>2. /\ SSL_SESSION_free(SSL_SESSION_free(r, x), x) \in Counts
      /\ SSL_SESSION_free(SSL_SESSION_free(r, x), x)[o] <= SSL_SESSION_free(r, x)[o]
      /\ SSL_SESSION_free(SSL_SESSION_free(r, x), x)[o] \in Int
  BY <1>1, FreeLess, Zenon DEF Counts
<1> QED
  BY <1>1, <1>2 DEF Released

(* A new session, or a new reference to one, leaves the counts of others. *)
LEMMA OthersSame ==
    ASSUME NEW r \in Counts, NEW x \in Sessions, NEW o \in Sessions, x # o
    PROVE  /\ SSL_SESSION_up_ref(r, x) \in Counts /\ SSL_SESSION_up_ref(r, x)[o] = r[o]
           /\ [r EXCEPT ![x] = 1] \in Counts /\ [r EXCEPT ![x] = 1][o] = r[o]
  BY DEF Counts, SSL_SESSION_up_ref

(* What a step of connection d does to the places and the sessions of the  *)
(* others, and where it can take d itself.                                 *)
Local(d) ==
    /\ \A c \in Conns \ {d} : pc'[c] = pc[c] /\ session'[c] = session[c] /\ hit'[c] = hit[c]
    /\ d \notin Clients => pc'[d] \notin {"sent", "client", "ticket", "dup"}

NotNegotiating(d) == d \notin Clients => ~(pc'[d] = "handshake" /\ ~hit'[d])

(* The steps of a connection d. *)
Acts(d) ==
    \/ SSL_shutdown(d) \/ SSL_free(d) \/ SSL_clear(d)
    \/ BadSessionRemoved(d) \/ FatalAlert(d) \/ FatalAlertRemoved(d)
    \/ GetPrevNone(d) \/ get_session_cb(d) \/ GetPrevStore(d)
    \/ GetPrevRefused(d) \/ GetPrevTimeout(d) \/ GetPrevDrop(d)
    \/ Resume(d) \/ NewSessionFails(d)
    \/ Finish(d) \/ new_session_cb(d)
    \/ FlushNot(d) \/ SSL_CTX_flush_sessions(d) \/ FlushEnd(d)
    \/ RenewTicket(d) \/ RenewTicketRemoved(d) \/ SSL_get1_session(d)
    \/ \E i \in Ids : GetPrevCached(d, i) \/ NewTicket(d, i) \/ timeout_doall_arg(d, i)
    \/ \E o \in Sessions :
          \/ SSL_set_session(d, o) \/ ssl3_client_hello(d, o)
          \/ \E i \in Ids : ssl_session_dup(d, i, o)
          \/ \E i \in Ids \cup {NULL} : GetPrevTicket(d, i, o) \/ ssl3_get_server_hello(d, i, o)

(* No step but ssl_get_new_session makes a server negotiate a session. *)
LEMMA ActsLocal ==
    ASSUME IInv, RoleInv, NEW d \in Conns, Acts(d)
    PROVE  Local(d) /\ NotNegotiating(d)
<1> USE DEF Local, NotNegotiating, Goto
<1>0. /\ pc \in [Conns -> Places] /\ session \in [Conns -> Sessions \cup {NULL}]
      /\ hit \in [Conns -> BOOLEAN]
      /\ d \notin Clients => pc[d] \notin {"sent", "client", "ticket", "dup"}
  BY Zenon DEF IInv, Typed, RoleInv
<1>1. CASE SSL_shutdown(d)
  BY <1>0, <1>1, Zenon DEF SSL_shutdown
<1>2. CASE SSL_free(d)
  BY <1>0, <1>2, Zenon DEF SSL_free, RemoveLocked, Bad, Established, Handshaking
<1>3. CASE SSL_clear(d)
  BY <1>0, <1>3, Zenon DEF SSL_clear, Established
<1>4. CASE BadSessionRemoved(d)
  BY <1>0, <1>4, Zenon DEF BadSessionRemoved
<1>5. CASE FatalAlert(d)
  BY <1>0, <1>5, Zenon DEF FatalAlert
<1>6. CASE FatalAlertRemoved(d)
  BY <1>0, <1>6, Zenon DEF FatalAlertRemoved
<1>7. CASE GetPrevNone(d)
  BY <1>0, <1>7, Zenon DEF GetPrevNone
<1>8. CASE get_session_cb(d)
  BY <1>0, <1>8, Zenon DEF get_session_cb
<1>9. CASE GetPrevStore(d)
  BY <1>0, <1>9, Zenon DEF GetPrevStore
<1>10. CASE GetPrevRefused(d)
  BY <1>0, <1>10, Zenon DEF GetPrevRefused
<1>11. CASE GetPrevTimeout(d)
  BY <1>0, <1>11, Zenon DEF GetPrevTimeout
<1>12. CASE GetPrevDrop(d)
  BY <1>0, <1>12, Zenon DEF GetPrevDrop
<1>13. CASE Resume(d)
  BY <1>0, <1>13, Zenon DEF Resume
<1>14. CASE NewSessionFails(d)
  BY <1>0, <1>14, Zenon DEF NewSessionFails
<1>15. CASE Finish(d)
  BY <1>0, <1>15, Zenon DEF Finish
<1>16. CASE new_session_cb(d)
  BY <1>0, <1>16, Zenon DEF new_session_cb
<1>17. CASE FlushNot(d)
  BY <1>0, <1>17, Zenon DEF FlushNot
<1>18. CASE SSL_CTX_flush_sessions(d)
  BY <1>0, <1>18, Zenon DEF SSL_CTX_flush_sessions
<1>19. CASE FlushEnd(d)
  BY <1>0, <1>19, Zenon DEF FlushEnd
<1>20. CASE RenewTicket(d)
  BY <1>0, <1>20, Zenon DEF RenewTicket
<1>21. CASE RenewTicketRemoved(d)
  BY <1>0, <1>21, Zenon DEF RenewTicketRemoved
<1>22. CASE SSL_get1_session(d)
  BY <1>0, <1>22, Zenon DEF SSL_get1_session
<1>23. CASE \E i \in Ids : GetPrevCached(d, i)
  BY <1>0, <1>23, Zenon DEF GetPrevCached
<1>24. CASE \E i \in Ids : NewTicket(d, i)
  BY <1>0, <1>24, Zenon DEF NewTicket
<1>25. CASE \E i \in Ids : timeout_doall_arg(d, i)
  BY <1>0, <1>25, Zenon DEF timeout_doall_arg
<1>26. CASE \E o \in Sessions : SSL_set_session(d, o)
  BY <1>0, <1>26, Zenon DEF SSL_set_session
<1>27. CASE \E o \in Sessions : ssl3_client_hello(d, o)
  BY <1>0, <1>27, Zenon DEF ssl3_client_hello, FreshSession
<1>28. CASE \E o \in Sessions : \E i \in Ids : ssl_session_dup(d, i, o)
  BY <1>0, <1>28, Zenon DEF ssl_session_dup
<1>29. CASE \E o \in Sessions : \E i \in Ids \cup {NULL} : GetPrevTicket(d, i, o)
  BY <1>0, <1>29, Zenon DEF GetPrevTicket
<1>30. CASE \E o \in Sessions : \E i \in Ids \cup {NULL} : ssl3_get_server_hello(d, i, o)
  BY <1>0, <1>30, Zenon DEF ssl3_get_server_hello, FreshSession
<1> QED
  BY <1>1, <1>2, <1>3, <1>4, <1>5, <1>6, <1>7, <1>8, <1>9, <1>10, <1>11,
     <1>12, <1>13, <1>14, <1>15, <1>16, <1>17, <1>18, <1>19, <1>20, <1>21,
     <1>22, <1>23, <1>24, <1>25, <1>26, <1>27, <1>28, <1>29, <1>30, Zenon DEF Acts

(* The counts after the end of a removal. *)
LEMMA UnlockedLess ==
    ASSUME Typed, NEW d \in Conns, NEW x \in Sessions \cup {NULL}, RemoveUnlocked(d, x),
           NEW o \in Sessions
    PROVE  refs'[o] <= refs[o]
<1>1. refs \in Counts /\ rem[d] \in Sessions \cup {NULL} /\ refs[o] \in Int
  BY Zenon DEF Typed, Counts
<1>2. CASE rem[d] = NULL
  BY <1>1, <1>2, FreeLess, Zenon DEF RemoveUnlocked
<1>3. CASE rem[d] # NULL
  <2>1. rem[d] \in Sessions /\ refs' = SSL_SESSION_free(Released(refs, rem[d]), x)
    BY <1>1, <1>3, Zenon DEF RemoveUnlocked
  <2>2. Released(refs, rem[d]) \in Counts /\ Released(refs, rem[d])[o] <= refs[o]
    BY <1>1, <2>1, ReleasedLess, Zenon
  <2>3. refs' \in Counts /\ refs'[o] <= Released(refs, rem[d])[o]
    BY <2>1, <2>2, FreeLess, Zenon
  <2>4. refs'[o] \in Int /\ Released(refs, rem[d])[o] \in Int
    BY <2>2, <2>3, Zenon DEF Counts
  <2> QED
    BY <1>1, <2>2, <2>3, <2>4, SMTT(30)
<1> QED
  BY <1>2, <1>3, Zenon

(* A session is put into the cache: the counts of the others do not rise. *)
LEMMA AddLess ==
    ASSUME IInv, NEW x \in Sessions, AddSame(x) \/ AddNew(x), NEW o \in Sessions, x # o
    PROVE  refs'[o] <= refs[o]
<1> DEFINE r == SSL_SESSION_up_ref(refs, x)
<1>1. /\ refs \in Counts /\ refs[o] \in Int /\ r \in Counts /\ r[o] = refs[o]
  BY OthersSame, ZenonT(40) DEF IInv, Typed, Counts
<1>2. CASE AddSame(x)
  BY <1>1, <1>2 DEF AddSame, cache
<1>3. CASE AddReplace(x)
  <2>1. Retrieve(sess[x].id) \in Sessions \cup {NULL}
    BY Zenon DEF IInv, Typed, Retrieve
  <2>2. refs' = SSL_SESSION_free(r, Retrieve(sess[x].id))
    BY <1>3, Zenon DEF AddReplace
  <2> QED
    BY <1>1, <2>1, <2>2, FreeLess, Zenon
<1>4. CASE AddFresh(x)
  BY <1>1, <1>4 DEF AddFresh
<1>5. CASE AddEvict(x)
  <2>1. list[Len(list)] \in Sessions
    BY <1>5, FullHasTail, Zenon DEF AddEvict
  <2>2. refs' = Released(r, list[Len(list)])
    BY <1>5, Zenon DEF AddEvict
  <2> QED
    BY <1>1, <2>1, <2>2, ReleasedLess, Zenon
<1> QED
  BY <1>2, <1>3, <1>4, <1>5, Zenon DEF AddNew

(* A step of another connection does not raise the count of a session that *)
(* only c has: all it refers to is another session.                        *)
LEMMA ActsKeep ==
    ASSUME IInv, NEW c \in Conns, NEW o \in Sessions, session[c] = o, refs[o] = 1,
           NEW d \in Conns, d # c, Acts(d)
    PROVE  refs'[o] <= refs[o]
<1>0. /\ refs \in Counts /\ NULL \notin Sessions
      /\ session[d] \in Sessions \cup {NULL} /\ ret[d] \in Sessions \cup {NULL}
      /\ \A i \in Ids : /\ hash[i] \in Sessions \cup {NULL}
                        /\ ext[i] \in Sessions \cup {NULL}
      /\ app \subseteq Sessions /\ sid[d] \in Ids \cup {NULL}
  BY CacheAssumption, Zenon DEF IInv, Typed, Counts
<1>1. /\ ret[d] # o /\ session[d] # o /\ o \notin app
      /\ \A i \in Ids : hash[i] # o /\ ext[i] # o
  BY SoleOwner, Zenon
<1>2. /\ pc[d] = "store" => ret[d] \in Sessions
      /\ pc[d] = "missed" => sid[d] \in Ids
      /\ pc[d] \notin Bare => session[d] \in Sessions
  BY <1>0, Zenon DEF IInv, PlaceInv, Place, RetPlaces
<1>3. \A x \in Sessions : refs[x] = 0 => x # o
  BY SMTT(30)
<1>4. \A x \in Sessions \cup {NULL} : SSL_SESSION_free(refs, x)[o] <= refs[o]
  BY <1>0, FreeLess, Zenon
<1>5. \A x \in Sessions, y \in Sessions \cup {NULL} : x # o =>
         /\ SSL_SESSION_free([refs EXCEPT ![x] = 1], y)[o] <= refs[o]
         /\ SSL_SESSION_free(SSL_SESSION_up_ref(refs, x), y)[o] <= refs[o]
         /\ SSL_SESSION_up_ref(refs, x)[o] <= refs[o]
         /\ [refs EXCEPT ![x] = 1][o] <= refs[o]
  <2> SUFFICES ASSUME NEW x \in Sessions, NEW y \in Sessions \cup {NULL}, x # o
               PROVE  /\ SSL_SESSION_free([refs EXCEPT ![x] = 1], y)[o] <= refs[o]
                      /\ SSL_SESSION_free(SSL_SESSION_up_ref(refs, x), y)[o] <= refs[o]
                      /\ SSL_SESSION_up_ref(refs, x)[o] <= refs[o]
                      /\ [refs EXCEPT ![x] = 1][o] <= refs[o]
    BY Zenon
  <2>1. /\ SSL_SESSION_up_ref(refs, x) \in Counts /\ SSL_SESSION_up_ref(refs, x)[o] = refs[o]
        /\ [refs EXCEPT ![x] = 1] \in Counts /\ [refs EXCEPT ![x] = 1][o] = refs[o]
    BY <1>0, OthersSame, SMTT(30)
  <2>2. /\ SSL_SESSION_free([refs EXCEPT ![x] = 1], y)[o] <= [refs EXCEPT ![x] = 1][o]
        /\ SSL_SESSION_free(SSL_SESSION_up_ref(refs, x), y)[o] <= SSL_SESSION_up_ref(refs, x)[o]
    BY <2>1, FreeLess, ZenonT(40)
  <2>3. refs[o] <= refs[o]
    OBVIOUS
  <2> QED
    BY <2>1, <2>2, <2>3, Zenon
<1>6. CASE refs' = refs
  BY <1>6
<1>7. CASE \/ SSL_shutdown(d) \/ SSL_clear(d) \/ FatalAlert(d) \/ GetPrevNone(d)
           \/ GetPrevTimeout(d) \/ FlushNot(d) \/ SSL_CTX_flush_sessions(d) \/ FlushEnd(d)
           \/ RenewTicket(d) \/ \E i \in Ids : NewTicket(d, i)
  BY <1>6, <1>7, Zenon DEF SSL_shutdown, SSL_clear, FatalAlert, GetPrevNone, GetPrevTimeout,
     FlushNot, SSL_CTX_flush_sessions, FlushEnd, RenewTicket, NewTicket, RemoveLocked, cache
<1>8. CASE GetPrevRefused(d) \/ Resume(d) \/ NewSessionFails(d)
  BY <1>0, <1>4, <1>8, Zenon DEF GetPrevRefused, Resume, NewSessionFails
<1>9. CASE SSL_free(d)
  BY <1>0, <1>4, <1>6, <1>9, Zenon DEF SSL_free, RemoveLocked
<1>10. CASE GetPrevDrop(d) \/ FatalAlertRemoved(d) \/ BadSessionRemoved(d) \/ RenewTicketRemoved(d)
  <2>1. RemoveUnlocked(d, ret[d]) \/ RemoveUnlocked(d, session[d]) \/ RemoveUnlocked(d, NULL)
    BY <1>10, Zenon DEF GetPrevDrop, FatalAlertRemoved, BadSessionRemoved, RenewTicketRemoved
  <2> QED
    BY <1>0, <2>1, UnlockedLess, Zenon DEF IInv
<1>11. CASE \E i \in Ids : timeout_doall_arg(d, i)
  <2>1. PICK i \in Ids : timeout_doall_arg(d, i)
    BY <1>11, Zenon
  <2>2. hash[i] \in Sessions /\ refs' = Released(refs, hash[i])
    BY <1>0, <2>1, Zenon DEF timeout_doall_arg
  <2> QED
    BY <1>0, <2>2, ReleasedLess, Zenon
<1>12. CASE \E x \in Sessions : \E i \in Ids \cup {NULL} : GetPrevTicket(d, i, x)
  BY <1>0, <1>3, <1>5, <1>12, Zenon DEF GetPrevTicket
<1>13. CASE \E x \in Sessions : \E i \in Ids : ssl_session_dup(d, i, x)
  BY <1>0, <1>3, <1>5, <1>13, Zenon DEF ssl_session_dup
<1>14. CASE \E x \in Sessions : ssl3_client_hello(d, x)
  BY <1>0, <1>3, <1>5, <1>6, <1>14, Zenon DEF ssl3_client_hello, FreshSession
<1>15. CASE \E x \in Sessions : \E i \in Ids \cup {NULL} : ssl3_get_server_hello(d, i, x)
  BY <1>0, <1>3, <1>5, <1>6, <1>15, Zenon DEF ssl3_get_server_hello, FreshSession
<1>16. CASE \E i \in Ids : GetPrevCached(d, i)
  <2>1. PICK i \in Ids : GetPrevCached(d, i)
    BY <1>16, Zenon
  <2>2. Retrieve(i) # NULL => Retrieve(i) \in Sessions /\ Retrieve(i) # o
    BY <1>0, <1>1, Zenon DEF Retrieve
  <2>3. \/ refs' = refs
        \/ Retrieve(i) # NULL /\ refs' = SSL_SESSION_up_ref(refs, Retrieve(i))
    BY <2>1, Zenon DEF GetPrevCached
  <2> QED
    BY <1>5, <1>6, <2>2, <2>3, Zenon
<1>17. CASE get_session_cb(d)
  BY <1>0, <1>1, <1>2, <1>5, <1>6, <1>17, Zenon DEF get_session_cb
<1>18. CASE GetPrevStore(d)
  <2>1. ret[d] \in Sessions /\ (AddSame(ret[d]) \/ AddNew(ret[d]))
    BY <1>2, <1>18, Zenon DEF GetPrevStore
  <2> QED
    BY <1>1, <2>1, AddLess, Zenon
<1>19. CASE Finish(d)
  <2>1. /\ session[d] \in Sessions
        /\ refs' = refs \/ AddSame(session[d]) \/ AddNew(session[d])
    BY <1>2, <1>19, Zenon DEF Finish, Bare, cache
  <2> QED
    BY <1>1, <1>6, <2>1, AddLess, Zenon
<1>20. CASE new_session_cb(d)
  <2>1. /\ session[d] \in Sessions
        /\ \/ refs' = refs
           \/ refs' = SSL_SESSION_free(SSL_SESSION_up_ref(refs, session[d]), ext[sess[session[d]].id])
    BY <1>2, <1>20, Zenon DEF new_session_cb, Bare
  <2>2. sess[session[d]].id \in Ids
    <3>1. sess[session[d]].id \in Ids \cup {NULL}
      BY <2>1, Zenon DEF IInv, Typed
    <3>2. sess[session[d]].id # NULL
      BY <1>20, Zenon DEF new_session_cb, IInv, PlaceInv, Place
    <3> QED
      BY <3>1, <3>2, Zenon
  <2>3. ext[sess[session[d]].id] \in Sessions \cup {NULL}
    BY <1>0, <2>2, Zenon
  <2> QED
    BY <1>1, <1>5, <1>6, <2>1, <2>3, Zenon
<1>21. CASE SSL_get1_session(d)
  <2>1. session[d] \in Sessions
    BY <1>2, <1>21, Zenon DEF SSL_get1_session, Bare
  <2> QED
    BY <1>0, <1>1, <1>5, <1>21, <2>1, Zenon DEF SSL_get1_session
<1>22. CASE \E x \in Sessions : SSL_set_session(d, x)
  BY <1>0, <1>1, <1>5, <1>22, Zenon DEF SSL_set_session
<1> QED
  BY <1>7, <1>8, <1>9, <1>10, <1>11, <1>12, <1>13, <1>14, <1>15, <1>16, <1>17,
     <1>18, <1>19, <1>20, <1>21, <1>22, Zenon DEF Acts

(* A server that negotiates goes on alone, and no client's place is taken  *)
(* by a server.                                                            *)
LEMMA SoleStep ==
    ASSUME IInv, IInv', RoleInv, SoleInv, Next
    PROVE  RoleInv' /\ SoleInv'
<1> DEFINE Negotiates(c) == pc[c] = "handshake" /\ ~hit[c]
<1>0. /\ pc \in [Conns -> Places] /\ session \in [Conns -> Sessions \cup {NULL}]
      /\ refs \in [Sessions -> Int] /\ refs' \in [Sessions -> Int] /\ NULL \notin Sessions
  BY CacheAssumption, Zenon DEF IInv, Typed
<1>1. ASSUME NEW c \in Servers \ Clients, Negotiates(c)
      PROVE  /\ c \in Conns /\ session[c] \in Sessions /\ refs[session[c]] = 1
  BY <1>0, <1>1, Zenon DEF SoleInv, IInv, PlaceInv, Place, Bare, Conns
<1>2. ASSUME NEW c \in Conns, session'[c] \in Sessions
      PROVE  refs'[session'[c]] \in Nat /\ refs'[session'[c]] # 0
  <2>1. refs'[session'[c]] = Owned(session', ret', rem', hash', ext', app', session'[c])
    BY <1>2, Zenon DEF IInv, RefsExact, Owners, Owned, Count
  <2>2. Owned(session', ret', rem', hash', ext', app', session'[c]) \in Nat
    BY OwnedIsReferred, Zenon
  <2>3. Alive'
    BY ExactIsAlivePrimed, Zenon DEF IInv
  <2> QED
    BY <1>0, <1>2, <2>1, <2>2, <2>3, Zenon DEF Alive
<1>3. ASSUME NEW c \in Servers \ Clients, Negotiates(c), session'[c] = session[c],
             refs'[session[c]] <= refs[session[c]]
      PROVE  refs'[session'[c]] = 1
  <2>1. c \in Conns /\ session[c] \in Sessions /\ refs[session[c]] = 1
    BY <1>1, <1>3, Zenon
  <2>2. refs'[session[c]] \in Nat /\ refs'[session[c]] # 0
    BY <1>2, <1>3, <2>1, Zenon
  <2> QED
    BY <1>3, <2>1, <2>2
<1>4. CASE \E d \in Conns : Acts(d)
  <2>1. PICK d \in Conns : Acts(d)
    BY <1>4, Zenon
  <2>2. Local(d) /\ NotNegotiating(d)
    BY <2>1, ActsLocal, Zenon
  <2>3. RoleInv'
    BY <2>2, Zenon DEF RoleInv, Local
  <2>4. ASSUME NEW c \in Servers \ Clients, Negotiates(c)'
        PROVE  refs'[session'[c]] = 1
    <3>1. c \in Conns /\ c \notin Clients
      BY Zenon DEF Conns
    <3>2. c # d
      BY <2>2, <2>4, <3>1, Zenon DEF NotNegotiating
    <3>3. Negotiates(c) /\ session'[c] = session[c]
      BY <2>2, <2>4, <3>1, <3>2, Zenon DEF Local
    <3>4. refs'[session[c]] <= refs[session[c]]
      BY <1>1, <2>1, <3>2, <3>3, ActsKeep, Zenon
    <3> QED
      BY <1>3, <3>3, <3>4, Zenon
  <2> QED
    BY <2>3, <2>4, Zenon DEF SoleInv
<1>5. CASE \E d \in Conns : \E x \in Sessions : \E i \in Ids \cup {NULL} : NewSession(d, i, x)
  <2>1. PICK d \in Conns, x \in Sessions, i \in Ids \cup {NULL} : NewSession(d, i, x)
    BY <1>5, Zenon
  <2>2. /\ refs[x] = 0 /\ session' = [session EXCEPT ![d] = x] /\ hit' = hit
        /\ pc' = [pc EXCEPT ![d] = "handshake"]
        /\ refs' = SSL_SESSION_free([refs EXCEPT ![x] = 1], session[d])
    BY <2>1, Zenon DEF NewSession, Goto
  <2>3. RoleInv'
    BY <1>0, <2>2, Zenon DEF RoleInv
  <2>4. session[d] # x
    <3>1. Alive
      BY ExactIsAlive, Zenon DEF IInv
    <3> QED
      BY <1>0, <2>2, <3>1, Zenon DEF Alive
  <2>5. refs'[x] = 1
    BY <1>0, <2>2, <2>4, Zenon DEF SSL_SESSION_free
  <2>6. ASSUME NEW c \in Servers \ Clients, Negotiates(c)'
        PROVE  refs'[session'[c]] = 1
    <3>1. c \in Conns
      BY Zenon DEF Conns
    <3>2. CASE c = d
      BY <1>0, <2>2, <2>5, <3>1, <3>2, Zenon
    <3>3. CASE c # d
      <4>1. Negotiates(c) /\ session'[c] = session[c]
        BY <1>0, <2>2, <2>6, <3>1, <3>3, Zenon
      <4>2. session[c] \in Sessions /\ refs[session[c]] = 1
        BY <1>1, <4>1, Zenon
      <4>3. session[c] # x
        BY <2>2, <4>2
      <4>4. refs \in Counts /\ session[d] \in Sessions \cup {NULL}
        BY <1>0, Zenon DEF Counts
      <4>5. [refs EXCEPT ![x] = 1] \in Counts /\ [refs EXCEPT ![x] = 1][session[c]] = refs[session[c]]
        BY <4>2, <4>3, <4>4, OthersSame, SMTT(30)
      <4>6. refs'[session[c]] <= refs[session[c]]
        BY <2>2, <4>2, <4>4, <4>5, FreeLess, Zenon
      <4> QED
        BY <1>3, <4>1, <4>6, Zenon
    <3> QED
      BY <3>2, <3>3, Zenon
  <2> QED
    BY <2>3, <2>6, Zenon DEF SoleInv
<1>6. CASE \E x \in Sessions : Forget(x) \/ Expire(x)
  <2>1. PICK x \in Sessions : Forget(x) \/ Expire(x)
    BY <1>6, Zenon
  <2>2. pc' = pc /\ session' = session /\ hit' = hit
    BY <2>1, Zenon DEF Forget, Expire
  <2>3. RoleInv'
    BY <2>2, Zenon DEF RoleInv
  <2>4. \A y \in Sessions : refs'[y] <= refs[y]
    BY <1>0, <2>1, FreeLess, SMTT(30) DEF Forget, Expire, Counts
  <2>5. ASSUME NEW c \in Servers \ Clients, Negotiates(c)'
        PROVE  refs'[session'[c]] = 1
    <3>1. Negotiates(c) /\ session'[c] = session[c]
      BY <2>2, <2>5, Zenon
    <3> QED
      BY <1>1, <1>3, <2>4, <3>1, Zenon
  <2> QED
    BY <2>3, <2>5, Zenon DEF SoleInv
<1> QED
  BY <1>4, <1>5, <1>6, Zenon DEF Next, Acts

(* A session that a server still negotiates is not in the cache and no     *)
(* other connection has it, for any number of connections, sessions and    *)
(* ids: s->session gets its second owner in ssl_update_cache.              *)
THEOREM NegotiatesAlone == Spec => []NegotiatedUnseen
<1> DEFINE Inv == IInv /\ RoleInv /\ SoleInv
<1>1. Init => RoleInv /\ SoleInv
  BY Zenon DEF Init, RoleInv, SoleInv, Conns
<1>2. Inv /\ IInv' /\ [Next]_vars => RoleInv' /\ SoleInv'
  <2>1. Inv /\ UNCHANGED vars => RoleInv' /\ SoleInv'
    BY Zenon DEF RoleInv, SoleInv, vars
  <2> QED
    BY <2>1, SoleStep, Zenon
<1>3. Inv => NegotiatedUnseen
  <2> SUFFICES ASSUME Inv, NEW c \in Servers \ Clients, pc[c] = "handshake" /\ ~hit[c]
               PROVE  /\ ~Cached(session[c])
                      /\ \A d \in Conns \ {c} : session[c] \notin {session[d], ret[d]}
    BY Zenon DEF NegotiatedUnseen
  <2>1. c \in Conns /\ session[c] \in Sessions /\ refs[session[c]] = 1
    BY Zenon DEF SoleInv, IInv, Typed, PlaceInv, Place, Bare, Conns
  <2>2. /\ \A d \in Conns : ret[d] # session[c] /\ (d # c => session[d] # session[c])
        /\ \A i \in Ids : hash[i] # session[c]
    BY <2>1, SoleOwner, Zenon
  <2>3. ~Cached(session[c])
    <3>1. sess[session[c]].id \in Ids \cup {NULL} /\ session[c] # NULL
      BY <2>1, CacheAssumption, Zenon DEF IInv, Typed
    <3> QED
      BY <2>2, <3>1, Zenon DEF Cached, Retrieve
  <2> QED
    BY <2>2, <2>3, Zenon
<1> QED
  BY <1>1, <1>2, <1>3, Invariance, PTL DEF Spec
====
