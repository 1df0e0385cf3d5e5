---------------------------- MODULE LhashProofs ----------------------------
(***************************************************************************)
(* What Lhash promises, for all sets of keys, hash functions, load factors *)
(* and sizes.  The argument: every node is in the bucket getrn looks in    *)
(* (TableInv), which a split, a join, a doubling and a halving of the      *)
(* array keep because h % 2m is h % m or h % m + m.  So the table is a     *)
(* dictionary.  A walk goes down the buckets, and a contraction moves      *)
(* items down only, so what it still owes stays ahead of it (WalkInv).     *)
(*                                                                         *)
(* All theorems assume that reallocating the array does not fail; those on *)
(* walks also that callbacks delete only in walks begun with down_load 0   *)
(* and that there are at most 2 * LH_LOAD_MULT buckets (512 in the code).  *)
(***************************************************************************)
EXTENDS Lhash, FiniteSetTheorems, TLAPS

\* Quotient and remainder are unique.
LEMMA ModUnique ==
  ASSUME NEW m \in Nat, m > 0, NEW q \in Int, NEW r \in Nat, r < m,
         NEW h \in Nat, h = m * q + r
  PROVE  h % m = r
<1> DEFINE a == h \div m
           s == h % m
<1>1. a \in Int /\ s \in 0..(m - 1) /\ h = m * a + s
  OBVIOUS
<1>2. CASE a >= q + 1
  <2>1. m * (a - q - 1) >= 0
    BY <1>1, <1>2
  <2> QED BY <2>1, <1>1
<1>3. CASE q >= a + 1
  <2>1. m * (q - a - 1) >= 0
    BY <1>1, <1>3
  <2> QED BY <2>1, <1>1
<1>4. CASE a = q
  BY <1>1, <1>4
<1> QED BY <1>1, <1>2, <1>3, <1>4

\* Modulo twice m, a hash keeps its remainder or has m added: what lets one
\* bucket be split into two.
LEMMA ModDouble ==
  ASSUME NEW h \in Nat, NEW m \in Nat, m > 0
  PROVE  /\ h % m \in 0..(m - 1)
         /\ h % (2 * m) \in 0..(2 * m - 1)
         /\ h % (2 * m) = h % m \/ h % (2 * m) = (h % m) + m
<1>1. PICK n \in Nat : n = 2 * m
  OBVIOUS
<1>2. PICK q \in Int : q = h \div n
  BY <1>1
<1>3. PICK r \in Nat : r = h % n /\ r < n
  BY <1>1
<1>4. h = n * q + r
  BY <1>1, <1>2, <1>3
<1>5. h = m * (2 * q) + r
  BY <1>1, <1>4
<1>6. h % m \in 0..(m - 1)
  OBVIOUS
<1>7. CASE r < m
  <2>1. 2 * q \in Int
    OBVIOUS
  <2>2. h % m = r
    BY <2>1, <1>5, <1>7, ModUnique
  <2> QED BY <1>1, <1>3, <1>6, <2>2
<1>8. CASE r >= m
  <2>1. PICK q1 \in Int : q1 = 2 * q + 1
    OBVIOUS
  <2>2. PICK r1 \in Nat : r1 = r - m /\ r1 < m
    BY <1>1, <1>3, <1>8
  <2>3. m * q1 = m * (2 * q) + m
    BY <2>1
  <2>4. h = m * q1 + r1
    BY <1>5, <2>2, <2>3
  <2>5. r1 < m
    BY <2>2, Zenon
  <2>6. h % m = r1
    BY <2>4, <2>5, ModUnique
  <2> QED BY <1>1, <1>3, <1>6, <2>2, <2>6
<1> QED BY <1>3, <1>7, <1>8

-----------------------------------------------------------------------------
(* Where a hash goes when p of m buckets have been split. *)

\* The bucket of hash h when p of the m buckets of the round have been split.
At(h, m, p) == IF h % m < p THEN h % (2 * m) ELSE h % m

\* getrn looks in a bucket that is in use.
LEMMA AtRange ==
  ASSUME NEW h \in Nat, NEW m \in Nat, m > 0, NEW p \in 0..m
  PROVE  At(h, m, p) \in 0..(m + p - 1)
<1>1. PICK x \in 0..(m - 1) : x = h % m
  BY ModDouble, Zenon
<1>2. PICK y \in 0..(2 * m - 1) : y = h % (2 * m)
  BY ModDouble, Zenon
<1>3. y = x \/ y = x + m
  BY ModDouble, <1>1, <1>2, Zenon
<1> QED BY <1>1, <1>2, <1>3 DEF At

\* Splitting bucket p moves only items of bucket p, and only to bucket p + m.
LEMMA AtSplit ==
  ASSUME NEW h \in Nat, NEW m \in Nat, m > 0, NEW p \in 0..(m - 1)
  PROVE  /\ At(h, m, p) # p => At(h, m, p + 1) = At(h, m, p)
         /\ At(h, m, p) = p => /\ At(h, m, p + 1) = h % (2 * m)
                               /\ h % (2 * m) \in {p, p + m}
         /\ At(h, m, p + 1) = p + m => At(h, m, p) = p
         /\ At(h, m, p + 1) # p + m => At(h, m, p) = At(h, m, p + 1)
<1>1. PICK x \in 0..(m - 1) : x = h % m
  BY ModDouble, Zenon
<1>2. PICK y \in 0..(2 * m - 1) : y = h % (2 * m)
  BY ModDouble, Zenon
<1>3. y = x \/ y = x + m
  BY ModDouble, <1>1, <1>2, Zenon
<1> QED BY <1>1, <1>2, <1>3 DEF At

\* When all m buckets are split, a new round with 2 * m buckets begins.
LEMMA AtRound ==
  ASSUME NEW h \in Nat, NEW m \in Nat, m > 0
  PROVE  At(h, m, m) = At(h, 2 * m, 0)
<1>1. PICK x \in 0..(m - 1) : x = h % m
  BY ModDouble, Zenon
<1>2. PICK y \in 0..(2 * m - 1) : y = h % (2 * m)
  BY ModDouble, Zenon
<1> QED BY <1>1, <1>2 DEF At

-----------------------------------------------------------------------------
(* The sizes of a round: MIN_NODES / 2, doubled any number of times. *)

\* The values pmax takes are those that doubling reaches from MIN_NODES \div 2.
\* They are described as the least such set, so that no induction is needed.
Half == MIN_NODES \div 2

DoublingSets ==
  {S \in SUBSET (Nat \ {0}) : Half \in S /\ \A m \in S : 2 * m \in S}

Sizes == {m \in Nat \ {0} : \A S \in DoublingSets : m \in S}

\* The first of them.
LEMMA HalfFact == Half \in Nat \ {0} /\ MIN_NODES = 2 * Half
BY SizeAssumption DEF Half

\* They are closed under doubling.
LEMMA SizesClosed ==
  /\ Half \in Sizes
  /\ \A m \in Sizes : 2 * m \in Sizes
BY HalfFact DEF Sizes, DoublingSets

\* All but the first are the double of another: contract halves pmax exactly.
LEMMA SizesHalve ==
  ASSUME NEW m \in Sizes, m # Half
  PROVE  \E y \in Sizes : m = 2 * y
<1> DEFINE S == {Half} \cup {2 * y : y \in Sizes}
<1>1. S \subseteq Sizes
  BY SizesClosed, Zenon
<1>2. S \in DoublingSets
  <2>1. S \in SUBSET (Nat \ {0})
    BY <1>1, Zenon DEF Sizes
  <2>2. \A x \in S : 2 * x \in S
    BY <1>1, Zenon
  <2> QED BY <2>1, <2>2, Zenon DEF DoublingSets
<1>3. m \in S
  BY <1>2, Zenon DEF Sizes
<1> QED BY <1>3, Zenon

-----------------------------------------------------------------------------
(* The table: every node is in the bucket getrn looks in. *)

\* A table by its fields.
Mk(b, n, a, p, m, c, d) ==
  [b |-> b, num_nodes |-> n, num_alloc_nodes |-> a, p |-> p, pmax |-> m,
   num_items |-> c, down_load |-> d]

\* The fields of a table made by Mk are its arguments.
LEMMA MkFields ==
  \A b, n, a, p, m, c, d :
    LET l == Mk(b, n, a, p, m, c, d)
    IN /\ l.b = b /\ l.num_nodes = n /\ l.num_alloc_nodes = a
       /\ l.p = p /\ l.pmax = m /\ l.num_items = c /\ l.down_load = d
BY DEF Mk

IsTable(l) ==
  /\ l = Mk(l.b, l.num_nodes, l.num_alloc_nodes, l.p, l.pmax, l.num_items, l.down_load)
  /\ l.p \in Nat /\ l.pmax \in Nat
  /\ l.num_items \in Int /\ l.down_load \in Nat

\* n buckets' worth of the array of a table with p of m buckets split.
PlacedIn(b, m, p) ==
  /\ b \in [0..(2 * m - 1) -> SUBSET Key]
  /\ \A j \in 0..(2 * m - 1) : \A k \in b[j] : At(Hash[k], m, p) = j

\* The fields fit each other and every node is in the bucket getrn looks in.
TableOK(l) ==
  /\ IsTable(l)
  /\ l.pmax \in Sizes
  /\ l.p < l.pmax
  /\ l.num_alloc_nodes = 2 * l.pmax
  /\ l.num_nodes = l.pmax + l.p
  /\ PlacedIn(l.b, l.pmax, l.p)

\* Bucket, by the fields of a good table.
LEMMA BucketAt ==
  ASSUME NEW l, TableOK(l), NEW k \in Key
  PROVE  /\ Bucket(l, k) = At(Hash[k], l.pmax, l.p)
         /\ Bucket(l, k) \in 0..(l.num_nodes - 1)
         /\ Bucket(l, k) \in 0..(l.num_alloc_nodes - 1)
<1>1. l.pmax \in Nat /\ l.pmax > 0 /\ l.p \in 0..l.pmax /\ Hash[k] \in Nat
  BY KeyAssumption DEF TableOK, IsTable, Sizes
<1>2. Bucket(l, k) = At(Hash[k], l.pmax, l.p)
  BY Zenon DEF Bucket, At, TableOK
<1>3. At(Hash[k], l.pmax, l.p) \in 0..(l.pmax + l.p - 1)
  BY <1>1, AtRange, Zenon
<1>4. l.num_nodes = l.pmax + l.p /\ l.num_alloc_nodes = 2 * l.pmax /\ l.p < l.pmax
  BY Zenon DEF TableOK
<1>5. PICK x \in Int : x = At(Hash[k], l.pmax, l.p)
  BY <1>3
<1> QED BY <1>1, <1>2, <1>3, <1>4, <1>5

\* The nodes in use are exactly the ones a search finds.
LEMMA ItemsFound ==
  ASSUME NEW l, TableOK(l)
  PROVE  /\ Items(l) = {k \in Key : Found(l, k)}
         /\ \A j \in 0..(l.num_alloc_nodes - 1) : \A k \in l.b[j] :
              k \in Key /\ j = Bucket(l, k)
         /\ IsFiniteSet(Items(l))
<1>1. \A j \in 0..(l.num_alloc_nodes - 1) : l.b[j] \subseteq Key
  BY Zenon DEF TableOK, PlacedIn
<1>2. ASSUME NEW j \in 0..(l.num_alloc_nodes - 1), NEW k \in l.b[j]
      PROVE  k \in Key /\ j = Bucket(l, k)
  <2>1. k \in Key /\ At(Hash[k], l.pmax, l.p) = j
    BY <1>1, Zenon DEF TableOK, PlacedIn
  <2> QED BY <2>1, BucketAt, Zenon
<1>3. 0..(l.num_nodes - 1) \subseteq 0..(l.num_alloc_nodes - 1)
  BY DEF TableOK, IsTable, Sizes
<1>4. Items(l) = {k \in Key : Found(l, k)}
  BY <1>2, <1>3, BucketAt DEF Items, Found
<1>5. IsFiniteSet(Items(l))
  BY <1>4, KeyAssumption, FS_Subset, Zenon
<1> QED BY <1>2, <1>4, <1>5, Zenon

-----------------------------------------------------------------------------
(* Splitting and joining buckets, on the array alone. *)

\* What expand and contract do to the array, as relations of old and new array.
Holds(b) == UNION {b[j] : j \in DOMAIN b}

IsSplit(b, c, m, p) ==
  \E moved \in SUBSET b[p] :
    /\ \A k \in b[p] : k \in moved <=> Hash[k] % (2 * m) # p
    /\ c = [b EXCEPT ![p] = @ \ moved, ![p + m] = moved]

IsJoined(b, c, m, p) ==
  c = [[b EXCEPT ![p + m] = {}] EXCEPT ![p] = @ \cup b[p + m]]

IsDoubled(b, c, m) ==
  c = [j \in 0..(2 * (2 * m) - 1) |-> IF j < 2 * m THEN b[j] ELSE {}]

IsHalved(b, c, y) == c = [j \in 0..(2 * y - 1) |-> b[j]]

\* A split leaves every node where the next p looks for it, and loses none.
LEMMA SplitPlaced ==
  ASSUME NEW m \in Nat, m > 0, NEW p \in 0..(m - 1), NEW b, PlacedIn(b, m, p),
         NEW c, IsSplit(b, c, m, p)
  PROVE  PlacedIn(c, m, p + 1) /\ Holds(c) = Holds(b)
<1>0. PICK moved \in SUBSET b[p] :
        /\ \A k \in b[p] : k \in moved <=> Hash[k] % (2 * m) # p
        /\ c = [b EXCEPT ![p] = @ \ moved, ![p + m] = moved]
  BY Zenon DEF IsSplit
<1>1. p \in 0..(2 * m - 1) /\ p + m \in 0..(2 * m - 1) /\ p # p + m
  OBVIOUS
<1>2. b \in [0..(2 * m - 1) -> SUBSET Key] /\ moved \subseteq b[p]
  BY Zenon DEF PlacedIn
<1>3. /\ c \in [0..(2 * m - 1) -> SUBSET Key]
      /\ c[p] = b[p] \ moved
      /\ c[p + m] = moved
      /\ \A j \in 0..(2 * m - 1) : j # p /\ j # p + m => c[j] = b[j]
  BY <1>0, <1>1, <1>2, Zenon
<1>4. \A k \in Key : Hash[k] \in Nat
  BY KeyAssumption, Zenon
<1>5. b[p + m] = {}
  <2> SUFFICES ASSUME NEW k \in b[p + m] PROVE FALSE
    BY Zenon
  <2>1. At(Hash[k], m, p) = p + m /\ k \in Key
    BY <1>1, <1>2, Zenon DEF PlacedIn
  <2>2. At(Hash[k], m, p) \in 0..(m + p - 1)
    <3>1. p \in 0..m
      OBVIOUS
    <3> QED BY <3>1, <2>1, <1>4, AtRange, Zenon
  <2> QED BY <2>1, <2>2
<1>6. ASSUME NEW j \in 0..(2 * m - 1), NEW k \in c[j]
      PROVE  At(Hash[k], m, p + 1) = j
  <2>1. k \in Key /\ Hash[k] \in Nat
    BY <1>3, <1>4, <1>6, Zenon
  <2>2. CASE j = p
    <3>1. k \in b[p] /\ Hash[k] % (2 * m) = p
      BY <2>2, <1>0, <1>3, <1>6, Zenon
    <3>2. At(Hash[k], m, p) = p
      BY <3>1, <1>1, Zenon DEF PlacedIn
    <3> QED BY <3>1, <3>2, <2>1, <2>2, AtSplit, Zenon
  <2>3. CASE j = p + m
    <3>1. k \in b[p] /\ Hash[k] % (2 * m) # p
      BY <2>3, <1>0, <1>3, <1>6, Zenon
    <3>2. At(Hash[k], m, p) = p
      BY <3>1, <1>1, Zenon DEF PlacedIn
    <3> QED BY <3>1, <3>2, <2>1, <2>3, AtSplit
  <2>4. CASE j # p /\ j # p + m
    <3>1. k \in b[j]
      BY <2>4, <1>3, <1>6, Zenon
    <3>2. At(Hash[k], m, p) = j
      BY <3>1, Zenon DEF PlacedIn
    <3> QED BY <3>2, <2>1, <2>4, AtSplit, Zenon
  <2> QED BY <2>2, <2>3, <2>4, Zenon
<1>7. Holds(c) = Holds(b)
  <2>1. DOMAIN b = 0..(2 * m - 1) /\ DOMAIN c = 0..(2 * m - 1)
    BY <1>2, <1>3, Zenon
  <2>2. ASSUME NEW k \in Holds(c) PROVE k \in Holds(b)
    <3>1. PICK j \in 0..(2 * m - 1) : k \in c[j]
      BY <2>1, <2>2, Zenon DEF Holds
    <3>2. \E i \in 0..(2 * m - 1) : k \in b[i]
      BY <3>1, <1>1, <1>2, <1>3, Zenon
    <3> QED BY <3>2, <2>1, Zenon DEF Holds
  <2>3. ASSUME NEW k \in Holds(b) PROVE k \in Holds(c)
    <3>1. PICK j \in 0..(2 * m - 1) : k \in b[j]
      BY <2>1, <2>3, Zenon DEF Holds
    <3>2. \E i \in 0..(2 * m - 1) : k \in c[i]
      BY <3>1, <1>1, <1>2, <1>3, <1>5, Zenon
    <3> QED BY <3>2, <2>1, Zenon DEF Holds
  <2> QED BY <2>2, <2>3, Zenon
<1> QED BY <1>3, <1>6, <1>7, Zenon DEF PlacedIn

\* So does a join.
LEMMA JoinPlaced ==
  ASSUME NEW m \in Nat, m > 0, NEW p \in 0..(m - 1), NEW b, PlacedIn(b, m, p + 1),
         NEW c, IsJoined(b, c, m, p)
  PROVE  PlacedIn(c, m, p) /\ Holds(c) = Holds(b)
<1>1. p \in 0..(2 * m - 1) /\ p + m \in 0..(2 * m - 1) /\ p # p + m
  OBVIOUS
<1>2. b \in [0..(2 * m - 1) -> SUBSET Key]
  BY Zenon DEF PlacedIn
<1>3. /\ c \in [0..(2 * m - 1) -> SUBSET Key]
      /\ c[p] = b[p] \cup b[p + m]
      /\ c[p + m] = {}
      /\ \A j \in 0..(2 * m - 1) : j # p /\ j # p + m => c[j] = b[j]
  <2>0. PICK cut : cut = [b EXCEPT ![p + m] = {}]
    BY Zenon
  <2>1. /\ cut \in [0..(2 * m - 1) -> SUBSET Key]
        /\ cut[p] = b[p]
        /\ cut[p + m] = {}
        /\ \A j \in 0..(2 * m - 1) : j # p /\ j # p + m => cut[j] = b[j]
    BY <2>0, <1>1, <1>2, Zenon
  <2>2. c = [cut EXCEPT ![p] = @ \cup b[p + m]]
    BY <2>0, Zenon DEF IsJoined
  <2> QED BY <2>1, <2>2, <1>1, <1>2, Zenon
<1>4. \A k \in Key : Hash[k] \in Nat
  BY KeyAssumption, Zenon
<1>5. ASSUME NEW j \in 0..(2 * m - 1), NEW k \in c[j]
      PROVE  At(Hash[k], m, p) = j
  <2>1. k \in Key /\ Hash[k] \in Nat
    BY <1>3, <1>4, <1>5, Zenon
  <2>2. CASE j = p
    <3>1. k \in b[p] \/ k \in b[p + m]
      BY <2>2, <1>3, <1>5, Zenon
    <3>2. At(Hash[k], m, p + 1) = p \/ At(Hash[k], m, p + 1) = p + m
      BY <3>1, <1>1, Zenon DEF PlacedIn
    <3> QED BY <3>2, <2>1, <2>2, AtSplit, Zenon
  <2>3. CASE j # p
    <3>1. k \in b[j] /\ j # p + m
      BY <2>3, <1>3, <1>5, Zenon
    <3>2. At(Hash[k], m, p + 1) = j
      BY <3>1, Zenon DEF PlacedIn
    <3> QED BY <3>1, <3>2, <2>1, AtSplit, Zenon
  <2> QED BY <2>2, <2>3, Zenon
<1>6. Holds(c) = Holds(b)
  <2>1. DOMAIN b = 0..(2 * m - 1) /\ DOMAIN c = 0..(2 * m - 1)
    BY <1>2, <1>3, Zenon
  <2>2. ASSUME NEW k \in Holds(c) PROVE k \in Holds(b)
    <3>1. PICK j \in 0..(2 * m - 1) : k \in c[j]
      BY <2>1, <2>2, Zenon DEF Holds
    <3>2. \E i \in 0..(2 * m - 1) : k \in b[i]
      BY <3>1, <1>1, <1>2, <1>3, Zenon
    <3> QED BY <3>2, <2>1, Zenon DEF Holds
  <2>3. ASSUME NEW k \in Holds(b) PROVE k \in Holds(c)
    <3>1. PICK j \in 0..(2 * m - 1) : k \in b[j]
      BY <2>1, <2>3, Zenon DEF Holds
    <3>2. \E i \in 0..(2 * m - 1) : k \in c[i]
      BY <3>1, <1>1, <1>2, <1>3, Zenon
    <3> QED BY <3>2, <2>1, Zenon DEF Holds
  <2> QED BY <2>2, <2>3, Zenon
<1> QED BY <1>3, <1>5, <1>6, Zenon DEF PlacedIn

\* Doubling the array changes no node's bucket.
LEMMA RoundUp ==
  ASSUME NEW m \in Nat, m > 0, NEW b, PlacedIn(b, m, m),
         NEW c, IsDoubled(b, c, m)
  PROVE  PlacedIn(c, 2 * m, 0) /\ Holds(c) = Holds(b)
<1>1. b \in [0..(2 * m - 1) -> SUBSET Key] /\ c \in [0..(2 * (2 * m) - 1) -> SUBSET Key]
  BY DEF PlacedIn, IsDoubled
<1>2. ASSUME NEW j \in 0..(2 * (2 * m) - 1), NEW k \in c[j]
      PROVE  At(Hash[k], 2 * m, 0) = j
  <2>1. j \in 0..(2 * m - 1) /\ k \in b[j]
    BY <1>2 DEF IsDoubled
  <2>2. k \in Key /\ Hash[k] \in Nat
    BY <2>1, <1>1, KeyAssumption, Zenon
  <2>3. At(Hash[k], m, m) = j
    BY <2>1, Zenon DEF PlacedIn
  <2> QED BY <2>2, <2>3, AtRound, Zenon
<1>3. Holds(c) = Holds(b)
  BY <1>1 DEF Holds, IsDoubled
<1> QED BY <1>1, <1>2, <1>3, Zenon DEF PlacedIn

\* Halving it, with its upper half empty, neither.
LEMMA RoundDown ==
  ASSUME NEW y \in Nat, y > 0, NEW b, PlacedIn(b, 2 * y, 0),
         NEW c, IsHalved(b, c, y)
  PROVE  PlacedIn(c, y, y) /\ Holds(c) = Holds(b)
<1>1. b \in [0..(2 * (2 * y) - 1) -> SUBSET Key]
  BY Zenon DEF PlacedIn
<1>2. \A j \in 0..(2 * y - 1) : j \in 0..(2 * (2 * y) - 1) /\ c[j] = b[j]
  BY DEF IsHalved
<1>3. c \in [0..(2 * y - 1) -> SUBSET Key]
  BY <1>1, <1>2, Zenon DEF IsHalved
<1>4. ASSUME NEW j \in 0..(2 * (2 * y) - 1), NEW k \in b[j]
      PROVE  At(Hash[k], y, y) = j /\ j \in 0..(2 * y - 1)
  <2>1. k \in Key /\ Hash[k] \in Nat
    BY <1>1, <1>4, KeyAssumption, Zenon
  <2>2. At(Hash[k], 2 * y, 0) = j
    BY <1>4, Zenon DEF PlacedIn
  <2>3. At(Hash[k], y, y) = j
    BY <2>1, <2>2, AtRound, Zenon
  <2>4. At(Hash[k], y, y) \in 0..(y + y - 1)
    <3>1. y \in 0..y
      OBVIOUS
    <3> QED BY <3>1, <2>1, AtRange, Zenon
  <2> QED BY <2>3, <2>4
<1>5. Holds(c) = Holds(b)
  BY <1>1, <1>2, <1>3, <1>4 DEF Holds
<1>6. \A j \in 0..(2 * y - 1) : \A k \in c[j] : At(Hash[k], y, y) = j
  BY <1>2, <1>4, Zenon
<1> QED BY <1>3, <1>5, <1>6, Zenon DEF PlacedIn

-----------------------------------------------------------------------------
(* expand and contract keep every item, and keep it where getrn looks. *)

\* No node is in a bucket that is not in use.
LEMMA ItemsHeld ==
  ASSUME NEW l, TableOK(l)
  PROVE  Items(l) = Holds(l.b)
<1>1. DOMAIN l.b = 0..(l.num_alloc_nodes - 1)
  BY Zenon DEF TableOK, PlacedIn
<1>2. 0..(l.num_nodes - 1) \subseteq 0..(l.num_alloc_nodes - 1)
  BY DEF TableOK, IsTable, Sizes
<1>3. \A j \in 0..(l.num_alloc_nodes - 1) : \A k \in l.b[j] : j \in 0..(l.num_nodes - 1)
  BY ItemsFound, BucketAt
<1> QED BY <1>1, <1>2, <1>3, Zenon DEF Items, Holds

\* expand keeps a table good and its items the same.
LEMMA ExpandOK ==
  ASSUME NEW l, TableOK(l)
  PROVE  /\ TableOK(expand(l, TRUE))
         /\ Items(expand(l, TRUE)) = Items(l)
         /\ expand(l, TRUE).num_items = l.num_items
         /\ expand(l, TRUE).down_load = l.down_load
         /\ expand(l, TRUE).num_nodes = l.num_nodes + 1
<1>1. PICK m \in Nat : m > 0 /\ m = l.pmax /\ m \in Sizes
  BY DEF TableOK, Sizes
<1>2. PICK p \in 0..(m - 1) : p = l.p
  BY <1>1 DEF TableOK, IsTable
<1>3. PICK b, n, d : b = l.b /\ n = l.num_items /\ d = l.down_load
  BY Zenon
<1>4. l = Mk(b, m + p, 2 * m, p, m, n, d) /\ n \in Int /\ d \in Nat
  BY <1>1, <1>2, <1>3, Zenon DEF TableOK, IsTable
<1>5. PICK moved : moved = {k \in l.b[l.p] : Hash[k] % l.num_alloc_nodes # l.p}
  BY Zenon
<1>6. PICK c : c = [l.b EXCEPT ![l.p] = @ \ moved, ![l.p + l.pmax] = moved]
  BY Zenon
<1>7. PlacedIn(b, m, p)
  BY <1>1, <1>2, <1>3, Zenon DEF TableOK
<1>8. PlacedIn(c, m, p + 1) /\ Holds(c) = Holds(b)
  <2>1. m > 0
    BY <1>1, Zenon
  <2>2. l.num_alloc_nodes = 2 * m
    BY <1>1, Zenon DEF TableOK
  <2>3. moved \in SUBSET b[p] /\ \A k \in b[p] : k \in moved <=> Hash[k] % (2 * m) # p
    BY <2>2, <1>2, <1>3, <1>5, Zenon
  <2>4. c = [b EXCEPT ![p] = @ \ moved, ![p + m] = moved]
    BY <1>1, <1>2, <1>3, <1>6, Zenon
  <2>5. IsSplit(b, c, m, p)
    BY <2>3, <2>4, Zenon DEF IsSplit
  <2> QED BY <2>1, <2>5, <1>7, SplitPlaced
<1>9. Split(l) = Mk(c, m + p + 1, 2 * m, p + 1, m, n, d)
  <2>1. Split(l) = [l EXCEPT !.b = c, !.num_nodes = @ + 1, !.p = @ + 1]
    <3> DEFINE mv == {k \in l.b[l.p] : Hash[k] % l.num_alloc_nodes # l.p}
    <3>1. Split(l) = [l EXCEPT !.b = [l.b EXCEPT ![l.p] = @ \ mv, ![l.p + l.pmax] = mv],
                               !.num_nodes = @ + 1, !.p = @ + 1]
      BY Zenon DEF Split
    <3>2. mv = moved
      BY <1>5, Zenon
    <3> HIDE DEF mv
    <3> QED BY <3>1, <3>2, <1>6, Zenon
  <2> QED BY <2>1, <1>4, Zenon DEF Mk
<1>10. CASE p + 1 < m
  <2>1. PICK s : s = Mk(c, m + p + 1, 2 * m, p + 1, m, n, d)
    BY Zenon
  <2>2. /\ s.b = c /\ s.num_nodes = m + p + 1 /\ s.num_alloc_nodes = 2 * m
        /\ s.p = p + 1 /\ s.pmax = m /\ s.num_items = n /\ s.down_load = d
    BY <2>1, Zenon DEF Mk
  <2>3. expand(l, TRUE) = s
    BY <2>1, <2>2, <1>9, <1>10, Zenon DEF expand
  <2>4. TableOK(s)
    <3>1. IsTable(s)
      BY <2>1, <2>2, <1>4 DEF IsTable
    <3>2. PlacedIn(s.b, s.pmax, s.p)
      BY <2>2, <1>8, Zenon
    <3>3. m + p + 1 = m + (p + 1)
      OBVIOUS
    <3> QED BY <3>1, <3>2, <3>3, <2>2, <1>1, <1>10, Zenon DEF TableOK
  <2>5. Items(s) = Items(l)
    BY <2>2, <2>4, <1>3, <1>8, ItemsHeld, Zenon
  <2> QED BY <2>2, <2>3, <2>4, <2>5, <1>1, <1>2, <1>3, Zenon DEF TableOK
<1>11. CASE p + 1 = m
  <2>1. PICK e : e = [j \in 0..(2 * (2 * m) - 1) |-> IF j < 2 * m THEN c[j] ELSE {}]
    BY Zenon
  <2>2. PlacedIn(e, 2 * m, 0) /\ Holds(e) = Holds(c)
    <3>1. m > 0 /\ PlacedIn(c, m, m)
      BY <1>1, <1>8, <1>11, Zenon
    <3>2. IsDoubled(c, e, m)
      BY <2>1, Zenon DEF IsDoubled
    <3> QED BY <3>1, <3>2, RoundUp, Zenon
  <2>3. PICK s : s = Mk(e, m + p + 1, 2 * (2 * m), 0, 2 * m, n, d)
    BY Zenon
  <2>4. /\ s.b = e /\ s.num_nodes = m + p + 1 /\ s.num_alloc_nodes = 2 * (2 * m)
        /\ s.p = 0 /\ s.pmax = 2 * m /\ s.num_items = n /\ s.down_load = d
    BY <2>3, Zenon DEF Mk
  <2>5. PICK t : t = Mk(c, m + p + 1, 2 * m, p + 1, m, n, d)
    BY Zenon
  <2>6. /\ t.b = c /\ t.num_nodes = m + p + 1 /\ t.num_alloc_nodes = 2 * m
        /\ t.p = p + 1 /\ t.pmax = m /\ t.num_items = n /\ t.down_load = d
    BY <2>5, Zenon DEF Mk
  <2>7. expand(l, TRUE) = Doubled(t)
    BY <2>5, <2>6, <1>9, <1>11 DEF expand
  <2>8. Doubled(t) = s
    <3>1. [j \in 0..(2 * t.num_alloc_nodes - 1) |->
             IF j < t.num_alloc_nodes THEN t.b[j] ELSE {}] = e
      BY <2>1, <2>6, Zenon
    <3>2. Doubled(t) = [t EXCEPT !.b = e, !.pmax = t.num_alloc_nodes,
                                 !.num_alloc_nodes = 2 * @, !.p = 0]
      BY <3>1, Zenon DEF Doubled
    <3> QED BY <3>2, <2>3, <2>5, <2>6, ZenonT(60) DEF Mk
  <2>9. 2 * m \in Sizes
    BY <1>1, SizesClosed, Zenon
  <2>10. TableOK(s)
    <3>1. IsTable(s)
      BY <2>3, <2>4, <1>4 DEF IsTable
    <3>2. PlacedIn(s.b, s.pmax, s.p)
      BY <2>2, <2>4, Zenon
    <3>3. m + p + 1 = 2 * m + 0 /\ 0 < 2 * m
      BY <1>1, <1>11
    <3> QED BY <3>1, <3>2, <3>3, <2>4, <2>9, Zenon DEF TableOK
  <2>11. Items(s) = Items(l)
    BY <2>2, <2>4, <2>10, <1>3, <1>8, ItemsHeld, Zenon
  <2>12. expand(l, TRUE) = s
    BY <2>7, <2>8, Zenon
  <2>13. s.num_nodes = l.num_nodes + 1
    BY <2>4, <1>1, <1>2, Zenon DEF TableOK
  <2> QED BY <2>4, <2>10, <2>11, <2>12, <2>13, <1>3, Zenon
<1>12. p + 1 < m \/ p + 1 = m
  OBVIOUS
<1> QED BY <1>10, <1>11, <1>12, Zenon

\* A join only ever moves items to lower buckets.
LEMMA AtJoin ==
  ASSUME NEW h \in Nat, NEW m \in Nat, m > 0, NEW p \in 0..(m - 1)
  PROVE  At(h, m, p) <= At(h, m, p + 1)
<1>1. PICK x \in Int : x = At(h, m, p) /\ x \in 0..(m + p - 1)
  <2>1. p \in 0..m
    OBVIOUS
  <2> QED BY <2>1, AtRange
<1>2. PICK y \in Int : y = At(h, m, p + 1) /\ y \in 0..(m + (p + 1) - 1)
  <2>1. p + 1 \in 0..m
    OBVIOUS
  <2> QED BY <2>1, AtRange
<1>3. (y = p + m => x = p) /\ (y # p + m => x = y)
  BY <1>1, <1>2, AtSplit, Zenon
<1> QED BY <1>1, <1>2, <1>3

\* contract keeps a table good and its items the same, and moves items down only.
LEMMA ContractOK ==
  ASSUME NEW l, TableOK(l), l.num_nodes > MIN_NODES
  PROVE  /\ TableOK(contract(l, TRUE))
         /\ Items(contract(l, TRUE)) = Items(l)
         /\ contract(l, TRUE).num_items = l.num_items
         /\ contract(l, TRUE).down_load = l.down_load
         /\ contract(l, TRUE).num_nodes = l.num_nodes - 1
         /\ \A k \in Key : Bucket(contract(l, TRUE), k) <= Bucket(l, k)
<1>1. PICK m \in Nat : m > 0 /\ m = l.pmax /\ m \in Sizes
  BY DEF TableOK, Sizes
<1>2. PICK p \in 0..(m - 1) : p = l.p
  BY <1>1 DEF TableOK, IsTable
<1>3. PICK b, n, d : b = l.b /\ n = l.num_items /\ d = l.down_load
  BY Zenon
<1>4. l = Mk(b, m + p, 2 * m, p, m, n, d) /\ n \in Int /\ d \in Nat
  BY <1>1, <1>2, <1>3, Zenon DEF TableOK, IsTable
<1>5. PlacedIn(b, m, p) /\ b \in [0..(2 * m - 1) -> SUBSET Key] /\ l.num_nodes = m + p
  BY <1>1, <1>2, <1>3, Zenon DEF TableOK, PlacedIn
<1>6. PICK top \in 0..(2 * m - 1) : top = p + m - 1
  BY <1>1
<1>7. PICK cb : cb = [b EXCEPT ![top] = {}]
  BY Zenon
<1>8. PICK cut : cut = Mk(cb, m + p, 2 * m, p, m, n, d)
  BY Zenon
<1>9. /\ cut.b = cb /\ cut.num_nodes = m + p /\ cut.num_alloc_nodes = 2 * m
      /\ cut.p = p /\ cut.pmax = m /\ cut.num_items = n /\ cut.down_load = d
  BY <1>8, Zenon DEF Mk
<1>10. PICK s : s = Shrunk(cut)
  BY Zenon
<1>15. PICK z \in Nat : z = (m + p) - 1
  BY <1>1
<1>11. contract(l, TRUE) = [s EXCEPT !.num_nodes = @ - 1,
                                     !.b = [s.b EXCEPT ![s.p] = @ \cup b[top]]]
  <2>1. [l EXCEPT !.b = [l.b EXCEPT ![l.p + l.pmax - 1] = {}]] = cut
    <3>1. l.p + l.pmax - 1 = top
      BY <1>1, <1>2, <1>6, Zenon
    <3>2. [l.b EXCEPT ![l.p + l.pmax - 1] = {}] = cb
      BY <3>1, <1>3, <1>7, Zenon
    <3>3. [l EXCEPT !.b = cb] = cut
      BY <1>4, <1>8 DEF Mk
    <3> QED BY <3>2, <3>3, Zenon
  <2>2. l.b[l.p + l.pmax - 1] = b[top]
    BY <1>1, <1>2, <1>3, <1>6, Zenon
  <2> QED BY <2>1, <2>2, <1>10, Zenon DEF contract
<1>12. ASSUME NEW y \in Nat, y > 0, y \in Sizes, NEW q \in 0..(y - 1),
              NEW c, PlacedIn(c, y, q), Holds(c) = Holds(b),
              z = y + q,
              \A k \in Key : At(Hash[k], y, q) <= At(Hash[k], m, p),
              contract(l, TRUE) = Mk(c, z, 2 * y, q, y, n, d)
       PROVE  /\ TableOK(contract(l, TRUE))
              /\ Items(contract(l, TRUE)) = Items(l)
              /\ contract(l, TRUE).num_items = l.num_items
              /\ contract(l, TRUE).down_load = l.down_load
              /\ contract(l, TRUE).num_nodes = l.num_nodes - 1
              /\ \A k \in Key : Bucket(contract(l, TRUE), k) <= Bucket(l, k)
  <2>1. PICK t : t = contract(l, TRUE)
    BY Zenon
  <2>2. /\ t.b = c /\ t.num_nodes = z /\ t.num_alloc_nodes = 2 * y
        /\ t.p = q /\ t.pmax = y /\ t.num_items = n /\ t.down_load = d
    <3>1. t = Mk(c, z, 2 * y, q, y, n, d)
      BY <2>1, <1>12, Zenon
    <3> QED BY <3>1, Zenon DEF Mk
  <2>3. TableOK(t)
    <3>1. IsTable(t)
      <4>1. t = Mk(c, z, 2 * y, q, y, n, d)
        BY <2>1, <1>12, Zenon
      <4> QED BY <4>1, <2>2, <1>4 DEF IsTable
    <3>2. PlacedIn(t.b, t.pmax, t.p)
      BY <2>2, <1>12, Zenon
    <3> QED BY <3>1, <3>2, <2>2, <1>12 DEF TableOK
  <2>4. Items(t) = Items(l)
    BY <2>2, <2>3, <1>3, <1>12, ItemsHeld, Zenon
  <2>5. \A k \in Key : Bucket(t, k) <= Bucket(l, k)
    BY <2>2, <2>3, <1>1, <1>2, <1>12, BucketAt, Zenon
  <2>6. t.num_nodes = l.num_nodes - 1
    BY <2>2, <1>5, <1>15, Zenon
  <2> QED BY <2>1, <2>2, <2>3, <2>4, <2>5, <2>6, <1>3, Zenon
<1>13. CASE p > 0
  <2>1. PICK q \in 0..(m - 1) : q = p - 1
    BY <1>13
  <2>2. top = q + m /\ p = q + 1
    BY <2>1, <1>6
  <2>3. PICK c : c = [cb EXCEPT ![q] = @ \cup b[top]]
    BY Zenon
  <2>4. IsJoined(b, c, m, q)
    BY <2>2, <2>3, <1>7, Zenon DEF IsJoined
  <2>5. PlacedIn(c, m, q) /\ Holds(c) = Holds(b)
    <3>1. m > 0 /\ PlacedIn(b, m, q + 1)
      BY <2>2, <1>1, <1>5, Zenon
    <3> QED BY <3>1, <2>4, JoinPlaced
  <2>6. s = Mk(cb, m + p, 2 * m, q, m, n, d)
    BY <2>1, <1>8, <1>9, <1>10, <1>13 DEF Shrunk, Mk
  <2>7. contract(l, TRUE) = Mk(c, z, 2 * m, q, m, n, d)
    <3>1. s.b = cb /\ s.p = q
      BY <2>6, Zenon DEF Mk
    <3>2. contract(l, TRUE) = [s EXCEPT !.num_nodes = @ - 1, !.b = c]
      BY <3>1, <2>3, <1>11, Zenon
    <3> QED BY <3>2, <2>6, <1>15, Zenon DEF Mk
  <2>8. \A k \in Key : At(Hash[k], m, q) <= At(Hash[k], m, p)
    BY <2>2, <1>1, AtJoin, KeyAssumption, Zenon
  <2>9. z = m + q
    BY <2>1, <1>15
  <2> QED BY <2>5, <2>7, <2>8, <2>9, <1>1, <1>12, Zenon
<1>14. CASE p = 0
  <2>1. m # Half
    BY <1>5, <1>14, HalfFact
  <2>2. PICK y \in Nat : y > 0 /\ y \in Sizes /\ m = 2 * y
    BY <2>1, <1>1, SizesHalve DEF Sizes
  <2>3. PICK q \in 0..(y - 1) : q = y - 1
    BY <2>2
  <2>4. top = q + y /\ y = q + 1 /\ top \in 0..(m - 1)
    BY <2>2, <2>3, <1>6, <1>14
  <2>5. PICK h : h = [j \in 0..(2 * y - 1) |-> b[j]]
    BY Zenon
  <2>6. PlacedIn(h, y, y) /\ Holds(h) = Holds(b)
    <3>1. IsHalved(b, h, y)
      BY <2>5, Zenon DEF IsHalved
    <3>2. PlacedIn(b, 2 * y, 0)
      BY <2>2, <1>5, <1>14, Zenon
    <3> QED BY <3>1, <3>2, <2>2, RoundDown, Zenon
  <2>7. PICK hb : hb = [j \in 0..(m - 1) |-> cb[j]]
    BY Zenon
  <2>8. hb = [h EXCEPT ![top] = {}]
    <3>1. DOMAIN h = 0..(m - 1) /\ DOMAIN hb = 0..(m - 1)
      BY <2>2, <2>5, <2>7, Zenon
    <3>2. ASSUME NEW j \in 0..(m - 1)
          PROVE  hb[j] = IF j = top THEN {} ELSE h[j]
      <4>1. j \in 0..(2 * m - 1) /\ j \in 0..(2 * y - 1)
        BY <2>2
      <4>2. hb[j] = cb[j] /\ h[j] = b[j]
        BY <4>1, <2>5, <2>7, Zenon
      <4> QED BY <4>1, <4>2, <1>5, <1>7, Zenon
    <3> QED BY <3>1, <3>2, <2>4, <2>5, <2>7, Zenon
  <2>9. PICK c : c = [hb EXCEPT ![q] = @ \cup b[top]]
    BY Zenon
  <2>10. h[top] = b[top]
    BY <2>2, <2>4, <2>5, Zenon
  <2>11. IsJoined(h, c, y, q)
    BY <2>4, <2>8, <2>9, <2>10, Zenon DEF IsJoined
  <2>12. PlacedIn(c, y, q) /\ Holds(c) = Holds(b)
    BY <2>2, <2>4, <2>6, <2>11, JoinPlaced
  <2>13. s = Mk(hb, m + p, m, q, y, n, d)
    <3>1. [j \in 0..(cut.pmax - 1) |-> cut.b[j]] = hb
      BY <2>7, <1>9, Zenon
    <3>2. (2 * m) \div 2 = m /\ m \div 2 = y
      BY <2>2
    <3>3. s = [cut EXCEPT !.b = hb, !.num_alloc_nodes = (2 * m) \div 2,
                          !.pmax = m \div 2, !.p = (m \div 2) - 1]
      BY <3>1, <1>9, <1>10, <1>14, Zenon DEF Shrunk
    <3> QED BY <3>2, <3>3, <2>3, <1>8, Zenon DEF Mk
  <2>14. contract(l, TRUE) = Mk(c, z, 2 * y, q, y, n, d)
    <3>1. s.b = hb /\ s.p = q
      BY <2>13, Zenon DEF Mk
    <3>2. contract(l, TRUE) = [s EXCEPT !.num_nodes = @ - 1, !.b = c]
      BY <3>1, <2>9, <1>11, Zenon
    <3> QED BY <3>2, <2>2, <2>13, <1>15, Zenon DEF Mk
  <2>15. \A k \in Key : At(Hash[k], y, q) <= At(Hash[k], m, p)
    <3> SUFFICES ASSUME NEW k \in Key PROVE At(Hash[k], y, q) <= At(Hash[k], m, p)
      BY Zenon
    <3>1. Hash[k] \in Nat
      BY KeyAssumption, Zenon
    <3>2. At(Hash[k], y, y) = At(Hash[k], m, p)
      BY <3>1, <2>2, <1>14, AtRound, Zenon
    <3>3. At(Hash[k], y, q) <= At(Hash[k], y, q + 1)
      BY <3>1, <2>2, AtJoin, Zenon
    <3> QED BY <3>2, <3>3, <2>4, Zenon
  <2>16. z = y + q
    BY <2>2, <2>3, <1>14, <1>15
  <2> QED BY <2>2, <2>12, <2>14, <2>15, <2>16, <1>12, Zenon
<1>16. p > 0 \/ p = 0
  OBVIOUS
<1> QED BY <1>13, <1>14, <1>16, Zenon

-----------------------------------------------------------------------------
(* Adding and removing a node. *)

\* num_items is exact.
Counted(l) == l.num_items = Cardinality(Items(l))

Put(l, i, X, n) == [l EXCEPT !.b = [l.b EXCEPT ![i] = X], !.num_items = n]

Fits(l, i, X) == X \in SUBSET Key /\ \A k \in X : Bucket(l, k) = i

\* Replacing the chain of one bucket by nodes that belong there.
LEMMA PutOK ==
  ASSUME NEW l, TableOK(l), NEW i \in 0..(l.num_alloc_nodes - 1),
         NEW X, Fits(l, i, X), NEW n \in Int,
         NEW w, w = Put(l, i, X, n)
  PROVE  /\ TableOK(w)
         /\ w.num_items = n /\ w.down_load = l.down_load /\ w.num_nodes = l.num_nodes
         /\ w.b[i] = X
         /\ \A j \in 0..(l.num_alloc_nodes - 1) : j # i => w.b[j] = l.b[j]
         /\ \A k \in Key : Bucket(w, k) = Bucket(l, k)
<1>1. PICK c : c = [l.b EXCEPT ![i] = X]
  BY Zenon
<1>2. w = Mk(c, l.num_nodes, l.num_alloc_nodes, l.p, l.pmax, n, l.down_load)
  <2>1. l = Mk(l.b, l.num_nodes, l.num_alloc_nodes, l.p, l.pmax, l.num_items, l.down_load)
    BY Zenon DEF TableOK, IsTable
  <2>2. w = [l EXCEPT !.b = c, !.num_items = n]
    BY <1>1, Zenon DEF Put
  <2> QED BY <2>1, <2>2, Zenon DEF Mk
<1>3. /\ w.b = c /\ w.num_nodes = l.num_nodes /\ w.num_alloc_nodes = l.num_alloc_nodes
      /\ w.p = l.p /\ w.pmax = l.pmax /\ w.num_items = n /\ w.down_load = l.down_load
  BY <1>2, MkFields
<1>4. l.b \in [0..(l.num_alloc_nodes - 1) -> SUBSET Key]
  BY Zenon DEF TableOK, PlacedIn
<1>5. /\ c \in [0..(l.num_alloc_nodes - 1) -> SUBSET Key] /\ c[i] = X
      /\ \A j \in 0..(l.num_alloc_nodes - 1) : j # i => c[j] = l.b[j]
  BY <1>1, <1>4, ZenonT(60) DEF Fits
<1>6. \A k \in Key : Bucket(w, k) = Bucket(l, k)
  BY <1>3, Zenon DEF Bucket
<1>7. ASSUME NEW j \in 0..(l.num_alloc_nodes - 1), NEW k \in c[j]
      PROVE  At(Hash[k], l.pmax, l.p) = j
  <2>1. k \in Key
    BY <1>5, <1>7, Zenon
  <2>2. Bucket(l, k) = j
    BY <1>5, <1>7, ItemsFound, Zenon DEF Fits
  <2> QED BY <2>1, <2>2, BucketAt, Zenon
<1>8. l.num_alloc_nodes = 2 * l.pmax
  BY Zenon DEF TableOK
<1>9. PlacedIn(c, l.pmax, l.p)
  BY <1>5, <1>7, <1>8, Zenon DEF PlacedIn
<1>10. IsTable(w)
  BY <1>2, <1>3, Zenon DEF TableOK, IsTable
<1>11. TableOK(w)
  BY <1>3, <1>9, <1>10, Zenon DEF TableOK
<1> QED BY <1>3, <1>5, <1>6, <1>11, Zenon

\* A node is appended.
LEMMA WithNodeOK ==
  ASSUME NEW l, TableOK(l), NEW k \in Key, ~Found(l, k)
  PROVE  /\ TableOK(WithNode(l, k))
         /\ Items(WithNode(l, k)) = Items(l) \cup {k}
         /\ Counted(l) => Counted(WithNode(l, k))
         /\ WithNode(l, k).num_nodes = l.num_nodes
         /\ WithNode(l, k).down_load = l.down_load
<1>1. PICK i \in 0..(l.num_alloc_nodes - 1) : i = Bucket(l, k)
  BY BucketAt, Zenon
<1>2. PICK w : w = WithNode(l, k)
  BY Zenon
<1>3. PICK X : X = l.b[i] \cup {k}
  BY ZenonT(60)
<1>4. PICK n \in Int : n = l.num_items + 1
  BY DEF TableOK, IsTable
<1>5. w = Put(l, i, X, n)
  BY <1>1, <1>2, <1>3, <1>4, Zenon DEF WithNode, Put
<1>6. Fits(l, i, X)
  BY <1>1, <1>3, ItemsFound, Zenon DEF Fits
<1>7. /\ TableOK(w) /\ w.num_items = n
      /\ w.down_load = l.down_load /\ w.num_nodes = l.num_nodes
      /\ w.b[i] = X
      /\ \A j \in 0..(l.num_alloc_nodes - 1) : j # i => w.b[j] = l.b[j]
      /\ \A x \in Key : Bucket(w, x) = Bucket(l, x)
  BY <1>5, <1>6, PutOK
<1>8. \A x \in Key : Bucket(l, x) \in 0..(l.num_alloc_nodes - 1)
  BY BucketAt, Zenon
<1>9. Items(w) = Items(l) \cup {k}
  BY <1>1, <1>3, <1>7, <1>8, ItemsFound DEF Found
<1>10. k \notin Items(l) /\ IsFiniteSet(Items(l))
  BY ItemsFound, Zenon
<1>11. Cardinality(Items(w)) = Cardinality(Items(l)) + 1
  BY <1>9, <1>10, FS_AddElement, Zenon
<1> QED BY <1>2, <1>4, <1>7, <1>9, <1>11, Zenon DEF Counted

\* A node is unlinked.
LEMMA WithoutNodeOK ==
  ASSUME NEW l, TableOK(l), NEW k \in Items(l)
  PROVE  /\ TableOK(WithoutNode(l, k))
         /\ Items(WithoutNode(l, k)) = Items(l) \ {k}
         /\ Counted(l) => Counted(WithoutNode(l, k))
         /\ WithoutNode(l, k).num_items = l.num_items - 1
         /\ WithoutNode(l, k).num_nodes = l.num_nodes
         /\ WithoutNode(l, k).down_load = l.down_load
         /\ \A x \in Key : Bucket(WithoutNode(l, k), x) = Bucket(l, x)
<1>0. k \in Key
  BY ItemsFound, Zenon
<1>1. PICK i \in 0..(l.num_alloc_nodes - 1) : i = Bucket(l, k)
  BY <1>0, BucketAt, Zenon
<1>2. PICK w : w = WithoutNode(l, k)
  BY Zenon
<1>3. PICK X : X = l.b[i] \ {k}
  BY Zenon
<1>4. PICK n \in Int : n = l.num_items - 1
  BY DEF TableOK, IsTable
<1>5. w = Put(l, i, X, n)
  BY <1>1, <1>2, <1>3, <1>4, Zenon DEF WithoutNode, Put
<1>6. Fits(l, i, X)
  BY <1>1, <1>3, ItemsFound, Zenon DEF Fits
<1>7. /\ TableOK(w) /\ w.num_items = n
      /\ w.down_load = l.down_load /\ w.num_nodes = l.num_nodes
      /\ w.b[i] = X
      /\ \A j \in 0..(l.num_alloc_nodes - 1) : j # i => w.b[j] = l.b[j]
      /\ \A x \in Key : Bucket(w, x) = Bucket(l, x)
  BY <1>5, <1>6, PutOK
<1>8. \A x \in Key : Bucket(l, x) \in 0..(l.num_alloc_nodes - 1)
  BY BucketAt, Zenon
<1>9. Items(w) = Items(l) \ {k}
  BY <1>1, <1>3, <1>7, <1>8, ItemsFound DEF Found
<1>10. IsFiniteSet(Items(l))
  BY ItemsFound, Zenon
<1>11. Cardinality(Items(w)) = Cardinality(Items(l)) - 1
  BY <1>9, <1>10, FS_RemoveElement, Zenon
<1> QED BY <1>2, <1>4, <1>7, <1>9, <1>11, Zenon DEF Counted

\* A table that holds k is not empty.
LEMMA CountedPositive ==
  ASSUME NEW l, TableOK(l), Counted(l)
  PROVE  l.num_items \in Nat /\ (Items(l) # {} => l.num_items > 0)
<1>1. IsFiniteSet(Items(l))
  BY ItemsFound, Zenon
<1>2. Cardinality(Items(l)) \in Nat
  BY <1>1, FS_CardinalityType, Zenon
<1>3. Cardinality(Items(l)) = 0 <=> Items(l) = {}
  BY <1>1, FS_EmptySet, Zenon
<1> QED BY <1>2, <1>3 DEF Counted

\* The table lh_insert searches.
LEMMA GrownOK ==
  ASSUME NEW l, TableOK(l)
  PROVE  /\ TableOK(Grown(l, TRUE))
         /\ Items(Grown(l, TRUE)) = Items(l)
         /\ Counted(l) => Counted(Grown(l, TRUE))
         /\ Grown(l, TRUE).down_load = l.down_load
         /\ Grown(l, TRUE).num_nodes = IF UP_LOAD <= Load(l) THEN l.num_nodes + 1
                                       ELSE l.num_nodes
BY ExpandOK, Zenon DEF Grown, Counted

\* A table and what lh_delete leaves of it, as a relation.
IsDeleted(l, k, e) ==
  /\ TableOK(e)
  /\ Items(e) = Items(l) \ {k}
  /\ Counted(l) => Counted(e)
  /\ e.num_items = l.num_items - 1
  /\ e.down_load = l.down_load
  /\ \A x \in Key : Bucket(e, x) <= Bucket(l, x)
  /\ \/ /\ e.num_nodes = l.num_nodes
        /\ \A x \in Key : Bucket(e, x) = Bucket(l, x)
     \/ /\ e.num_nodes = l.num_nodes - 1
        /\ l.down_load >= (e.num_items * LH_LOAD_MULT) \div l.num_nodes

\* The table lh_delete leaves, whether it contracts it or not.
LEMMA DeletedOK ==
  ASSUME NEW l, TableOK(l), NEW k \in Items(l), NEW e, e = Deleted(l, k, TRUE)
  PROVE  IsDeleted(l, k, e)
<1>1. PICK d : d = WithoutNode(l, k)
  BY Zenon
<1>2. /\ TableOK(d) /\ Items(d) = Items(l) \ {k} /\ (Counted(l) => Counted(d))
      /\ d.num_items = l.num_items - 1
      /\ d.num_nodes = l.num_nodes /\ d.down_load = l.down_load
      /\ \A x \in Key : Bucket(d, x) = Bucket(l, x)
  BY <1>1, WithoutNodeOK, Zenon
<1>3. CASE MustContract(d)
  <2>1. e = contract(d, TRUE)
    BY <1>1, <1>3, Zenon DEF Deleted
  <2>2. d.num_nodes > MIN_NODES /\ l.down_load >= (d.num_items * LH_LOAD_MULT) \div l.num_nodes
    BY <1>2, <1>3, Zenon DEF MustContract, Load
  <2>3. /\ TableOK(e) /\ Items(e) = Items(d) /\ e.num_items = d.num_items
        /\ e.down_load = d.down_load /\ e.num_nodes = d.num_nodes - 1
        /\ \A x \in Key : Bucket(e, x) <= Bucket(d, x)
    BY <2>1, <2>2, <1>2, ContractOK, Zenon
  <2>4. \A x \in Key : Bucket(e, x) <= Bucket(l, x)
    BY <2>3, <1>2, Zenon
  <2>5. (Counted(l) => Counted(e)) /\ Items(e) = Items(l) \ {k} /\ e.num_items = l.num_items - 1
    BY <2>3, <1>2, Zenon DEF Counted
  <2>6. /\ e.num_nodes = l.num_nodes - 1 /\ e.down_load = l.down_load
        /\ l.down_load >= (e.num_items * LH_LOAD_MULT) \div l.num_nodes
    BY <2>2, <2>3, <1>2, Zenon
  <2> QED BY <2>3, <2>4, <2>5, <2>6, Zenon DEF IsDeleted
<1>4. CASE ~MustContract(d)
  <2>1. e = d
    BY <1>1, <1>4, Zenon DEF Deleted
  <2>2. \A x \in Key : Bucket(l, x) \in Int
    BY BucketAt
  <2>3. \A x \in Key : Bucket(e, x) = Bucket(l, x) /\ Bucket(e, x) <= Bucket(l, x)
    <3> TAKE x \in Key
    <3>1. PICK v \in Int : v = Bucket(l, x)
      BY <2>2, Zenon
    <3>2. Bucket(e, x) = Bucket(l, x)
      BY <2>1, <1>2, Zenon
    <3>3. v <= v
      OBVIOUS
    <3> QED BY <3>1, <3>2, <3>3, Zenon
  <2> QED BY <2>1, <2>3, <1>2, Zenon DEF IsDeleted
<1> QED BY <1>3, <1>4, Zenon

-----------------------------------------------------------------------------
(* The table as a map: for all sizes and all callbacks, as long as           *)
(* reallocarray does not fail.                                               *)

\* The inductive invariant of the table.
TableInv ==
  /\ TableOK(lh)
  /\ Counted(lh)
  /\ lh.num_nodes <= MaxNodes
  /\ lh.down_load \in {0, DOWN_LOAD}
  /\ data \in [Key -> Val \cup {NULL}]
  /\ last.ret \in Val \cup {NULL}

\* The table with another down_load is the same table.
LEMMA LoadOnly ==
  ASSUME NEW l, TableOK(l), Counted(l), NEW d \in Nat,
         NEW w, w = [l EXCEPT !.down_load = d]
  PROVE  /\ TableOK(w) /\ Counted(w) /\ Items(w) = Items(l)
         /\ w.b = l.b /\ w.num_nodes = l.num_nodes /\ w.num_items = l.num_items
         /\ w.num_alloc_nodes = l.num_alloc_nodes /\ w.down_load = d
         /\ \A k \in Key : Bucket(w, k) = Bucket(l, k)
<1>1. w = Mk(l.b, l.num_nodes, l.num_alloc_nodes, l.p, l.pmax, l.num_items, d)
  <2>1. l = Mk(l.b, l.num_nodes, l.num_alloc_nodes, l.p, l.pmax, l.num_items, l.down_load)
    BY Zenon DEF TableOK, IsTable
  <2> QED BY <2>1, Zenon DEF Mk
<1>2. /\ w.b = l.b /\ w.num_nodes = l.num_nodes /\ w.num_alloc_nodes = l.num_alloc_nodes
      /\ w.p = l.p /\ w.pmax = l.pmax /\ w.num_items = l.num_items /\ w.down_load = d
  BY <1>1, MkFields
<1>3. IsTable(w)
  BY <1>1, <1>2, Zenon DEF TableOK, IsTable
<1>4. TableOK(w)
  BY <1>2, <1>3, Zenon DEF TableOK
<1>5. Items(w) = Items(l) /\ \A k \in Key : Bucket(w, k) = Bucket(l, k)
  BY <1>2 DEF Items, Bucket
<1> QED BY <1>2, <1>4, <1>5, Zenon DEF Counted

\* What lh_new returns.
LEMMA NewTable ==
  /\ TableOK(lh_new)
  /\ Items(lh_new) = {}
  /\ Counted(lh_new)
  /\ lh_new.num_nodes = Half /\ lh_new.down_load = DOWN_LOAD
<1>1. PICK b : b = [j \in 0..(MIN_NODES - 1) |-> {}]
  BY ZenonT(60)
<1>2. PICK l : l = lh_new
  BY Zenon
<1>3. l = Mk(b, Half, MIN_NODES, 0, Half, 0, DOWN_LOAD)
  BY <1>1, <1>2, Zenon DEF lh_new, Mk, Half
<1>4. /\ l.b = b /\ l.num_nodes = Half /\ l.num_alloc_nodes = MIN_NODES /\ l.p = 0
      /\ l.pmax = Half /\ l.num_items = 0 /\ l.down_load = DOWN_LOAD
  BY <1>3, MkFields
<1>5. PlacedIn(b, Half, 0)
  BY <1>1, HalfFact, Zenon DEF PlacedIn
<1>6. IsTable(l)
  BY <1>3, <1>4, HalfFact, LoadAssumption DEF IsTable
<1>7. TableOK(l)
  BY <1>4, <1>5, <1>6, HalfFact, SizesClosed DEF TableOK
<1>8. Items(l) = {}
  <2>1. \A j \in 0..(l.num_nodes - 1) : l.b[j] = {}
    BY <1>1, <1>4, HalfFact
  <2> QED BY <2>1, Zenon DEF Items
<1>9. Cardinality({}) = 0
  BY FS_EmptySet, Zenon
<1> QED BY <1>2, <1>4, <1>7, <1>8, <1>9, Zenon DEF Counted

\* Reallocations succeed.
LEMMA NoFailures ==
  ASSUME ~ReallocFails
  PROVE  Reallocs = {TRUE}
BY Zenon DEF Reallocs

\* What a call returned.
LEMMA CallFields ==
  \A op, k, v, r : Call(op, k, v, r).ret = r
BY Zenon DEF Call

\* The invariant holds at first.
LEMMA TableInit == Init => TableInv
<1> SUFFICES ASSUME Init PROVE TableInv
  BY Zenon
<1>1. lh = lh_new /\ data = [k \in Key |-> NULL] /\ last.ret = NULL
  BY CallFields DEF Init
<1>2. Half <= MaxNodes
  BY HalfFact, BoundAssumption
<1> QED BY <1>1, <1>2, NewTable, Zenon DEF TableInv

\* What lh_delete, called directly or by a callback, does to a table that
\* holds k.
LEMMA DeleteStep ==
  ASSUME ~ReallocFails, TableInv, NEW k \in Key, Found(lh, k),
         last' = Call("delete", k, NULL, data[k]),
         data' = [data EXCEPT ![k] = NULL],
         lh' = Deleted(lh, k, TRUE)
  PROVE  TableInv' /\ Items(lh)' = Items(lh) \ {k} /\ Dict!Delete(k)
<1>1. k \in Items(lh)
  BY ItemsFound, Zenon DEF TableInv
<1>2. /\ TableOK(lh') /\ Items(lh') = Items(lh) \ {k} /\ Counted(lh')
      /\ lh'.down_load = lh.down_load
      /\ lh'.num_nodes = lh.num_nodes \/ lh'.num_nodes = lh.num_nodes - 1
  <2>1. IsDeleted(lh, k, lh') /\ Counted(lh)
    BY <1>1, DeletedOK, Zenon DEF TableInv
  <2> QED BY <2>1, Zenon DEF IsDeleted
<1>3. lh.num_nodes \in Int
  BY DEF TableInv, TableOK, IsTable
<1>4. lh'.num_nodes <= MaxNodes
  <2>1. PICK n \in Int : n = lh.num_nodes /\ n <= MaxNodes
    BY <1>3, Zenon DEF TableInv
  <2>2. n - 1 <= MaxNodes
    BY <2>1, BoundAssumption
  <2> QED BY <2>1, <2>2, <1>2, Zenon
<1>5. data[k] \in Val \cup {NULL} /\ data' \in [Key -> Val \cup {NULL}]
  BY Zenon DEF TableInv
<1>6. TableInv'
  <2>1. last'.ret \in Val \cup {NULL}
    BY <1>5, CallFields
  <2>2. lh'.down_load \in {0, DOWN_LOAD}
    BY <1>2, Zenon DEF TableInv
  <2> QED BY <2>1, <2>2, <1>2, <1>4, <1>5, Zenon DEF TableInv
<1>7. Contents' = [Contents EXCEPT ![k] = NULL]
  BY <1>2, Zenon DEF Contents, TableInv
<1>8. Contents[k] = data[k]
  BY <1>1, Zenon DEF Contents
<1> QED BY <1>2, <1>6, <1>7, <1>8, Zenon DEF Dict!Delete, Dict!Call, Call

\* lh_delete of a key the table does not hold.
LEMMA MissStep ==
  ASSUME TableInv, NEW k \in Key, ~Found(lh, k),
         last' = Call("delete", k, NULL, NULL), lh' = lh, data' = data
  PROVE  TableInv' /\ Dict!Delete(k)
<1>1. k \notin Items(lh)
  BY ItemsFound, Zenon DEF TableInv
<1>2. TableInv'
  <2>1. last'.ret \in Val \cup {NULL}
    BY CallFields
  <2> QED BY <2>1, Zenon DEF TableInv
<1>3. Contents' = Contents /\ Contents[k] = NULL /\ Contents \in [Key -> Val \cup {NULL}]
  BY <1>1, Zenon DEF Contents, TableInv
<1>4. Contents' = [Contents EXCEPT ![k] = NULL]
  BY <1>3, Zenon
<1> QED BY <1>2, <1>3, <1>4, Zenon DEF Dict!Delete, Dict!Call, Call

\* lh_insert replaces the data, adds a node, or fails to allocate one.
LEMMA InsertStep ==
  ASSUME ~ReallocFails, TableInv, NEW k \in Key, NEW v \in Val, lh_insert(k, v)
  PROVE  TableInv' /\ (Dict!Insert(k, v) \/ Dict!InsertFails(k, v)) /\ walk' = walk /\ ~walk.on
<1>1. PICK l : l = Grown(lh, TRUE)
  BY Zenon
<1>2. /\ TableOK(l) /\ Items(l) = Items(lh) /\ Counted(l)
      /\ l.down_load = lh.down_load
      /\ l.num_nodes = IF UP_LOAD <= Load(lh) THEN lh.num_nodes + 1 ELSE lh.num_nodes
  BY <1>1, GrownOK, Zenon DEF TableInv
<1>3. /\ ~walk.on /\ walk' = walk
      /\ UP_LOAD <= Load(lh) => lh.num_nodes < MaxNodes
      /\ IF Found(l, k)
         THEN /\ last' = Call("insert", k, v, data[k])
              /\ lh' = l
              /\ data' = [data EXCEPT ![k] = v]
         ELSE /\ last' = Call("insert", k, v, NULL)
              /\ \/ /\ lh' = WithNode(l, k)
                    /\ data' = [data EXCEPT ![k] = v]
                 \/ lh' = l /\ data' = data
  BY <1>1, NoFailures, Zenon DEF lh_insert
<1>4. l.num_nodes <= MaxNodes
  <2>1. PICK n \in Int : n = lh.num_nodes /\ n <= MaxNodes
    BY DEF TableInv, TableOK, IsTable, Sizes
  <2>2. n < MaxNodes => n + 1 <= MaxNodes
    BY BoundAssumption
  <2> QED BY <2>1, <2>2, <1>2, <1>3, Zenon
<1>5. l.down_load \in {0, DOWN_LOAD}
  BY <1>2, Zenon DEF TableInv
<1>6. /\ data \in [Key -> Val \cup {NULL}] /\ data[k] \in Val \cup {NULL}
      /\ [data EXCEPT ![k] = v] \in [Key -> Val \cup {NULL}]
  BY Zenon DEF TableInv
<1>7. Found(l, k) <=> k \in Items(lh)
  BY <1>2, ItemsFound, Zenon
<1>8. CASE Found(l, k)
  <2>1. last'.ret \in Val \cup {NULL}
    BY <1>3, <1>6, <1>8, CallFields
  <2>2. TableInv'
    BY <2>1, <1>2, <1>3, <1>4, <1>5, <1>6, <1>8, Zenon DEF TableInv
  <2>3. Items(lh') = Items(lh)
    BY <1>2, <1>3, <1>8, Zenon
  <2>4. Contents' = [Contents EXCEPT ![k] = v] /\ Contents[k] = data[k]
    BY <2>3, <1>3, <1>6, <1>7, <1>8, ZenonT(60) DEF Contents
  <2>5. Dict!Insert(k, v)
    BY <2>4, <1>3, <1>8, Zenon DEF Dict!Insert, Dict!Call, Call
  <2> QED BY <2>2, <2>5, <1>3, Zenon
<1>9. CASE ~Found(l, k) /\ lh' = WithNode(l, k) /\ data' = [data EXCEPT ![k] = v]
  <2>1. last'.ret \in Val \cup {NULL}
    BY <1>3, <1>9, CallFields
  <2>2. /\ TableOK(lh') /\ Items(lh') = Items(lh) \cup {k} /\ Counted(lh')
        /\ lh'.num_nodes = l.num_nodes /\ lh'.down_load = l.down_load
    BY <1>2, <1>9, WithNodeOK, Zenon
  <2>3. TableInv'
    BY <2>1, <2>2, <1>4, <1>5, <1>6, <1>9, Zenon DEF TableInv
  <2>4. Contents' = [Contents EXCEPT ![k] = v] /\ Contents[k] = NULL
    BY <2>2, <1>6, <1>7, <1>9, ZenonT(60) DEF Contents
  <2>5. Dict!Insert(k, v)
    BY <2>4, <1>3, <1>9, Zenon DEF Dict!Insert, Dict!Call, Call
  <2> QED BY <2>3, <2>5, <1>3, Zenon
<1>10. CASE ~Found(l, k) /\ lh' = l /\ data' = data
  <2>1. last'.ret \in Val \cup {NULL}
    BY <1>3, <1>10, CallFields
  <2>2. TableInv'
    BY <2>1, <1>2, <1>4, <1>5, <1>6, <1>10, Zenon DEF TableInv
  <2>3. Items(lh') = Items(lh)
    BY <1>2, <1>10, Zenon
  <2>4. Contents' = Contents /\ Contents[k] = NULL
    BY <2>3, <1>7, <1>10, Zenon DEF Contents
  <2>5. Dict!InsertFails(k, v)
    BY <2>4, <1>3, <1>10, Zenon DEF Dict!InsertFails, Dict!Call, Call
  <2> QED BY <2>2, <2>5, <1>3, Zenon
<1> QED BY <1>3, <1>8, <1>9, <1>10, Zenon

\* lh_retrieve.
LEMMA RetrieveStep ==
  ASSUME TableInv, NEW k \in Key, lh_retrieve(k)
  PROVE  TableInv' /\ Dict!Retrieve(k)
<1>1. Found(lh, k) <=> k \in Items(lh)
  BY ItemsFound, Zenon DEF TableInv
<1>2. PICK r : r = IF Found(lh, k) THEN data[k] ELSE NULL
  BY Zenon
<1>3. last' = Call("retrieve", k, NULL, r) /\ lh' = lh /\ data' = data
  BY <1>2, Zenon DEF lh_retrieve
<1>4. r \in Val \cup {NULL} /\ Contents[k] = r
  BY <1>1, <1>2, Zenon DEF Contents, TableInv
<1>5. last'.ret \in Val \cup {NULL}
  BY <1>3, <1>4, CallFields
<1>6. TableInv'
  BY <1>3, <1>5, Zenon DEF TableInv
<1>7. Contents' = Contents
  BY <1>3, Zenon DEF Contents
<1> QED BY <1>3, <1>4, <1>6, <1>7, Zenon DEF Dict!Retrieve, Dict!Call, Call

\* A walk begins.
LEMMA BeginStep ==
  ASSUME TableInv, NEW d \in {0, DOWN_LOAD}, BeginWalk(d)
  PROVE  TableInv' /\ Dict!DoAll
<1>1. lh' = [lh EXCEPT !.down_load = d] /\ data' = data
      /\ last' = Call("doall", NULL, NULL, NULL)
  BY Zenon DEF BeginWalk
<1>2. d \in Nat
  BY LoadAssumption
<1>3. /\ TableOK(lh') /\ Counted(lh') /\ Items(lh') = Items(lh)
      /\ lh'.num_nodes = lh.num_nodes /\ lh'.down_load = d
  BY <1>1, <1>2, LoadOnly DEF TableInv
<1>4. last'.ret \in Val \cup {NULL}
  BY <1>1, CallFields
<1>5. TableInv'
  BY <1>1, <1>3, <1>4, Zenon DEF TableInv
<1>6. Contents' = Contents
  BY <1>1, <1>3, Zenon DEF Contents
<1> QED BY <1>1, <1>5, <1>6, Zenon DEF Dict!DoAll, Dict!Call, Call

\* A walk ends.
LEMMA EndStep ==
  ASSUME TableInv, EndWalk
  PROVE  TableInv' /\ Contents' = Contents /\ last' = last
<1>1. lh' = [lh EXCEPT !.down_load = DOWN_LOAD] /\ data' = data /\ last' = last
  BY Zenon DEF EndWalk
<1>2. DOWN_LOAD \in Nat
  BY LoadAssumption, Zenon
<1>3. /\ TableOK(lh') /\ Counted(lh') /\ Items(lh') = Items(lh)
      /\ lh'.num_nodes = lh.num_nodes /\ lh'.down_load = DOWN_LOAD
  BY <1>1, <1>2, LoadOnly DEF TableInv
<1>4. TableInv'
  BY <1>1, <1>3, Zenon DEF TableInv
<1> QED BY <1>1, <1>3, <1>4, Zenon DEF Contents

\* Every step keeps the invariant and is a step of the dictionary, or a stutter.
LEMMA TableStep ==
  ASSUME ~ReallocFails, TableInv, [Next]_vars
  PROVE  TableInv' /\ [Dict!Next]_<<Contents, last>>
<1>1. CASE UNCHANGED vars
  BY <1>1, Zenon DEF TableInv, vars, Contents
<1>2. ASSUME NEW k \in Key, NEW v \in Val, lh_insert(k, v)
      PROVE  TableInv' /\ Dict!Next
  BY <1>2, InsertStep, Zenon DEF Dict!Next
<1>3. ASSUME NEW k \in Key, lh_delete(k)
      PROVE  TableInv' /\ Dict!Next
  <2>1. CASE Found(lh, k)
    BY <1>3, <2>1, DeleteStep, NoFailures, ZenonT(60) DEF lh_delete, Dict!Next
  <2>2. CASE ~Found(lh, k)
    BY <1>3, <2>2, MissStep, Zenon DEF lh_delete, Dict!Next
  <2> QED BY <2>1, <2>2, Zenon
<1>4. ASSUME NEW k \in Key, lh_retrieve(k)
      PROVE  TableInv' /\ Dict!Next
  BY <1>4, RetrieveStep, Zenon DEF Dict!Next
<1>5. ASSUME NEW d \in {0, DOWN_LOAD}, BeginWalk(d)
      PROVE  TableInv' /\ Dict!Next
  BY <1>5, BeginStep, Zenon DEF Dict!Next
<1>6. ASSUME NEW k \in Key, VisitKeeping(k)
      PROVE  TableInv' /\ UNCHANGED <<Contents, last>>
  BY <1>6, Zenon DEF VisitKeeping, TableInv, Contents
<1>7. ASSUME NEW k \in Key, VisitDeleting(k)
      PROVE  TableInv' /\ Dict!Next
  <2>1. CASE Found(lh, k)
    BY <1>7, <2>1, DeleteStep, NoFailures, Zenon DEF VisitDeleting, Dict!Next
  <2>2. CASE ~Found(lh, k)
    BY <1>7, <2>2, MissStep, Zenon DEF VisitDeleting, Dict!Next
  <2> QED BY <2>1, <2>2, Zenon
<1>8. CASE NextBucket
  BY <1>8, Zenon DEF NextBucket, TableInv, Contents
<1>9. CASE EndWalk
  BY <1>9, EndStep, Zenon
<1> QED BY <1>1, <1>2, <1>3, <1>4, <1>5, <1>6, <1>7, <1>8, <1>9, Zenon DEF Next, doall_util_fn

(***************************************************************************)
(* For all keys, hashes, load factors and sizes, the table is the map its  *)
(* documentation describes, if reallocating the bucket array never fails.  *)
(***************************************************************************)
THEOREM Refinement ==
  ASSUME ~ReallocFails
  PROVE  Spec => ImplementsDictionary
<1>1. Init => Dict!Init
  <2> SUFFICES ASSUME Init PROVE Dict!Init
    BY Zenon
  <2>1. Contents = [k \in Key |-> NULL]
    BY NewTable, Zenon DEF Init, Contents
  <2> QED BY <2>1, Zenon DEF Init, Dict!Init, Dict!Call, Call
<1>2. TableInv /\ [Next]_vars => TableInv' /\ [Dict!Next]_<<Contents, last>>
  BY TableStep, Zenon
<1> QED BY <1>1, <1>2, TableInit, PTL DEF Spec, ImplementsDictionary, Dict!Spec

-----------------------------------------------------------------------------
(* The walk. *)

\* A walk by its fields.
MkWalk(on, i, chain, owed, seen, nodes) ==
  [on |-> on, i |-> i, chain |-> chain, owed |-> owed, seen |-> seen, nodes |-> nodes]

\* A walk at bucket i of the table l, which had n buckets when it began.  Up to
\* 2 * LH_LOAD_MULT buckets a table whose down_load is 0 contracts only when at
\* most one item is left, so at most twice in a walk.
Running(l, i, chain, owed, seen, n) ==
  /\ i \in 0..(n - 1) /\ n \in Nat
  /\ l.num_nodes \in {n, n - 1, n - 2}
  /\ l.num_nodes # n => l.num_items <= 1
  /\ l.num_nodes = n - 2 => l.num_items = 0
  /\ chain \subseteq Items(l)
  /\ \A k \in owed : k \in Key /\ (k \in chain \/ (k \in Items(l) /\ Bucket(l, k) < i))
  /\ l.num_nodes = n =>
       /\ \A k \in chain : Bucket(l, k) = i /\ k \notin seen
       /\ \A k \in seen \cap Items(l) : Bucket(l, k) >= i

\* The inductive invariant of the walk.
WalkInv ==
  /\ walk = MkWalk(walk.on, walk.i, walk.chain, walk.owed, walk.seen, walk.nodes)
  /\ walk.on \in BOOLEAN /\ walk.nodes \in Nat
  /\ walk.chain \subseteq Key /\ walk.owed \subseteq Key /\ walk.seen \subseteq Key
  /\ walk.on => Running(lh, walk.i, walk.chain, walk.owed, walk.seen, walk.nodes)
  /\ ~walk.on => walk.i = -1 /\ walk.owed = {}

\* The fields of a walk.
LEMMA MkWalkFields ==
  ASSUME NEW on, NEW i, NEW c, NEW o, NEW s, NEW n, NEW w, w = MkWalk(on, i, c, o, s, n)
  PROVE  w.on = on /\ w.i = i /\ w.chain = c /\ w.owed = o /\ w.seen = s /\ w.nodes = n
<1>1. w.on = on
  BY Zenon DEF MkWalk
<1> QED BY <1>1, Zenon DEF MkWalk

\* The three ways a step changes a walk.
VisitOf(w, k, x) == [w EXCEPT !.chain = x, !.owed = @ \ {k}, !.seen = @ \cup {k}]
MoveOf(w, j, x) == [w EXCEPT !.i = j, !.chain = x]
StopOf(w, z, j) == [w EXCEPT !.on = z, !.i = j, !.seen = {}]

\* The names of its fields.
WalkField == {"on", "i", "chain", "owed", "seen", "nodes"}

\* After a callback.
LEMMA WalkVisits ==
  ASSUME NEW on, NEW i, NEW c, NEW o, NEW s, NEW n, NEW w, w = MkWalk(on, i, c, o, s, n),
         NEW k, NEW x
  PROVE  VisitOf(w, k, x) = MkWalk(on, i, x, o \ {k}, s \cup {k}, n)
<1>1. DOMAIN w = WalkField
  BY Zenon DEF MkWalk, WalkField
<1>2. w.on = on /\ w.i = i /\ w.chain = c /\ w.owed = o /\ w.seen = s /\ w.nodes = n
  BY Zenon DEF MkWalk
<1>3. w = [f \in WalkField |-> w[f]]
  BY Zenon DEF MkWalk, WalkField
<1>4. [w EXCEPT !.chain = x, !.owed = @ \ {k}, !.seen = @ \cup {k}]
      = [f \in WalkField |-> IF f = "chain" THEN x ELSE IF f = "owed" THEN w.owed \ {k}
                               ELSE IF f = "seen" THEN w.seen \cup {k} ELSE w[f]]
  BY <1>1, Zenon DEF WalkField
<1> QED BY <1>1, <1>2, <1>3, <1>4 DEF MkWalk, WalkField, VisitOf

\* At the next bucket.
LEMMA WalkMoves ==
  ASSUME NEW on, NEW i, NEW c, NEW o, NEW s, NEW n, NEW w, w = MkWalk(on, i, c, o, s, n),
         NEW j, NEW x
  PROVE  MoveOf(w, j, x) = MkWalk(on, j, x, o, s, n)
<1>1. DOMAIN w = WalkField
  BY Zenon DEF MkWalk, WalkField
<1>2. w.on = on /\ w.i = i /\ w.chain = c /\ w.owed = o /\ w.seen = s /\ w.nodes = n
  BY Zenon DEF MkWalk
<1>3. w = [f \in WalkField |-> w[f]]
  BY Zenon DEF MkWalk, WalkField
<1>4. [w EXCEPT !.i = j, !.chain = x]
      = [f \in WalkField |-> IF f = "chain" THEN x ELSE IF f = "i" THEN j ELSE w[f]]
  BY <1>1, Zenon DEF WalkField
<1> QED BY <1>1, <1>2, <1>3, <1>4 DEF MkWalk, WalkField, MoveOf

\* At the end.
LEMMA WalkStops ==
  ASSUME NEW on, NEW i, NEW c, NEW o, NEW s, NEW n, NEW w, w = MkWalk(on, i, c, o, s, n),
         NEW z, NEW j
  PROVE  StopOf(w, z, j) = MkWalk(z, j, c, o, {}, n)
<1>1. DOMAIN w = WalkField
  BY Zenon DEF MkWalk, WalkField
<1>2. w.on = on /\ w.i = i /\ w.chain = c /\ w.owed = o /\ w.seen = s /\ w.nodes = n
  BY Zenon DEF MkWalk
<1>3. w = [f \in WalkField |-> w[f]]
  BY Zenon DEF MkWalk, WalkField
<1>4. [w EXCEPT !.on = z, !.i = j, !.seen = {}]
      = [f \in WalkField |-> IF f = "on" THEN z ELSE IF f = "i" THEN j
                               ELSE IF f = "seen" THEN {} ELSE w[f]]
  BY <1>1, Zenon DEF WalkField
<1> QED BY <1>1, <1>2, <1>3, <1>4 DEF MkWalk, WalkField, StopOf

\* A walk that is running.
LEMMA WalkIntro ==
  ASSUME NEW i, NEW c \in SUBSET Key, NEW o \in SUBSET Key, NEW s \in SUBSET Key,
         NEW n \in Nat, walk' = MkWalk(TRUE, i, c, o, s, n), Running(lh', i, c, o, s, n)
  PROVE  WalkInv'
<1>1. PICK w : w = walk'
  BY Zenon
<1>2. w.on = TRUE /\ w.i = i /\ w.chain = c /\ w.owed = o /\ w.seen = s /\ w.nodes = n
  <2>1. PICK z : z = TRUE
    BY Zenon
  <2>2. w = MkWalk(z, i, c, o, s, n)
    BY <1>1, <2>1, Zenon
  <2>3. w.on = z /\ w.i = i /\ w.chain = c /\ w.owed = o /\ w.seen = s /\ w.nodes = n
    BY <2>2, MkWalkFields
  <2> QED BY <2>1, <2>3, Zenon
<1>3. w = MkWalk(w.on, w.i, w.chain, w.owed, w.seen, w.nodes)
  BY <1>1, <1>2, Zenon
<1>4. w.on \in BOOLEAN /\ w.on
  BY <1>2, Zenon
<1>5. Running(lh', w.i, w.chain, w.owed, w.seen, w.nodes)
  BY <1>2, Zenon
<1> QED BY <1>1, <1>2, <1>3, <1>4, <1>5, Zenon DEF WalkInv

\* A load of 0 in a table of at most 2 * m buckets: at most one item.
LEMMA AtMostOne ==
  ASSUME NEW c \in Nat, NEW m \in Nat \ {0}, NEW n \in Nat \ {0}, n <= 2 * m,
         0 >= (c * m) \div n
  PROVE  c <= 1
<1>1. PICK x \in Nat : x = c * m
  OBVIOUS
<1>2. x < n
  <2>1. PICK q \in Int : q = x \div n /\ x = n * q + (x % n) /\ x % n \in 0..(n - 1)
    BY <1>1
  <2>2. q <= 0
    BY <1>1, <2>1, Zenon
  <2>3. n * q <= 0
    BY <2>1, <2>2
  <2> QED BY <2>1, <2>3
<1>3. c * m < 2 * m
  BY <1>1, <1>2
<1>4. CASE c >= 2
  <2>1. (c - 2) * m >= 0
    BY <1>4
  <2>2. c * m >= 2 * m
    BY <2>1
  <2> QED BY <2>2, <1>1, <1>3
<1> QED BY <1>4

\* A bucket's chain holds exactly the items whose bucket it is.
LEMMA ChainAt ==
  ASSUME NEW l, TableOK(l), NEW j \in 0..(l.num_alloc_nodes - 1)
  PROVE  /\ l.b[j] \subseteq Items(l)
         /\ \A k \in Key : k \in l.b[j] <=> (k \in Items(l) /\ Bucket(l, k) = j)
<1>1. Items(l) = {k \in Key : Found(l, k)}
  BY ItemsFound, Zenon
<1>2. \A k \in l.b[j] : k \in Key /\ j = Bucket(l, k)
  BY ItemsFound, Zenon
<1> QED BY <1>1, <1>2, Zenon DEF Found

\* The items are keys.
LEMMA ItemsKeys ==
  ASSUME NEW l, TableOK(l)
  PROVE  Items(l) \subseteq Key
BY ItemsFound, Zenon

\* There is a bucket in use, and room for another.
LEMMA NodesFit ==
  ASSUME NEW l, TableOK(l)
  PROVE  /\ l.num_nodes \in Nat \ {0} /\ l.num_alloc_nodes \in Nat
         /\ l.num_nodes < l.num_alloc_nodes
BY DEF TableOK, IsTable, Sizes

\* A walk begins at the top bucket, every item ahead of it.
LEMMA BeginInv ==
  ASSUME TableInv, NEW d \in {0, DOWN_LOAD}, BeginWalk(d)
  PROVE  WalkInv'
<1>1. PICK n : n = lh.num_nodes
  BY Zenon
<1>2. n \in Nat \ {0} /\ n - 1 \in 0..(lh.num_alloc_nodes - 1) /\ n - 1 # -1
  BY <1>1, NodesFit DEF TableInv
<1>3. lh' = [lh EXCEPT !.down_load = d] /\ d \in Nat
  BY LoadAssumption DEF BeginWalk
<1>4. /\ TableOK(lh') /\ Items(lh') = Items(lh) /\ lh'.b = lh.b /\ lh'.num_nodes = n
      /\ lh'.num_alloc_nodes = lh.num_alloc_nodes
  BY <1>1, <1>3, LoadOnly DEF TableInv
<1>5. LoopIndex(lh, -1) = n - 1
  BY <1>1, Zenon DEF LoopIndex
<1>6. walk' = MkWalk(TRUE, n - 1, lh'.b[n - 1], Items(lh'), {}, n)
  BY <1>1, <1>4, <1>5, ZenonT(60) DEF BeginWalk, MkWalk
<1>7. PICK c : c = lh'.b[n - 1]
  BY Zenon
<1>8. c \subseteq Items(lh') /\ \A k \in Key : k \in c <=> (k \in Items(lh') /\ Bucket(lh', k) = n - 1)
  BY <1>2, <1>4, <1>7, ChainAt, Zenon
<1>9. Items(lh') \subseteq Key
  BY <1>4, ItemsKeys, Zenon
<1>10. \A k \in Items(lh') : k \in c \/ Bucket(lh', k) < n - 1
  <2> TAKE k \in Items(lh')
  <2>1. Bucket(lh', k) \in 0..(n - 1)
    BY <1>4, <1>9, BucketAt, Zenon
  <2>2. Bucket(lh', k) = n - 1 \/ Bucket(lh', k) < n - 1
    BY <1>2, <2>1
  <2> QED BY <1>8, <1>9, <2>2, Zenon
<1>11. Running(lh', n - 1, c, Items(lh'), {}, n)
  BY <1>2, <1>4, <1>8, <1>9, <1>10 DEF Running
<1> QED BY <1>2, <1>6, <1>7, <1>8, <1>9, <1>11, WalkIntro, Zenon

\* The callback leaves its item alone.
LEMMA KeepingInv ==
  ASSUME TableInv, WalkInv, NEW k \in Key, VisitKeeping(k)
  PROVE  WalkInv'
<1>1. PICK i, c, o, s, n : i = walk.i /\ c = walk.chain /\ o = walk.owed /\ s = walk.seen /\ n = walk.nodes
  BY Zenon
<1>2. walk.on /\ k \in c /\ lh' = lh /\ walk' = Visited(k, c \ {k})
  BY <1>1, Zenon DEF VisitKeeping
<1>3. walk = MkWalk(walk.on, i, c, o, s, n)
  BY <1>1, Zenon DEF WalkInv
<1>4. walk.on = TRUE
  BY <1>2, Zenon DEF WalkInv
<1>5. walk' = MkWalk(TRUE, i, c \ {k}, o \ {k}, s \cup {k}, n)
  <2>1. walk' = MkWalk(walk.on, i, c \ {k}, o \ {k}, s \cup {k}, n)
    <3>1. walk' = VisitOf(walk, k, c \ {k})
      BY <1>2, Zenon DEF Visited, VisitOf
    <3> QED BY <3>1, <1>3, WalkVisits
  <2> QED BY <2>1, <1>4, Zenon
<1>6. /\ Running(lh, i, c, o, s, n)
      /\ n \in Nat /\ c \subseteq Key /\ o \subseteq Key /\ s \subseteq Key
  BY <1>1, <1>2, Zenon DEF WalkInv
<1>7. Running(lh, i, c \ {k}, o \ {k}, s \cup {k}, n)
  BY <1>2, <1>6 DEF Running
<1> QED BY <1>2, <1>5, <1>6, <1>7, WalkIntro, Zenon

\* What is owed is in a bucket below, so it is in the next one or below that.
LEMMA NextBucketInv ==
  ASSUME TableInv, WalkInv, NextBucket
  PROVE  WalkInv'
<1>1. PICK i, o, s, n : i = walk.i /\ o = walk.owed /\ s = walk.seen /\ n = walk.nodes
  BY Zenon
<1>2. walk.on /\ walk.chain = {} /\ lh' = lh
  BY Zenon DEF NextBucket
<1>3. walk.on = TRUE
  BY <1>2, Zenon DEF WalkInv
<1>4. walk = MkWalk(TRUE, i, {}, o, s, n)
  BY <1>1, <1>2, <1>3, Zenon DEF WalkInv
<1>5. /\ Running(lh, i, {}, o, s, n)
      /\ n \in Nat /\ o \subseteq Key /\ s \subseteq Key
  BY <1>1, <1>2, Zenon DEF WalkInv
<1>6. TableOK(lh) /\ lh.num_nodes \in Nat \ {0} /\ lh.num_alloc_nodes \in Nat
      /\ lh.num_nodes < lh.num_alloc_nodes
  BY NodesFit, Zenon DEF TableInv
<1>7. LoopIndex(lh, i) = i - 1
  BY <1>5, <1>6 DEF LoopIndex, Running
<1>8. i - 1 \in 0..(n - 2) /\ i - 1 \in 0..(lh.num_alloc_nodes - 1)
  BY <1>1, <1>5, <1>6, <1>7 DEF Running, NextBucket
<1>9. PICK c : c = lh.b[i - 1]
  BY Zenon
<1>10. Read(i - 1) = {c}
  BY <1>6, <1>8, <1>9 DEF Read
<1>11. walk' = MkWalk(TRUE, i - 1, c, o, s, n)
  <2>1. \E x \in {c} : walk' = [walk EXCEPT !.i = i - 1, !.chain = x]
    BY <1>1, <1>7, <1>10, Zenon DEF NextBucket
  <2>2. walk' = [walk EXCEPT !.i = i - 1, !.chain = c]
    BY <2>1, Zenon
  <2>3. PICK z : z = TRUE
    BY Zenon
  <2>4. walk = MkWalk(z, i, {}, o, s, n)
    BY <1>4, <2>3, Zenon
  <2>5. walk' = MkWalk(z, i - 1, c, o, s, n)
    <3>1. walk' = MoveOf(walk, i - 1, c)
      BY <2>2, Zenon DEF MoveOf
    <3> QED BY <3>1, <2>4, WalkMoves
  <2> QED BY <2>3, <2>5, Zenon
<1>12. c \subseteq Items(lh) /\ \A k \in Key : k \in c <=> (k \in Items(lh) /\ Bucket(lh, k) = i - 1)
  BY <1>6, <1>8, <1>9, ChainAt, Zenon
<1>13. Items(lh) \subseteq Key /\ \A k \in Key : Bucket(lh, k) \in Int
  BY <1>6, ItemsKeys, BucketAt
<1>14. \A k \in o : k \in Key /\ (k \in c \/ (k \in Items(lh) /\ Bucket(lh, k) < i - 1))
  <2> TAKE k \in o
  <2>1. k \in Key /\ k \in Items(lh) /\ Bucket(lh, k) < i
    BY <1>5, Zenon DEF Running
  <2>2. Bucket(lh, k) = i - 1 \/ Bucket(lh, k) < i - 1
    BY <1>5, <1>13, <2>1 DEF Running
  <2> QED BY <1>12, <2>1, <2>2, Zenon
<1>15. lh.num_nodes = n =>
         /\ \A k \in c : Bucket(lh, k) = i - 1 /\ k \notin s
         /\ \A k \in s \cap Items(lh) : Bucket(lh, k) >= i - 1
  <2> HAVE lh.num_nodes = n
  <2>1. \A k \in s \cap Items(lh) : Bucket(lh, k) >= i
    BY <1>5, Zenon DEF Running
  <2>2. \A k \in s \cap Items(lh) : Bucket(lh, k) >= i - 1 /\ Bucket(lh, k) # i - 1
    <3> TAKE k \in s \cap Items(lh)
    <3>1. PICK v \in Int : v = Bucket(lh, k) /\ v >= i
      BY <1>13, <2>1, Zenon
    <3>2. i \in Int
      BY <1>5 DEF Running
    <3> QED BY <3>1, <3>2
  <2>3. \A k \in c : k \in Key /\ k \in Items(lh) /\ Bucket(lh, k) = i - 1
    BY <1>12, <1>13, Zenon
  <2> QED BY <2>2, <2>3, Zenon
<1>16. Running(lh, i - 1, c, o, s, n)
  BY <1>5, <1>8, <1>12, <1>14, <1>15 DEF Running
<1> QED BY <1>2, <1>5, <1>11, <1>12, <1>13, <1>16, WalkIntro, ZenonT(60)

\* Below bucket 0 nothing is owed.
LEMMA EndInv ==
  ASSUME TableInv, WalkInv, EndWalk
  PROVE  WalkInv'
<1>1. PICK i, o, s, n : i = walk.i /\ o = walk.owed /\ s = walk.seen /\ n = walk.nodes
  BY Zenon
<1>2. walk.on /\ walk.chain = {} /\ LoopIndex(lh, i) = -1
  BY <1>1, Zenon DEF EndWalk
<1>3. walk = MkWalk(walk.on, i, {}, o, s, n)
  BY <1>1, <1>2, Zenon DEF WalkInv
<1>4. /\ Running(lh, i, {}, o, s, n)
      /\ n \in Nat /\ o \subseteq Key /\ s \subseteq Key
  BY <1>1, <1>2, Zenon DEF WalkInv
<1>5. i = 0
  BY <1>2, <1>4 DEF LoopIndex, Running
<1>6. \A k \in Key : Bucket(lh, k) \in Nat
  BY BucketAt DEF TableInv
<1>7. o = {}
  BY <1>4, <1>5, <1>6 DEF Running
<1>8. walk' = MkWalk(FALSE, -1, {}, {}, {}, n)
  <2>1. PICK z : z = FALSE
    BY ZenonT(60)
  <2>2. walk' = [walk EXCEPT !.on = z, !.i = -1, !.seen = {}]
    BY <2>1, Zenon DEF EndWalk
  <2>3. walk' = MkWalk(z, -1, {}, o, {}, n)
    <3>1. walk' = StopOf(walk, z, -1)
      BY <2>2, Zenon DEF StopOf
    <3> QED BY <3>1, <1>3, WalkStops
  <2> QED BY <2>1, <2>3, <1>7, Zenon
<1>9. PICK w : w = walk'
  BY Zenon
<1>10. w.on = FALSE /\ w.i = -1 /\ w.chain = {} /\ w.owed = {} /\ w.seen = {} /\ w.nodes = n
  <2>1. PICK z : z = FALSE
    BY Zenon
  <2>2. w = MkWalk(z, -1, {}, {}, {}, n)
    BY <1>8, <1>9, <2>1, Zenon
  <2>3. w.on = z /\ w.i = -1 /\ w.chain = {} /\ w.owed = {} /\ w.seen = {} /\ w.nodes = n
    BY <2>2, MkWalkFields
  <2> QED BY <2>1, <2>3, Zenon
<1>11. w = MkWalk(w.on, w.i, w.chain, w.owed, w.seen, w.nodes)
  BY <1>8, <1>9, <1>10, Zenon
<1>12. w.on \in BOOLEAN /\ ~w.on
  BY <1>10, Zenon
<1>13. w.nodes \in Nat /\ w.chain \subseteq Key /\ w.owed \subseteq Key /\ w.seen \subseteq Key
  BY <1>4, <1>10, Zenon
<1> QED BY <1>9, <1>10, <1>11, <1>12, <1>13, Zenon DEF WalkInv

\* A deletion while a walk is at bucket i, in a table of at most 2 * LH_LOAD_MULT
\* buckets whose down_load is 0.
LEMMA DeletedRunning ==
  ASSUME NEW l, TableOK(l), Counted(l), l.down_load = 0, l.num_nodes <= 2 * LH_LOAD_MULT,
         NEW i, NEW c, NEW o, NEW s, NEW n, Running(l, i, c, o, s, n),
         NEW k \in c, NEW e, IsDeleted(l, k, e),
         NEW x, c \ {k} \subseteq x, x \subseteq Items(e),
         e.num_nodes = l.num_nodes => x = c \ {k}
  PROVE  Running(e, i, x, o \ {k}, s \cup {k}, n)
<1>1. k \in Items(l) /\ n \in Nat /\ i \in 0..(n - 1) /\ i \in Int
  BY DEF Running
<1>2. /\ TableOK(e) /\ Items(e) = Items(l) \ {k} /\ Counted(e)
      /\ e.num_items = l.num_items - 1
      /\ \A y \in Key : Bucket(e, y) <= Bucket(l, y)
  BY Zenon DEF IsDeleted
<1>3. PICK a \in Nat, b \in Nat, p \in Nat \ {0}, q \in Nat :
        a = l.num_items /\ b = e.num_items /\ p = l.num_nodes /\ q = e.num_nodes /\ a > 0
  BY <1>1, <1>2, CountedPositive, NodesFit, Zenon
<1>4. b = a - 1
  BY <1>2, <1>3, Zenon
<1>5. /\ p \in {n, n - 1, n - 2} /\ (p # n => a <= 1) /\ (p = n - 2 => a = 0)
  BY <1>3, Zenon DEF Running
<1>6. p \in {n, n - 1}
  BY <1>3, <1>5
<1>7. Items(l) \subseteq Key
  BY ItemsKeys, Zenon
<1>8. \A y \in o \ {k} : y \in Key /\ (y \in x \/ (y \in Items(e) /\ Bucket(e, y) < i))
  <2> TAKE y \in o \ {k}
  <2>1. y \in Key /\ (y \in c \/ (y \in Items(l) /\ Bucket(l, y) < i))
    BY Zenon DEF Running
  <2>2. CASE y \in c
    BY <2>1, <2>2, Zenon
  <2>3. CASE y \in Items(l) /\ Bucket(l, y) < i
    <3>1. PICK v \in Int : v = Bucket(l, y)
      BY <2>1, BucketAt
    <3>2. Bucket(e, y) \in 0..(e.num_nodes - 1)
      BY <2>1, <1>2, BucketAt, Zenon
    <3>3. PICK u \in Int : u = Bucket(e, y)
      BY <3>2
    <3>4. u <= v
      BY <3>1, <3>3, <2>1, <1>2, Zenon
    <3>5. u < i
      BY <3>1, <3>4, <2>3, <1>1
    <3> QED BY <3>3, <3>5, <2>1, <2>3, <1>2, Zenon
  <2> QED BY <2>1, <2>2, <2>3, Zenon
<1>9. SUFFICES /\ q \in {n, n - 1, n - 2} /\ (q # n => b <= 1) /\ (q = n - 2 => b = 0)
               /\ q = n =>
                    /\ \A y \in x : Bucket(e, y) = i /\ y \notin s \cup {k}
                    /\ \A y \in (s \cup {k}) \cap Items(e) : Bucket(e, y) >= i
  BY <1>1, <1>3, <1>8, Zenon DEF Running
<1>10. CASE e.num_nodes = l.num_nodes /\ \A y \in Key : Bucket(e, y) = Bucket(l, y)
  <2>1. q = p /\ x = c \ {k}
    BY <1>3, <1>10, Zenon
  <2>2. q \in {n, n - 1, n - 2} /\ (q # n => b <= 1) /\ q # n - 2
    BY <2>1, <1>1, <1>3, <1>4, <1>5, <1>6
  <2>3. ASSUME q = n
        PROVE  /\ \A y \in x : Bucket(e, y) = i /\ y \notin s \cup {k}
               /\ \A y \in (s \cup {k}) \cap Items(e) : Bucket(e, y) >= i
    <3>1. /\ \A y \in c : Bucket(l, y) = i /\ y \notin s
          /\ \A y \in s \cap Items(l) : Bucket(l, y) >= i
      BY <2>1, <2>3, <1>3, ZenonT(60) DEF Running
    <3>2. c \subseteq Key
      BY <1>7, Zenon DEF Running
    <3>3. \A y \in x : Bucket(e, y) = i /\ y \notin s \cup {k}
      BY <2>1, <3>1, <3>2, <1>10, Zenon
    <3>4. \A y \in (s \cup {k}) \cap Items(e) : Bucket(e, y) >= i
      BY <3>1, <1>2, <1>7, <1>10, Zenon
    <3> QED BY <3>3, <3>4, Zenon
  <2> QED BY <2>2, <2>3, Zenon
<1>11. CASE /\ e.num_nodes = l.num_nodes - 1
            /\ l.down_load >= (e.num_items * LH_LOAD_MULT) \div l.num_nodes
  <2>1. q = p - 1 /\ 0 >= (b * LH_LOAD_MULT) \div p
    BY <1>3, <1>11, Zenon
  <2>2. p <= 2 * LH_LOAD_MULT
    BY <1>3, Zenon
  <2>3. b <= 1
    BY <1>3, <2>1, <2>2, AtMostOne, LoadAssumption, ZenonT(60)
  <2>4. q \in {n - 1, n - 2} /\ q # n
    BY <1>1, <1>3, <1>6, <2>1
  <2>5. q = n - 2 => p # n
    BY <1>1, <1>3, <2>1
  <2>6. q = n - 2 => b = 0
    BY <2>5, <1>3, <1>4, <1>5
  <2> QED BY <2>3, <2>4, <2>6, Zenon
<1>12. \/ e.num_nodes = l.num_nodes /\ \A y \in Key : Bucket(e, y) = Bucket(l, y)
       \/ /\ e.num_nodes = l.num_nodes - 1
          /\ l.down_load >= (e.num_items * LH_LOAD_MULT) \div l.num_nodes
  BY Zenon DEF IsDeleted
<1> QED BY <1>10, <1>11, <1>12, Zenon

\* The callback deletes its item.
LEMMA DeletingInv ==
  ASSUME ~ReallocFails, Careful, MaxNodes <= 2 * LH_LOAD_MULT,
         TableInv, WalkInv, NEW k \in Key, VisitDeleting(k)
  PROVE  WalkInv'
<1>1. PICK i, c, o, s, n : i = walk.i /\ c = walk.chain /\ o = walk.owed /\ s = walk.seen /\ n = walk.nodes
  BY Zenon
<1>2. walk.on /\ k \in c /\ lh.down_load = 0
  BY <1>1, Zenon DEF VisitDeleting
<1>3. walk = MkWalk(walk.on, i, c, o, s, n)
  BY <1>1, Zenon DEF WalkInv
<1>4. walk.on = TRUE
  BY <1>2, Zenon DEF WalkInv
<1>5. /\ Running(lh, i, c, o, s, n)
      /\ n \in Nat /\ c \subseteq Key /\ o \subseteq Key /\ s \subseteq Key
  BY <1>1, <1>2, Zenon DEF WalkInv
<1>6. k \in Items(lh) /\ c \subseteq Items(lh)
  BY <1>2, <1>5, Zenon DEF Running
<1>7. TableOK(lh) /\ Counted(lh) /\ lh.num_nodes <= MaxNodes
  BY Zenon DEF TableInv
<1>8. Found(lh, k)
  BY <1>6, <1>7, ItemsFound, Zenon
<1>9. PICK e : e = Deleted(lh, k, TRUE)
  BY Zenon
<1>10. PICK x : x = From(c \ {k}, e, k)
  BY Zenon
<1>11. lh' = e /\ walk' = Visited(k, x)
  BY <1>1, <1>8, <1>9, <1>10, NoFailures, Zenon DEF VisitDeleting
<1>12. walk' = MkWalk(TRUE, i, x, o \ {k}, s \cup {k}, n)
  <2>1. walk' = VisitOf(walk, k, x)
    BY <1>11, Zenon DEF Visited, VisitOf
  <2>2. walk' = MkWalk(walk.on, i, x, o \ {k}, s \cup {k}, n)
    BY <2>1, <1>3, WalkVisits
  <2> QED BY <2>2, <1>4, Zenon
<1>13. TableOK(e) /\ Items(e) = Items(lh) \ {k} /\ IsDeleted(lh, k, e)
  <2>1. IsDeleted(lh, k, e)
    BY <1>6, <1>7, <1>9, DeletedOK, Zenon
  <2> QED BY <2>1, Zenon DEF IsDeleted
<1>14. lh.num_nodes \in Nat \ {0} /\ lh.num_nodes - 1 \in 0..(lh.num_alloc_nodes - 1)
  BY <1>7, NodesFit
<1>15. lh.b[lh.num_nodes - 1] \subseteq Items(lh)
  BY <1>7, <1>14, ChainAt, Zenon
<1>16. c \ {k} \subseteq x /\ x \subseteq Items(e)
  BY <1>6, <1>10, <1>13, <1>15, Zenon DEF From
<1>17. e.num_nodes = lh.num_nodes => x = c \ {k}
  <2> HAVE e.num_nodes = lh.num_nodes
  <2>1. ~(e.num_nodes < lh.num_nodes)
    BY <1>14
  <2> QED BY <2>1, <1>10, Zenon DEF From
<1>18. lh.num_nodes <= 2 * LH_LOAD_MULT
  BY <1>7, <1>14, BoundAssumption, LoadAssumption
<1>19. Running(e, i, x, o \ {k}, s \cup {k}, n)
  BY <1>2, <1>5, <1>7, <1>13, <1>16, <1>17, <1>18, DeletedRunning, Zenon
<1>20. x \subseteq Key
  BY <1>13, <1>16, ItemsKeys, Zenon
<1>21. o \ {k} \in SUBSET Key /\ s \cup {k} \in SUBSET Key /\ x \in SUBSET Key
  BY <1>5, <1>20, Zenon
<1> QED BY <1>5, <1>11, <1>12, <1>19, <1>21, WalkIntro, ZenonT(60)

\* No walk at first.
LEMMA WalkInit == Init => WalkInv
<1> SUFFICES ASSUME Init PROVE WalkInv
  BY Zenon
<1>1. walk = MkWalk(FALSE, -1, {}, {}, {}, 0)
  BY Zenon DEF Init, MkWalk
<1>2. PICK z : z = FALSE
  BY ZenonT(60)
<1>3. walk = MkWalk(z, -1, {}, {}, {}, 0)
  BY <1>1, <1>2, Zenon
<1>4. /\ walk.on = z /\ walk.i = -1 /\ walk.chain = {} /\ walk.owed = {} /\ walk.seen = {}
      /\ walk.nodes = 0
  BY <1>3, MkWalkFields
<1>5. walk = MkWalk(walk.on, walk.i, walk.chain, walk.owed, walk.seen, walk.nodes)
  BY <1>3, <1>4, Zenon
<1>6. walk.on \in BOOLEAN /\ ~walk.on
  BY <1>2, <1>4, Zenon
<1>7. walk.nodes \in Nat /\ walk.chain \subseteq Key /\ walk.owed \subseteq Key /\ walk.seen \subseteq Key
  BY <1>4
<1> QED BY <1>4, <1>5, <1>6, <1>7, Zenon DEF WalkInv

\* Every step keeps the invariant of the walk.
LEMMA WalkStep ==
  ASSUME ~ReallocFails, Careful, MaxNodes <= 2 * LH_LOAD_MULT,
         TableInv, WalkInv, [Next]_vars
  PROVE  WalkInv'
<1>1. CASE UNCHANGED vars
  BY <1>1, Zenon DEF WalkInv, vars
<1>2. ASSUME ~walk.on, walk' = walk
      PROVE  WalkInv'
  BY <1>2, Zenon DEF WalkInv
<1>3. ASSUME NEW k \in Key, (\E v \in Val : lh_insert(k, v)) \/ lh_delete(k) \/ lh_retrieve(k)
      PROVE  ~walk.on /\ walk' = walk
  BY <1>3, Zenon DEF lh_insert, lh_delete, lh_retrieve
<1>4. ASSUME NEW d \in {0, DOWN_LOAD}, BeginWalk(d)
      PROVE  WalkInv'
  BY <1>4, BeginInv, Zenon
<1>5. ASSUME NEW k \in Key, VisitKeeping(k)
      PROVE  WalkInv'
  BY <1>5, KeepingInv, Zenon
<1>6. ASSUME NEW k \in Key, VisitDeleting(k)
      PROVE  WalkInv'
  BY <1>6, DeletingInv, Zenon
<1>7. CASE NextBucket
  BY <1>7, NextBucketInv, Zenon
<1>8. CASE EndWalk
  BY <1>8, EndInv, Zenon
<1> QED BY <1>1, <1>2, <1>3, <1>4, <1>5, <1>6, <1>7, <1>8, Zenon DEF Next, doall_util_fn

(***************************************************************************)
(* The theorems.                                                           *)
(***************************************************************************)

\* The count the load factors are computed from is exact whatever splits and
\* merges of buckets have gone before (lhash.c:189-264).
THEOREM ItemsCounted ==
  ASSUME ~ReallocFails
  PROVE  Spec => []CountExact
<1>1. TableInv => CountExact
  <2> SUFFICES ASSUME TableInv PROVE CountExact
    BY Zenon
  <2>1. TableOK(lh) /\ Counted(lh)
    BY Zenon DEF TableInv
  <2>2. lh.num_nodes \in Nat /\ lh.num_alloc_nodes \in Nat /\ lh.num_nodes < lh.num_alloc_nodes
    BY <2>1, NodesFit, Zenon
  <2>3. \A j \in 0..(lh.num_nodes - 1) : \A k \in lh.b[j] : j = Bucket(lh, k)
    BY <2>1, <2>2, ItemsFound
  <2> QED BY <2>1, <2>3, Zenon DEF CountExact, Counted
<1>2. TableInv /\ [Next]_vars => TableInv'
  BY TableStep, Zenon
<1> QED BY <1>1, <1>2, TableInit, PTL DEF Spec

\* Both invariants hold throughout.
LEMMA TheWalk ==
  ASSUME ~ReallocFails, Careful, MaxNodes <= 2 * LH_LOAD_MULT
  PROVE  Spec => [](TableInv /\ WalkInv)
<1>1. TableInv /\ WalkInv /\ [Next]_vars => (TableInv /\ WalkInv)'
  BY TableStep, WalkStep, Zenon
<1> QED BY <1>1, TableInit, WalkInit, PTL DEF Spec

\* No item that was in the table when a walk began is skipped, although the
\* callbacks' deletions may shrink the table under it (lhash.c:164).
THEOREM WalkComplete ==
  ASSUME ~ReallocFails, Careful, MaxNodes <= 2 * LH_LOAD_MULT
  PROVE  Spec => []AllVisited
<1>1. WalkInv => AllVisited
  BY Zenon DEF WalkInv, AllVisited
<1> QED BY <1>1, TheWalk, PTL

\* The node the walk goes on to after a callback is one the table still holds
\* (lhash.c:169-174).
THEOREM WalkSafe ==
  ASSUME ~ReallocFails, Careful, MaxNodes <= 2 * LH_LOAD_MULT
  PROVE  Spec => []LiveChain
<1>1. WalkInv => LiveChain
  BY Zenon DEF WalkInv, Running, LiveChain
<1> QED BY <1>1, TheWalk, PTL

\* As long as the table has not shrunk during a walk, no item is visited twice
\* (lhash.c:166-176).
THEOREM WalkOnce ==
  ASSUME ~ReallocFails, Careful, MaxNodes <= 2 * LH_LOAD_MULT
  PROVE  Spec => []NoSecondVisit
<1>1. WalkInv => NoSecondVisit
  BY Zenon DEF WalkInv, Running, NoSecondVisit
<1> QED BY <1>1, TheWalk, PTL

\* The walk's loop index stays within the bucket array, which callbacks may
\* have had reallocated to half its size (lhash.c:166, 240).
THEOREM WalkInBounds ==
  ASSUME ~ReallocFails, Careful, MaxNodes <= 2 * LH_LOAD_MULT
  PROVE  Spec => []ReadsInBounds
<1>1. TableInv /\ WalkInv => ReadsInBounds
  <2> SUFFICES ASSUME TableInv, WalkInv, walk.on
               PROVE  walk.i <= lh.num_nodes + 1 /\ LoopIndex(lh, walk.i) < lh.num_alloc_nodes
    BY Zenon DEF ReadsInBounds
  <2>1. PICK p \in Nat, a \in Nat : p = lh.num_nodes /\ a = lh.num_alloc_nodes /\ p < a
    BY NodesFit, Zenon DEF TableInv
  <2>2. PICK n \in Nat, i \in Nat : n = walk.nodes /\ i = walk.i /\ i <= n - 1 /\ p \in {n, n - 1, n - 2}
    BY <2>1 DEF WalkInv, Running
  <2>3. i <= p + 1 /\ i - 1 < a
    BY <2>1, <2>2
  <2>4. LoopIndex(lh, walk.i) = i - 1
    BY <2>2 DEF LoopIndex
  <2> QED BY <2>1, <2>2, <2>3, <2>4, Zenon
<1> QED BY <1>1, TheWalk, PTL

\* The fields of the table always fit each other: num_nodes = pmax + p, an array
\* of 2 * pmax buckets, and nothing in the buckets not in use (lhash.c:100-118).
THEOREM TypeCorrect ==
  ASSUME ~ReallocFails, Careful, MaxNodes <= 2 * LH_LOAD_MULT
  PROVE  Spec => []TypeOK
<1>1. TableInv /\ WalkInv => TypeOK
  <2> SUFFICES ASSUME TableInv, WalkInv PROVE TypeOK
    BY Zenon
  <2>1. TableOK(lh) /\ Counted(lh)
    BY Zenon DEF TableInv
  <2>2. /\ lh.pmax \in Nat \ {0} /\ lh.p \in 0..(lh.pmax - 1)
        /\ lh.num_alloc_nodes = 2 * lh.pmax
        /\ lh.num_nodes = lh.pmax + lh.p
    BY <2>1 DEF TableOK, IsTable, Sizes
  <2>3. lh.b \in [0..(lh.num_alloc_nodes - 1) -> SUBSET Key]
    BY <2>1, <2>2, Zenon DEF TableOK, PlacedIn
  <2>4. \A j \in lh.num_nodes..(lh.num_alloc_nodes - 1) : lh.b[j] = {}
    <3>1. SUFFICES ASSUME NEW j \in lh.num_nodes..(lh.num_alloc_nodes - 1), NEW k \in lh.b[j]
                   PROVE  FALSE
      BY Zenon
    <3>2. j \in 0..(lh.num_alloc_nodes - 1) /\ j >= lh.num_nodes /\ lh.num_nodes \in Nat
      BY <2>2
    <3>3. k \in Key /\ j = Bucket(lh, k)
      BY <3>2, <2>1, ItemsFound, Zenon
    <3>4. Bucket(lh, k) \in 0..(lh.num_nodes - 1)
      BY <3>3, <2>1, BucketAt, Zenon
    <3> QED BY <3>2, <3>3, <3>4
  <2>5. lh.num_items \in Nat /\ lh.down_load \in {0, DOWN_LOAD}
    BY <2>1, CountedPositive, Zenon DEF TableInv
  <2>6. data \in [Key -> Val \cup {NULL}] /\ last.ret \in Val \cup {NULL}
    BY Zenon DEF TableInv
  <2>7. walk.on \in BOOLEAN
    BY Zenon DEF WalkInv
  <2>8. walk.nodes \in Nat /\ walk.i \in -1..(walk.nodes - 1)
    BY DEF WalkInv, Running
  <2>9. walk.chain \subseteq Key /\ walk.owed \subseteq Key /\ walk.seen \subseteq Key
    BY Zenon DEF WalkInv
  <2> QED BY <2>2, <2>3, <2>4, <2>5, <2>6, <2>7, <2>8, <2>9, Zenon DEF TypeOK
<1> QED BY <1>1, TheWalk, PTL
=============================================================================
