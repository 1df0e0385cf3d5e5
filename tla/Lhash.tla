-------------------------------- MODULE Lhash --------------------------------
(***************************************************************************)
(* The linear hash table of crypto/lhash/lhash.c, which holds the sessions *)
(* of an SSL_CTX, the object names, the configuration values and the error *)
(* strings.  The table grows and shrinks by one bucket at a time: buckets  *)
(* 0 .. p-1 have been split with the modulus num_alloc_nodes, the others   *)
(* still use the modulus pmax.  lh_doall walks the buckets from the top    *)
(* one down and calls back for every item; a callback may delete the item  *)
(* it was called for, which may shrink the table under the walk.           *)
(*                                                                         *)
(* A node is its key: the order of a chain is abstracted to the set of its *)
(* nodes, and a pointer into a chain to the set of nodes from it on.  The  *)
(* array b is a function whose domain is exactly what is allocated.        *)
(***************************************************************************)
EXTENDS Integers, FiniteSets

CONSTANTS
  Key,          \* what the comparison function tells apart
  Hash,         \* the hash function's value for each key
  Val,          \* the data pointers stored
  NULL,
  MIN_NODES,    \* 16 in the code
  LH_LOAD_MULT, \* 256
  UP_LOAD,      \* 2 * LH_LOAD_MULT
  DOWN_LOAD,    \* LH_LOAD_MULT
  MaxNodes,     \* bound on the number of buckets
  Careful,      \* do callbacks delete only in walks with down_load = 0?
  MallocFails,  \* may the allocation of a node fail?
  ReallocFails  \* may reallocarray of the bucket array fail?

ASSUME KeyAssumption == IsFiniteSet(Key) /\ Hash \in [Key -> Nat]
ASSUME ValAssumption == NULL \notin Val
ASSUME SizeAssumption == MIN_NODES \in Nat \ {0} /\ MIN_NODES % 2 = 0
ASSUME LoadAssumption ==
  LH_LOAD_MULT \in Nat \ {0} /\ UP_LOAD \in Nat /\ DOWN_LOAD \in Nat
ASSUME BoundAssumption == MaxNodes \in Nat /\ MaxNodes >= MIN_NODES
ASSUME SwitchAssumption ==
  Careful \in BOOLEAN /\ MallocFails \in BOOLEAN /\ ReallocFails \in BOOLEAN

VARIABLES
  lh,    \* the _LHASH: b, num_nodes, num_alloc_nodes, p, pmax, num_items, down_load
  data,  \* the data pointer in the node of each key, NULL without a node
  last,  \* the last call that came back, and what it returned
  walk   \* doall_util_fn: on, i, chain (the nodes from its pointer on), and what
         \* the walk is measured by: the items it still owes a visit, the ones it
         \* has seen, and the number of buckets it began with

vars == <<lh, data, last, walk>>

Call(op, k, v, ret) == [op |-> op, key |-> k, val |-> v, ret |-> ret]

-----------------------------------------------------------------------------
(* The table. *)

lh_new ==
  [b               |-> [j \in 0..(MIN_NODES - 1) |-> {}],
   num_nodes       |-> MIN_NODES \div 2,
   num_alloc_nodes |-> MIN_NODES,
   p               |-> 0,
   pmax            |-> MIN_NODES \div 2,
   num_items       |-> 0,
   down_load       |-> DOWN_LOAD]

\* getrn: the bucket a key is looked for in.
Bucket(l, k) ==
  LET nn == Hash[k] % l.pmax
  IN IF nn < l.p THEN Hash[k] % l.num_alloc_nodes ELSE nn

Found(l, k) == k \in l.b[Bucket(l, k)]

Load(l) == (l.num_items * LH_LOAD_MULT) \div l.num_nodes

\* The first half of expand: bucket p shares its items with a new top bucket.
Split(l) ==
  LET moved == {k \in l.b[l.p] : Hash[k] % l.num_alloc_nodes # l.p}
  IN [l EXCEPT !.b = [l.b EXCEPT ![l.p] = @ \ moved, ![l.p + l.pmax] = moved],
               !.num_nodes = @ + 1,
               !.p = @ + 1]

\* The array after the reallocation in expand.
Doubled(l) ==
  [l EXCEPT !.b = [j \in 0..(2 * l.num_alloc_nodes - 1) |->
                     IF j < l.num_alloc_nodes THEN l.b[j] ELSE {}],
            !.pmax = l.num_alloc_nodes,
            !.num_alloc_nodes = 2 * @,
            !.p = 0]

expand(l, ok) ==
  LET s == Split(l)
  IN IF s.p < s.pmax THEN s
     ELSE IF ok THEN Doubled(s)
     ELSE [s EXCEPT !.p = 0]

\* The table without its top bucket: one bucket of the present round fewer, or
\* the last one of the round before, in an array half as large.
Shrunk(l) ==
  IF l.p = 0
  THEN [l EXCEPT !.b = [j \in 0..(l.pmax - 1) |-> l.b[j]],
                 !.num_alloc_nodes = @ \div 2,
                 !.pmax = @ \div 2,
                 !.p = (l.pmax \div 2) - 1]
  ELSE [l EXCEPT !.p = @ - 1]

contract(l, ok) ==
  LET top == l.p + l.pmax - 1
      np  == l.b[top]
      cut == [l EXCEPT !.b = [l.b EXCEPT ![top] = {}]]
      s   == Shrunk(cut)
  IN IF l.p = 0 /\ ~ok THEN cut
     ELSE [s EXCEPT !.num_nodes = @ - 1,
                    !.b = [s.b EXCEPT ![s.p] = @ \cup np]]

\* The nodes of the buckets in use: what lh_doall and lh_free reach.
Items(l) == UNION {l.b[j] : j \in 0..(l.num_nodes - 1)}

-----------------------------------------------------------------------------
(* lh_insert, lh_delete, lh_retrieve. *)

Grown(l, ok) == IF UP_LOAD <= Load(l) THEN expand(l, ok) ELSE l

WithNode(l, k) ==
  [l EXCEPT !.b = [l.b EXCEPT ![Bucket(l, k)] = @ \cup {k}],
            !.num_items = @ + 1]

WithoutNode(l, k) ==
  [l EXCEPT !.b = [l.b EXCEPT ![Bucket(l, k)] = @ \ {k}],
            !.num_items = @ - 1]

\* The load is not looked at.
MustContractAlways(l) == l.num_nodes > MIN_NODES

MustContract(l) == l.num_nodes > MIN_NODES /\ l.down_load >= Load(l)

\* What lh_delete leaves of a table that holds k.
Deleted(l, k, ok) ==
  LET d == WithoutNode(l, k)
  IN IF MustContract(d) THEN contract(d, ok) ELSE d

Reallocs == {TRUE} \cup {ok \in {FALSE} : ReallocFails}

lh_insert(k, v) ==
  /\ ~walk.on
  /\ UP_LOAD <= Load(lh) => lh.num_nodes < MaxNodes
  /\ \E ok \in Reallocs :
       LET l == Grown(lh, ok)
       IN IF Found(l, k)
          THEN /\ last' = Call("insert", k, v, data[k])
               /\ lh' = l
               /\ data' = [data EXCEPT ![k] = v]
          ELSE /\ last' = Call("insert", k, v, NULL)
               /\ \/ /\ lh' = WithNode(l, k)
                     /\ data' = [data EXCEPT ![k] = v]
                  \/ /\ MallocFails
                     /\ lh' = l
                     /\ UNCHANGED data
  /\ UNCHANGED walk

lh_delete(k) ==
  /\ ~walk.on
  /\ IF Found(lh, k)
     THEN /\ last' = Call("delete", k, NULL, data[k])
          /\ data' = [data EXCEPT ![k] = NULL]
          /\ \E ok \in Reallocs : lh' = Deleted(lh, k, ok)
     ELSE /\ last' = Call("delete", k, NULL, NULL)
          /\ UNCHANGED <<lh, data>>
  /\ UNCHANGED walk

\* A search that forgets the buckets already split.
RetrieveUnsplit(k) ==
  /\ ~walk.on
  /\ last' = Call("retrieve", k, NULL,
                  IF k \in lh.b[Hash[k] % lh.pmax] THEN data[k] ELSE NULL)
  /\ UNCHANGED <<lh, data, walk>>

lh_retrieve(k) ==
  /\ ~walk.on
  /\ last' = Call("retrieve", k, NULL, IF Found(lh, k) THEN data[k] ELSE NULL)
  /\ UNCHANGED <<lh, data, walk>>

-----------------------------------------------------------------------------
(* lh_doall and lh_doall_arg. *)

\* The loop that caused the leaks the comment in the code speaks of.
BottomUp(l, i) == IF i + 1 < l.num_nodes THEN i + 1 ELSE -1

\* A loop that starts over when the table has shrunk.
StartOver(l, i) ==
  IF i = -1 \/ l.num_nodes < walk.nodes THEN l.num_nodes - 1 ELSE i - 1

\* The loop over the buckets: the one after bucket i; -1 is before the first
\* and after the last.
LoopIndex(l, i) == IF i = -1 THEN l.num_nodes - 1 ELSE i - 1

\* The walk begins, its caller having set down_load to d: to 0, as
\* SSL_CTX_flush_sessions does, or left as it is.
BeginWalk(d) ==
  /\ ~walk.on
  /\ LET i == LoopIndex(lh, -1)
     IN walk' = [on |-> TRUE, i |-> i, chain |-> lh.b[i],
                 owed |-> Items(lh), seen |-> {}, nodes |-> lh.num_nodes]
  /\ lh' = [lh EXCEPT !.down_load = d]
  /\ last' = Call("doall", NULL, NULL, NULL)
  /\ UNCHANGED data

\* The nodes from the saved pointer n on, once the callback is back: when the
\* top bucket's chain was appended to the chain n is in, it follows too.
From(n, l, k) ==
  IF n # {} /\ l.num_nodes < lh.num_nodes /\ n \subseteq lh.b[l.p]
  THEN n \cup (lh.b[lh.num_nodes - 1] \ {k})
  ELSE n

\* The walk after the callback for k, with its pointer at chain.
Visited(k, chain) ==
  [walk EXCEPT !.chain = chain, !.owed = @ \ {k}, !.seen = @ \cup {k}]

\* The chain is read from its head again after the callback.
VisitKeepingAgain(k) ==
  /\ walk.on /\ k \in walk.chain
  /\ walk' = Visited(k, lh.b[walk.i])
  /\ UNCHANGED <<lh, data, last>>

\* The callback is called for the item k the walk is at, and leaves it alone.
VisitKeeping(k) ==
  /\ walk.on /\ k \in walk.chain
  /\ walk' = Visited(k, walk.chain \ {k})
  /\ UNCHANGED <<lh, data, last>>

\* The pointer to the next node is read from the deleted node.
VisitDeletingStale(k) ==
  /\ walk.on /\ k \in walk.chain
  /\ Careful => lh.down_load = 0
  /\ IF Found(lh, k)
     THEN /\ last' = Call("delete", k, NULL, data[k])
          /\ data' = [data EXCEPT ![k] = NULL]
          /\ \E ok \in Reallocs : lh' = Deleted(lh, k, ok)
     ELSE /\ last' = Call("delete", k, NULL, NULL)
          /\ UNCHANGED <<lh, data>>
  /\ walk' = Visited(k, walk.chain)

\* The callback deletes the item it is called for.
VisitDeleting(k) ==
  /\ walk.on /\ k \in walk.chain
  /\ Careful => lh.down_load = 0
  /\ IF Found(lh, k)
     THEN /\ last' = Call("delete", k, NULL, data[k])
          /\ data' = [data EXCEPT ![k] = NULL]
          /\ \E ok \in Reallocs :
               LET l == Deleted(lh, k, ok)
               IN lh' = l /\ walk' = Visited(k, From(walk.chain \ {k}, l, k))
     ELSE /\ last' = Call("delete", k, NULL, NULL)
          /\ UNCHANGED <<lh, data>>
          /\ walk' = Visited(k, walk.chain \ {k})

\* What reading b[i] may give: anything, beyond the end of the array.
Read(i) == IF i < lh.num_alloc_nodes THEN {lh.b[i]} ELSE SUBSET Key

\* The chain is at its end: the next bucket's, if there is one.
NextBucket ==
  LET i == LoopIndex(lh, walk.i)
  IN /\ walk.on /\ walk.chain = {} /\ i # -1
     /\ \E chain \in Read(i) : walk' = [walk EXCEPT !.i = i, !.chain = chain]
     /\ UNCHANGED <<lh, data, last>>

\* The loop is over; the caller gives down_load its value back.
EndWalk ==
  /\ walk.on /\ walk.chain = {} /\ LoopIndex(lh, walk.i) = -1
  /\ walk' = [walk EXCEPT !.on = FALSE, !.i = -1, !.seen = {}]
  /\ lh' = [lh EXCEPT !.down_load = DOWN_LOAD]
  /\ UNCHANGED <<data, last>>

doall_util_fn ==
  \/ \E k \in Key : VisitKeeping(k) \/ VisitDeleting(k)
  \/ NextBucket
  \/ EndWalk

-----------------------------------------------------------------------------

Init ==
  /\ lh = lh_new
  /\ data = [k \in Key |-> NULL]
  /\ last = Call("new", NULL, NULL, NULL)
  /\ walk = [on |-> FALSE, i |-> -1, chain |-> {}, owed |-> {}, seen |-> {}, nodes |-> 0]

Next ==
  \/ \E k \in Key :
       \/ \E v \in Val : lh_insert(k, v)
       \/ lh_delete(k)
       \/ lh_retrieve(k)
  \/ \E d \in {0, DOWN_LOAD} : BeginWalk(d)
  \/ doall_util_fn

\* A walk is a loop that runs to its end: its callbacks return.
Spec == Init /\ [][Next]_vars /\ WF_vars(doall_util_fn)

-----------------------------------------------------------------------------
(* Properties. *)

\* The fields of the table fit each other: the buckets in use are the pmax of
\* the round and the p split off, and the array has room for a whole round.
TypeOK ==
  /\ lh.pmax \in Nat \ {0} /\ lh.p \in 0..(lh.pmax - 1)
  /\ lh.num_alloc_nodes = 2 * lh.pmax
  /\ lh.num_nodes = lh.pmax + lh.p
  /\ lh.b \in [0..(lh.num_alloc_nodes - 1) -> SUBSET Key]
  /\ \A j \in lh.num_nodes..(lh.num_alloc_nodes - 1) : lh.b[j] = {}
  /\ lh.num_items \in Nat /\ lh.down_load \in {0, DOWN_LOAD}
  /\ data \in [Key -> Val \cup {NULL}] /\ last.ret \in Val \cup {NULL}
  /\ walk.on \in BOOLEAN /\ walk.nodes \in Nat /\ walk.i \in -1..(walk.nodes - 1)
  /\ walk.chain \subseteq Key /\ walk.owed \subseteq Key /\ walk.seen \subseteq Key

\* The count lh_num_items returns, which the load factors are computed from,
\* is the number of nodes in the buckets in use: splitting and merging buckets
\* neither loses nor duplicates a node (lhash.c:189-264).
CountExact ==
  /\ lh.num_items = Cardinality(Items(lh))
  /\ \A i, j \in 0..(lh.num_nodes - 1) : i # j => lh.b[i] \cap lh.b[j] = {}

Contents ==
  LET held == Items(lh)
  IN [k \in Key |-> IF k \in held THEN data[k] ELSE NULL]

Dict == INSTANCE Dictionary WITH map <- Contents

\* Whatever splits and merges of buckets lie between an insertion and a later
\* call, the table behaves as the map of doc/crypto/lhash.pod: every call finds
\* its key's node in the one bucket getrn looks in (lhash.c:266-294).
ImplementsDictionary == Dict!Spec

\* A walk visits every item that was in the table when it began, even when
\* its callbacks delete items and the table shrinks under it: the top bucket's
\* chain only ever moves to a bucket still ahead ("reverse the order so we
\* search from 'top to bottom'", lhash.c:164).
AllVisited == ~walk.on => walk.owed = {}

\* An item is met a second time in a walk only after the table has shrunk
\* during it: callbacks that free what they are called for rely on it
\* (lhash.c:166-176).
NoSecondVisit ==
  walk.on /\ lh.num_nodes = walk.nodes => walk.chain \cap walk.seen = {}

\* The pointer the walk saved before the callback leads to nodes that are
\* still in the table: a callback that deletes its own item frees no node the
\* walk goes on to read (lhash.c:169-174).
LiveChain == walk.on => walk.chain \subseteq Items(lh)

\* A walk never reads beyond the bucket array, although the array is
\* reallocated to half its size when callbacks delete enough and the loop index
\* is not told (lhash.c:166, 240): the loop is never more than one bucket above
\* the ones in use.
ReadsInBounds ==
  walk.on => walk.i <= lh.num_nodes + 1 /\ LoopIndex(lh, walk.i) < lh.num_alloc_nodes

\* A walk ends, although a contraction may append visited items to the chain
\* it is on: each of those costs a deletion.
WalkEnds == walk.on ~> ~walk.on
=============================================================================
