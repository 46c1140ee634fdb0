------------------------------- MODULE Hash64 -------------------------------
(***************************************************************************)
(* The hash table of cpvmm/vmm/utils/hash64.c: an array of chains.  A new  *)
(* node goes to the head of its chain; a search stops at the first node    *)
(* with the key; growing the table walks the old chains from their heads   *)
(* and pushes every node to the head of its new chain.  The memory pools   *)
(* keep their page counters in such a table and the event manager its      *)
(* guest CPUs.  Both call it under a lock or from one processor, so a call *)
(* is one step; every allocation may fail.                                 *)
(***************************************************************************)
EXTENDS Integers, SequencesExt, TLC

CONSTANTS HashKeys,    \* keys (numbers)
          HashValues,
          HashSizes    \* sizes a table is created with or changed to

ASSUME Hash64Assumption == /\ HashKeys \subseteq Nat
                           /\ HashSizes \subseteq Nat \ {0}
                           /\ HashSizes # {}

VARIABLE ht   \* the table: its size, array, element count; the last answer;
              \* and the nodes and arrays allocated and not freed

Ret(op, key, result) == [op |-> op, key |-> key, result |-> result]

NoTable == [live |-> FALSE, size |-> 0, array |-> <<>>, count |-> 0]

HashInit == ht = [table |-> NoTable, ret |-> Ret("none", 0, "FALSE"), nodes |-> 0, arrays |-> 0]

\* hash64_default_hash_func; a chain is a sequence of nodes, head first.
CellOf(key, size) == key % size

Chain(key) == ht.table.array[CellOf(key, ht.table.size)]

\* The position of the first node with the key, 0 when there is none.
hash64_find(chain, key) ==
  LET hits == {i \in DOMAIN chain : chain[i].key = key}
  IN  IF hits = {} THEN 0 ELSE CHOOSE i \in hits : \A j \in hits : i <= j

Answers(op, key, result) == ht' = [ht EXCEPT !.ret = Ret(op, key, result)]

\* The table and its array are two allocations; the first is freed when the
\* second fails.
hash64_create_hash_internal ==
  /\ ~ht.table.live
  /\ \/ Answers("create", 0, "FALSE")
     \/ \E size \in HashSizes :
          ht' = [ht EXCEPT !.table = [live |-> TRUE, size |-> size, count |-> 0,
                                      array |-> [c \in 0..size - 1 |-> <<>>]],
                           !.ret = Ret("create", 0, "TRUE"), !.arrays = @ + 1]

\* A faulty form: the node takes the place of the chain it finds.
AddNodeOverHead(key, value) ==
  LET cell == CellOf(key, ht.table.size)
      node == [key |-> key, value |-> value]
  IN  ht' = [ht EXCEPT !.table.array[cell] = <<node>>,
                       !.table.count = @ + 1, !.nodes = @ + 1,
                       !.ret = Ret("put", key, "TRUE")]

AddNode(key, value) ==
  LET cell == CellOf(key, ht.table.size)
      node == [key |-> key, value |-> value]
  IN  ht' = [ht EXCEPT !.table.array[cell] = <<node>> \o @,
                       !.table.count = @ + 1, !.nodes = @ + 1,
                       !.ret = Ret("put", key, "TRUE")]

\* With update_when_found the node found gets the value; otherwise the key is
\* the caller's to be new (the assertion on it is compiled out).
hash64_insert_internal(key, value, update_when_found) ==
  LET cell == CellOf(key, ht.table.size)
      at   == IF update_when_found THEN hash64_find(Chain(key), key) ELSE 0
  IN  IF at = 0
      THEN AddNode(key, value) \/ Answers("put", key, "FALSE")
      ELSE ht' = [ht EXCEPT !.table.array[cell][at].value = value,
                            !.ret = Ret("put", key, "TRUE")]

hash64_insert == \E key \in HashKeys, value \in HashValues :
                   /\ ht.table.live
                   /\ hash64_find(Chain(key), key) = 0
                   /\ hash64_insert_internal(key, value, FALSE)

hash64_update == \E key \in HashKeys, value \in HashValues :
                   ht.table.live /\ hash64_insert_internal(key, value, TRUE)

hash64_lookup ==
  /\ ht.table.live
  /\ \E key \in HashKeys :
       LET at == hash64_find(Chain(key), key)
       IN  Answers("look", key, IF at = 0 THEN "FALSE" ELSE Chain(key)[at].value)

\* A faulty form: always the head is unlinked.
UnlinkHead(chain, at) == Tail(chain)

\* The head gives way to its successor; a later node is cut out by its
\* predecessor.
Unlink(chain, at) == IF at = 1 THEN Tail(chain) ELSE RemoveAt(chain, at)

hash64_remove ==
  /\ ht.table.live
  /\ \E key \in HashKeys :
       LET at == hash64_find(Chain(key), key)
       IN  IF at = 0 THEN Answers("drop", key, "FALSE")
           ELSE ht' = [ht EXCEPT !.table.array[CellOf(key, ht.table.size)] = Unlink(@, at),
                                 !.table.count = @ - 1, !.nodes = @ - 1,
                                 !.ret = Ret("drop", key, "TRUE")]

\* Every node, in the order the rehashing loop meets it.
Walk(array, size) == FlattenSeq([i \in 1..size |-> array[i - 1]])

\* A faulty form: the nodes keep the cell the old size gave them.
RehashedByOldSize(array, old, new) ==
  [c \in 0..new - 1 |->
     Reverse(SelectSeq(Walk(array, old), LAMBDA n : CellOf(n.key, old) = c))]

Rehashed(array, old, new) ==
  [c \in 0..new - 1 |->
     Reverse(SelectSeq(Walk(array, old), LAMBDA n : CellOf(n.key, new) = c))]

hash64_change_size_and_rehash ==
  /\ ht.table.live
  /\ \/ Answers("resize", 0, "FALSE")
     \/ \E size \in HashSizes :
          ht' = [ht EXCEPT !.table.array = Rehashed(ht.table.array, ht.table.size, size),
                           !.table.size = size, !.ret = Ret("resize", 0, "TRUE")]

\* The loop over the array stops as soon as the element count is zero.
NodesFreed(array, size, count) ==
  LET upto(c) == Len(Walk(array, c))
      stop    == CHOOSE c \in 0..size :
                   /\ upto(c) >= count \/ c = size
                   /\ \A d \in 0..c - 1 : upto(d) < count
  IN  upto(stop)

hash64_destroy_hash ==
  /\ ht.table.live
  /\ ht' = [ht EXCEPT !.nodes = @ - NodesFreed(ht.table.array, ht.table.size, ht.table.count),
                      !.arrays = @ - 1, !.table = NoTable, !.ret = Ret("destroy", 0, "TRUE")]

HashRest == UNCHANGED ht

HashNext == \/ hash64_create_hash_internal
            \/ hash64_insert
            \/ hash64_update
            \/ hash64_lookup
            \/ hash64_remove
            \/ hash64_change_size_and_rehash
            \/ hash64_destroy_hash
            \/ HashRest

-----------------------------------------------------------------------------
\* Every node hangs in a cell of the array, and the numbers are numbers.
HashTypeOK ==
  /\ DOMAIN ht.table.array = 0..ht.table.size - 1
  /\ \A c \in DOMAIN ht.table.array : \A i \in DOMAIN ht.table.array[c] :
         ht.table.array[c][i] \in [key : HashKeys, value : HashValues]
  /\ ht.table.count \in Nat /\ ht.nodes \in Nat /\ ht.arrays \in Nat

\* What a search can see of the table.
Contents ==
  IF ~ht.table.live THEN <<>>
  ELSE LET present == {k \in HashKeys : hash64_find(Chain(k), k) # 0}
       IN  [k \in present |-> Chain(k)[hash64_find(Chain(k), k)].value]

Abstract == INSTANCE Dictionary WITH DictKeys <- HashKeys, DictValues <- HashValues,
                                     exists <- ht.table.live,
                                     dict <- Contents, answer <- ht.ret

\* hash64.c implements a map: whatever the collisions, the removals and the
\* rehashing, an update changes the pair of its key and no other, a lookup
\* answers with the value last put, and growing the table loses nothing.  (A
\* step that leaves ht alone leaves the map alone.)
TableIsMap ==
  Abstract!DictInit /\ [][UNCHANGED ht \/ Abstract!DictNext]_(Abstract!dictVars)

\* The element count is the number of nodes in the chains, and every node
\* allocated is in a chain until it is freed: destroying the table, whose loop
\* trusts the count to stop early, leaves nothing allocated.
NodesAccounted ==
  LET held == Len(Walk(ht.table.array, ht.table.size))
  IN  ht.table.count = held /\ ht.nodes = held
      /\ ht.arrays = (IF ht.table.live THEN 1 ELSE 0)
=============================================================================
