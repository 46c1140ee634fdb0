-------------------------------- MODULE Pool --------------------------------
(***************************************************************************)
(* The small-object allocator of cpvmm: memory_manager/pool.c over the page *)
(* heap, with its hash table (utils/hash64.c), as memory_allocator.c uses  *)
(* it, one pool under one lock, so each operation is one action.  A pool   *)
(* splits pages into elements and keeps, for every page it split, the      *)
(* number of its free elements in a hash table.  The nodes of that table   *)
(* are themselves elements of pages the pool splits, and a page of nodes is *)
(* described by its own first node: inserting into the table may split a   *)
(* page and insert that page first, and removing may empty a page of nodes *)
(* and remove it too.                                                      *)
(*                                                                         *)
(* An element is <<page, k>>; the element <<page, 0>> is page-aligned.      *)
(* Clients ask for bytes at an alignment: memory_allocator.c picks the pool *)
(* of the next power of two and writes, in front of the buffer it returns, *)
(* what it needs to find the element again.                                *)
(***************************************************************************)
EXTENDS Integers, Sequences, FiniteSets, SequencesExt, FiniteSetsExt

CONSTANTS
    PoolPages,      \* the pages of the heap
    PerPage,        \* num_of_elements_per_page
    NodesPerPage,   \* num_of_hash_elements_per_page
    FreeUnusedAt,   \* POOL_FREE_UNUSED_PAGES_THRESHOLD (5000 in the code)
    AllocRequests,  \* what clients ask for: [size, align]
    MaxHeld         \* bound on the elements clients hold at a time

ASSUME PoolAssumption == PoolPages \subseteq Nat \ {0} /\ PerPage > 1 /\ NodesPerPage > 2

VARIABLE pool
(* pool.elements, .nodes, .pages: the three free lists; .hash: page -> [free |->
   its free elements, node |-> the node that holds the entry]; .owned, .forNodes,
   .forElements: the page counters; .ops: alloc_free_ops_counter; .heap: the
   pages still in the heap; .held: the elements clients hold, with what was
   asked for and the header before the buffer.                             *)

NoNode == <<0, 0>>     \* no page is numbered 0
NoElement == <<0, 0>>

Page(e) == e[1]
Aligned(e) == e[2] = 0
AtHead(s, e) == <<e>> \o s
AtTail(s, e) == Append(s, e)
Split(page, n) == [k \in 1 .. n |-> <<page, k - 1>>]
ListWithout(s, page) == SelectSeq(s, LAMBDA e : Page(e) # page)

(* pool_create_internal *)
PoolInit ==
    pool = [elements |-> <<>>, nodes |-> <<>>, pages |-> <<>>, hash |-> <<>>, owned |-> 0,
            forNodes |-> 0, forElements |-> 0, ops |-> 0, heap |-> PoolPages, held |-> <<>>]

(* pool_calculate_number_of_new_pages_to_allocate *)
NewPages(p) == LET n == p.owned \div 8 IN IF n = 0 THEN 4 ELSE Min({n, 100})

(* vmm_page_alloc_scattered gives up to n pages, all the heap has if fewer; *)
(* each goes to the front of the free list.                                *)
FromHeap(p, n) ==
    LET got == SubSeq(SetToSortSeq(p.heap, <), 1, Min({n, Cardinality(p.heap)}))
    IN  [p EXCEPT !.pages = Reverse(got) \o @, !.owned = @ + Len(got), !.heap = @ \ ToSet(got)]

(* pool_free_several_pages_into_heap *)
ToHeap(p, n) ==
    LET k == Min({n, Len(p.pages)})
    IN  [p EXCEPT !.pages = SubSeq(@, k + 1, Len(@)), !.owned = @ - k,
                  !.heap = @ \cup {p.pages[i] : i \in 1 .. k}]

(* pool_get_num_of_pages_to_free_to_heap *)
PagesToFree(p) ==
    LET quarter == p.owned \div 4
        n == IF Len(p.pages) >= quarter /\ p.owned >= 4 THEN quarter ELSE 0
    IN  IF Len(p.pages) - n > 100 THEN Len(p.pages) - 100 ELSE n

HashDrop(p, page) == [p EXCEPT !.hash = [q \in DOMAIN p.hash \ {page} |-> p.hash[q]]]
HashSet(p, page, free, node) == [p EXCEPT !.hash = (page :> [free |-> free, node |-> node]) @@ @]

(* pool_free_hash_node: a page all of whose nodes but the first are free is *)
(* removed from the table and becomes a free page.  Removing it frees its   *)
(* own first node, which goes to the list's tail before the page's nodes   *)
(* are taken off the list.                                                 *)
FreeNode(p, node) ==
    LET page == Page(node)
        n == p.hash[page].free + 1
        q == [p EXCEPT !.nodes = AtHead(@, node)]
    IN  IF n < NodesPerPage - 1
        THEN HashSet(q, page, n, p.hash[page].node)
        ELSE [HashDrop(q, page) EXCEPT !.nodes = ListWithout(AtTail(@, p.hash[page].node), page),
                                       !.pages = AtHead(@, page),
                                       !.forNodes = @ - 1]

(* hash64_remove unlinks the entry and then frees its node *)
HashRemove(p, page) == FreeNode(HashDrop(p, page), p.hash[page].node)

(* pool_try_to_free_unused_page_from_elements_list(FALSE): the aligned      *)
(* elements at the tail of the list, last first, until one whose page is   *)
(* wholly free.                                                            *)
Unused(p, i) ==
    /\ \A j \in i .. Len(p.elements) : Aligned(p.elements[j])
    /\ p.hash[Page(p.elements[i])].free = PerPage

(* A faulty form: the first aligned element from the tail, free or not. *)
EarlyUnused(p) ==
    LET i == {j \in 1 .. Len(p.elements) :
                \A k \in j .. Len(p.elements) : Aligned(p.elements[k])}
    IN  IF i = {} THEN p
        ELSE LET page == Page(p.elements[Max(i)])
                 q == HashRemove(p, page)
             IN  [q EXCEPT !.elements = ListWithout(@, page), !.pages = AtHead(@, page), !.forElements = @ - 1]
FreeUnused(p) ==
    LET i == {j \in 1 .. Len(p.elements) : Unused(p, j)}
    IN  IF i = {} THEN p
        ELSE LET page == Page(p.elements[Max(i)])
                 q == HashRemove(p, page)
             IN  [q EXCEPT !.elements = ListWithout(@, page), !.pages = AtHead(@, page), !.forElements = @ - 1]

(* pool_report_alloc_free_op *)
GiveBack(p) == ToHeap(p, PagesToFree(p))
Report(p) ==
    IF p.ops + 1 < FreeUnusedAt THEN [p EXCEPT !.ops = @ + 1]
    ELSE GiveBack(FreeUnused([p EXCEPT !.ops = 0]))

(* pool_allocate_hash_node: a free node, or the second node of a new page of *)
(* nodes whose first node records the page; node = NoNode when there is     *)
(* neither a page nor any to be had.                                       *)
WithFreePage(p) == IF p.pages = <<>> THEN FromHeap(p, 1) ELSE p
NodeOfNewPage(p) ==
    IF p.pages = <<>> THEN [node |-> NoNode, pool |-> p]
    ELSE LET page == Head(p.pages)
             \* FreeUnused may have left free nodes behind; the new ones go first
             ns == Split(page, NodesPerPage) \o p.nodes
         IN  [node |-> ns[2],
              pool |-> HashSet([p EXCEPT !.pages = Tail(@), !.forNodes = @ + 1,
                                         !.nodes = SubSeq(ns, 3, Len(ns))],
                               page, Len(ns) - 2, ns[1])]
AllocNode(p) ==
    IF p.nodes # <<>>
    THEN LET node == Head(p.nodes)
             e == p.hash[Page(node)]
         IN  [node |-> node,
              pool |-> HashSet([p EXCEPT !.nodes = Tail(@)], Page(node), e.free - 1, e.node)]
    ELSE NodeOfNewPage(WithFreePage(IF p.pages = <<>> THEN FreeUnused(p) ELSE p))

(* pool_allocate_internal *)
FromList(p) ==
    LET e == Head(p.elements)
        h == p.hash[Page(e)]
    IN  [element |-> e, pool |-> HashSet([p EXCEPT !.elements = Tail(@)], Page(e), h.free - 1, h.node)]

PageInserted(page, a) ==
    IF a.node = NoNode       \* the failed insertion is undone
    THEN [element |-> NoElement,
          pool |-> [a.pool EXCEPT !.elements = ListWithout(@, page), !.forElements = @ - 1,
                                  !.pages = AtHead(@, page)]]
    ELSE [element |-> <<page, 0>>, pool |-> HashSet(a.pool, page, PerPage - 1, a.node)]
FromNewPage(p) ==
    LET page == Head(p.pages)
        split == [p EXCEPT !.pages = Tail(@), !.forElements = @ + 1,
                           !.elements = Tail(Split(page, PerPage))]
    IN  PageInserted(page, AllocNode(split))

Replenished(p) ==
    IF p.elements = <<>> /\ p.pages = <<>> THEN FromHeap(p, NewPages(p)) ELSE p
AllocatedFrom(p) ==
    CASE p.elements # <<>> -> FromList(p)
      [] p.elements = <<>> /\ p.pages # <<>> -> FromNewPage(p)
      [] OTHER -> [element |-> NoElement, pool |-> p]
Allocated(p) == AllocatedFrom(Replenished(Report(p)))

Header == 8                      \* sizeof(MEM_ALLOCATION_INFO)
ElementSize == 4096 \div PerPage  \* of this pool

(* buffer_size_to_pool_index: the power of two the size rounds up to *)
PoolSize(n) == 2 ^ Min({i \in 0 .. 12 : n <= 2 ^ i})

(* A buffer at a greater alignment than the header's starts one alignment  *)
(* into an element of twice the size.                                      *)
SizeToRequest(r) == IF r.align > Header THEN 2 * Max({r.size, r.align}) ELSE r.size + Header

Refused(r) == r.size > 2048 - Header \/ r.align >= 4096

(* vmm_mem_allocate_internal, for the requests that lead to this pool *)
HandOut(a, r) ==
    IF a.element = NoElement THEN a.pool
    ELSE LET info == [size |-> ElementSize, offset |-> r.align]
         IN  [a.pool EXCEPT !.held = (a.element :> [asked |-> r, info |-> info]) @@ @]
MemAllocate(r) ==
    /\ Cardinality(DOMAIN pool.held) < MaxHeld
    /\ ~Refused(r) /\ PoolSize(SizeToRequest(r)) = ElementSize
    /\ pool' = HandOut(Allocated(pool), r)

(* pool_free: an aligned element goes to the tail of the free list *)
PoolFreed(p, e) ==
    LET h == p.hash[Page(e)]
        q == [p EXCEPT !.elements = IF Aligned(e) THEN AtTail(@, e) ELSE AtHead(@, e)]
    IN  Report(HashSet(q, Page(e), h.free + 1, h.node))

(* vmm_mem_free of the buffer in element e: the header before the buffer   *)
(* leads to the pool and back to the element.                              *)
MemFree(e) ==
    LET buffer == ElementSize * e[2] + pool.held[e].asked.align
        info == pool.held[e].info
    IN  /\ PoolSize(info.size) = ElementSize
        /\ pool' = PoolFreed([pool EXCEPT !.held = [x \in DOMAIN @ \ {e} |-> @[x]]],
                             <<Page(e), (buffer - info.offset) \div ElementSize>>)

(* Others take pages from the heap and give them back. *)
OthersUse(page) ==
    pool' = [pool EXCEPT !.heap = IF page \in @ THEN @ \ {page} ELSE @ \cup {page}]

OthersHold == PoolPages \ (pool.heap \cup ToSet(pool.pages) \cup DOMAIN pool.hash)

PoolNext ==
    \/ \E r \in AllocRequests : MemAllocate(r)
    \/ \E e \in DOMAIN pool.held : MemFree(e)
    \/ \E page \in pool.heap \cup OthersHold : OthersUse(page)

PoolTypeOK ==
    /\ pool.elements \in Seq(PoolPages \X (0 .. PerPage - 1))
    /\ pool.nodes \in Seq(PoolPages \X (0 .. NodesPerPage - 1))
    /\ pool.pages \in Seq(PoolPages)
    /\ {pool.owned, pool.forNodes, pool.forElements, pool.ops} \subseteq Nat
    /\ pool.heap \subseteq PoolPages
    /\ DOMAIN pool.held \subseteq PoolPages \X (0 .. PerPage - 1)

CountOn(s, page) == Cardinality({i \in DOMAIN s : Page(s[i]) = page})

ElementPages == {Page(e) : e \in DOMAIN pool.held \cup ToSet(pool.elements)}

(* Through reuse, page recycling and the table's storage of its own nodes,  *)
(* no element a client holds is on a free list or on a page that was given *)
(* up, and the table, the lists and the counters that decide when a page   *)
(* may be given up agree with what is really free.  A buffer and the       *)
(* header before it lie inside its element, at the alignment asked for.    *)
PoolConsistent ==
    /\ \A e \in DOMAIN pool.held : e \notin ToSet(pool.elements)
    /\ \A e \in DOMAIN pool.held :
         LET h == pool.held[e] IN
           /\ h.info.offset >= Header /\ (ElementSize * e[2] + h.info.offset) % h.asked.align = 0
           /\ h.info.offset + h.asked.size <= ElementSize
    /\ ElementPages \subseteq DOMAIN pool.hash
    /\ ToSet(pool.pages) \cap (pool.heap \cup DOMAIN pool.hash) = {}
    /\ pool.heap \cap DOMAIN pool.hash = {}
    /\ \A page \in DOMAIN pool.hash :
         pool.hash[page].free = IF page \in ElementPages THEN CountOn(pool.elements, page)
                                                         ELSE CountOn(pool.nodes, page)
    /\ \A i, j \in DOMAIN pool.elements :
         i < j /\ Aligned(pool.elements[i]) => Aligned(pool.elements[j])
    /\ \A p, q \in DOMAIN pool.hash : p # q => pool.hash[p].node # pool.hash[q].node
    /\ \A p \in DOMAIN pool.hash : pool.hash[p].node \notin ToSet(pool.nodes)
    /\ pool.owned = pool.forNodes + pool.forElements + Len(pool.pages)
    /\ pool.forNodes + pool.forElements = Cardinality(DOMAIN pool.hash)
=============================================================================
