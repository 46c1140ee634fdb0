-------------------------------- MODULE Heap --------------------------------
(***************************************************************************)
(* The page heap of cpvmm (utils/heap.c).  heap_array has one descriptor   *)
(* per 4K page: in_use, and number_of_pages, which at the first page of an *)
(* allocated buffer is the buffer's length, 0 at its other pages, and at a *)
(* free page the length of the free run that starts there.  The heap may   *)
(* be extended once by a second, separate stretch of memory; a dummy page  *)
(* that is always in use keeps runs from crossing into it.  Every          *)
(* operation runs under heap_lock, so each is one action; a request that   *)
(* fails changes nothing.  Addresses are counted in pages.                 *)
(***************************************************************************)
EXTENDS Integers, FiniteSets

CONSTANTS
    HeapPages,      \* heap_total_pages after vmm_heap_initialize
    ExtraPages,     \* g_heap_pa_num, the pages of the extension
    HeapBase,       \* heap_base
    ExBase,         \* where the extension lies
    MaxRequest      \* bound on the length of a request

VARIABLES
    inUse, pagesAt,     \* heap_array[i].in_use, .number_of_pages
    heapTotal,          \* heap_total_pages
    maxUsed,            \* max_used_pages
    buffers             \* the buffers clients hold, [at |-> address, n |-> pages]

heapVars == <<inUse, pagesAt, heapTotal, maxUsed, buffers>>

(* The number of pages vmm_heap_extend adds: one more than it was given. *)
ExPages == ExtraPages + 1

(* The two stretches do not overlap, and the extension does not end within *)
(* a page of the heap: CHECK_ADDRESS_IN_RANGE takes the address just past  *)
(* a range to be inside it, and ex_heap_pages counts the dummy page.       *)
ASSUME HeapAssumption ==
    /\ HeapPages \in Nat \ {0} /\ ExtraPages \in Nat \ {0} /\ MaxRequest \in Nat
    /\ HeapBase \in Nat \ {0} /\ ExBase \in Nat \ {0}
    /\ HeapBase + HeapPages <= ExBase \/ ExBase + ExPages < HeapBase

AllPages == 0 .. HeapPages + ExPages - 1

Extended == heapTotal > HeapPages

(* HEAP_PAGE_TO_POINTER *)
PointerOf(i) == IF Extended /\ i >= HeapPages THEN ExBase + (i - HeapPages - 1) ELSE HeapBase + i

(* HEAP_POINTER_TO_PAGE *)
PageOf(a) ==
    IF Extended /\ ExBase <= a /\ a <= ExBase + ExPages
    THEN (a - ExBase) + HeapPages + 1 ELSE a - HeapBase

(* vmm_heap_initialize *)
HeapInit ==
    /\ heapTotal = HeapPages
    /\ inUse = [i \in AllPages |-> FALSE]
    /\ pagesAt = [i \in AllPages |-> IF i < HeapPages THEN HeapPages - i ELSE 0]
    /\ maxUsed = 0
    /\ buffers = {}

(* vmm_heap_extend *)
HeapExtend ==
    /\ ~Extended
    /\ heapTotal' = HeapPages + ExPages
    /\ inUse' = [i \in AllPages |-> IF i < HeapPages THEN inUse[i] ELSE i = HeapPages]
    /\ pagesAt' = [i \in AllPages |->
                     CASE i < HeapPages -> pagesAt[i]
                       [] i = HeapPages -> 1
                       [] OTHER -> HeapPages + ExPages - i]
    /\ UNCHANGED <<maxUsed, buffers>>

Suits(i, n) == i < heapTotal /\ ~inUse[i] /\ n <= pagesAt[i]

(* page_alloc_unprotected finds the first page that starts a long enough run *)
AnyFit(n, p) ==
    /\ Suits(p, n)
    /\ inUse' = [i \in AllPages |-> inUse[i] \/ i \in p .. p + n - 1]
    /\ pagesAt' = [i \in AllPages |-> IF i = p THEN n ELSE pagesAt[i]]
    /\ maxUsed' = IF maxUsed < p + n THEN p + n ELSE maxUsed
    /\ buffers' = buffers \cup {[at |-> PointerOf(p), n |-> n]}
    /\ UNCHANGED heapTotal
PageAllocate(n, p) ==
    /\ n > 0
    /\ Suits(p, n) /\ \A i \in AllPages : Suits(i, n) => p <= i
    /\ inUse' = [i \in AllPages |-> inUse[i] \/ i \in p .. p + n - 1]
    /\ pagesAt' = [i \in AllPages |->
                     CASE i = p -> n
                       [] i \in p + 1 .. p + n - 1 -> 0
                       [] OTHER -> pagesAt[i]]
    /\ maxUsed' = IF maxUsed < p + n THEN p + n ELSE maxUsed
    /\ buffers' = buffers \cup {[at |-> PointerOf(p), n |-> n]}
    /\ UNCHANGED heapTotal

FreePages == {i \in AllPages : i < heapTotal /\ ~inUse[i]}

(* vmm_page_allocate_scattered takes the n lowest free pages one by one, and *)
(* keeps those it got when there are fewer.                                *)
AllocateScattered(n, S) ==
    /\ S # {} /\ S \subseteq FreePages
    /\ \A i \in S, j \in FreePages \ S : i < j
    /\ Cardinality(S) = n \/ (S = FreePages /\ Cardinality(S) < n)
    /\ inUse' = [i \in AllPages |-> inUse[i] \/ i \in S]
    /\ pagesAt' = [i \in AllPages |-> IF i \in S THEN 1 ELSE pagesAt[i]]
    /\ \E m \in S : /\ \A i \in S : i <= m
                    /\ maxUsed' = IF maxUsed < m + 1 THEN m + 1 ELSE maxUsed
    /\ buffers' = buffers \cup {[at |-> PointerOf(i), n |-> 1] : i \in S}
    /\ UNCHANGED heapTotal

(* vmm_page_free: the free run after the buffer is merged, then the free    *)
(* pages before it one at a time; only the pages up to the buffer's end are *)
(* rewritten, those of the run after it keep their descriptors.             *)
MergesForward(to) == to < heapTotal /\ ~inUse[to] /\ to + pagesAt[to] <= heapTotal

ReleasedFrom(from) ==
    CHOOSE s \in 0 .. from :
        /\ \A i \in s .. from - 1 : ~inUse[i] /\ pagesAt[i] # 0
        /\ s > 0 => inUse[s - 1] \/ pagesAt[s - 1] = 0

PageFree(b) ==
    LET from == PageOf(b.at)
        to == from + pagesAt[from]
        after == IF MergesForward(to) THEN pagesAt[to] ELSE 0
        start == ReleasedFrom(from)
    IN  /\ b \in buffers
        /\ inUse[from] /\ pagesAt[from] # 0
        /\ inUse' = [i \in AllPages |-> inUse[i] /\ i \notin start .. to - 1]
        /\ pagesAt' = [i \in AllPages |->
                         IF i \in start .. to - 1 THEN (to - i) + after ELSE pagesAt[i]]
        /\ buffers' = buffers \ {b}
        /\ UNCHANGED <<heapTotal, maxUsed>>

HeapNext ==
    \/ HeapExtend
    \/ \E n \in 1 .. MaxRequest, p \in AllPages : PageAllocate(n, p)
    \/ \E n \in 1 .. MaxRequest, S \in SUBSET AllPages : AllocateScattered(n, S)
    \/ \E b \in buffers : PageFree(b)

HeapSpec == HeapInit /\ [][HeapNext]_heapVars

HeapTypeOK ==
    /\ inUse \in [AllPages -> BOOLEAN]
    /\ pagesAt \in [AllPages -> Nat]
    /\ heapTotal \in {HeapPages, HeapPages + ExPages}
    /\ maxUsed \in Nat
    /\ buffers \subseteq [at : Nat, n : Nat \ {0}]

(* The pages a buffer occupies, as addresses. *)
Span(b) == b.at .. b.at + b.n - 1

(* The memory that vmm_page_allocate may ever return. *)
HeapMemory == (HeapBase .. HeapBase + HeapPages - 1)
              \cup (IF Extended THEN ExBase .. ExBase + ExtraPages - 1 ELSE {})

(* After any sequence of allocations, frees and the extension, the buffers *)
(* clients hold lie in the heap's memory and no two overlap, although free *)
(* rewrites only part of the run it makes.                                 *)
BuffersDisjoint ==
    /\ \A b \in buffers : Span(b) \subseteq HeapMemory
    /\ \A b, c \in buffers : b # c => Span(b) \cap Span(c) = {}

(* No page is lost: a page in use is the dummy page or part of a buffer    *)
(* someone holds, and a free page's descriptor is the exact length of the  *)
(* free run it starts, so a request fails only when no run is long enough.  *)
NoPageLost ==
    /\ \A i \in AllPages : inUse[i] /\ i # HeapPages => \E b \in buffers : PointerOf(i) \in Span(b)
    /\ \A i \in FreePages :
         /\ pagesAt[i] # 0 /\ i + pagesAt[i] <= heapTotal
         /\ \A j \in i .. i + pagesAt[i] - 1 : ~inUse[j]
         /\ i + pagesAt[i] < heapTotal => inUse[i + pagesAt[i]]

(* The page heap of utils/heap.c neither hands a page out twice nor loses   *)
(* one, through every order of allocations, frees and the one extension.   *)
HeapSound == BuffersDisjoint /\ NoPageLost
=============================================================================
