--------------------------- MODULE Monitor_proofs ---------------------------
(***************************************************************************)
(* The memory of the monitor and of its guest.                             *)
(*                                                                         *)
(* Heap, for any sizes of its two stretches of memory: every page is       *)
(* either free or in one buffer, and a free page's descriptor is the exact *)
(* length of the free run that starts there.                               *)
(*                                                                         *)
(* GuestMemory, for any number of CPUs, changes of the memory and control  *)
(* register writes: no CPU runs its guest on memory that is gone.  The CPU *)
(* that holds the EPT lock is the only one that changes the map, and it    *)
(* changes it when every other CPU is stopped; what a change makes stale   *)
(* on another CPU is repaired by the messages in that CPU's queue, which   *)
(* are handled before it is started again.                                 *)
(***************************************************************************)
EXTENDS Heap, GuestMemory, WellFoundedInduction, TLAPS

-----------------------------------------------------------------------------
(* The page heap *)

(* The least-number principle, for sets *)
Below == {ss \in Nat \X Nat : ss[1] < ss[2]}

\* A nonempty set of natural numbers has a least element.
LEMMA Least ==
  ASSUME NEW S \in SUBSET Nat, S # {}
  PROVE  \E n \in S : \A m \in S : n <= m
  <1>1. IsWellFoundedOn(Below, Nat)
    BY NatLessThanWellFounded DEF OpToRel, Below
  <1>2. PICK n \in S : \A m \in S : ~(<<m, n>> \in Below)
    BY <1>1, WFMin, Zenon
  <1>3. \A m \in Nat : m < n => <<m, n>> \in Below
    BY DEF Below
  <1>4. \A m \in S : n \in Nat /\ m \in Nat /\ ~(m < n)
    BY <1>2, <1>3, Zenon
  <1>5. \A m \in S : n <= m
    BY <1>4
  <1> QED BY <1>5

-----------------------------------------------------------------------------
(***************************************************************************)
(* The page heap.  The invariant speaks of page numbers, and the theorem   *)
(* of the addresses clients are given.                                     *)
(***************************************************************************)
Usable == {i \in AllPages : i < heapTotal /\ i # HeapPages}

Owned(b) == PageOf(b.at) .. PageOf(b.at) + b.n - 1

\* A buffer's pages are in use, and its first descriptor has its length.
BufferInv ==
    \A b \in buffers :
        /\ PageOf(b.at) \in Usable /\ b.at = PointerOf(PageOf(b.at))
        /\ Owned(b) \subseteq Usable
        /\ pagesAt[PageOf(b.at)] = b.n
        /\ \A i \in Owned(b) : inUse[i]

OwnerInv ==
    /\ \A b, c \in buffers : \A i \in Owned(b) : i \in Owned(c) => b = c
    /\ \A i \in Usable : inUse[i] => \E b \in buffers : i \in Owned(b)

\* A free page's descriptor is the exact length of the free run from there.
RunInv ==
    \A i \in FreePages :
        /\ pagesAt[i] # 0 /\ i + pagesAt[i] <= heapTotal
        /\ \A j \in i .. i + pagesAt[i] - 1 : ~inUse[j]
        /\ i + pagesAt[i] < heapTotal => inUse[i + pagesAt[i]]

\* The page between the two stretches is never free.
DummyInv ==
    /\ Extended => inUse[HeapPages]
    /\ ~Extended => \A i \in AllPages : i >= HeapPages => ~inUse[i]

HeapInv == HeapTypeOK /\ BufferInv /\ OwnerInv /\ RunInv /\ DummyInv

\* The page numbers and bounds as numbers.
LEMMA HeapNumbers ==
  /\ HeapPages \in Nat /\ HeapPages > 0 /\ ExtraPages \in Nat /\ ExPages = ExtraPages + 1
  /\ HeapBase \in Nat /\ ExBase \in Nat /\ MaxRequest \in Nat
  /\ HeapBase + HeapPages <= ExBase \/ ExBase + ExPages < HeapBase
  /\ AllPages \subseteq Nat
  /\ \A i : i \in AllPages <=> i \in Nat /\ i < HeapPages + ExPages
  BY HeapAssumption DEF ExPages, AllPages

\* Page numbers and addresses correspond, and addresses are in the heap.
LEMMA PointerPage ==
  ASSUME HeapTypeOK, NEW i \in Usable
  PROVE  /\ PointerOf(i) \in Nat /\ PageOf(PointerOf(i)) = i
         /\ PointerOf(i) \in HeapMemory
  BY HeapNumbers DEF HeapTypeOK, Usable, PointerOf, PageOf, HeapMemory, Extended

\* A buffer's addresses are those of its pages.
LEMMA SpanIsOwned ==
  ASSUME HeapInv, NEW b \in buffers
  PROVE  /\ \A a \in Span(b) : \E i \in Owned(b) : a = PointerOf(i)
         /\ \A i \in Owned(b) : PointerOf(i) \in Span(b)
  <1> DEFINE p == PageOf(b.at)
  <1>1. /\ b.n \in Nat /\ b.n > 0 /\ p \in Usable /\ b.at = PointerOf(p) /\ b.at \in Nat
        /\ Owned(b) = p .. p + b.n - 1
    BY DEF HeapInv, HeapTypeOK, BufferInv, Owned
  <1>2. p \in Nat /\ heapTotal \in Nat
    BY <1>1, HeapNumbers DEF Usable, HeapInv, HeapTypeOK
  <1>3. \A i \in Owned(b) : i \in Usable /\ i # HeapPages
    BY DEF HeapInv, BufferInv, Usable
  <1> HIDE DEF p
  <1>4. \A k \in 0 .. b.n - 1 : p + k \in Owned(b) /\ p + k # HeapPages
    BY <1>1, <1>2, <1>3
  <1>5. p < HeapPages => p + b.n - 1 < HeapPages
    <2> SUFFICES ASSUME p < HeapPages, p + b.n - 1 >= HeapPages PROVE FALSE
      BY <1>1, <1>2, HeapNumbers
    <2>1. HeapPages - p \in 0 .. b.n - 1
      BY <1>1, <1>2, HeapNumbers
    <2>2. p + (HeapPages - p) = HeapPages
      BY <1>2, HeapNumbers
    <2> QED BY <1>4, <2>1, <2>2
  <1>6. p # HeapPages
    BY <1>1 DEF Usable
  <1>7. \A k \in 0 .. b.n - 1 : PointerOf(p + k) = b.at + k
    BY <1>1, <1>2, <1>5, <1>6, HeapNumbers DEF PointerOf
  <1>8. ASSUME NEW a \in Span(b) PROVE \E i \in Owned(b) : a = PointerOf(i)
    <2>1. a - b.at \in 0 .. b.n - 1 /\ b.at + (a - b.at) = a
      BY <1>1 DEF Span
    <2> QED BY <1>4, <1>7, <2>1
  <1>9. ASSUME NEW i \in Owned(b) PROVE PointerOf(i) \in Span(b)
    <2>1. i - p \in 0 .. b.n - 1 /\ p + (i - p) = i
      BY <1>1, <1>2
    <2>2. PointerOf(i) = b.at + (i - p)
      BY <1>7, <2>1
    <2> QED BY <1>1, <2>1, <2>2 DEF Span
  <1> QED BY <1>8, <1>9

\* The invariant says what clients rely on.
LEMMA InvSound == HeapInv => HeapSound
  <1> SUFFICES ASSUME HeapInv PROVE HeapSound
    OBVIOUS
  <1>1. \A b \in buffers : Owned(b) \subseteq Usable
    BY DEF HeapInv, BufferInv
  <1>2. \A i \in Usable : PointerOf(i) \in HeapMemory /\ PageOf(PointerOf(i)) = i
    BY PointerPage DEF HeapInv
  <1>3. \A b \in buffers : Span(b) \subseteq HeapMemory
    BY <1>1, <1>2, SpanIsOwned
  <1>4. ASSUME NEW b \in buffers, NEW c \in buffers, b # c PROVE Span(b) \cap Span(c) = {}
    <2> SUFFICES ASSUME NEW a \in Span(b), a \in Span(c) PROVE FALSE
      OBVIOUS
    <2>1. PICK i \in Owned(b) : a = PointerOf(i)
      BY SpanIsOwned
    <2>2. PICK j \in Owned(c) : a = PointerOf(j)
      BY SpanIsOwned
    <2>3. i = j
      BY <1>1, <1>2, <2>1, <2>2, Zenon
    <2> QED BY <1>4, <2>3 DEF HeapInv, OwnerInv
  <1>5. ASSUME NEW i \in AllPages, inUse[i], i # HeapPages
        PROVE  \E b \in buffers : PointerOf(i) \in Span(b)
    <2>1. i \in Usable
      BY <1>5, HeapNumbers DEF HeapInv, HeapTypeOK, DummyInv, Usable, Extended
    <2>2. PICK b \in buffers : i \in Owned(b)
      BY <1>5, <2>1 DEF HeapInv, OwnerInv
    <2> QED BY <2>2, SpanIsOwned
  <1> QED BY <1>3, <1>4, <1>5 DEF HeapSound, BuffersDisjoint, NoPageLost, HeapInv, RunInv
-----------------------------------------------------------------------------
\* Pages and addresses correspond in the same way until the heap is extended.
LEMMA SameLayout ==
  ASSUME heapTotal' = heapTotal
  PROVE  /\ \A i : PointerOf(i)' = PointerOf(i)
         /\ \A a : PageOf(a)' = PageOf(a)
         /\ \A b : Owned(b)' = Owned(b)
         /\ Usable' = Usable
  BY DEF PointerOf, PageOf, Owned, Usable, Extended

\* A free page below heap_total_pages is one a client may be given.
LEMMA FreeIsUsable ==
  ASSUME HeapInv
  PROVE  FreePages \subseteq Usable
  BY HeapNumbers DEF HeapInv, HeapTypeOK, DummyInv, FreePages, Usable, Extended

\* vmm_heap_initialize leaves one run of free pages, each with the right length.
LEMMA InitHeap == HeapInit => HeapInv
  <1> SUFFICES ASSUME HeapInit PROVE HeapInv
    OBVIOUS
  <1>1. HeapTypeOK
    BY HeapNumbers DEF HeapInit, HeapTypeOK
  <1>2. BufferInv /\ OwnerInv
    BY HeapNumbers DEF HeapInit, BufferInv, OwnerInv, Usable
  <1>3. RunInv
    BY HeapNumbers DEF HeapInit, RunInv, FreePages
  <1>4. DummyInv
    BY HeapNumbers DEF HeapInit, DummyInv, Extended
  <1> QED BY <1>1, <1>2, <1>3, <1>4 DEF HeapInv

\* The extension: buffers keep their addresses and pages, and the dummy page
\* ends the last run of the first stretch.
LEMMA ExtendHeap ==
  ASSUME HeapInv, HeapExtend
  PROVE  HeapInv'
  <1>1. heapTotal = HeapPages /\ heapTotal' = HeapPages + ExPages /\ buffers' = buffers
        /\ Extended' /\ ~Extended
    BY HeapNumbers DEF HeapInv, HeapTypeOK, HeapExtend, Extended
  <1>2. /\ \A i \in AllPages : i < HeapPages => (inUse'[i] <=> inUse[i]) /\ pagesAt'[i] = pagesAt[i]
        /\ inUse'[HeapPages]
        /\ \A i \in AllPages : i > HeapPages =>
              ~inUse'[i] /\ pagesAt'[i] = HeapPages + ExPages - i
    <2>1. \A i \in AllPages : inUse'[i] = IF i < HeapPages THEN inUse[i] ELSE i = HeapPages
      BY DEF HeapExtend
    <2>2. \A i \in AllPages : i > HeapPages => ~(i < HeapPages) /\ i # HeapPages
      BY HeapNumbers
    <2>3. HeapPages \in AllPages /\ ~(HeapPages < HeapPages)
      BY HeapNumbers
    <2>4. \A i \in AllPages : /\ i < HeapPages => pagesAt'[i] = pagesAt[i]
                              /\ i > HeapPages => pagesAt'[i] = HeapPages + ExPages - i
      BY HeapNumbers DEF HeapExtend
    <2>5. \A i \in AllPages : i < HeapPages => (inUse'[i] <=> inUse[i])
      BY <2>1, Zenon
    <2>6. inUse'[HeapPages]
      BY <2>1, <2>3, Zenon
    <2>7. \A i \in AllPages : i > HeapPages => ~inUse'[i]
      BY <2>1, <2>2, Zenon
    <2> QED BY <2>4, <2>5, <2>6, <2>7
  <1>3. HeapTypeOK'
    <2>1. inUse' \in [AllPages -> BOOLEAN]
      BY Zenon DEF HeapInv, HeapTypeOK, HeapExtend
    <2>2. pagesAt' \in [AllPages -> Nat]
      <3>1. \A i \in AllPages : HeapPages + ExPages - i \in Nat
        BY HeapNumbers
      <3> QED BY <3>1 DEF HeapInv, HeapTypeOK, HeapExtend
    <2> QED BY <1>1, <2>1, <2>2 DEF HeapInv, HeapTypeOK, HeapExtend
  <1>4. \A i \in Usable : /\ i < HeapPages /\ i \in Usable'
                          /\ PointerOf(i)' = PointerOf(i) /\ PageOf(PointerOf(i))' = i
    BY <1>1, HeapNumbers DEF Usable, PointerOf, PageOf, Extended
  <1>5. \A b \in buffers : /\ PageOf(b.at)' = PageOf(b.at) /\ Owned(b)' = Owned(b)
                           /\ Owned(b) \subseteq Usable /\ PageOf(b.at) \in Usable
    <2> SUFFICES ASSUME NEW b \in buffers PROVE PageOf(b.at)' = PageOf(b.at)
      BY DEF HeapInv, BufferInv, Owned
    <2>1. b.at = PointerOf(PageOf(b.at)) /\ PageOf(b.at) \in Usable
      BY DEF HeapInv, BufferInv
    <2>2. PICK i \in Usable : b.at = PointerOf(i) /\ i = PageOf(b.at)
      BY <2>1
    <2>3. PointerOf(i)' = PointerOf(i) /\ PageOf(PointerOf(i))' = i
      BY <1>4
    <2>4. b.at = PointerOf(i)'
      BY <2>2, <2>3
    <2> QED BY <2>2, <2>3, <2>4 DEF PageOf
  <1>6. BufferInv'
    <2> SUFFICES ASSUME NEW b \in buffers
                 PROVE  /\ PageOf(b.at)' \in Usable' /\ b.at = PointerOf(PageOf(b.at))'
                        /\ Owned(b)' \subseteq Usable'
                        /\ pagesAt'[PageOf(b.at)'] = b.n
                        /\ \A i \in Owned(b)' : inUse'[i]
      BY <1>1 DEF BufferInv
    <2>1. /\ PageOf(b.at) \in Usable /\ b.at = PointerOf(PageOf(b.at))
          /\ pagesAt[PageOf(b.at)] = b.n /\ \A i \in Owned(b) : inUse[i]
      BY DEF HeapInv, BufferInv
    <2>2. Usable \subseteq AllPages
      BY DEF Usable
    <2>3. pagesAt'[PageOf(b.at)] = b.n /\ \A i \in Owned(b) : inUse'[i]
      BY <1>2, <1>4, <1>5, <2>1, <2>2
    <2>4. b.at = PointerOf(PageOf(b.at))'
      BY <1>1, <1>4, <1>5, <2>1, HeapNumbers DEF PointerOf, Usable
    <2> QED BY <1>4, <1>5, <2>3, <2>4
  <1>7. OwnerInv'
    <2>1. \A b, c \in buffers : \A i \in Owned(b)' : i \in Owned(c)' => b = c
      BY <1>5 DEF HeapInv, OwnerInv
    <2>2. ASSUME NEW i \in Usable', inUse'[i] PROVE \E b \in buffers : i \in Owned(b)'
      <3>1. i \in Usable /\ inUse[i]
        BY <1>1, <1>2, <2>2, HeapNumbers DEF Usable
      <3>2. PICK b \in buffers : i \in Owned(b)
        BY <3>1 DEF HeapInv, OwnerInv
      <3> QED BY <1>5, <3>2
    <2> QED BY <1>1, <2>1, <2>2 DEF OwnerInv
  <1>8. RunInv'
    <2> SUFFICES ASSUME NEW i \in FreePages'
                 PROVE  /\ pagesAt'[i] # 0 /\ i + pagesAt'[i] <= heapTotal'
                        /\ \A j \in i .. i + pagesAt'[i] - 1 : ~inUse'[j]
                        /\ i + pagesAt'[i] < heapTotal' => inUse'[i + pagesAt'[i]]
      BY DEF RunInv
    <2>1. i \in AllPages /\ i \in Nat /\ i # HeapPages /\ i < HeapPages + ExPages
      BY <1>1, <1>2, HeapNumbers DEF FreePages
    <2>2. CASE i > HeapPages
      BY <1>1, <1>2, <2>1, <2>2, HeapNumbers
    <2>3. CASE i < HeapPages
      <3>1. i \in FreePages /\ pagesAt'[i] = pagesAt[i] /\ pagesAt[i] \in Nat
        BY <1>1, <1>2, <2>1, <2>3 DEF FreePages, HeapInv, HeapTypeOK
      <3>2. /\ pagesAt[i] # 0 /\ i + pagesAt[i] <= HeapPages
            /\ \A j \in i .. i + pagesAt[i] - 1 : ~inUse[j]
            /\ i + pagesAt[i] < HeapPages => inUse[i + pagesAt[i]]
        BY <1>1, <3>1 DEF HeapInv, RunInv
      <3> QED BY <1>1, <1>2, <2>1, <3>1, <3>2, HeapNumbers
    <2> QED BY <2>1, <2>2, <2>3, HeapNumbers
  <1>9. DummyInv'
    BY <1>1, <1>2 DEF DummyInv
  <1> QED BY <1>3, <1>6, <1>7, <1>8, <1>9 DEF HeapInv

\* First fit: no free run that starts before the pages taken reaches them.
LEMMA AllocateHeap ==
  ASSUME HeapInv, NEW n \in 1 .. MaxRequest, NEW p \in AllPages, PageAllocate(n, p)
  PROVE  HeapInv'
  <1> DEFINE new == [at |-> PointerOf(p), n |-> n]
             taken == p .. p + n - 1
  <1>1. heapTotal' = heapTotal /\ buffers' = buffers \cup {new} /\ n \in Nat /\ n > 0
        /\ p \in Nat /\ heapTotal \in Nat /\ heapTotal <= HeapPages + ExPages
    BY HeapNumbers DEF PageAllocate, HeapInv, HeapTypeOK
  <1>2. p \in FreePages /\ p \in Usable /\ n <= pagesAt[p] /\ pagesAt[p] \in Nat
    BY FreeIsUsable DEF PageAllocate, Suits, FreePages, HeapInv, HeapTypeOK
  <1>3. /\ p + pagesAt[p] <= heapTotal
        /\ \A j \in p .. p + pagesAt[p] - 1 : ~inUse[j]
        /\ p + pagesAt[p] < heapTotal => inUse[p + pagesAt[p]]
    BY <1>2 DEF HeapInv, RunInv
  <1>4. taken \subseteq FreePages /\ taken \subseteq AllPages /\ taken \subseteq Usable
    <2>1. \A j \in taken : j \in Nat /\ j < heapTotal /\ j \in p .. p + pagesAt[p] - 1
      BY <1>1, <1>2, <1>3
    <2>2. taken \subseteq AllPages
      BY <1>1, <2>1, HeapNumbers
    <2> QED BY <1>3, <2>1, <2>2, FreeIsUsable DEF FreePages
  <1>5. new \in [at : Nat, n : Nat \ {0}] /\ PageOf(new.at) = p /\ Owned(new) = taken
    BY <1>1, <1>2, PointerPage DEF HeapInv, Owned
  <1> HIDE DEF taken, new
  <1>6. \A i \in AllPages : inUse'[i] <=> inUse[i] \/ i \in taken
    BY Zenon DEF PageAllocate, taken
  <1>7. pagesAt' = [i \in AllPages |-> IF i = p THEN n ELSE IF i \in taken THEN 0 ELSE pagesAt[i]]
    BY <1>1 DEF PageAllocate, taken
  <1>8. new.n = n /\ new.at = PointerOf(p)
    BY DEF new
  <1>9. p \in taken
    BY <1>1 DEF taken
  <1>10. HeapTypeOK'
    <2>1. inUse' \in [AllPages -> BOOLEAN]
      BY DEF PageAllocate
    <2>2. pagesAt' \in [AllPages -> Nat]
      BY <1>1, <1>7 DEF HeapInv, HeapTypeOK
    <2>3. maxUsed' \in Nat
      BY <1>1 DEF PageAllocate, HeapInv, HeapTypeOK
    <2> QED BY <1>1, <1>5, <2>1, <2>2, <2>3 DEF HeapInv, HeapTypeOK
  <1>11. \A b \in buffers : \A i \in Owned(b) : i \notin taken /\ inUse[i] /\ i \in AllPages
    BY <1>4 DEF HeapInv, BufferInv, FreePages, Usable
  <1>12. \A b \in buffers : PageOf(b.at) \in Owned(b)
    BY HeapNumbers DEF HeapInv, HeapTypeOK, BufferInv, Owned, Usable
  <1>13. BufferInv'
    <2>1. ASSUME NEW b \in buffers
          PROVE  /\ pagesAt'[PageOf(b.at)] = b.n /\ \A i \in Owned(b) : inUse'[i]
      BY <1>6, <1>7, <1>9, <1>11, <1>12 DEF HeapInv, BufferInv
    <2>2. pagesAt'[p] = new.n /\ \A i \in taken : inUse'[i]
      BY <1>4, <1>6, <1>7, <1>8
    <2>3. \A b \in buffers' : /\ PageOf(b.at) \in Usable /\ b.at = PointerOf(PageOf(b.at))
                              /\ Owned(b) \subseteq Usable
                              /\ pagesAt'[PageOf(b.at)] = b.n /\ \A i \in Owned(b) : inUse'[i]
      BY <1>1, <1>2, <1>4, <1>5, <1>8, <2>1, <2>2, Zenon DEF HeapInv, BufferInv
    <2> QED BY <1>1, <2>3, SameLayout DEF BufferInv
  <1>14. OwnerInv'
    <2>1. \A b, c \in buffers' : \A i \in Owned(b) : i \in Owned(c) => b = c
      BY <1>1, <1>5, <1>11 DEF HeapInv, OwnerInv
    <2>2. \A i \in Usable : inUse'[i] => \E b \in buffers' : i \in Owned(b)
      BY <1>1, <1>5, <1>6 DEF HeapInv, OwnerInv, Usable
    <2> QED BY <1>1, <2>1, <2>2, SameLayout DEF OwnerInv
  <1>15. RunInv'
    <2> SUFFICES ASSUME NEW i \in FreePages'
                 PROVE  /\ pagesAt'[i] # 0 /\ i + pagesAt'[i] <= heapTotal'
                        /\ \A j \in i .. i + pagesAt'[i] - 1 : ~inUse'[j]
                        /\ i + pagesAt'[i] < heapTotal' => inUse'[i + pagesAt'[i]]
      BY DEF RunInv
    <2>1. i \in AllPages /\ i \in Nat /\ i < heapTotal /\ ~inUse[i] /\ i \notin taken
      BY <1>1, <1>6, HeapNumbers DEF FreePages
    <2>2. i \in FreePages /\ pagesAt'[i] = pagesAt[i] /\ pagesAt[i] \in Nat
      BY <1>7, <1>9, <2>1 DEF FreePages, HeapInv, HeapTypeOK
    <2> DEFINE e == i + pagesAt[i]
    <2>3. /\ pagesAt[i] # 0 /\ e <= heapTotal /\ e \in Nat
          /\ \A j \in i .. e - 1 : ~inUse[j]
          /\ e < heapTotal => inUse[e]
      BY <2>2, <2>1 DEF HeapInv, RunInv
    <2>4. \A j \in i .. e : j < heapTotal => j \in AllPages
      BY <1>1, <2>1, <2>3, HeapNumbers
    <2> HIDE DEF e
    <2>5. i < p \/ i >= p + n
      BY <1>1, <2>1 DEF taken
    <2>6. CASE i >= p + n
      <3>1. \A j \in i .. e - 1 : j \notin taken
        BY <1>1, <2>1, <2>3, <2>6 DEF taken
      <3> QED BY <1>1, <1>6, <2>1, <2>2, <2>3, <2>4, <3>1 DEF e
    <2>7. CASE i < p
      <3>1. pagesAt[i] < n
        <4>1. ~Suits(i, n)
          BY <1>1, <2>1, <2>7 DEF PageAllocate
        <4> QED BY <1>1, <2>1, <2>2, <4>1 DEF Suits
      <3>2. ~(e > p)
        <4> SUFFICES ASSUME e > p PROVE FALSE
          OBVIOUS
        <4>1. p + pagesAt[p] > e
          BY <1>1, <1>2, <2>1, <2>2, <2>7, <3>1 DEF e
        <4>2. e \in p .. p + pagesAt[p] - 1 /\ e < heapTotal
          BY <1>1, <1>2, <1>3, <2>3, <4>1
        <4> QED BY <1>3, <2>3, <4>2
      <3>3. \A j \in i .. e - 1 : j \notin taken
        BY <1>1, <2>1, <2>3, <3>2 DEF taken
      <3> QED BY <1>1, <1>6, <2>1, <2>2, <2>3, <2>4, <3>3 DEF e
    <2> QED BY <2>5, <2>6, <2>7
  <1>16. DummyInv'
    <2>1. HeapPages \notin taken /\ HeapPages \in AllPages
      BY <1>4, HeapNumbers DEF Usable
    <2>2. ~Extended => \A i \in AllPages : i >= HeapPages => i \notin taken
      BY <1>1, <1>4, HeapNumbers DEF Usable, Extended, HeapInv, HeapTypeOK
    <2> QED BY <1>1, <1>6, <2>1, <2>2 DEF HeapInv, DummyInv, Extended
  <1> QED BY <1>10, <1>13, <1>14, <1>15, <1>16 DEF HeapInv

\* Pages taken one by one from the bottom: every run that is left starts
\* above them.
LEMMA ScatterHeap ==
  ASSUME HeapInv, NEW n \in 1 .. MaxRequest, NEW S \in SUBSET AllPages,
         AllocateScattered(n, S)
  PROVE  HeapInv'
  <1> DEFINE page(i) == [at |-> PointerOf(i), n |-> 1]
  <1>1. /\ heapTotal' = heapTotal /\ buffers' = buffers \cup {page(i) : i \in S}
        /\ S \subseteq FreePages /\ S \subseteq Usable /\ S \subseteq Nat
        /\ heapTotal \in Nat /\ heapTotal <= HeapPages + ExPages
    BY FreeIsUsable, HeapNumbers DEF AllocateScattered, HeapInv, HeapTypeOK
  <1>2. \A i \in AllPages : inUse'[i] <=> inUse[i] \/ i \in S
    BY Zenon DEF AllocateScattered
  <1>3. pagesAt' = [i \in AllPages |-> IF i \in S THEN 1 ELSE pagesAt[i]]
    BY DEF AllocateScattered
  <1>4. \A i \in S : /\ page(i) \in [at : Nat, n : Nat \ {0}] /\ page(i).n = 1
                     /\ page(i).at = PointerOf(i)
                     /\ PageOf(page(i).at) = i /\ Owned(page(i)) = {i}
    <2> SUFFICES ASSUME NEW i \in S
                 PROVE  PointerOf(i) \in Nat /\ PageOf(PointerOf(i)) = i /\ i .. i + 1 - 1 = {i}
      BY DEF Owned
    <2> QED BY <1>1, PointerPage DEF HeapInv
  <1> HIDE DEF page
  <1>5. HeapTypeOK'
    <2>1. inUse' \in [AllPages -> BOOLEAN]
      BY DEF AllocateScattered
    <2>2. pagesAt' \in [AllPages -> Nat]
      BY <1>3 DEF HeapInv, HeapTypeOK
    <2>3. maxUsed' \in Nat
      BY <1>1 DEF AllocateScattered, HeapInv, HeapTypeOK
    <2> QED BY <1>1, <1>4, <2>1, <2>2, <2>3 DEF HeapInv, HeapTypeOK
  <1>6. \A b \in buffers : /\ PageOf(b.at) \in Owned(b)
                           /\ \A i \in Owned(b) : i \notin S /\ inUse[i] /\ i \in AllPages
    <2>1. \A b \in buffers : PageOf(b.at) \in Owned(b)
      BY HeapNumbers DEF HeapInv, HeapTypeOK, BufferInv, Owned, Usable
    <2> QED BY <1>1, <2>1, Zenon DEF HeapInv, BufferInv, FreePages, Usable
  <1>7. BufferInv'
    <2>1. ASSUME NEW b \in buffers
          PROVE  /\ pagesAt'[PageOf(b.at)] = b.n /\ \A i \in Owned(b) : inUse'[i]
      BY <1>2, <1>3, <1>6 DEF HeapInv, BufferInv
    <2>2. \A i \in S : pagesAt'[i] = 1 /\ inUse'[i]
      BY <1>2, <1>3
    <2>3. \A b \in buffers' : /\ PageOf(b.at) \in Usable /\ b.at = PointerOf(PageOf(b.at))
                              /\ Owned(b) \subseteq Usable
                              /\ pagesAt'[PageOf(b.at)] = b.n /\ \A i \in Owned(b) : inUse'[i]
      BY <1>1, <1>4, <2>1, <2>2 DEF HeapInv, BufferInv
    <2> QED BY <1>1, <2>3, SameLayout DEF BufferInv
  <1>8. OwnerInv'
    <2>1. \A b, c \in buffers' : \A i \in Owned(b) : i \in Owned(c) => b = c
      BY <1>1, <1>4, <1>6 DEF HeapInv, OwnerInv
    <2>2. ASSUME NEW i \in Usable, inUse'[i] PROVE \E b \in buffers' : i \in Owned(b)
      <3>1. CASE i \in S
        BY <1>1, <1>4, <3>1
      <3>2. CASE inUse[i]
        <4>1. PICK b \in buffers : i \in Owned(b)
          BY <3>2 DEF HeapInv, OwnerInv
        <4> QED BY <1>1, <4>1
      <3> QED BY <1>2, <2>2, <3>1, <3>2 DEF Usable
    <2>3. heapTotal' = heapTotal
      BY <1>1
    <2> QED BY <2>1, <2>2, <2>3, SameLayout DEF OwnerInv
  <1>9. RunInv'
    <2> SUFFICES ASSUME NEW i \in FreePages'
                 PROVE  /\ pagesAt'[i] # 0 /\ i + pagesAt'[i] <= heapTotal'
                        /\ \A j \in i .. i + pagesAt'[i] - 1 : ~inUse'[j]
                        /\ i + pagesAt'[i] < heapTotal' => inUse'[i + pagesAt'[i]]
      BY DEF RunInv
    <2>1. i \in AllPages /\ i \in Nat /\ i < heapTotal /\ ~inUse[i] /\ i \notin S
      BY <1>1, <1>2, HeapNumbers DEF FreePages
    <2>2. i \in FreePages /\ pagesAt'[i] = pagesAt[i] /\ pagesAt[i] \in Nat
      BY <1>3, <2>1 DEF FreePages, HeapInv, HeapTypeOK
    <2>3. \A j \in S : j < i
      BY <2>1, <2>2 DEF AllocateScattered
    <2>4. /\ pagesAt[i] # 0 /\ i + pagesAt[i] <= heapTotal
          /\ \A j \in i .. i + pagesAt[i] - 1 : ~inUse[j]
          /\ i + pagesAt[i] < heapTotal => inUse[i + pagesAt[i]]
      BY <2>2 DEF HeapInv, RunInv
    <2>5. \A j \in i .. i + pagesAt[i] : j \notin S /\ (j < heapTotal => j \in AllPages)
      BY <1>1, <2>1, <2>2, <2>3, HeapNumbers
    <2> QED BY <1>1, <1>2, <2>1, <2>2, <2>4, <2>5
  <1>10. DummyInv'
    <2>1. HeapPages \notin S /\ HeapPages \in AllPages
      BY <1>1, HeapNumbers DEF Usable
    <2>2. ~Extended => \A i \in AllPages : i >= HeapPages => i \notin S
      BY <1>1, HeapNumbers DEF Usable, Extended, HeapInv, HeapTypeOK
    <2> QED BY <1>1, <1>2, <2>1, <2>2 DEF HeapInv, DummyInv, Extended
  <1> QED BY <1>5, <1>7, <1>8, <1>9, <1>10 DEF HeapInv

\* The pages before a buffer are released from the start of the free run
\* that ends there.
LEMMA ReleaseStart ==
  ASSUME HeapInv, NEW from \in Usable
  PROVE  LET s == ReleasedFrom(from) IN
         /\ s \in 0 .. from
         /\ \A i \in s .. from - 1 : ~inUse[i]
         /\ s > 0 => inUse[s - 1]
  <1> DEFINE Q(s) == \A i \in s .. from - 1 : ~inUse[i] /\ pagesAt[i] # 0
             T == {s \in 0 .. from : Q(s)}
             P(s) == Q(s) /\ (s > 0 => inUse[s - 1] \/ pagesAt[s - 1] = 0)
  <1>1. from \in Nat /\ from < heapTotal /\ heapTotal \in Nat
    BY HeapNumbers DEF Usable, HeapInv, HeapTypeOK
  <1>2. from \in T /\ T \in SUBSET Nat
    BY <1>1
  <1>3. PICK s \in T : \A r \in T : s <= r
    <2> HIDE DEF T
    <2> QED BY <1>2, Least
  <1>4. s \in 0 .. from /\ Q(s)
    BY <1>3
  <1>5. s > 0 => inUse[s - 1] \/ pagesAt[s - 1] = 0
    <2> SUFFICES ASSUME s > 0, ~inUse[s - 1], pagesAt[s - 1] # 0 PROVE FALSE
      OBVIOUS
    <2>1. s - 1 \in 0 .. from /\ ~(s <= s - 1)
      BY <1>1, <1>4
    <2>2. \A i \in s - 1 .. from - 1 : i = s - 1 \/ i \in s .. from - 1
      BY <1>1, <1>4
    <2>3. Q(s - 1)
      BY <1>4, <2>2
    <2> QED BY <1>3, <2>1, <2>3
  <1>6. ReleasedFrom(from) = CHOOSE r \in 0 .. from : P(r)
    BY DEF ReleasedFrom
  <1>7. \E r \in 0 .. from : P(r)
    BY <1>4, <1>5
  <1> DEFINE start == ReleasedFrom(from)
  <1>8. start \in 0 .. from /\ P(start)
    <2> HIDE DEF P
    <2> QED BY <1>6, <1>7
  <1>9. start > 0 => inUse[start - 1]
    <2> SUFFICES ASSUME start > 0, ~inUse[start - 1] PROVE FALSE
      OBVIOUS
    <2> HIDE DEF start
    <2>1. start - 1 \in FreePages
      BY <1>1, <1>8, HeapNumbers DEF FreePages, HeapInv, HeapTypeOK
    <2>2. pagesAt[start - 1] # 0
      BY <2>1 DEF HeapInv, RunInv
    <2> QED BY <1>8, <2>2
  <1> QED BY <1>8, <1>9

\* The run made by a free is the buffer with the free runs on both sides,
\* although the descriptors after the buffer are left as they are.
LEMMA FreeHeap ==
  ASSUME HeapInv, NEW b \in buffers, PageFree(b)
  PROVE  HeapInv'
  <1> DEFINE from == PageOf(b.at)
             to == from + b.n
             after == IF MergesForward(to) THEN pagesAt[to] ELSE 0
             start == ReleasedFrom(from)
             released == start .. to - 1
  <1>1. /\ b.n \in Nat /\ b.n > 0 /\ from \in Usable /\ from \in Nat /\ pagesAt[from] = b.n
        /\ Owned(b) = from .. to - 1 /\ Owned(b) \subseteq Usable
    BY HeapNumbers DEF HeapInv, HeapTypeOK, BufferInv, Owned, Usable
  <1>2. /\ heapTotal' = heapTotal /\ maxUsed' = maxUsed /\ buffers' = buffers \ {b}
        /\ inUse' = [i \in AllPages |-> inUse[i] /\ i \notin released]
        /\ pagesAt' = [i \in AllPages |-> IF i \in released THEN (to - i) + after ELSE pagesAt[i]]
    BY <1>1 DEF PageFree
  <1>3. heapTotal \in Nat /\ heapTotal <= HeapPages + ExPages
        /\ \A i : i \in Nat /\ i < heapTotal => i \in AllPages
    BY HeapNumbers DEF HeapInv, HeapTypeOK
  <1>4. to \in Nat /\ to <= heapTotal /\ from < to
    <2>1. to - 1 \in Owned(b)
      BY <1>1
    <2> QED BY <1>1, <1>3, <2>1 DEF Usable
  <1>5. /\ start \in 0 .. from /\ \A i \in start .. from - 1 : ~inUse[i]
        /\ start > 0 => inUse[start - 1]
    BY <1>1, ReleaseStart
  <1> HIDE DEF start, from
  <1>6. start \in Nat /\ start <= from /\ start < to
    BY <1>1, <1>4, <1>5
  <1> HIDE DEF to
  <1>7. /\ after \in Nat /\ to + after <= heapTotal
        /\ \A j \in to .. to + after - 1 : ~inUse[j]
        /\ to + after < heapTotal => inUse[to + after]
    <2>1. CASE to = heapTotal
      BY <1>3, <1>4, <2>1 DEF MergesForward
    <2>2. CASE to < heapTotal /\ inUse[to]
      BY <1>3, <1>4, <2>2 DEF MergesForward
    <2>3. CASE to < heapTotal /\ ~inUse[to]
      <3>1. to \in FreePages /\ pagesAt[to] \in Nat
        BY <1>3, <1>4, <2>3 DEF FreePages, HeapInv, HeapTypeOK
      <3>2. /\ to + pagesAt[to] <= heapTotal
            /\ \A j \in to .. to + pagesAt[to] - 1 : ~inUse[j]
            /\ to + pagesAt[to] < heapTotal => inUse[to + pagesAt[to]]
        BY <3>1 DEF HeapInv, RunInv
      <3>3. after = pagesAt[to]
        BY <2>3, <3>2 DEF MergesForward
      <3> QED BY <3>1, <3>2, <3>3
    <2> QED BY <1>3, <1>4, <2>1, <2>2, <2>3
  <1> HIDE DEF after, released
  <1>8. /\ \A i \in AllPages : inUse'[i] <=> inUse[i] /\ i \notin released
        /\ \A i \in AllPages : i \notin released => pagesAt'[i] = pagesAt[i]
        /\ \A i \in AllPages : i \in released => pagesAt'[i] = (to - i) + after
    BY <1>2, Zenon
  <1>9. /\ \A i \in released : i \in Nat /\ start <= i /\ i < to /\ i \in AllPages
        /\ \A i \in Nat : i \notin released => i < start \/ i >= to
    BY <1>3, <1>4, <1>6 DEF released
  <1>10. \A i \in released : inUse[i] => i \in Owned(b)
    BY <1>1, <1>4, <1>5, <1>6, <1>9 DEF released
  <1>11. \A c \in buffers' : /\ c \in buffers /\ PageOf(c.at) \in Owned(c)
                             /\ \A i \in Owned(c) : i \notin released /\ i \in AllPages
    <2> SUFFICES ASSUME NEW c \in buffers, c # b
                 PROVE  /\ PageOf(c.at) \in Owned(c)
                        /\ \A i \in Owned(c) : i \notin released /\ i \in AllPages
      BY <1>2
    <2>1. PageOf(c.at) \in Owned(c)
      BY HeapNumbers DEF HeapInv, HeapTypeOK, BufferInv, Owned, Usable
    <2>2. \A i \in Owned(c) : inUse[i] /\ i \notin Owned(b) /\ i \in AllPages
      BY DEF HeapInv, BufferInv, OwnerInv, Usable
    <2> QED BY <1>10, <2>1, <2>2
  <1>12. HeapTypeOK'
    <2>1. inUse' \in [AllPages -> BOOLEAN]
      BY <1>2
    <2>2. \A i \in released : (to - i) + after \in Nat
      BY <1>4, <1>7, <1>9
    <2>3. pagesAt' \in [AllPages -> Nat]
      BY <1>2, <2>2 DEF HeapInv, HeapTypeOK
    <2> QED BY <1>2, <2>1, <2>3 DEF HeapInv, HeapTypeOK
  <1>13. BufferInv'
    <2>1. \A c \in buffers' : /\ PageOf(c.at) \in Usable /\ c.at = PointerOf(PageOf(c.at))
                              /\ Owned(c) \subseteq Usable
                              /\ pagesAt'[PageOf(c.at)] = c.n /\ \A i \in Owned(c) : inUse'[i]
      BY <1>8, <1>11 DEF HeapInv, BufferInv
    <2> QED BY <1>2, <2>1, SameLayout DEF BufferInv
  <1>14. OwnerInv'
    <2>1. \A c, d \in buffers' : \A i \in Owned(c) : i \in Owned(d) => c = d
      BY <1>11 DEF HeapInv, OwnerInv
    <2>2. ASSUME NEW i \in Usable, inUse'[i] PROVE \E c \in buffers' : i \in Owned(c)
      <3>1. inUse[i] /\ i \notin released
        BY <1>8, <2>2 DEF Usable
      <3>2. PICK c \in buffers : i \in Owned(c)
        BY <3>1 DEF HeapInv, OwnerInv
      <3>3. i \in Nat /\ (i \in Owned(b) => i \in released)
        BY <1>1, <1>4, <1>6, HeapNumbers DEF released, Usable
      <3> QED BY <1>2, <3>1, <3>2, <3>3
    <2> QED BY <1>2, <2>1, <2>2, SameLayout DEF OwnerInv
  <1>15. RunInv'
    <2> SUFFICES ASSUME NEW i \in FreePages'
                 PROVE  /\ pagesAt'[i] # 0 /\ i + pagesAt'[i] <= heapTotal'
                        /\ \A j \in i .. i + pagesAt'[i] - 1 : ~inUse'[j]
                        /\ i + pagesAt'[i] < heapTotal' => inUse'[i + pagesAt'[i]]
      BY DEF RunInv
    <2>0. heapTotal' = heapTotal
      BY <1>2
    <2>1. i \in AllPages /\ i \in Nat /\ i < heapTotal /\ (inUse[i] => i \in released)
      BY <1>2, <1>8, HeapNumbers DEF FreePages
    <2>2. CASE i \in released
      <3> DEFINE e == to + after
      <3>1. i + pagesAt'[i] = e /\ pagesAt'[i] # 0 /\ e \in Nat /\ e <= heapTotal /\ to <= e
        BY <1>4, <1>7, <1>8, <1>9, <2>1, <2>2
      <3>2. /\ \A j \in to .. e - 1 : ~inUse[j]
            /\ e < heapTotal => inUse[e]
        BY <1>3, <1>4, <1>7
      <3> HIDE DEF e
      <3>3. ASSUME NEW j \in i .. e - 1 PROVE ~inUse'[j]
        <4>1. j \in Nat /\ j \in AllPages /\ start <= j
          BY <1>3, <1>6, <1>9, <2>1, <2>2, <3>1
        <4>2. j \in released \/ j \in to .. e - 1
          BY <1>4, <1>6, <1>9, <3>1, <4>1
        <4> QED BY <1>8, <3>2, <4>1, <4>2
      <3>4. ASSUME e < heapTotal PROVE inUse'[e]
        <4>1. e \in AllPages /\ e \notin released
          BY <1>3, <1>4, <1>9, <3>1, <3>4
        <4> QED BY <1>8, <3>2, <3>4, <4>1
      <3> QED BY <1>3, <1>12, <2>0, <2>1, <3>1, <3>3, <3>4 DEF HeapTypeOK
    <2>3. CASE i \notin released
      <3> DEFINE e == i + pagesAt[i]
      <3>1. i \in FreePages /\ pagesAt'[i] = pagesAt[i] /\ pagesAt[i] \in Nat
        BY <1>8, <2>1, <2>3 DEF FreePages, HeapInv, HeapTypeOK
      <3>2. /\ pagesAt[i] # 0 /\ e <= heapTotal /\ e \in Nat
            /\ \A j \in i .. e - 1 : ~inUse[j]
            /\ e < heapTotal => inUse[e]
        BY <2>1, <3>1 DEF HeapInv, RunInv
      <3>3. \A j \in i .. e : j < heapTotal => j \in AllPages
        BY <1>3, <2>1, <3>2
      <3>4. e < heapTotal => e \notin released
        <4>1. CASE i >= to
          BY <1>4, <1>9, <2>1, <3>1, <3>2, <4>1
        <4>2. CASE i < start
          <5>1. start - 1 \notin i .. e - 1
            BY <1>5, <1>6, <2>1, <3>2, <4>2
          <5>2. e <= start - 1
            BY <1>6, <2>1, <3>2, <4>2, <5>1
          <5> QED BY <1>6, <1>9, <3>2, <5>2
        <4> QED BY <1>9, <2>1, <2>3, <4>1, <4>2
      <3>5. i \in i .. e /\ e \in i .. e /\ \A j \in i .. e - 1 : j \in i .. e /\ j < heapTotal
        BY <1>3, <2>1, <3>1, <3>2
      <3>0. i + pagesAt'[i] = e
        BY <3>1
      <3> HIDE DEF e
      <3>6. /\ \A j \in i .. e - 1 : ~inUse'[j]
            /\ e < heapTotal => inUse'[e]
        BY <1>8, <3>2, <3>3, <3>4, <3>5
      <3> QED BY <1>3, <2>0, <2>1, <3>0, <3>1, <3>2, <3>6
    <2> QED BY <2>2, <2>3
  <1>16. DummyInv'
    <2>1. Extended => HeapPages \in AllPages /\ HeapPages \notin released
      <3> SUFFICES ASSUME Extended, HeapPages \in released PROVE FALSE
        BY HeapNumbers
      <3>1. HeapPages \in Owned(b)
        BY <1>10 DEF HeapInv, DummyInv
      <3> QED BY <1>1, <3>1 DEF Usable
    <2> QED BY <1>2, <1>8, <2>1 DEF HeapInv, DummyInv, Extended
  <1> QED BY <1>12, <1>13, <1>14, <1>15, <1>16 DEF HeapInv

\* The page heap of utils/heap.c, for any sizes of its two stretches of
\* memory: the buffers clients hold lie in the heap and never overlap, no
\* page is lost, and a free page's descriptor is the exact length of its run.
THEOREM HeapIsSound == HeapSpec => []HeapSound
  <1>1. HeapInv /\ [HeapNext]_heapVars => HeapInv'
    <2> SUFFICES ASSUME HeapInv, [HeapNext]_heapVars PROVE HeapInv'
      OBVIOUS
    <2>1. CASE UNCHANGED heapVars
      BY <2>1 DEF heapVars, HeapInv, HeapTypeOK, BufferInv, OwnerInv, RunInv, DummyInv,
                  Usable, Owned, FreePages, PointerOf, PageOf, Extended
    <2> QED BY <2>1, ExtendHeap, AllocateHeap, ScatterHeap, FreeHeap DEF HeapNext
  <1> QED BY <1>1, InitHeap, InvSound, PTL DEF HeapSpec

-----------------------------------------------------------------------------
(* Guest memory *)

Boxes == {<<>>, <<"stop">>, <<"invalidate">>, <<"notify", "set">>, <<"set">>}
Translation == [addr : TableAddrs, layout : Nat, perm : Nat]
Working == {"guest", "sipi", "cr", "begin"}

Shared == [ug : BOOLEAN, hw : {s.hw : s \in GmStarts}, owner : GmCpus \cup {NoOne}, count : {0, 1},
           layout : Nat, perm : Nat, default : TableAddrs, tables : [TableAddrs -> Nat],
           changes : Nat, writes : Nat]
Own == [at : Working \cup {"stopping", "waiting", "release"}, stopped : BOOLEAN, box : Boxes,
        reg : CrRegs, pg : BOOLEAN, pae : BOOLEAN, cr3 : Int, cr0s : BOOLEAN, cr4s : BOOLEAN,
        pdptr : Int, on : BOOLEAN, root : TableAddrs, active : TableAddrs,
        tlb : SUBSET Translation, lin : SUBSET (Int \X BOOLEAN), flat : Nat]

GmTypes == gm \in Shared /\ gc \in [GmCpus -> Own]

\* What a CPU's registers and linear translations are, between a control
\* register write and its observer and at any other time.
Registers(g) ==
    /\ g.at # "cr" =>
         /\ g.cr0s = g.pg /\ g.cr4s = g.pae
         /\ g.pg => g.lin \subseteq {Paging(g)}
         /\ g.on /\ g.pg /\ g.pae => g.pdptr = g.cr3
    /\ g.at = "cr" =>
         /\ g.cr0s = (IF g.reg = "cr0" THEN ~g.pg ELSE g.pg)
         /\ g.cr4s = (IF g.reg = "cr4" THEN ~g.pae ELSE g.pae)

\* The claim about EPT holds with unrestricted guests, and without them
\* until the tables are rebuilt.
Claimed(m) == m.ug \/ m.layout = 1

\* The CPU uses the current tables and has cached nothing older.
Fresh(g, m) ==
    /\ g.root = m.default
    /\ \A e \in g.tlb : e.addr = m.default => e.layout = m.layout /\ e.perm = m.perm

\* What its queue will repair may be stale, and nothing else.
Repaired(g, m) ==
    /\ Claimed(m) /\ g.box \in {<<>>, <<"stop">>} => Fresh(g, m)
    /\ Claimed(m) /\ g.box = <<"invalidate">> => g.root = m.default
    /\ g.box \in {<<"notify", "set">>, <<"set">>} => m.layout # 1
    /\ g.box # <<"notify", "set">> => g.flat \in {0, m.layout}
    /\ m.ug => g.on
    /\ m.layout = 1 => g.active = m.default

\* How far the CPU that holds the EPT lock has come tells where the others are.
Obeys(g, phase) ==
    /\ g.at \in Working
    /\ phase \in {"none", "release"} => ~g.stopped /\ g.box = <<>>
    /\ phase = "stopping" => \/ g.stopped /\ g.box = <<>>
                             \/ ~g.stopped /\ g.box = <<"stop">>
    /\ phase = "waiting" => g.stopped /\ g.box # <<"stop">>

Phase == IF gm.owner = NoOne THEN "none" ELSE gc[gm.owner].at

LockInv ==
    /\ gm.owner # NoOne =>
         /\ gc[gm.owner].at \in {"stopping", "waiting", "release"}
         /\ ~gc[gm.owner].stopped /\ gc[gm.owner].box = <<>>
    /\ \A c \in GmCpus : c # gm.owner => Obeys(gc[c], Phase)

GmInv ==
    /\ GmTypes /\ LockInv /\ gm.layout >= 1 /\ gm.tables[gm.default] = gm.layout
    /\ \A c \in GmCpus : Registers(gc[c]) /\ Repaired(gc[c], gm)

----------------------------------------------------------------------------
\* What the processor offers: INVVPID and INVEPT do their work.
LEMMA Offered ==
  ASSUME GmTypes
  PROVE  /\ \A lin : Invvpid(lin) = {}
         /\ \A tlb, a : Invalidate(tlb, a) \in {{}, {e \in tlb : e.addr # a}}
  <1>1. PICK s \in GmStarts : gm.hw = s.hw
    BY DEF GmTypes, Shared
  <1> QED BY <1>1, GmStartsAssumption DEF Invvpid, Invalidate, InveptAll

\* Afterwards nothing is cached under the address, and nothing is added.
LEMMA Invalidated ==
  ASSUME GmTypes, NEW tlb, NEW a
  PROVE  /\ Invalidate(tlb, a) \subseteq tlb
         /\ \A e \in Invalidate(tlb, a) : e.addr # a
  BY Offered

\* The fields of the two records.
LEMMA Fields ==
  ASSUME GmTypes
  PROVE  /\ gm.ug \in BOOLEAN /\ gm.layout \in Nat /\ gm.perm \in Nat
         /\ gm.default \in TableAddrs /\ gm.tables \in [TableAddrs -> Nat]
         /\ gm.owner \in GmCpus \cup {NoOne}
         /\ gm.changes \in Nat /\ gm.writes \in Nat
         /\ \A c \in GmCpus : gc[c] \in Own
  BY DEF GmTypes, Shared

\* The lock's owner is not a CPU that works.
LEMMA WorkerIsNotOwner ==
  ASSUME GmInv, NEW c \in GmCpus, gc[c].at \in Working
  PROVE  c # gm.owner /\ Obeys(gc[c], Phase)
  <1>1. NoOne \notin GmCpus
    BY GmAssumption DEF NoOne
  <1> QED BY <1>1 DEF GmInv, LockInv, Working

\* What is shared stays the same, but for a count of the guest's writes.
SameMap ==
    /\ gm' \in Shared
    /\ gm'.ug = gm.ug /\ gm'.owner = gm.owner /\ gm'.layout = gm.layout /\ gm'.perm = gm.perm
    /\ gm'.default = gm.default /\ gm'.tables = gm.tables

\* A step of a CPU that works concerns nobody else.
LEMMA WorkingStep ==
  ASSUME GmInv, SameMap, NEW c \in GmCpus, gc[c].at \in Working,
         NEW x \in Own, gc' = [gc EXCEPT ![c] = x],
         Registers(x), Repaired(x, gm), Obeys(x, Phase)
  PROVE  GmInv'
  <1>1. gc \in [GmCpus -> Own] /\ gm \in Shared
    BY DEF GmInv, GmTypes
  <1>2. c # gm.owner /\ NoOne \notin GmCpus
    BY WorkerIsNotOwner, GmAssumption DEF NoOne
  <1>3. /\ gc' \in [GmCpus -> Own] /\ gc'[c] = x
        /\ \A d \in GmCpus : d # c => gc'[d] = gc[d]
    BY <1>1
  <1>4. gm.owner # NoOne => gm.owner \in GmCpus /\ gc'[gm.owner] = gc[gm.owner]
    BY <1>1, <1>2, <1>3, Fields DEF GmInv
  <1>5. Phase' = Phase
    BY <1>4 DEF Phase, SameMap
  <1>6. LockInv'
    <2>1. \A d \in GmCpus : d # gm.owner => Obeys(gc[d], Phase)
      BY DEF GmInv, LockInv
    <2>2. \A d \in GmCpus : d # gm.owner => Obeys(gc'[d], Phase')
      BY <1>3, <1>5, <2>1
    <2>3. gm.owner # NoOne =>
             /\ gc'[gm.owner].at \in {"stopping", "waiting", "release"}
             /\ ~gc'[gm.owner].stopped /\ gc'[gm.owner].box = <<>>
      BY <1>4 DEF GmInv, LockInv
    <2> QED BY <2>2, <2>3 DEF LockInv, SameMap
  <1>7. \A d \in GmCpus : Registers(gc'[d]) /\ Repaired(gc'[d], gm)
    BY <1>3 DEF GmInv
  <1>8. ASSUME NEW g PROVE Repaired(g, gm) => Repaired(g, gm')
    BY DEF Repaired, Claimed, Fresh, SameMap
  <1>9. gm'.layout >= 1 /\ gm'.tables[gm'.default] = gm'.layout
    BY DEF GmInv, SameMap
  <1> QED BY <1>3, <1>6, <1>7, <1>8, <1>9 DEF GmInv, GmTypes, SameMap

\* The two ways in which what is shared stays the same.
LEMMA SameMapCases ==
  ASSUME GmTypes, gm' = gm \/ gm' = [gm EXCEPT !.writes = gm.writes + 1]
  PROVE  SameMap
  <1>1. gm \in Shared /\ gm.writes \in Nat
    BY DEF GmTypes, Shared
  <1> DEFINE n == gm.writes + 1
  <1>2. n \in Nat
    BY <1>1
  <1>3. gm' = gm \/ gm' = [gm EXCEPT !.writes = n]
    OBVIOUS
  <1> HIDE DEF n
  <1> QED BY <1>1, <1>2, <1>3 DEF Shared, SameMap

\* Only where a CPU is matters to the others.
LEMMA ObeysSame ==
  ASSUME NEW g, NEW x, NEW phase, Obeys(g, phase),
         x.at \in Working, x.stopped = g.stopped, x.box = g.box
  PROVE  Obeys(x, phase)
  BY DEF Obeys

----------------------------------------------------------------------------
\* The processor caches what the tables say now.
LEMMA TranslatesInv ==
  ASSUME GmInv, NEW c \in GmCpus, GuestTranslates(c)
  PROVE  GmInv'
  <1> DEFINE g == gc[c]
             e == Cached(c)
             l == IF g.pg THEN g.lin \cup {Paging(g)} ELSE g.lin
             t == g.tlb \cup {e}
             x == [g EXCEPT !.tlb = t, !.lin = l]
  <1>1. /\ GmTypes /\ g \in Own /\ g.at = "guest" /\ ~g.stopped /\ gm' = gm
        /\ gc' = [gc EXCEPT ![c] = x]
        /\ Registers(g) /\ Repaired(g, gm)
    BY Fields, Zenon DEF GmInv, GuestTranslates
  <1>2. g.at \in Working /\ Obeys(g, Phase)
    BY <1>1, WorkerIsNotOwner DEF Working
  <1>3. g.box \in {<<>>, <<"stop">>}
    BY <1>1, <1>2, Zenon DEF Obeys, Phase, GmInv, LockInv
  <1>4. e \in Translation /\ e.addr = g.root /\ e.layout = gm.tables[g.root] /\ e.perm = gm.perm
    BY <1>1, Fields DEF Cached, Translation, Own
  <1>5. Paging(g) \in Int \X BOOLEAN
    BY <1>1 DEF Paging, Own
  <1>6. l \in SUBSET (Int \X BOOLEAN) /\ t \in SUBSET Translation
    BY <1>1, <1>4, <1>5 DEF Own
  <1>7. g.pg /\ g.lin \subseteq {Paging(g)} => l \subseteq {Paging(g)}
    OBVIOUS
  <1>8. Claimed(gm) => Fresh(g, gm)
    BY <1>1, <1>3 DEF Repaired
  <1>9. ASSUME Claimed(gm) PROVE g.root = gm.default /\ gm.tables[g.root] = gm.layout
    BY <1>8, <1>9 DEF Fresh, GmInv
  <1>10. ASSUME Claimed(gm)
         PROVE  \A f \in t : f.addr = gm.default => f.layout = gm.layout /\ f.perm = gm.perm
    BY <1>4, <1>8, <1>9, <1>10 DEF Fresh
  <1> HIDE DEF e, l, t
  <1>11. /\ x \in Own /\ x.at = g.at /\ x.stopped = g.stopped /\ x.box = g.box
         /\ x.reg = g.reg /\ x.pg = g.pg /\ x.pae = g.pae /\ x.cr3 = g.cr3
         /\ x.cr0s = g.cr0s /\ x.cr4s = g.cr4s /\ x.pdptr = g.pdptr /\ x.on = g.on
         /\ x.root = g.root /\ x.active = g.active /\ x.flat = g.flat
         /\ x.tlb = t /\ x.lin = l
    BY <1>1, <1>6, Zenon DEF Own
  <1> HIDE DEF x
  <1>12. Paging(x) = Paging(g)
    BY <1>11 DEF Paging
  <1>13. Registers(x)
    BY <1>1, <1>7, <1>11, <1>12 DEF Registers
  <1>14. Claimed(gm) => Fresh(x, gm)
    BY <1>9, <1>10, <1>11 DEF Fresh
  <1>15. Repaired(x, gm)
    BY <1>1, <1>3, <1>11, <1>14 DEF Repaired
  <1>16. Obeys(x, Phase)
    BY <1>2, <1>11, ObeysSame
  <1>17. SameMap
    BY <1>1, SameMapCases
  <1> QED BY <1>1, <1>2, <1>11, <1>13, <1>15, <1>16, <1>17, WorkingStep, Zenon

\* A step that leaves alone what a CPU has of the memory.
LEMMA ElsewhereInv ==
  ASSUME GmInv, SameMap, NEW c \in GmCpus, gc[c].at \in Working,
         NEW x \in Own, gc' = [gc EXCEPT ![c] = x], Registers(x), x.at \in Working,
         x.stopped = gc[c].stopped, x.box = gc[c].box, x.on = gc[c].on,
         x.root = gc[c].root, x.active = gc[c].active, x.flat = gc[c].flat, x.tlb = gc[c].tlb
  PROVE  GmInv'
  <1>1. Repaired(gc[c], gm) /\ Obeys(gc[c], Phase)
    BY WorkerIsNotOwner DEF GmInv
  <1>2. Repaired(x, gm)
    BY <1>1 DEF Repaired, Fresh
  <1>3. Obeys(x, Phase)
    BY <1>1, ObeysSame
  <1> QED BY <1>2, <1>3, WorkingStep, Zenon

\* The visible register changes and its observer has not yet seen it.
LEMMA CrWriteInv ==
  ASSUME GmInv, NEW c \in GmCpus, NEW r \in CrRegs, CrWrite(c, r)
  PROVE  GmInv'
  <1> DEFINE g == gc[c]
             pg == IF r = "cr0" THEN ~g.pg ELSE g.pg
             pae == IF r = "cr4" THEN ~g.pae ELSE g.pae
             cr3 == IF r = "cr3" THEN 3 - g.cr3 ELSE g.cr3
             x == [g EXCEPT !.at = "cr", !.reg = r, !.pg = pg, !.pae = pae, !.cr3 = cr3]
  <1>1. /\ GmTypes /\ g \in Own /\ g.at = "guest" /\ g.at \in Working
        /\ gc' = [gc EXCEPT ![c] = x] /\ Registers(g)
    BY Fields, Zenon DEF GmInv, CrWrite, Working
  <1>2. pg \in BOOLEAN /\ pae \in BOOLEAN /\ cr3 \in Int
    <2>1. g.pg \in BOOLEAN /\ g.pae \in BOOLEAN /\ g.cr3 \in Int
      BY <1>1 DEF Own
    <2>2. pg \in BOOLEAN /\ pae \in BOOLEAN
      BY <2>1, Zenon
    <2>3. cr3 \in Int
      BY <2>1
    <2> QED BY <2>2, <2>3
  <1>3. g.cr0s = (IF r = "cr0" THEN ~pg ELSE pg) /\ g.cr4s = (IF r = "cr4" THEN ~pae ELSE pae)
    BY <1>1 DEF Registers, Own
  <1> HIDE DEF pg, pae, cr3
  <1>4. /\ x \in Own /\ x.at = "cr" /\ x.stopped = g.stopped /\ x.box = g.box
        /\ x.reg = r /\ x.pg = pg /\ x.pae = pae
        /\ x.cr0s = g.cr0s /\ x.cr4s = g.cr4s /\ x.on = g.on
        /\ x.root = g.root /\ x.active = g.active /\ x.flat = g.flat /\ x.tlb = g.tlb
    BY <1>1, <1>2, Zenon DEF Own, Working
  <1> HIDE DEF x
  <1>5. Registers(x)
    BY <1>3, <1>4 DEF Registers
  <1>6. SameMap
    BY <1>1, SameMapCases DEF CrWrite
  <1>7. x.at \in Working
    BY <1>4 DEF Working
  <1> QED BY <1>1, <1>4, <1>5, <1>6, <1>7, ElsewhereInv, Zenon

\* An INIT of the guest, and the request for the EPT lock.
LEMMA WaitsInv ==
  ASSUME GmInv, NEW c \in GmCpus, GuestInitCpu(c) \/ Begin(c)
  PROVE  GmInv'
  <1> DEFINE g == gc[c]
  <1>1. GmTypes /\ g \in Own /\ g.at = "guest" /\ g.at \in Working /\ Registers(g)
    BY Fields DEF GmInv, GuestInitCpu, Begin, Working
  <1>2. PICK to \in {"sipi", "begin"} : gc' = [gc EXCEPT ![c] = [g EXCEPT !.at = to]]
    BY DEF GuestInitCpu, Begin
  <1> DEFINE x == [g EXCEPT !.at = to]
  <1>3. /\ x \in Own /\ x.at = to /\ x.stopped = g.stopped /\ x.box = g.box
        /\ x.reg = g.reg /\ x.pg = g.pg /\ x.pae = g.pae /\ x.cr3 = g.cr3
        /\ x.cr0s = g.cr0s /\ x.cr4s = g.cr4s /\ x.pdptr = g.pdptr /\ x.on = g.on
        /\ x.root = g.root /\ x.active = g.active /\ x.flat = g.flat
        /\ x.tlb = g.tlb /\ x.lin = g.lin
    BY <1>1 DEF Own, Working
  <1>4. gc' = [gc EXCEPT ![c] = x]
    BY <1>2
  <1> HIDE DEF x
  <1>5. Paging(x) = Paging(g)
    BY <1>3 DEF Paging
  <1>6. Registers(x)
    BY <1>1, <1>3, <1>5 DEF Registers
  <1>7. SameMap
    BY <1>1, SameMapCases DEF GuestInitCpu, Begin
  <1>8. x.at \in Working
    BY <1>3 DEF Working
  <1> QED BY <1>1, <1>3, <1>4, <1>6, <1>7, <1>8, ElsewhereInv, Zenon

----------------------------------------------------------------------------
\* What an observer leaves: the register seen, no linear translations, and
\* the tables as they were, or those saved for the CPU when EPT is enabled.
Observed(g, y) ==
    /\ y \in Own /\ y.at = g.at /\ y.stopped = g.stopped /\ y.box = g.box
    /\ y.pg = g.pg /\ y.pae = g.pae /\ y.cr3 = g.cr3 /\ y.cr0s = g.pg /\ y.cr4s = g.pae
    /\ y.lin = {} /\ (y.on /\ y.pg /\ y.pae => y.pdptr = y.cr3)
    /\ y.tlb = g.tlb /\ y.active = g.active /\ y.flat = g.flat
    /\ y.root = g.root \/ (~gm.ug /\ y.root = g.active)
    /\ gm.ug => y.on = g.on

\* ept_set_pdtprs
LEMMA PdptrsOf ==
  ASSUME NEW g \in Own, NEW pae \in BOOLEAN
  PROVE  Pdptrs(g, pae) \in Int /\ (pae => Pdptrs(g, pae) = g.cr3)
  BY DEF Pdptrs, Own

\* What CR0's observer has done before it notes the register.
Switched(g, e) ==
    /\ e \in Own /\ e.at = g.at /\ e.stopped = g.stopped /\ e.box = g.box
    /\ e.pg = g.pg /\ e.pae = g.pae /\ e.cr3 = g.cr3 /\ e.cr4s = g.cr4s
    /\ e.lin = {} /\ e.pdptr = g.pdptr
    /\ e.tlb = g.tlb /\ e.active = g.active /\ e.flat = g.flat
    /\ e.root = g.root \/ (~gm.ug /\ e.root = g.active)
    /\ gm.ug => e.on = g.on

\* The observer of CR0 turns EPT on with paging and off with it.
LEMMA CR0Observed ==
  ASSUME GmTypes, NEW g \in Own, g.at = "cr", g.reg = "cr0", Registers(g)
  PROVE  Observed(g, CR0Update(g))
  <1> DEFINE p == Pdptrs(g, g.pae)
             v == [g EXCEPT !.lin = {}]
             toggled == g.pg # g.cr0s
             enabled == CASE g.pg /\ toggled /\ ~gm.ug /\ ~g.on -> Enable(v)
                          [] ~g.pg /\ ~gm.ug /\ g.on -> Disable(v)
                          [] OTHER -> v
  <1>1. /\ toggled /\ g.cr4s = g.pae /\ gm.ug \in BOOLEAN /\ g.on \in BOOLEAN
        /\ g.pg \in BOOLEAN /\ g.pae \in BOOLEAN
    BY Fields DEF Registers, Own
  <1>2. p \in Int /\ (g.pae => p = g.cr3)
    BY <1>1, PdptrsOf
  <1>3. \A lin : Invvpid(lin) = {}
    BY Offered
  <1>4. CR0Update(g) = [enabled EXCEPT !.cr0s = g.pg, !.pdptr = IF g.pg THEN p ELSE @]
    BY <1>1, <1>3, Zenon DEF CR0Update
  <1>5. Switched(g, v)
    BY DEF Own, Switched
  <1>6. Switched(g, enabled)
    <2>1. CASE g.pg /\ ~gm.ug /\ ~g.on
      <3>1. enabled = [[v EXCEPT !.root = v.active] EXCEPT !.on = TRUE]
        BY <1>1, <2>1 DEF Enable, SetEptp
      <3> HIDE DEF v, enabled
      <3>2. v \in Own /\ v.active = g.active
        BY <1>5 DEF Switched
      <3> QED BY <1>5, <2>1, <3>1, <3>2, Zenon DEF Own, Switched
    <2>2. CASE ~g.pg /\ ~gm.ug /\ g.on
      <3>1. enabled = [v EXCEPT !.lin = {}, !.on = FALSE]
        BY <1>1, <1>3, <2>2, Zenon DEF Disable
      <3> HIDE DEF v, enabled
      <3> QED BY <1>5, <2>2, <3>1, Zenon DEF Own, Switched
    <2>3. CASE gm.ug \/ (g.pg /\ g.on) \/ (~g.pg /\ ~g.on)
      <3>1. enabled = v
        BY <1>1, <2>3
      <3> QED BY <1>5, <3>1
    <2> QED BY <1>1, <2>1, <2>2, <2>3
  <1> DEFINE e == enabled
             q == IF g.pg THEN p ELSE e.pdptr
  <1>7. CR0Update(g) = [e EXCEPT !.cr0s = g.pg, !.pdptr = q]
    BY <1>4
  <1> HIDE DEF e, p
  <1>8. q \in Int /\ (g.pg /\ g.pae => q = g.cr3)
    BY <1>2, <1>6 DEF e, Switched, Own
  <1> HIDE DEF q
  <1>9. Switched(g, e)
    BY <1>6 DEF e
  <1> DEFINE y == [e EXCEPT !.cr0s = g.pg, !.pdptr = q]
  <1>10. e \in Own
    BY <1>9 DEF Switched
  <1>11. /\ y \in Own /\ y.at = e.at /\ y.stopped = e.stopped /\ y.box = e.box
         /\ y.pg = e.pg /\ y.pae = e.pae /\ y.cr3 = e.cr3 /\ y.cr0s = g.pg /\ y.cr4s = e.cr4s
         /\ y.lin = e.lin /\ y.pdptr = q /\ y.tlb = e.tlb /\ y.active = e.active
         /\ y.flat = e.flat /\ y.root = e.root /\ y.on = e.on
    BY <1>1, <1>8, <1>10, Zenon DEF Own
  <1> HIDE DEF y
  <1>12. Observed(g, y)
    BY <1>1, <1>8, <1>9, <1>11 DEF Observed, Switched
  <1> QED BY <1>7, <1>12 DEF y

\* The observers of CR3 and of CR4 flush what is cached of the old mapping.
LEMMA CR3Observed ==
  ASSUME GmTypes, NEW g \in Own, g.at = "cr", g.reg = "cr3", Registers(g)
  PROVE  Observed(g, CR3Update(g))
  <1> DEFINE p == Pdptrs(g, TRUE)
             q == IF g.cr0s /\ g.cr4s THEN p ELSE g.pdptr
  <1>1. g.cr0s = g.pg /\ g.cr4s = g.pae /\ g.pdptr \in Int
    BY DEF Registers, Own
  <1>2. p \in Int /\ p = g.cr3
    BY PdptrsOf, Zenon
  <1>3. Invvpid(g.lin) = {}
    BY Offered
  <1>4. CR3Update(g) = [g EXCEPT !.pdptr = q, !.lin = {}]
    BY <1>3 DEF CR3Update
  <1>5. q \in Int /\ (g.pg /\ g.pae => q = g.cr3)
    BY <1>1, <1>2, Zenon
  <1> HIDE DEF p, q
  <1> QED BY <1>1, <1>4, <1>5, Zenon DEF Observed, Own

\* So does a write of CR4.
LEMMA CR4Observed ==
  ASSUME GmTypes, NEW g \in Own, g.at = "cr", g.reg = "cr4", Registers(g)
  PROVE  Observed(g, CR4Update(g))
  <1> DEFINE p == Pdptrs(g, g.pae)
             q == IF g.on /\ g.pae # g.cr4s THEN p ELSE g.pdptr
  <1>1. /\ g.cr0s = g.pg /\ g.cr4s # g.pae /\ g.pdptr \in Int
        /\ g.pae \in BOOLEAN /\ g.on \in BOOLEAN
    BY DEF Registers, Own
  <1>2. p \in Int /\ (g.pae => p = g.cr3)
    BY <1>1, PdptrsOf
  <1>3. Invvpid(g.lin) = {}
    BY Offered
  <1>4. CR4Update(g) = [g EXCEPT !.pdptr = q, !.cr4s = g.pae, !.lin = {}]
    BY <1>3 DEF CR4Update
  <1>5. q \in Int /\ (g.on /\ g.pae => q = g.cr3)
    BY <1>1, <1>2
  <1> HIDE DEF p, q
  <1> QED BY <1>1, <1>4, <1>5, Zenon DEF Observed, Own

\* Resuming the guest sets up its flat tables.
LEMMA Resumed ==
  ASSUME GmTypes, NEW g \in Own
  PROVE  LET x == ResumedWith(g) IN
         /\ x \in Own /\ x.at = "guest" /\ x.stopped = g.stopped /\ x.box = g.box
         /\ x.pg = g.pg /\ x.pae = g.pae /\ x.cr3 = g.cr3 /\ x.cr0s = g.cr0s /\ x.cr4s = g.cr4s
         /\ x.lin = g.lin /\ x.on = g.on /\ x.pdptr = g.pdptr
         /\ x.tlb = g.tlb /\ x.active = g.active /\ x.root = g.root
         /\ x.flat \in {0, gm.layout, g.flat}
  <1> DEFINE f == IF gm.ug \/ g.pg THEN 0 ELSE IF g.flat = 0 THEN gm.layout ELSE g.flat
  <1>1. f \in {0, gm.layout, g.flat} /\ f \in Nat
    BY Fields DEF Own
  <1>2. ResumedWith(g) = [g EXCEPT !.flat = f, !.at = "guest"]
    BY DEF ResumedWith
  <1> HIDE DEF f
  <1> QED BY <1>1, <1>2, Zenon DEF Own, Working

\* The observer has run and the CPU resumes its guest.
LEMMA CrUpdateInv ==
  ASSUME GmInv, NEW c \in GmCpus, CrUpdate(c)
  PROVE  GmInv'
  <1> DEFINE g == gc[c]
             y == CASE g.reg = "cr0" -> CR0Update(g)
                    [] g.reg = "cr3" -> CR3Update(g)
                    [] g.reg = "cr4" -> CR4Update(g)
             x == ResumedWith(y)
  <1>1. /\ GmTypes /\ g \in Own /\ g.at = "cr" /\ g.at \in Working /\ gm' = gm
        /\ gm.owner = NoOne /\ gc' = [gc EXCEPT ![c] = x]
        /\ Registers(g) /\ Repaired(g, gm) /\ g.reg \in CrRegs
    BY Fields DEF GmInv, CrUpdate, Working, Own
  <1>2. Obeys(g, Phase) /\ Phase = "none"
    BY <1>1, WorkerIsNotOwner DEF Phase
  <1>3. Observed(g, y)
    BY <1>1, CR0Observed, CR3Observed, CR4Observed DEF CrRegs
  <1> HIDE DEF y
  <1>4. /\ x \in Own /\ x.at = "guest" /\ x.stopped = y.stopped /\ x.box = y.box
        /\ x.pg = y.pg /\ x.pae = y.pae /\ x.cr3 = y.cr3 /\ x.cr0s = y.cr0s /\ x.cr4s = y.cr4s
        /\ x.lin = y.lin /\ x.on = y.on /\ x.pdptr = y.pdptr
        /\ x.tlb = y.tlb /\ x.active = y.active /\ x.root = y.root
        /\ x.flat \in {0, gm.layout, y.flat}
    BY <1>1, <1>3, Resumed DEF Observed
  <1> HIDE DEF x
  <1>5. Registers(x)
    BY <1>3, <1>4 DEF Registers, Observed
  <1>6. g.box = <<>> /\ x.box = <<>> /\ x.stopped = g.stopped
    BY <1>2, <1>3, <1>4 DEF Obeys, Observed
  <1>7. Claimed(gm) => g.root = gm.default /\ x.root = gm.default
    BY <1>1, <1>3, <1>4, <1>6 DEF Repaired, Fresh, Observed, Claimed
  <1>8. Claimed(gm) => Fresh(x, gm)
    BY <1>1, <1>3, <1>4, <1>6, <1>7 DEF Repaired, Fresh, Observed
  <1>9. Repaired(x, gm)
    <2>1. x.flat \in {0, gm.layout}
      BY <1>1, <1>3, <1>4, <1>6 DEF Repaired, Observed
    <2>2. gm.ug => x.on
      BY <1>1, <1>3, <1>4 DEF Repaired, Observed
    <2>3. gm.layout = 1 => x.active = gm.default
      BY <1>1, <1>3, <1>4 DEF Repaired, Observed
    <2> QED BY <1>6, <1>8, <2>1, <2>2, <2>3 DEF Repaired
  <1>10. Obeys(x, Phase)
    BY <1>2, <1>4, <1>6, ObeysSame DEF Working
  <1>11. SameMap
    BY <1>1, SameMapCases
  <1> QED BY <1>1, <1>4, <1>5, <1>9, <1>10, <1>11, WorkingStep, Zenon

\* A CPU leaves wait-for-SIPI with its registers reset; paging is off.
LEMMA SipiInv ==
  ASSUME GmInv, NEW c \in GmCpus, GuestSipiCpu(c)
  PROVE  GmInv'
  <1> DEFINE g == gc[c]
             off == FALSE
             one == 1
             y == [g EXCEPT !.pg = off, !.pae = off, !.cr3 = one, !.cr0s = off, !.cr4s = off]
             x == ResumedWith(y)
  <1>1. /\ GmTypes /\ g \in Own /\ g.at = "sipi" /\ g.at \in Working /\ ~g.stopped /\ gm' = gm
        /\ gc' = [gc EXCEPT ![c] = x] /\ Repaired(g, gm)
    BY Fields DEF GmInv, GuestSipiCpu, Working
  <1>a. off \in BOOLEAN /\ ~off
    OBVIOUS
  <1>b. one \in Int
    OBVIOUS
  <1> HIDE DEF off, one
  <1>2. /\ y \in Own /\ y.stopped = g.stopped /\ y.box = g.box /\ y.on = g.on
        /\ y.tlb = g.tlb /\ y.root = g.root /\ y.active = g.active /\ y.flat = g.flat
        /\ y.pg = off /\ y.pae = off /\ y.cr0s = off /\ y.cr4s = off
    BY <1>1, <1>a, <1>b, Zenon DEF Own
  <1> HIDE DEF y
  <1>3. /\ x \in Own /\ x.at = "guest" /\ x.stopped = y.stopped /\ x.box = y.box
        /\ x.pg = y.pg /\ x.pae = y.pae /\ x.cr0s = y.cr0s /\ x.cr4s = y.cr4s /\ x.on = y.on
        /\ x.tlb = y.tlb /\ x.active = y.active /\ x.root = y.root
        /\ x.flat \in {0, gm.layout, y.flat}
    BY <1>1, <1>2, Resumed
  <1> HIDE DEF x
  <1>4. Registers(x)
    BY <1>2, <1>3, <1>a DEF Registers
  <1>5. Obeys(g, Phase)
    BY <1>1, WorkerIsNotOwner
  <1>6. g.box \in {<<>>, <<"stop">>}
    BY <1>1, <1>5, Zenon DEF Obeys, Phase, GmInv, LockInv
  <1>7. Claimed(gm) => Fresh(x, gm)
    BY <1>1, <1>2, <1>3, <1>6 DEF Repaired, Fresh
  <1>8. Repaired(x, gm)
    BY <1>1, <1>2, <1>3, <1>6, <1>7 DEF Repaired
  <1>9. Obeys(x, Phase)
    BY <1>2, <1>3, <1>5, ObeysSame DEF Working
  <1>10. SameMap
    BY <1>1, SameMapCases
  <1> QED BY <1>1, <1>3, <1>4, <1>8, <1>9, <1>10, WorkingStep, Zenon

\* The first message of each queue that occurs.
LEMMA Queues ==
  /\ Head(<<"stop">>) = "stop" /\ Tail(<<"stop">>) = <<>>
  /\ Head(<<"invalidate">>) = "invalidate" /\ Tail(<<"invalidate">>) = <<>>
  /\ Head(<<"notify", "set">>) = "notify" /\ Tail(<<"notify", "set">>) = <<"set">>
  /\ Head(<<"set">>) = "set" /\ Tail(<<"set">>) = <<>>
  /\ <<"stop">> # <<>> /\ <<"invalidate">> # <<>> /\ <<"set">> # <<>> /\ <<"notify", "set">> # <<>>
  /\ <<"stop">> # <<"invalidate">> /\ <<"stop">> # <<"set">> /\ <<"set">> # <<"invalidate">>
  /\ <<"notify", "set">> # <<"stop">> /\ <<"notify", "set">> # <<"invalidate">>
  /\ <<"notify", "set">> # <<"set">>
  OBVIOUS

\* What a message does to the CPU that handles it, but for its queue.
Handled(g, x) ==
    /\ x \in Own /\ x.at = g.at /\ x.reg = g.reg /\ x.pg = g.pg /\ x.pae = g.pae
    /\ x.cr3 = g.cr3 /\ x.cr0s = g.cr0s /\ x.cr4s = g.cr4s /\ x.pdptr = g.pdptr
    /\ x.on = g.on /\ x.active = g.active /\ x.lin = g.lin

\* A message changes no register,
LEMMA HandledRegisters ==
  ASSUME NEW g, NEW x, Handled(g, x), Registers(g)
  PROVE  Registers(x)
  BY DEF Handled, Registers, Paging

\* Each message repairs what it is for.
LEMMA HandleInv ==
  ASSUME GmInv, NEW c \in GmCpus, Handle(c)
  PROVE  GmInv'
  <1> DEFINE g == gc[c]
             r == [g EXCEPT !.box = Tail(@)]
  <1>1. /\ GmTypes /\ g \in Own /\ g.at \in Working /\ gm' = gm /\ g.box # <<>> /\ g.box \in Boxes
        /\ Registers(g) /\ Repaired(g, gm) /\ Obeys(g, Phase)
    BY Fields, WorkerIsNotOwner DEF GmInv, Handle, Working, Own
  <1>2. gc \in [GmCpus -> Own]
    BY <1>1 DEF GmTypes
  <1>3. SameMap
    BY <1>1, SameMapCases
  <1>4. Phase \in {"stopping", "waiting"}
    BY <1>1 DEF Obeys, Phase, GmInv, LockInv
  <1>5. SUFFICES \E x \in Own : /\ gc' = [gc EXCEPT ![c] = x] /\ Handled(g, x)
                                /\ Repaired(x, gm) /\ Obeys(x, Phase)
    BY <1>1, <1>3, HandledRegisters, WorkingStep, Zenon
  <1>6. CASE g.box = <<"stop">>
    <2> DEFINE x == [[g EXCEPT !.box = <<>>] EXCEPT !.stopped = TRUE]
    <2>1. gc' = [gc EXCEPT ![c] = x]
      BY <1>6, Queues DEF Handle
    <2>2. /\ Handled(g, x) /\ x.root = g.root /\ x.tlb = g.tlb /\ x.flat = g.flat
          /\ x.box = <<>> /\ x.stopped = TRUE
      BY <1>1, Zenon DEF Own, Handled, Boxes
    <2> HIDE DEF x
    <2>3. Repaired(x, gm)
      BY <1>1, <1>6, <2>2, Queues DEF Repaired, Fresh, Handled
    <2>4. Obeys(x, Phase)
      BY <1>1, <1>4, <1>6, <2>2, Queues DEF Obeys, Handled
    <2> QED BY <2>1, <2>2, <2>3, <2>4, Zenon DEF Handled
  <1>7. CASE g.box = <<"invalidate">>
    <2> DEFINE t == Invalidate(g.tlb, gm.default)
               x == [[g EXCEPT !.box = <<>>] EXCEPT !.tlb = t]
    <2>1. gc' = [gc EXCEPT ![c] = x]
      <3>1. [g EXCEPT !.box = <<>>].tlb = g.tlb
        BY <1>1 DEF Own
      <3> QED BY <1>7, <3>1, Queues DEF Handle
    <2>2. t \subseteq g.tlb /\ \A e \in t : e.addr # gm.default
      BY <1>1, Invalidated
    <2> HIDE DEF t
    <2>3. /\ Handled(g, x) /\ x.root = g.root /\ x.tlb = t /\ x.flat = g.flat
          /\ x.box = <<>> /\ x.stopped = g.stopped
      BY <1>1, <2>2, Zenon DEF Own, Handled, Boxes
    <2> HIDE DEF x
    <2>4. Repaired(x, gm)
      BY <1>1, <1>7, <2>2, <2>3, Queues DEF Repaired, Fresh, Handled
    <2>5. Obeys(x, Phase)
      BY <1>1, <1>4, <1>7, <2>3, Queues DEF Obeys, Handled
    <2> QED BY <2>1, <2>3, <2>4, <2>5, Zenon DEF Handled
  <1>8. CASE g.box = <<"notify", "set">>
    <2> DEFINE f == IF g.flat = 0 THEN 0 ELSE gm.layout
               x == [[g EXCEPT !.box = <<"set">>] EXCEPT !.flat = f]
    <2>1. gc' = [gc EXCEPT ![c] = x]
      <3>1. [g EXCEPT !.box = <<"set">>].flat = g.flat
        BY <1>1 DEF Own
      <3> QED BY <1>8, <3>1, Queues DEF Handle, RenewFlat
    <2>2. f \in {0, gm.layout} /\ f \in Nat
      BY <1>1, Fields
    <2> HIDE DEF f
    <2>3. /\ Handled(g, x) /\ x.root = g.root /\ x.tlb = g.tlb /\ x.flat = f
          /\ x.box = <<"set">> /\ x.stopped = g.stopped
      BY <1>1, <2>2, Zenon DEF Own, Handled, Boxes
    <2> HIDE DEF x
    <2>4. Repaired(x, gm)
      BY <1>1, <1>8, <2>2, <2>3, Queues DEF Repaired, Handled
    <2>5. Obeys(x, Phase)
      BY <1>1, <1>4, <1>8, <2>3, Queues DEF Obeys, Handled
    <2> QED BY <2>1, <2>3, <2>4, <2>5, Zenon DEF Handled
  <1>9. CASE g.box = <<"set">>
    <2> DEFINE t == Invalidate(g.tlb, gm.default)
               y == [g EXCEPT !.box = <<>>]
               x == SetRemote(y)
    <2>1. gc' = [gc EXCEPT ![c] = x]
      BY <1>9, Queues DEF Handle
    <2>2. t \subseteq g.tlb /\ \A e \in t : e.addr # gm.default
      BY <1>1, Invalidated
    <2>3. x = IF g.on THEN [[y EXCEPT !.root = gm.default] EXCEPT !.tlb = t] ELSE y
      BY <1>1 DEF SetRemote, SetEptp, Own
    <2> HIDE DEF t, x
    <2>4. /\ Handled(g, x) /\ x.flat = g.flat /\ x.box = <<>> /\ x.stopped = g.stopped
          /\ g.on => x.root = gm.default /\ x.tlb = t
      BY <1>1, <2>2, <2>3, Fields, Zenon DEF Own, Handled, Boxes
    <2>5. Claimed(gm) => g.on
      BY <1>1, <1>9, Queues DEF Repaired, Claimed
    <2>6. Claimed(gm) => Fresh(x, gm)
      BY <2>2, <2>4, <2>5 DEF Fresh
    <2>7. Repaired(x, gm)
      BY <1>1, <1>9, <2>4, <2>6, Queues DEF Repaired, Handled
    <2>8. Obeys(x, Phase)
      BY <1>1, <1>4, <1>9, <2>4, Queues DEF Obeys, Handled
    <2> QED BY <2>1, <2>4, <2>7, <2>8, Zenon DEF Handled
  <1> QED BY <1>1, <1>6, <1>7, <1>8, <1>9 DEF Boxes

----------------------------------------------------------------------------
\* What another CPU keeps when only its queue or its being stopped changes.
SameOwn(g, x) ==
    /\ x \in Own /\ x.at = g.at /\ x.reg = g.reg /\ x.pg = g.pg /\ x.pae = g.pae
    /\ x.cr3 = g.cr3 /\ x.cr0s = g.cr0s /\ x.cr4s = g.cr4s /\ x.pdptr = g.pdptr
    /\ x.on = g.on /\ x.active = g.active /\ x.lin = g.lin
    /\ x.root = g.root /\ x.tlb = g.tlb /\ x.flat = g.flat

\* nor does a change of the map,
LEMMA SameRegisters ==
  ASSUME NEW g, NEW x, SameOwn(g, x), Registers(g)
  PROVE  Registers(x)
  BY DEF SameOwn, Registers, Paging

\* What is put into an empty queue.
LEMMA Posted ==
  /\ Append(<<>>, "stop") = <<"stop">> /\ Append(<<>>, "invalidate") = <<"invalidate">>
  /\ <<>> \o <<"notify", "set">> = <<"notify", "set">>
  OBVIOUS

\* The lock is taken, and every other CPU is told to stop.
LEMMA StopOthersInv ==
  ASSUME GmInv, NEW c \in GmCpus, StopOthers(c)
  PROVE  GmInv'
  <1>1. /\ GmTypes /\ LockInv /\ gc[c] \in Own /\ gc[c].at = "begin" /\ ~gc[c].stopped
        /\ gm.owner = NoOne /\ gm \in Shared /\ gm.changes \in Nat
    BY Fields DEF GmInv, StopOthers, GmTypes
  <1>2. Phase = "none" /\ NoOne \notin GmCpus
    BY <1>1, GmAssumption DEF Phase, NoOne
  <1>3. \A d \in GmCpus : gc[d].at \in Working /\ ~gc[d].stopped /\ gc[d].box = <<>>
    BY <1>1, <1>2 DEF LockInv, Obeys
  <1>4. /\ gm' \in Shared /\ gm'.owner = c /\ gm'.ug = gm.ug /\ gm'.layout = gm.layout
        /\ gm'.perm = gm.perm /\ gm'.default = gm.default /\ gm'.tables = gm.tables
    <2> DEFINE n == gm.changes + 1
    <2>1. n \in Nat
      BY <1>1
    <2>2. gm' = [gm EXCEPT !.owner = c, !.count = 1, !.changes = n]
      BY DEF StopOthers
    <2> HIDE DEF n
    <2> QED BY <1>1, <2>1, <2>2, Zenon DEF Shared
  <1>5. /\ SameOwn(gc[c], [gc'[c] EXCEPT !.at = "begin"]) /\ gc'[c].at = "stopping"
        /\ gc'[c] \in Own /\ gc'[c].box = <<>> /\ ~gc'[c].stopped
    BY <1>1, <1>3, Zenon DEF StopOthers, Own, SameOwn, Working
  <1>6. Registers(gc'[c]) /\ Repaired(gc'[c], gm')
    <2>1. gc'[c] = [gc[c] EXCEPT !.at = "stopping"]
      BY DEF StopOthers
    <2>2. Registers(gc[c]) /\ Repaired(gc[c], gm)
      BY DEF GmInv
    <2>3. Registers(gc'[c])
      BY <1>1, <2>1, <2>2 DEF Registers, Own, Paging
    <2>4. Repaired(gc'[c], gm')
      BY <1>1, <1>4, <2>1, <2>2 DEF Repaired, Fresh, Claimed, Own
    <2> QED BY <2>3, <2>4
  <1>7. ASSUME NEW d \in GmCpus, d # c
        PROVE  /\ gc'[d] \in Own /\ Registers(gc'[d]) /\ Repaired(gc'[d], gm')
               /\ Obeys(gc'[d], "stopping")
    <2>1. gc[d] \in Own /\ Registers(gc[d]) /\ Repaired(gc[d], gm)
      BY <1>1, Fields DEF GmInv
    <2>2. Append(gc[d].box, "stop") = <<"stop">>
      BY <1>3, Posted, Zenon
    <2>3. gc'[d] = [gc[d] EXCEPT !.box = <<"stop">>]
      BY <1>7, <2>2, Zenon DEF StopOthers
    <2>4. SameOwn(gc[d], gc'[d]) /\ gc'[d].box = <<"stop">> /\ gc'[d].stopped = gc[d].stopped
      BY <2>1, <2>3 DEF Own, SameOwn, Boxes
    <2>5. Registers(gc'[d])
      BY <2>1, <2>4, SameRegisters
    <2>6. Repaired(gc'[d], gm')
      BY <1>3, <1>4, <2>1, <2>4, Queues DEF Repaired, Fresh, Claimed, SameOwn
    <2>7. Obeys(gc'[d], "stopping")
      BY <1>3, <2>4 DEF Obeys, SameOwn
    <2> QED BY <2>4, <2>5, <2>6, <2>7 DEF SameOwn
  <1>8. gc' \in [GmCpus -> Own]
    <2>1. gc' = [d \in GmCpus |-> gc'[d]]
      BY DEF StopOthers
    <2> QED BY <1>5, <1>7, <2>1
  <1>9. LockInv'
    <2>1. Phase' = "stopping"
      BY <1>2, <1>4, <1>5 DEF Phase
    <2> QED BY <1>4, <1>5, <1>7, <2>1 DEF LockInv
  <1>10. gm'.layout >= 1 /\ gm'.tables[gm'.default] = gm'.layout
    BY <1>4 DEF GmInv
  <1> QED BY <1>4, <1>6, <1>7, <1>8, <1>9, <1>10 DEF GmInv, GmTypes

\* The CPU whose change or start it is holds the lock.
LEMMA OwnerOf ==
  ASSUME GmInv, NEW c \in GmCpus, gc[c].at \in {"stopping", "waiting", "release"}
  PROVE  /\ gm.owner = c /\ Phase = gc[c].at /\ c # NoOne /\ ~gc[c].stopped /\ gc[c].box = <<>>
         /\ \A d \in GmCpus : d # c => Obeys(gc[d], gc[c].at)
  <1>1. c # NoOne
    BY GmAssumption DEF NoOne
  <1>2. gm.owner = c
    BY DEF GmInv, LockInv, Obeys, Working
  <1> QED BY <1>1, <1>2 DEF GmInv, LockInv, Phase

\* When all are stopped their queues are empty.
LEMMA AllStopped ==
  ASSUME GmInv, NEW c \in GmCpus, AllStoppedFor(c)
  PROVE  /\ gc[c].at = "stopping" /\ gm.owner = c /\ c # NoOne /\ ~gc[c].stopped /\ gc[c].box = <<>>
         /\ \A d \in GmCpus : d # c => gc[d].at \in Working /\ gc[d].stopped /\ gc[d].box = <<>>
  BY OwnerOf DEF AllStoppedFor, Obeys, Others

\* Everything follows from what the step does to its CPU and to any other.
LEMMA OwnerStep ==
  ASSUME GmInv, NEW c \in GmCpus, gm' \in Shared, gm'.owner = c, c # NoOne,
         gm'.layout >= 1, gm'.tables[gm'.default] = gm'.layout,
         gc' = [d \in GmCpus |-> gc'[d]],
         gc'[c] \in Own, gc'[c].at \in {"stopping", "waiting", "release"},
         ~gc'[c].stopped, gc'[c].box = <<>>,
         Registers(gc'[c]), Repaired(gc'[c], gm'),
         \A d \in GmCpus : d # c => /\ gc'[d] \in Own /\ Obeys(gc'[d], gc'[c].at)
                                    /\ Registers(gc'[d]) /\ Repaired(gc'[d], gm')
  PROVE  GmInv'
  <1>1. gc' \in [GmCpus -> Own]
    OBVIOUS
  <1>2. LockInv'
    BY DEF LockInv, Phase
  <1> QED BY <1>1, <1>2 DEF GmInv, GmTypes

\* The owner's registers are as they were, wherever it is in its change.
SameRegs(g, x) ==
    /\ x \in Own /\ x.at # "cr" /\ x.stopped = g.stopped /\ x.box = g.box
    /\ x.pg = g.pg /\ x.pae = g.pae /\ x.cr3 = g.cr3 /\ x.cr0s = g.cr0s /\ x.cr4s = g.cr4s
    /\ x.pdptr = g.pdptr /\ x.on = g.on /\ x.active = g.active /\ x.lin = g.lin

\* nor what its owner does.
LEMMA OwnerRegisters ==
  ASSUME NEW g, NEW x, SameRegs(g, x), g.at # "cr", Registers(g)
  PROVE  Registers(x)
  BY DEF SameRegs, Registers, Paging

\* Permissions change in place: the owner invalidates at once, the others
\* will by the message in their queue.
LEMMA PermUpdateInv ==
  ASSUME GmInv, NEW c \in GmCpus, PermUpdate(c)
  PROVE  GmInv'
  <1> DEFINE g == gc[c]
             p == gm.perm + 1
             t == Invalidate(g.tlb, gm.default)
             x == [g EXCEPT !.tlb = t, !.at = "waiting"]
  <1>1. /\ GmTypes /\ gm \in Shared /\ g \in Own /\ Registers(g) /\ Repaired(g, gm)
        /\ \A d \in GmCpus : gc[d] \in Own /\ Registers(gc[d]) /\ Repaired(gc[d], gm)
    BY Fields DEF GmInv, GmTypes
  <1>2. /\ g.at = "stopping" /\ gm.owner = c /\ c # NoOne /\ ~g.stopped /\ g.box = <<>>
        /\ \A d \in GmCpus : d # c => gc[d].at \in Working /\ gc[d].stopped /\ gc[d].box = <<>>
    BY AllStopped DEF PermUpdate
  <1>3. p \in Nat
    BY <1>1, Fields
  <1>4. t \subseteq g.tlb /\ \A e \in t : e.addr # gm.default
    BY <1>1, Invalidated
  <1>5. gm' = [gm EXCEPT !.perm = p] /\ gc'[c] = x /\ gc' = [d \in GmCpus |-> gc'[d]]
    BY DEF PermUpdate
  <1> HIDE DEF p, t
  <1>6. /\ gm' \in Shared /\ gm'.owner = c /\ gm'.ug = gm.ug /\ gm'.layout = gm.layout
        /\ gm'.default = gm.default /\ gm'.tables = gm.tables
    BY <1>1, <1>2, <1>3, <1>5 DEF Shared
  <1>7. /\ SameRegs(g, x) /\ x.at = "waiting" /\ x.tlb = t /\ x.root = g.root /\ x.flat = g.flat
    BY <1>1, <1>4, Zenon DEF Own, SameRegs
  <1> HIDE DEF x
  <1>8. Registers(x)
    BY <1>1, <1>2, <1>7, OwnerRegisters
  <1>9. Repaired(x, gm')
    BY <1>1, <1>2, <1>4, <1>6, <1>7, Queues DEF Repaired, Fresh, Claimed, SameRegs
  <1>10. ASSUME NEW d \in GmCpus, d # c
         PROVE  /\ gc'[d] \in Own /\ Obeys(gc'[d], "waiting")
                /\ Registers(gc'[d]) /\ Repaired(gc'[d], gm')
    <2> DEFINE y == [gc[d] EXCEPT !.box = <<"invalidate">>]
    <2>1. gc'[d] = y
      BY <1>2, <1>10, Posted DEF PermUpdate
    <2>2. SameOwn(gc[d], y) /\ y.box = <<"invalidate">> /\ y.stopped = gc[d].stopped
      BY <1>1 DEF Own, SameOwn, Boxes
    <2> HIDE DEF y
    <2>3. Registers(y)
      BY <1>1, <2>2, SameRegisters
    <2>4. Repaired(y, gm')
      BY <1>1, <1>2, <1>6, <1>10, <2>2, Queues DEF Repaired, Fresh, Claimed, SameOwn
    <2>5. Obeys(y, "waiting")
      BY <1>2, <1>10, <2>2, Queues DEF Obeys, SameOwn
    <2> QED BY <2>1, <2>2, <2>3, <2>4, <2>5 DEF SameOwn
  <1>11. gm'.layout >= 1 /\ gm'.tables[gm'.default] = gm'.layout
    BY <1>6 DEF GmInv
  <1>12. /\ gc'[c] \in Own /\ gc'[c].at = "waiting" /\ ~gc'[c].stopped /\ gc'[c].box = <<>>
    BY <1>2, <1>5, <1>7 DEF SameRegs
  <1> QED BY <1>2, <1>5, <1>6, <1>8, <1>9, <1>10, <1>11, <1>12, OwnerStep

\* The tables are built anew, at their old address or at another.
LEMMA RecreateInv ==
  ASSUME GmInv, NEW c \in GmCpus, NEW a \in TableAddrs, Recreate(c, a)
  PROVE  GmInv'
  <1> DEFINE g == gc[c]
             n == gm.layout + 1
             f == IF g.flat = 0 THEN 0 ELSE n
             t == Invalidate(g.tlb, a)
             w == [w \in TableAddrs |-> IF w = a THEN n ELSE Destroyed]
             x == [g EXCEPT !.flat = f, !.root = a, !.tlb = t, !.at = "waiting"]
  <1>1. /\ GmTypes /\ gm \in Shared /\ g \in Own /\ Registers(g) /\ Repaired(g, gm)
        /\ \A d \in GmCpus : gc[d] \in Own /\ Registers(gc[d]) /\ Repaired(gc[d], gm)
    BY Fields DEF GmInv, GmTypes
  <1>2. /\ g.at = "stopping" /\ gm.owner = c /\ c # NoOne /\ ~g.stopped /\ g.box = <<>>
        /\ \A d \in GmCpus : d # c => gc[d].at \in Working /\ gc[d].stopped /\ gc[d].box = <<>>
    BY AllStopped DEF Recreate
  <1>3. n \in Nat /\ n >= 1 /\ n # 1
    <2>1. gm.layout \in Nat /\ gm.layout >= 1
      BY <1>1, Fields DEF GmInv
    <2> QED BY <2>1
  <1>4. t \subseteq g.tlb /\ \A e \in t : e.addr # a
    BY <1>1, Invalidated
  <1>5. gm' = [gm EXCEPT !.layout = n, !.default = a, !.tables = w]
    BY DEF Recreate
  <1>6. gc'[c] = x /\ gc' = [d \in GmCpus |-> gc'[d]]
    <2> DEFINE y == [[g EXCEPT !.flat = f] EXCEPT !.root = a]
    <2>1. y.tlb = g.tlb
      BY <1>1 DEF Own
    <2>2. gc'[c] = [y EXCEPT !.tlb = Invalidate(y.tlb, a), !.at = "waiting"]
      BY DEF Recreate, SetEptp, RenewFlat
    <2>3. gc' = [d \in GmCpus |-> gc'[d]]
      BY DEF Recreate
    <2> QED BY <2>1, <2>2, <2>3
  <1>7. w \in [TableAddrs -> Nat] /\ w[a] = n
    BY <1>3 DEF Destroyed
  <1>8. f \in {0, n} /\ f \in Nat
    BY <1>3
  <1> HIDE DEF n, f, t, w
  <1>9. /\ gm' \in Shared /\ gm'.owner = c /\ gm'.ug = gm.ug /\ gm'.layout = n
        /\ gm'.default = a /\ gm'.tables = w
    BY <1>1, <1>2, <1>3, <1>5, <1>7, Zenon DEF Shared
  <1>10. /\ SameRegs(g, x) /\ x.at = "waiting" /\ x.tlb = t /\ x.root = a /\ x.flat = f
    BY <1>1, <1>4, <1>8, Zenon DEF Own, SameRegs
  <1> HIDE DEF x
  <1>11. Registers(x)
    BY <1>1, <1>2, <1>10, OwnerRegisters
  <1>12. Repaired(x, gm')
    BY <1>1, <1>2, <1>3, <1>4, <1>8, <1>9, <1>10, Queues DEF Repaired, Fresh, Claimed, SameRegs
  <1>13. ASSUME NEW d \in GmCpus, d # c
         PROVE  /\ gc'[d] \in Own /\ Obeys(gc'[d], "waiting")
                /\ Registers(gc'[d]) /\ Repaired(gc'[d], gm')
    <2> DEFINE y == [gc[d] EXCEPT !.box = <<"notify", "set">>]
    <2>1. gc'[d] = y
      BY <1>2, <1>13, Posted, Zenon DEF Recreate
    <2>2. SameOwn(gc[d], y) /\ y.box = <<"notify", "set">> /\ y.stopped = gc[d].stopped
      BY <1>1, Zenon DEF Own, SameOwn, Boxes
    <2> HIDE DEF y
    <2>3. Registers(y)
      BY <1>1, <2>2, SameRegisters
    <2>4. Repaired(y, gm')
      BY <1>1, <1>3, <1>9, <2>2, Queues DEF Repaired, SameOwn
    <2>5. Obeys(y, "waiting")
      BY <1>2, <1>13, <2>2, Queues DEF Obeys, SameOwn
    <2> QED BY <2>1, <2>2, <2>3, <2>4, <2>5 DEF SameOwn
  <1>14. gm'.layout >= 1 /\ gm'.tables[gm'.default] = gm'.layout
    BY <1>3, <1>7, <1>9
  <1>15. /\ gc'[c] \in Own /\ gc'[c].at = "waiting" /\ ~gc'[c].stopped /\ gc'[c].box = <<>>
    BY <1>2, <1>6, <1>10 DEF SameRegs
  <1> QED BY <1>2, <1>6, <1>9, <1>11, <1>12, <1>13, <1>14, <1>15, OwnerStep

\* Every message is handled, and the others run again.
LEMMA StartOthersInv ==
  ASSUME GmInv, NEW c \in GmCpus, StartOthers(c)
  PROVE  GmInv'
  <1> DEFINE g == gc[c]
             x == [g EXCEPT !.at = "release"]
  <1>1. /\ GmTypes /\ gm \in Shared /\ gm' = gm /\ g \in Own /\ Registers(g) /\ Repaired(g, gm)
        /\ \A d \in GmCpus : gc[d] \in Own /\ Registers(gc[d]) /\ Repaired(gc[d], gm)
    BY Fields DEF GmInv, GmTypes, StartOthers
  <1>2. /\ g.at = "waiting" /\ gm.owner = c /\ c # NoOne /\ ~g.stopped /\ g.box = <<>>
        /\ \A d \in GmCpus : d # c => Obeys(gc[d], "waiting") /\ gc[d].box = <<>>
    BY OwnerOf DEF StartOthers, Others
  <1>3. gc'[c] = x /\ gc' = [d \in GmCpus |-> gc'[d]]
    BY DEF StartOthers
  <1>4. /\ SameRegs(g, x) /\ x.at = "release" /\ x.tlb = g.tlb /\ x.root = g.root /\ x.flat = g.flat
    BY <1>1 DEF Own, SameRegs
  <1> HIDE DEF x
  <1>5. Registers(x)
    BY <1>1, <1>2, <1>4, OwnerRegisters
  <1>6. Repaired(x, gm')
    BY <1>1, <1>4 DEF Repaired, Fresh, Claimed, SameRegs
  <1>7. ASSUME NEW d \in GmCpus, d # c
        PROVE  /\ gc'[d] \in Own /\ Obeys(gc'[d], "release")
               /\ Registers(gc'[d]) /\ Repaired(gc'[d], gm')
    <2> DEFINE y == [gc[d] EXCEPT !.stopped = FALSE]
    <2>1. gc'[d] = y
      BY <1>7 DEF StartOthers
    <2>2. SameOwn(gc[d], y) /\ y.box = gc[d].box /\ y.stopped = FALSE
      BY <1>1, Zenon DEF Own, SameOwn
    <2> HIDE DEF y
    <2>3. Registers(y)
      BY <1>1, <2>2, SameRegisters
    <2>4. Repaired(y, gm')
      BY <1>1, <2>2 DEF Repaired, Fresh, Claimed, SameOwn
    <2>5. Obeys(y, "release")
      BY <1>2, <1>7, <2>2 DEF Obeys, SameOwn
    <2> QED BY <2>1, <2>2, <2>3, <2>4, <2>5 DEF SameOwn
  <1>8. gm'.layout >= 1 /\ gm'.tables[gm'.default] = gm'.layout
    BY <1>1 DEF GmInv
  <1>9. /\ gc'[c] \in Own /\ gc'[c].at = "release" /\ ~gc'[c].stopped /\ gc'[c].box = <<>>
    BY <1>2, <1>3, <1>4 DEF SameRegs
  <1> QED BY <1>1, <1>2, <1>3, <1>5, <1>6, <1>7, <1>8, <1>9, OwnerStep

\* The lock is free, and its owner back in the guest.
LEMMA ReleaseInv ==
  ASSUME GmInv, NEW c \in GmCpus, Release(c)
  PROVE  GmInv'
  <1> DEFINE g == gc[c]
             x == ResumedWith(g)
  <1>1. /\ GmTypes /\ gm \in Shared /\ gc \in [GmCpus -> Own] /\ g \in Own
        /\ Registers(g) /\ Repaired(g, gm)
        /\ \A d \in GmCpus : gc[d] \in Own /\ Registers(gc[d]) /\ Repaired(gc[d], gm)
    BY Fields DEF GmInv, GmTypes
  <1>2. /\ g.at = "release" /\ gm.owner = c /\ c # NoOne /\ ~g.stopped /\ g.box = <<>>
        /\ \A d \in GmCpus : d # c => Obeys(gc[d], "release")
    BY OwnerOf DEF Release
  <1>3. gc' = [gc EXCEPT ![c] = x] /\ gm' = [gm EXCEPT !.owner = NoOne, !.count = 0]
    BY DEF Release
  <1>4. /\ gm' \in Shared /\ gm'.owner = NoOne /\ gm'.ug = gm.ug /\ gm'.layout = gm.layout
        /\ gm'.perm = gm.perm /\ gm'.default = gm.default /\ gm'.tables = gm.tables
    BY <1>1, <1>3, Zenon DEF Shared
  <1>5. /\ x \in Own /\ x.at = "guest" /\ x.stopped = g.stopped /\ x.box = g.box
        /\ x.pg = g.pg /\ x.pae = g.pae /\ x.cr3 = g.cr3 /\ x.cr0s = g.cr0s /\ x.cr4s = g.cr4s
        /\ x.lin = g.lin /\ x.on = g.on /\ x.pdptr = g.pdptr
        /\ x.tlb = g.tlb /\ x.active = g.active /\ x.root = g.root
        /\ x.flat \in {0, gm.layout, g.flat}
    BY <1>1, Resumed
  <1> HIDE DEF x
  <1>6. SameRegs(g, x)
    BY <1>5 DEF SameRegs
  <1>7. Registers(x)
    BY <1>1, <1>2, <1>6, OwnerRegisters
  <1>8. Repaired(x, gm)
    BY <1>1, <1>2, <1>5, Queues DEF Repaired, Fresh
  <1>9. /\ gc' \in [GmCpus -> Own] /\ gc'[c] = x
        /\ \A d \in GmCpus : d # c => gc'[d] = gc[d]
    BY <1>1, <1>3, <1>5
  <1>10. ASSUME NEW h PROVE Repaired(h, gm) => Repaired(h, gm')
    BY <1>4 DEF Repaired, Claimed, Fresh
  <1>11. \A d \in GmCpus : Registers(gc'[d]) /\ Repaired(gc'[d], gm')
    BY <1>1, <1>7, <1>8, <1>9, <1>10
  <1>12. \A d \in GmCpus : Obeys(gc'[d], "none")
    <2>1. Obeys(x, "none")
      BY <1>2, <1>5 DEF Obeys, Working
    <2>2. ASSUME NEW h, Obeys(h, "release") PROVE Obeys(h, "none")
      BY <2>2 DEF Obeys
    <2> QED BY <1>2, <1>9, <2>1, <2>2
  <1>13. LockInv'
    BY <1>4, <1>12 DEF LockInv, Phase
  <1>14. gm'.layout >= 1 /\ gm'.tables[gm'.default] = gm'.layout
    BY <1>4 DEF GmInv
  <1> QED BY <1>4, <1>9, <1>11, <1>13, <1>14 DEF GmInv, GmTypes

----------------------------------------------------------------------------
\* Every CPU starts in its guest, on the first tables.
LEMMA InitInv ==
  ASSUME GmInit
  PROVE  GmInv
  <1> DEFINE a == CHOOSE x \in TableAddrs : TRUE
             w == [x \in TableAddrs |-> IF x = a THEN 1 ELSE Destroyed]
  <1>1. PICK s \in GmStarts :
          /\ gm = [ug |-> s.ug, hw |-> s.hw, owner |-> NoOne, count |-> 0, layout |-> 1, perm |-> 1,
                   default |-> a, tables |-> w, changes |-> 0, writes |-> 0]
          /\ gc = [c \in GmCpus |->
                    [at |-> "guest", stopped |-> FALSE, box |-> <<>>, reg |-> "cr0",
                     pg |-> c \in s.paged, pae |-> FALSE, cr3 |-> 1, cr0s |-> c \in s.paged,
                     cr4s |-> FALSE, pdptr |-> 0, on |-> s.ug \/ c \in s.paged,
                     root |-> a, active |-> a, tlb |-> {}, lin |-> {},
                     flat |-> IF s.ug \/ c \in s.paged THEN 0 ELSE 1]]
    BY Zenon DEF GmInit
  <1>2. a \in TableAddrs /\ s.ug \in BOOLEAN
    BY GmAssumption, GmStartsAssumption
  <1>3. w \in [TableAddrs -> Nat] /\ w[a] = 1
    BY <1>2 DEF Destroyed
  <1> HIDE DEF a, w
  <1>4. /\ gm \in Shared /\ gm.owner = NoOne /\ gm.layout = 1 /\ gm.perm = 1 /\ gm.default = a
        /\ gm.tables = w /\ gm.ug = s.ug
    BY <1>1, <1>2, <1>3 DEF Shared
  <1>5. ASSUME NEW c \in GmCpus
        PROVE  /\ gc[c] \in Own /\ Registers(gc[c]) /\ Repaired(gc[c], gm) /\ Obeys(gc[c], "none")
    <2> DEFINE p == c \in s.paged
               o == s.ug \/ p
               f == IF o THEN 0 ELSE 1
               no == FALSE
               g == [at |-> "guest", stopped |-> no, box |-> <<>>, reg |-> "cr0",
                     pg |-> p, pae |-> no, cr3 |-> 1, cr0s |-> p,
                     cr4s |-> no, pdptr |-> 0, on |-> o,
                     root |-> a, active |-> a, tlb |-> {}, lin |-> {}, flat |-> f]
    <2>1. gc[c] = g
      BY <1>1
    <2>2. p \in BOOLEAN /\ no \in BOOLEAN /\ ~no
      OBVIOUS
    <2>3. o \in BOOLEAN /\ (s.ug => o)
      BY <1>2
    <2>4. f \in {0, 1} /\ f \in Nat
      OBVIOUS
    <2> HIDE DEF p, o, f, no
    <2>5. g \in Own
      BY <1>2, <2>2, <2>3, <2>4 DEF Own, Working, CrRegs, Boxes
    <2>6. Registers(g)
      BY <2>2 DEF Registers
    <2>7. Repaired(g, gm)
      BY <1>4, <2>3, <2>4, Queues, Zenon DEF Repaired, Fresh
    <2>8. Obeys(g, "none")
      BY <2>2 DEF Obeys, Working
    <2> QED BY <2>1, <2>5, <2>6, <2>7, <2>8
  <1>6. gc \in [GmCpus -> Own]
    <2>1. gc = [c \in GmCpus |-> gc[c]]
      BY <1>1
    <2> QED BY <1>5, <2>1
  <1>7. LockInv
    BY <1>4, <1>5 DEF LockInv, Phase
  <1>8. gm.layout >= 1 /\ gm.tables[gm.default] = gm.layout
    BY <1>3, <1>4
  <1> QED BY <1>4, <1>5, <1>6, <1>7, <1>8 DEF GmInv, GmTypes

\* Every step keeps the invariant.
LEMMA StepInv ==
  ASSUME GmInv, [GmNext]_gmVars
  PROVE  GmInv'
  <1>1. CASE UNCHANGED gmVars
    BY <1>1 DEF gmVars, GmInv, GmTypes, LockInv, Phase
  <1>2. ASSUME NEW c \in GmCpus, NEW r \in CrRegs, CrWrite(c, r) PROVE GmInv'
    BY <1>2, CrWriteInv
  <1>3. ASSUME NEW c \in GmCpus, NEW a \in TableAddrs, Recreate(c, a) PROVE GmInv'
    BY <1>3, RecreateInv
  <1>4. ASSUME NEW c \in GmCpus,
               GuestTranslates(c) \/ CrUpdate(c) \/ GuestInitCpu(c) \/ GuestSipiCpu(c) \/ Begin(c)
        PROVE  GmInv'
    BY <1>4, TranslatesInv, CrUpdateInv, WaitsInv, SipiInv
  <1>5. ASSUME NEW c \in GmCpus,
               StopOthers(c) \/ PermUpdate(c) \/ StartOthers(c) \/ Release(c) \/ Handle(c)
        PROVE  GmInv'
    BY <1>5, StopOthersInv, PermUpdateInv, StartOthersInv, ReleaseInv, HandleInv
  <1> QED BY <1>1, <1>2, <1>3, <1>4, <1>5 DEF GmNext, GmRest

\* A CPU in its guest has no message that repairs anything.
LEMMA InvIsCurrent ==
  ASSUME GmInv
  PROVE  GuestMemoryCurrent
  <1> SUFFICES ASSUME NEW c \in GmCpus, InGuestNow(c)
               PROVE  /\ gc[c].on /\ (gm.ug \/ gm.layout = 1) =>
                           /\ gm.tables[gc[c].root] = gm.layout
                           /\ \A e \in gc[c].tlb :
                                 e.addr = gc[c].root => e.layout = gm.layout /\ e.perm = gm.perm
                      /\ gc[c].flat \in {0, gm.layout}
                      /\ gc[c].on /\ gc[c].pg => gc[c].lin \subseteq {Paging(gc[c])}
                      /\ gc[c].on /\ gc[c].pg /\ gc[c].pae => gc[c].pdptr = gc[c].cr3
    BY DEF GuestMemoryCurrent
  <1>1. gc[c].at = "guest" /\ ~gc[c].stopped /\ gc[c].at \in Working
    BY DEF InGuestNow, Working
  <1>2. Obeys(gc[c], Phase)
    BY <1>1, WorkerIsNotOwner
  <1>3. gc[c].box \in {<<>>, <<"stop">>}
    BY <1>1, <1>2, Zenon DEF Obeys, Phase, GmInv, LockInv
  <1>4. Registers(gc[c]) /\ Repaired(gc[c], gm) /\ gm.tables[gm.default] = gm.layout
    BY DEF GmInv
  <1>5. Claimed(gm) => Fresh(gc[c], gm)
    BY <1>3, <1>4 DEF Repaired
  <1>6. gm.ug \/ gm.layout = 1 =>
          /\ gm.tables[gc[c].root] = gm.layout
          /\ \A e \in gc[c].tlb : e.addr = gc[c].root => e.layout = gm.layout /\ e.perm = gm.perm
    BY <1>4, <1>5 DEF Fresh, Claimed
  <1>7. gc[c].flat \in {0, gm.layout}
    BY <1>3, <1>4, Queues DEF Repaired
  <1>8. /\ gc[c].on /\ gc[c].pg => gc[c].lin \subseteq {Paging(gc[c])}
        /\ gc[c].on /\ gc[c].pg /\ gc[c].pae => gc[c].pdptr = gc[c].cr3
    BY <1>1, <1>4 DEF Registers
  <1> QED BY <1>6, <1>7, <1>8

(***************************************************************************)
(* No CPU runs its guest on memory that is gone, for any number of CPUs,   *)
(* tables' addresses, changes and control register writes, when each       *)
(* processor offers the invalidations of GmStartsAssumption: the stop, the *)
(* invalidation or new root by message, and the start of guest.c and ept.c *)
(* leave no CPU in the guest with a stale table or translation.            *)
(***************************************************************************)
THEOREM MemoryStaysCurrent == GmSpec => []GuestMemoryCurrent
  <1>1. GmInit => GmInv
    BY InitInv
  <1>2. GmInv /\ [GmNext]_gmVars => GmInv'
    BY StepInv
  <1>3. GmInv => GuestMemoryCurrent
    BY InvIsCurrent
  <1> QED BY <1>1, <1>2, <1>3, PTL DEF GmSpec
=============================================================================
