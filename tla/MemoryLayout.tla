--------------------------- MODULE MemoryLayout ---------------------------
(***************************************************************************)
(* How the monitor lays out memory, from the boot processor's start to the *)
(* guest's run: the cached memory type range registers                     *)
(* (mtrrs_abstraction.c), the E820 map, the host's two maps between        *)
(* virtual and physical pages (host_memory_manager.c), the primary guest's *)
(* physical map (gpm.c, layout_host_memory_for_mbr_loader.c) and the       *)
(* extended page tables with a memory type for every page (ept.c); then    *)
(* the guest's writes of the memory type registers and of the local APIC's *)
(* base.                                                                   *)
(*                                                                         *)
(* Addresses are page numbers.  Physical pages are 0..PhysPages-1, the     *)
(* first Low of them stand for the memory below 4 GB.  Virtual pages from  *)
(* VirtFirst to VirtLast-1 are the area for new virtual addresses.         *)
(* Mappings that the mapper cannot store for want of heap are left out.    *)
(***************************************************************************)
EXTENDS Integers, Sequences, FiniteSets, FiniteSetsExt, SequencesExt

CONSTANTS PhysPages, Low, VirtFirst, VirtLast,
          TablePages,      \* pages described by one lowest-level table of a guest map
          LayoutConfigs,   \* the machines: registers, E820 map, monitor area, extra heap, APIC page
          ApicPages,       \* where a guest may move its local APIC
          RegisterWrites,  \* [index, register] the guest may write
          MaxRegisterWrites, LayoutCpus

VARIABLE ml

layoutVars == ml

Phys == 0..(PhysPages - 1)
Virt == 0..(VirtLast - 1)

Unknown == -1      \* MAM_UNKNOWN_MAPPING
Invalid == -2      \* HMM_INVALID_MEMORY_TYPE
NotPresent == [hpa |-> Unknown, pat |-> "none"]
Unmapped == [hpa |-> Invalid, pat |-> "none"]

---------------------------------------------------------------------------
(* The memory type of an address, and for how many pages from it on the    *)
(* registers are known to say the same (remsize; 0 when unknown).          *)

MtrrCovers(r, a) == r.base <= a /\ a < r.base + r.size

\* A mutant: a range that starts further on is not looked at.
IgnoreNextRange(a, acc, r) ==
    LET rem == r.base + r.size - a
    IN IF ~r.valid \/ ~MtrrCovers(r, a) THEN acc
       ELSE [types |-> acc.types \cup {r.type},
             back |-> IF acc.rem > 0 /\ acc.back = "UC" THEN "UC" ELSE r.type,
             rem |-> CASE acc.rem = 0 -> rem
                       [] r.type = "UC" /\ acc.back = "UC" -> IF acc.rem > rem THEN acc.rem ELSE rem
                       [] r.type = "UC" -> rem
                       [] acc.back = "UC" -> acc.rem
                       [] OTHER -> IF acc.rem > rem THEN rem ELSE acc.rem]

\* One variable range register, in the order of their numbers.
MergeRegister(a, acc, r) ==
    LET rem == r.base + r.size - a
    IN CASE ~r.valid -> acc
         [] r.valid /\ MtrrCovers(r, a) ->
              [types |-> acc.types \cup {r.type},
               back |-> IF acc.rem > 0 /\ acc.back = "UC" THEN "UC" ELSE r.type,
               rem |-> CASE acc.rem = 0 -> rem
                         [] acc.rem > 0 /\ r.type = "UC" /\ acc.back = "UC" ->
                              Max({acc.rem, rem})
                         [] acc.rem > 0 /\ r.type = "UC" /\ acc.back # "UC" -> rem
                         [] acc.rem > 0 /\ r.type # "UC" /\ acc.back = "UC" -> acc.rem
                         [] OTHER -> Min({acc.rem, rem})]
         [] OTHER ->
              IF a < r.base /\ a + acc.rem > r.base THEN [acc EXCEPT !.rem = r.base - a] ELSE acc

\* The type several matching registers give together.
CombinedType(types, default) ==
    CASE types = {} -> default
      [] Cardinality(types) = 1 -> CHOOSE t \in types : TRUE
      [] Cardinality(types) > 1 /\ "UC" \in types -> "UC"
      [] types = {"WT", "WB"} -> "WT"
      [] OTHER -> "UNDEFINED"

InFixedRange(m, a) == m.fixedEnabled /\ \E i \in DOMAIN m.fixed : a <= m.fixed[i].end

\* mtrrs_abstraction_get_memory_type.
GetMemoryType(m, a) ==
    IF ~m.enabled THEN [type |-> "UC", rem |-> 0]
    ELSE IF InFixedRange(m, a)
    THEN LET i == Min({j \in DOMAIN m.fixed : a <= m.fixed[j].end})
         IN [type |-> m.fixed[i].type, rem |-> m.fixed[i].end + 1 - a]
    ELSE LET acc == FoldLeft(LAMBDA x, r : MergeRegister(a, x, r),
                             [types |-> {}, back |-> "UNDEFINED", rem |-> 0], m.vars)
         IN [type |-> CombinedType(acc.types, m.default), rem |-> acc.rem]

RECURSIVE SameTypeFrom(_, _, _, _, _)
SameTypeFrom(m, a, first, size, total) ==
    LET q == GetMemoryType(m, a + size)
    IN IF q.type # first \/ size >= total THEN size
       ELSE SameTypeFrom(m, a, first, size + (IF q.rem = 0 THEN 1 ELSE q.rem), total)

\* mtrrs_abstraction_get_range_memory_type: the type of the first page and
\* the size of the piece that has it.
GetRangeMemoryType(m, a, total) ==
    LET first == GetMemoryType(m, a).type
    IN [type |-> first, size |-> SameTypeFrom(m, a, first, 0, total)]

---------------------------------------------------------------------------
(* Host virtual and physical addresses.                                    *)

Available(s, v) == s.hva[v].hpa < 0

\* hmm_allocate_continuous_free_virtual_pages: the first run of n available
\* pages from the allocation pointer on, wrapping round at the area's end.
RunsOf(s, n) ==
    {v \in VirtFirst..(VirtLast - n) : \A i \in 0..(n - 1) : Available(s, v + i)}

FirstRun(s, n) ==
    LET ahead == {v \in RunsOf(s, n) : v >= s.ptr}
    IN IF ahead # {} THEN Min(ahead) ELSE Min(RunsOf(s, n))

AfterRun(v, n) == IF v + n >= VirtLast THEN VirtFirst ELSE v + n

Map(s, v, p, pat) ==
    [s EXCEPT !.hva[v] = [hpa |-> p, pat |-> pat], !.hpa[p] = v]

\* A mutant: a page that cannot be mapped one to one takes the virtual page all the same.
MapPhysPageOver(s, p, pat) ==
    IF s.hpa[p] >= 0 THEN [s EXCEPT !.hva[s.hpa[p]] = [hpa |-> p, pat |-> pat]]
    ELSE Map(s, p, p, pat)

\* hmm_map_phys_page_full_attrs: the page keeps the address it has; else it
\* is mapped one to one; else a new virtual page is taken.
MapPhysPage(s, p, pat) ==
    CASE s.hpa[p] >= 0 -> [s EXCEPT !.hva[s.hpa[p]] = [hpa |-> p, pat |-> pat]]
      [] s.hpa[p] < 0 /\ Available(s, p) -> Map(s, p, p, pat)
      [] OTHER -> LET v == FirstRun(s, 1)
                  IN [Map(s, v, p, pat) EXCEPT !.ptr = AfterRun(v, 1)]

---------------------------------------------------------------------------

PagesOf(range) == range.base..(range.base + range.length - 1)

E820AboveLow(s) ==
    UNION {PagesOf(s.e820[i]) : i \in DOMAIN s.e820} \cap Low..(PhysPages - 1)

\* The loader has filled in the E820 map and the place of the monitor; in a
\* post-launch start, the pages the driver gives the monitor for its heap.
LayoutInit ==
    \E c \in LayoutConfigs :
        ml = [pc |-> "hmm", mtrr |-> c.mtrr, e820 |-> c.e820, monitor |-> c.monitor,
              heap |-> c.heap, ptr |-> VirtFirst, heapBase |-> 0,
              hva |-> [v \in Virt |-> NotPresent], hpa |-> [p \in Phys |-> Unknown],
              gpm |-> {}, ept |-> [p \in Phys |-> "none"], made |-> c.mtrr,
              lapic |-> [i \in LayoutCpus |-> [hpa |-> c.apic, hva |-> 0, mode |-> "off"]],
              written |-> 0]

\* hmm_map_remaining_memory: one to one below 4 GB and wherever the E820 map
\* has an entry above.
MapRemainingMemory(s) ==
    LET all == 0..(Low - 1) \cup E820AboveLow(s)
    IN [s EXCEPT !.hva = [v \in Virt |-> IF v \in all THEN [hpa |-> v, pat |-> "wb"] ELSE @[v]],
                 !.hpa = [p \in Phys |-> IF p \in all THEN p ELSE @[p]]]

\* Virtual page 0 is given up; the physical page behind it gets another one.
RemapFirstPage(s) ==
    LET freed == [s EXCEPT !.hva[0] = Unmapped]
        v == FirstRun(freed, 1)
    IN [Map(freed, v, 0, "wb") EXCEPT !.ptr = AfterRun(v, 1)]

\* The additional heap of a post-launch start: its pages, wherever they are,
\* become contiguous, and their one-to-one addresses are removed.  The map
\* from physical addresses still has the old addresses.
MapAdditionalHeap(s) ==
    LET n == Len(s.heap)
        v == FirstRun(s, n)
        at(w) == w - v + 1
    IN IF n = 0 THEN s
       ELSE [s EXCEPT !.ptr = AfterRun(v, n),
                      !.heapBase = v,
                      !.hva = [w \in Virt |->
                                 CASE w \in v..(v + n - 1) -> [hpa |-> s.heap[at(w)], pat |-> "wb"]
                                   [] \E i \in 1..n : s.hpa[s.heap[i]] = w -> Unmapped
                                   [] OTHER -> @[w]]]

HmmInitialize ==
    /\ ml.pc = "hmm"
    /\ ml' = [MapAdditionalHeap(RemapFirstPage(MapRemainingMemory(ml))) EXCEPT !.pc = "extend"]

\* build_extend_heap_hpa_to_hva, once the heap has been extended.
BuildExtendHeap ==
    /\ ml.pc = "extend"
    /\ ml' = [ml EXCEPT !.pc = "guests",
                        !.hpa = [p \in Phys |->
                                   IF \E i \in DOMAIN ml.heap : ml.heap[i] = p
                                   THEN ml.heapBase + (CHOOSE i \in DOMAIN ml.heap :
                                                           ml.heap[i] = p) - 1
                                   ELSE @[p]]]

\* init_memory_layout_from_mbr: the guest gets everything below 4 GB and the
\* E820 entries above it, without the monitor's own memory and its extra heap.
InitMemoryLayout ==
    /\ ml.pc = "guests"
    /\ ml' = [ml EXCEPT !.pc = "ept",
                        !.gpm = ((0..(Low - 1)) \cup E820AboveLow(ml))
                                  \ (PagesOf(ml.monitor) \cup Range(ml.heap))]

---------------------------------------------------------------------------
(* The guest's address space.                                              *)

\* The ranges the iterator of a guest map returns: runs of mapped pages that
\* end at the latest where a lowest-level table ends.
GpmRanges(pages) ==
    LET starts == {p \in pages : p - 1 \notin pages \/ p % TablePages = 0}
        limit(p) == Min({q \in (p + 1)..PhysPages : q \notin pages \/ q % TablePages = 0})
    IN {[base |-> p, length |-> limit(p) - p] : p \in starts}

\* The loop of ept_create_guest_address_space over one range.
RECURSIVE TypesFrom(_, _, _)
TypesFrom(m, a, left) ==
    IF left <= 0 THEN <<>>
    ELSE LET q == GetRangeMemoryType(m, a, left)
             n == Min({q.size, left})
         IN [i \in 1..n |-> IF q.type = "UNDEFINED" THEN "UC" ELSE q.type]
              \o TypesFrom(m, a + n, left - n)

CreateGuestAddressSpace(m, pages) ==
    LET ranges == GpmRanges(pages)
        in(p) == CHOOSE r \in ranges : p \in PagesOf(r)
    IN [p \in Phys |-> IF p \in pages
                       THEN TypesFrom(m, in(p).base, in(p).length)[p - in(p).base + 1]
                       ELSE "none"]

\* The default tables of the guest at start, and tables made anew when the
\* guest map has been modified.
EptCreate ==
    /\ ml.pc \in {"ept", "run"}
    /\ ml.made # ml.mtrr \/ ml.pc = "ept"
    /\ ml' = [ml EXCEPT !.pc = "run", !.made = ml.mtrr,
                        !.ept = CreateGuestAddressSpace(ml.mtrr, ml.gpm)]

\* msr_mtrr_write_handler: the register and its cached copy are written.
\* Nobody listens to the event raised after it: the guest's tables keep the
\* types they were made with.
GuestWritesMtrr ==
    \E w \in RegisterWrites :
        /\ ml.pc = "run"
        /\ ml.written < MaxRegisterWrites
        /\ w.index \in DOMAIN ml.mtrr.vars
        /\ ml' = [ml EXCEPT !.mtrr.vars[w.index] = w.register, !.written = @ + 1]

---------------------------------------------------------------------------
(* Local APICs.                                                            *)

\* local_apic_setup_changed: the page is mapped uncached unless the APIC is
\* accessed through registers.
ApicSetupChanged(s, c, page, mode) ==
    LET mapped == IF mode = "x2" THEN s ELSE MapPhysPage(s, page, "uc")
    IN [mapped EXCEPT !.lapic[c] = [hpa |-> page, mode |-> mode,
                                    hva |-> IF mode = "x2" THEN @.hva ELSE mapped.hpa[page]]]

ApicInit(c) ==
    /\ ml.pc \notin {"hmm", "extend"}
    /\ ml.lapic[c].mode = "off"
    /\ \E mode \in {"x", "x2"} : ml' = ApicSetupChanged(ml, c, ml.lapic[c].hpa, mode)

\* msr_lapic_base_write_handler: an APIC in the register mode stays in it.
GuestMovesApic(c) ==
    \E page \in ApicPages, mode \in {"x", "x2"} :
        /\ ml.pc = "run"
        /\ ml.lapic[c].mode # "off"
        /\ ml.lapic[c].mode = "x2" => mode = "x2"
        /\ ml' = ApicSetupChanged(ml, c, page, mode)

LayoutNext ==
    \/ HmmInitialize
    \/ BuildExtendHeap
    \/ InitMemoryLayout
    \/ EptCreate
    \/ GuestWritesMtrr
    \/ \E c \in LayoutCpus : ApicInit(c) \/ GuestMovesApic(c)

LayoutSpec == LayoutInit /\ [][LayoutNext]_layoutVars

---------------------------------------------------------------------------

MemoryTypes == {"UC", "WC", "WT", "WP", "WB"}

LayoutTypeOK ==
    /\ ml.pc \in {"hmm", "extend", "guests", "ept", "run"}
    /\ ml.ptr \in VirtFirst..(VirtLast - 1)
    /\ \A v \in Virt : ml.hva[v] \in {NotPresent, Unmapped} \cup [hpa : Phys, pat : {"wb", "uc"}]
    /\ \A p \in Phys : ml.hpa[p] \in Virt \cup {Unknown, Invalid}
    /\ ml.gpm \subseteq Phys
    /\ ml.ept \in [Phys -> MemoryTypes \cup {"none"}]
    /\ ml.written \in 0..MaxRegisterWrites

\* The host's two maps say the same, through every remapping: a physical page
\* has one virtual page, which leads back to it, virtual page 0 is never
\* mapped again, every page of the guest can be reached by the monitor
\* (gpm_gpa_to_hva), and every processor reaches its own local APIC uncached,
\* wherever the other processors move theirs.
HostMapsAgree ==
    ml.pc \notin {"hmm", "extend"} =>
        /\ \A p \in Phys : ml.hpa[p] >= 0 => ml.hva[ml.hpa[p]].hpa = p
        /\ \A v \in Virt : ml.hva[v].hpa >= 0 => ml.hpa[ml.hva[v].hpa] = v
        /\ ml.hva[0] = Unmapped
        /\ \A p \in ml.gpm : ml.hpa[p] >= 0
        /\ \A c \in LayoutCpus :
               ml.lapic[c].mode = "x" =>
                   ml.hva[ml.lapic[c].hva] = [hpa |-> ml.lapic[c].hpa, pat |-> "uc"]

\* What the registers say of one page.
TypeOfPage(m, p) ==
    IF ~m.enabled THEN "UC"
    ELSE IF InFixedRange(m, p)
    THEN m.fixed[Min({j \in DOMAIN m.fixed : p <= m.fixed[j].end})].type
    ELSE CombinedType({m.vars[i].type : i \in {j \in DOMAIN m.vars :
                                          m.vars[j].valid /\ MtrrCovers(m.vars[j], p)}},
                      m.default)

\* Every page of the guest, and no page of the monitor or of its extra heap,
\* is in the guest's tables, with the type the registers gave it when the
\* tables were made ("add separate mapping per memory type"), though the type
\* is asked for pieces of many pages at a time.
EptTypesExact ==
    ml.pc = "run" =>
        \A p \in Phys :
            ml.ept[p] = CASE p \in PagesOf(ml.monitor) \cup Range(ml.heap) -> "none"
                          [] p \in ml.gpm \ (PagesOf(ml.monitor) \cup Range(ml.heap)) ->
                               LET t == TypeOfPage(ml.made, p)
                               IN IF t = "UNDEFINED" THEN "UC" ELSE t
                          [] OTHER -> "none"
===========================================================================
