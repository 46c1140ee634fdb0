------------------------------- MODULE Bootstrap -------------------------------
(***************************************************************************)
(* The 32-bit bootstrap of the monitor: start32_evmm of                    *)
(* cpvmm/vmm/bootstrap/bootstrap_entry.c and the memory map it edits,      *)
(* bootstrap_e820.c.  Addresses are counted in pages.  The bootstrap       *)
(* relocates the monitor, copies the e820 map of the boot loader, reserves *)
(* in it what must not reach Linux, takes pages for tables and stacks from *)
(* the small heap below the monitor, places the initial ram disk and the   *)
(* kernel, and hands the edited map both to Linux and to the monitor.      *)
(*                                                                         *)
(* The e820 table is kept as the code keeps it: an array of MaxEntries     *)
(* entries and a count, the slots past the count holding what was left     *)
(* there.  A failure makes the code loop forever ("stopped").              *)
(***************************************************************************)
EXTENDS Integers, Sequences, FiniteSets, FiniteSetsExt, TLC

CONSTANTS BootConfigs,    \* the machines and module sizes to boot from
          MaxEntries,     \* E820MAX
          TotalMem,       \* TOTAL_MEM, the 4G limit
          MaxProcessors,  \* MAXPROCESSORS
          StackPages      \* UVMM_DEFAULT_STACK_SIZE_PAGES

VARIABLE boot

bootVars == <<boot>>

Entry(base, len, type) == [base |-> base, len |-> len, type |-> type]

End(entry) == entry.base + entry.len

EmptyMap == [e |-> [k \in 0..(MaxEntries - 1) |-> Entry(0, 0, "none")],
             nr |-> 0, ok |-> TRUE]

---------------------------------------------------------------------------
(* The operations on the table. *)

\* The position is unsigned: before the first entry it is larger than every
\* index, nothing is shifted and the entry in slot 0 is overwritten.
InsertAfterRegion(m, pos, new) ==
    IF m.nr + 1 > MaxEntries
    THEN [m EXCEPT !.ok = FALSE]
    ELSE [m EXCEPT !.e = [k \in DOMAIN m.e |->
                            CASE k = pos + 1 -> new
                              [] pos >= 0 /\ k > pos + 1 /\ k <= m.nr -> m.e[k - 1]
                              [] OTHER -> m.e[k]],
                   !.nr = @ + 1]

\* n calls of remove_region at the same position.
RemoveRegions(m, pos, n) ==
    [m EXCEPT !.e = [k \in DOMAIN m.e |->
                       IF k < pos \/ k >= m.nr
                       THEN m.e[k]
                       ELSE m.e[IF k + n < m.nr THEN k + n ELSE m.nr - 1]],
              !.nr = @ - n]

StartAt(m, i, base) ==
    [m EXCEPT !.e[i] = Entry(base, End(m.e[i]) - base, m.e[i].type)]

CutAt(m, i, end) == [m EXCEPT !.e[i].len = end - m.e[i].base]

\* Whatever the new region now overlaps from position i on gives way to it.
GiveWay(m, i, new) ==
    IF new.base >= m.e[i].base /\ End(new) < End(m.e[i])
    THEN StartAt(m, i, End(new))
    ELSE LET covered == {k \in i..(m.nr - 1) :
                           \A l \in i..k : End(new) >= End(m.e[l])}
             rest == RemoveRegions(m, i, Cardinality(covered))
         IN IF i < rest.nr /\ End(new) > rest.e[i].base
            THEN StartAt(rest, i, End(new))
            ELSE rest

ProtectRegion(m, new) ==
    LET found == {k \in 0..(m.nr - 1) : new.base <= m.e[k].base \/ new.base < End(m.e[k])}
        i == IF found = {} THEN m.nr ELSE Min(found)
    IN CASE new.len = 0 -> m
         [] new.len > 0 /\ i = m.nr -> InsertAfterRegion(m, i - 1, new)
         [] new.len > 0 /\ i < m.nr /\ new.base > m.e[i].base ->
              LET first == InsertAfterRegion(m, i, new)
                  second == InsertAfterRegion(CutAt(first, i, new.base), i + 1, m.e[i])
              IN IF first.ok /\ second.ok
                 THEN GiveWay(second, i + 2, new)
                 ELSE [m EXCEPT !.ok = FALSE]
         [] new.len > 0 /\ i < m.nr /\ new.base <= m.e[i].base ->
              LET first == InsertAfterRegion(m, i - 1, new)
              IN IF first.ok THEN GiveWay(first, i + 1, new) ELSE first

\* A faulty form: the rest of the map is not looked at once a RAM entry has been
\* cut at its end.
ReserveFromOneEntry(m, i, base, end) ==
    IF \E k \in i..(m.nr - 1) : m.e[k].type = "ram" /\ m.e[k].base < base /\ base < End(m.e[k])
                               /\ End(m.e[k]) <= end
    THEN LET k == Min({x \in i..(m.nr - 1) : base < End(m.e[x])})
         IN InsertAfterRegion(CutAt(m, k, base), k, Entry(base, End(m.e[k]) - base, "reserved"))
    ELSE m

RECURSIVE ReserveFrom(_, _, _, _)
ReserveFrom(m, i, base, end) ==
    IF ~m.ok \/ i >= m.nr THEN m
    ELSE LET ent == m.e[i]
             skip == ent.type # "ram" \/ end <= ent.base \/ base >= End(ent)
         IN CASE skip -> ReserveFrom(m, i + 1, base, end)
              [] ~skip /\ base <= ent.base /\ End(ent) <= end ->
                   ReserveFrom([m EXCEPT !.e[i].type = "reserved"], i + 1, base, end)
              [] ~skip /\ base <= ent.base /\ End(ent) > end ->
                   LET split == InsertAfterRegion(m, i - 1,
                                    Entry(ent.base, end - ent.base, "reserved"))
                   IN IF split.ok
                      THEN [split EXCEPT !.e[i + 1].base = end,
                                         !.e[i + 1].len = End(ent) - end]
                      ELSE split
              [] ~skip /\ base > ent.base /\ End(ent) <= end ->
                   ReserveFrom(InsertAfterRegion(CutAt(m, i, base), i,
                                   Entry(base, End(ent) - base, "reserved")),
                               i + 2, base, end)
              [] ~skip /\ base > ent.base /\ End(ent) > end ->
                   LET middle == InsertAfterRegion(CutAt(m, i, base), i,
                                     Entry(base, end - base, "reserved"))
                   IN IF middle.ok
                      THEN InsertAfterRegion(middle, i + 1, Entry(end, End(ent) - end, "ram"))
                      ELSE middle

ReserveRam(m, base, len) == IF len = 0 THEN m ELSE ReserveFrom(m, 0, base, base + len)

\* The highest RAM entry of at least size pages below the limit; the search
\* ends at the first RAM entry that reaches over the limit.
HighestSizedRam(m, size) ==
    LET ram == {k \in 0..(m.nr - 1) : m.e[k].type = "ram"}
        over == {k \in ram : End(m.e[k]) > TotalMem}
        fits == {k \in ram : m.e[k].len >= size /\ \A l \in over : k < l}
    IN IF fits = {} THEN Entry(0, 0, "none") ELSE m.e[Max(fits)]

---------------------------------------------------------------------------
(* start32_evmm, one action for each step that can fail or that writes     *)
(* memory.                                                                 *)

NoRegions == [k \in {} |-> <<0, 0>>]

NoArgs == [params |-> 0, cmdline |-> 0, entries |-> 0]

NoGuest == [entry |-> 0, params |-> 0, cpus |-> 0]

NoTables == [pml4 |-> 0, pdpt |-> 0, directory |-> <<>>, leaf |-> <<>>, cs |-> 0, ds |-> 0, limit |-> 0]

NotEntered == [cr3 |-> 0, stack |-> 0, aps |-> 0]

BootInit ==
    \E c \in BootConfigs :
        boot = [pc |-> "modules", cfg |-> c, map |-> EmptyMap, next |-> 1,
                heap |-> c.heapBase, placed |-> NoRegions, handed |-> EmptyMap,
                args |-> NoArgs, guest |-> NoGuest, excluded |-> <<>>,
                tables |-> NoTables, entered |-> NotEntered]

Step(from, to) == boot.pc = from /\ boot' = to

\* Either the step's result, or the code loops forever.
OrStop(ok, next) == IF ok THEN next ELSE [boot EXCEPT !.pc = "stopped"]

Placed(b, name, from, len) ==
    [b EXCEPT !.placed = [k \in DOMAIN @ \cup {name} |->
                             IF k = name THEN <<from, from + len>> ELSE @[k]]]

GetModules ==
    Step("modules", OrStop(boot.cfg.modules = 3, [boot EXCEPT !.pc = "relocate"]))

\* The first loadable segment of the monitor's image; the others are not
\* looked at.
LoadHeader(c) ==
    LET load == {k \in DOMAIN c.segments : c.segments[k].type = "load"}
    IN IF load = {} THEN [type |-> "none", at |-> 0, pages |-> 0] ELSE c.segments[Min(load)]

EvmmStart(c) == c.heapBase + c.heapSize

EvmmTotal(c) == LoadHeader(c).pages + c.evmmHeap

\* The segment is copied to its fixed address and everything after it, up to
\* the end of the monitor's own heap, is zeroed.
RelocateEvmm ==
    LET c == boot.cfg
        seg == LoadHeader(c)
    IN Step("relocate",
            OrStop(seg.type = "load" /\ seg.at = EvmmStart(c) /\ c.x86_64,
                   [Placed(boot, "evmm", EvmmStart(c), EvmmTotal(c)) EXCEPT !.pc = "copy"]))

CopyE820Map ==
    LET c == boot.cfg
        more == boot.next <= Len(c.raw) /\ boot.map.nr < MaxEntries
        new == ProtectRegion(boot.map, c.raw[boot.next])
    IN Step("copy",
            IF more
            THEN OrStop(new.ok, [boot EXCEPT !.map = new, !.next = @ + 1])
            ELSE OrStop(boot.map.nr < MaxEntries, [boot EXCEPT !.pc = "fix"]))

\* fixe820map compares an entry's base plus the size of its descriptor, which
\* is less than a page, with the address of the hole: on page-aligned maps it
\* changes nothing.
FixE820Map == Step("fix", [boot EXCEPT !.pc = "bootstrap"])

ReserveIn(from, to, base, len) ==
    LET m == ReserveRam(boot.map, base, len)
    IN Step(from, OrStop(m.ok, [boot EXCEPT !.map = m, !.pc = to]))

ReserveBootstrap ==
    ReserveIn("bootstrap", "evmm", boot.cfg.bootFrom, boot.cfg.bootTo - boot.cfg.bootFrom)

\* The second argument of the call is the end of the monitor, where the
\* function takes a length.
EvmmReservation(c) == EvmmStart(c) + EvmmTotal(c)

ReserveEvmm == ReserveIn("evmm", "64bit", boot.cfg.heapBase, EvmmReservation(boot.cfg))

\* evmm_page_alloc moves the heap pointer and compares it with nothing.
PageAlloc(b, name, pages) ==
    [Placed(b, name, b.heap, pages) EXCEPT !.heap = b.heap + pages]

\* A page of descriptors: the boot loader's, then those of the 64-bit code and
\* data segments, two slots each, at the next multiple of 16 bytes.  The limit
\* grows by the four slots only.
Descriptors(c) ==
    LET base == ((8 * c.gdt + 15) \div 16) * 16
    IN [cs |-> base, ds |-> base + 16, limit |-> 8 * c.gdt - 1 + 32]

\* A page each for the PML4, the PDPT and four directories, whose entries map
\* the 4G one after the other, each to the address the loop has come to.
DirectoryEntries == TotalMem \div 4

IdentityPaging(page) ==
    [pml4 |-> page, pdpt |-> page + 1, directory |-> [i \in 0..3 |-> page + 2 + i],
     leaf |-> [i \in 0..3 |-> [j \in 0..(DirectoryEntries - 1) |-> i * DirectoryEntries + j]]]

Setup64bit ==
    Step("64bit", [PageAlloc(boot, "tables", 7)
                     EXCEPT !.tables = Descriptors(boot.cfg) @@ IdentityPaging(boot.heap + 1), !.pc = "stacks"])

\* The processors beside the first, from the count CPUID gives.
NumOfAps(c) == Max({0, Min({c.cpuid - 1, MaxProcessors - 1})})

SetupEvmmStacks ==
    Step("stacks", [PageAlloc(boot, "stacks", (1 + NumOfAps(boot.cfg)) * StackPages)
                      EXCEPT !.pc = "linux_data"])

AllocateLinuxData ==
    Step("linux_data",
         [Placed(Placed(boot, "linux_stack", boot.cfg.heapBase - 1, 1),
                 "boot_params", boot.cfg.params, 2)
            EXCEPT !.pc = "linux_stack"])

ReserveLinuxStack == ReserveIn("linux_stack", "boot_params", boot.cfg.heapBase - 1, 1)

ReserveBootParams == ReserveIn("boot_params", "image", boot.cfg.params, 2)

\* The modules' images must be there.  Linux gets its own boot information,
\* with the module of the monitor taken off and the edited map in it.
PrepareLinuxImage ==
    Step("image", OrStop(boot.cfg.images, [boot EXCEPT !.handed = boot.map, !.pc = "initrd"]))

\* The checks of the kernel header, and the ram disk as high as it fits; the
\* kernel's own limit on its address is applied last.
PlaceInitrd ==
    LET c == boot.cfg
        ram == HighestSizedRam(boot.map, c.initrd)
        high == End(ram) - c.initrd
        low == IF high + c.initrd > c.initrdMax THEN c.initrdMax - c.initrd ELSE high
    IN Step("initrd",
            OrStop(c.header /\ ram.len # 0 /\ (high + c.initrd > c.initrdMax => c.initrdMax >= c.initrd),
                   [Placed(boot, "initrd", low, c.initrd) EXCEPT !.pc = "kernel"]))

\* The real-mode part goes below the end of low memory, within two limits.
RealModeBase(c) == Max({c.realLowest, Min({c.lowMemory - c.realSize, c.realHighest})})

\* A relocatable kernel goes to a fixed address that nothing checks.
PlaceKernel ==
    LET c == boot.cfg
        real == Placed(boot, "real", RealModeBase(c), c.realSize)
    IN Step("kernel",
            OrStop(c.realFits /\ (c.relocatable \/ c.loadHigh),
                   [Placed(real, "kernel", IF c.relocatable THEN c.kernelAt ELSE c.kernelLow,
                           c.kernel) EXCEPT !.pc = "args"]))

\* The boot parameters go to the pages set aside for them, with as many map
\* entries as the edited map has, and the command line right after them.
PreparePrimaryGuestArgs ==
    Step("args",
         [boot EXCEPT !.args = [params |-> boot.cfg.params,
                                cmdline |-> IF boot.cfg.cmdline THEN boot.cfg.params + 1 ELSE 0,
                                entries |-> boot.map.nr],
                      !.pc = "guest"])

\* The state the guest's first processor starts with; that of the others is
\* not filled in.  Its stack pointer is the monitor's, its descriptor table has
\* eight slots, its selectors are flat segments of it and it does not page.
LinuxSetup(b) ==
    [entry |-> IF b.cfg.relocatable THEN b.cfg.kernelAt ELSE b.cfg.code32,
     params |-> b.args.params, cpus |-> 1, stack |-> b.placed["stacks"][1] + StackPages,
     cr3 |-> 0, limit |-> 63, cs |-> 16, data |-> 24, tr |-> 32]

\* A faulty form: only the monitor's image is excluded, not its heap.
ExcludedImageOnly(c) ==
    << <<EvmmStart(c), EvmmStart(c) + EvmmTotal(c)>>,
       <<0, 0>>, <<0, 0>>, <<c.bootFrom, c.bootTo>> >>

\* The monitor's image and heap, the bootstrap's heap, tboot (of which nothing
\* is known: its bounds are both 0) and the bootstrap.
ExcludedRegions(c) ==
    << <<EvmmStart(c), EvmmStart(c) + EvmmTotal(c)>>,
       <<c.heapBase, EvmmStart(c)>>, <<0, 0>>, <<c.bootFrom, c.bootTo>> >>

\* The monitor's copy of the map it is told of is a page of the heap, filled
\* from the map in Linux's boot information.
EvmmGetE820Table(b) == PageAlloc(b, "evmm_e820", 1)

PreparePrimaryGuestEnvironment ==
    Step("guest", [EvmmGetE820Table(boot) EXCEPT !.guest = LinuxSetup(boot),
                                                 !.excluded = ExcludedRegions(boot.cfg),
                                                 !.pc = "enter"])

\* The jump into 64-bit mode has its selector, 64, in the instruction, so that
\* the code stops when the boot loader's descriptors put it elsewhere.  The
\* processors found are woken before.
EnterMonitor ==
    Step("enter",
         OrStop(boot.tables.cs = 64,
                [boot EXCEPT !.entered = [cr3 |-> boot.tables.pml4,
                                          stack |-> boot.placed["stacks"][1] + StackPages,
                                          aps |-> NumOfAps(boot.cfg)],
                             !.pc = "started"]))

BootRest == boot.pc \in {"stopped", "started"} /\ UNCHANGED boot

BootNext ==
    \/ GetModules \/ RelocateEvmm \/ CopyE820Map \/ FixE820Map \/ ReserveBootstrap
    \/ ReserveEvmm \/ Setup64bit \/ SetupEvmmStacks \/ AllocateLinuxData
    \/ ReserveLinuxStack \/ ReserveBootParams \/ PrepareLinuxImage \/ PlaceInitrd
    \/ PlaceKernel \/ PreparePrimaryGuestArgs \/ PreparePrimaryGuestEnvironment
    \/ EnterMonitor \/ BootRest

BootSpec == BootInit /\ [][BootNext]_bootVars

---------------------------------------------------------------------------

BootSteps == {"modules", "relocate", "copy", "fix", "bootstrap", "evmm", "64bit", "stacks",
              "linux_data", "linux_stack", "boot_params", "image", "initrd", "kernel", "args",
              "guest", "enter", "started", "stopped"}

\* Every entry in use has a type and a length, and the map is complete only
\* when it has room left.
BootTypeOK ==
    /\ boot.pc \in BootSteps
    /\ boot.map.nr \in 0..MaxEntries
    /\ boot.map.ok
    /\ \A k \in 0..(boot.map.nr - 1) : boot.map.e[k].type # "none" /\ boot.map.e[k].len > 0
    /\ boot.pc \notin {"modules", "relocate", "copy", "stopped"} => boot.next > Len(boot.cfg.raw)

Pages(from, to) == from..(to - 1)

TypeIn(m, p) ==
    LET at == {k \in 0..(m.nr - 1) : m.e[k].base <= p /\ p < End(m.e[k])}
    IN IF at = {} THEN "none" ELSE m.e[Min(at)].type

\* What the boot loader says of a page: its last entry about it.
RawType(c, p) ==
    LET at == {k \in DOMAIN c.raw : c.raw[k].base <= p /\ p < End(c.raw[k])}
    IN IF at = {} THEN "none" ELSE c.raw[Max(at)].type

\* The address an address is mapped to by the tables under CR3.
Translated(t, p) == t.leaf[p \div DirectoryEntries][p % DirectoryEntries]

WithheldFromLinux(c) ==
    Pages(c.bootFrom, c.bootTo) \cup Pages(c.heapBase, c.heapBase + EvmmReservation(c))
        \cup {c.heapBase - 1} \cup Pages(c.params, c.params + 2)

ExcludedPages(regions) == UNION {Pages(regions[r][1], regions[r][2]) : r \in DOMAIN regions}

Horizon(c) == Max({End(c.raw[k]) : k \in DOMAIN c.raw})

\* The map handed to Linux and to the monitor is ordered, has no overlaps, and
\* says of every page what the boot loader said, except that the RAM among the
\* pages withheld from Linux (the bootstrap, the monitor with its heaps, the
\* stack and the boot parameters) is reserved: the four cases of
\* e820_reserve_ram and the insertions of protect_region lose no page and
\* invent none.  What the bootstrap has written to memory does not overlap,
\* and the ram disk lies in what Linux will take for RAM.  What the monitor is
\* told to take out of the guest's memory holds every page the monitor and its
\* tables and stacks are in, and nothing Linux is told is RAM.  The guest
\* starts at the kernel, and the number of entries in its boot parameters is
\* that of the map.  The monitor starts on tables that map every address to
\* itself, each table in a page of its own, with both its descriptors within
\* the limit.
GuestMapSound ==
    boot.pc = "started" =>
        LET c == boot.cfg
            m == boot.handed
        IN /\ \A k, l \in 0..(m.nr - 1) : k < l => End(m.e[k]) <= m.e[l].base
           /\ \A p \in Pages(0, Horizon(c)) :
                 TypeIn(m, p) = IF p \in WithheldFromLinux(c) /\ RawType(c, p) = "ram"
                                THEN "reserved" ELSE RawType(c, p)
           /\ \A x, y \in DOMAIN boot.placed : x # y =>
                 Pages(boot.placed[x][1], boot.placed[x][2])
                   \cap Pages(boot.placed[y][1], boot.placed[y][2]) = {}
           /\ \A p \in Pages(boot.placed["initrd"][1], boot.placed["initrd"][2]) :
                 TypeIn(m, p) = "ram"
           /\ \A x \in {"evmm", "tables", "stacks", "evmm_e820"} :
                 Pages(boot.placed[x][1], boot.placed[x][2]) \subseteq ExcludedPages(boot.excluded)
           /\ \A p \in ExcludedPages(boot.excluded) : TypeIn(m, p) # "ram"
           /\ boot.guest.entry = boot.placed["kernel"][1]
           /\ boot.guest.params = boot.placed["boot_params"][1]
           /\ boot.args.entries = m.nr
           /\ boot.entered.cr3 = boot.tables.pml4
           /\ \A p \in Pages(0, 4 * DirectoryEntries) : Translated(boot.tables, p) = p
           /\ {boot.tables.pml4, boot.tables.pdpt} \cup {boot.tables.directory[i] : i \in 0..3}
                 \subseteq Pages(boot.placed["tables"][1] + 1, boot.placed["tables"][2])
           /\ boot.tables.ds + 7 <= boot.tables.limit
================================================================================
