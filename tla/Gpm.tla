-------------------------------- MODULE Gpm ---------------------------------
(***************************************************************************)
(* A guest's physical memory map (memory_manager/gpm.c) and the three      *)
(* things the monitor derives from it by walking its ranges: the flat page *)
(* tables for a guest that runs without paging (flat_page_tables.c), a     *)
(* copy of the map (gpm_copy) and the guest's E820 map                     *)
(* (gpm_create_e820_map with e820_abstraction.c).                          *)
(*                                                                         *)
(* Addresses are page numbers.  A page is mapped to a host page, declared  *)
(* MMIO, or absent.  The range iterator of the address mapper ends a range *)
(* at the end of a table, of GpmBlock pages here, and where the target or  *)
(* the reason of absence no longer continues.                              *)
(***************************************************************************)
EXTENDS Integers, Sequences

CONSTANTS GpmPages,    \* the guest's pages are 0..GpmPages-1
          GpmBlock,    \* pages of one lowest-level table
          FourGig,     \* the first page at 4 GB
          OriginalMaps,\* E820 maps of the machine: [from, to, type] in order
          E820Room,    \* entries that fit a new E820 map
          GpmRequests, \* calls that build the map: [op, lo, hi, hpa]
          MaxGpmCalls  \* bound on these calls

ASSUME GpmAssumption == {GpmPages, GpmBlock, FourGig, E820Room, MaxGpmCalls} \subseteq Nat \ {0}

VARIABLE gpm

GpmPage == 0..(GpmPages - 1)
NoPage == [is |-> "absent", hpa |-> 0]
MmioPage == [is |-> "mmio", hpa |-> 0]
RamPage(h) == [is |-> "ram", hpa |-> h]
NoIter == GpmPages

\* gpm_create_mapping: nothing is mapped.
GpmInit ==
    \E m \in OriginalMaps :
        gpm = [map |-> [p \in GpmPage |-> NoPage], orig |-> m, calls |-> 0, done |-> {},
               copy |-> [p \in GpmPage |-> NoPage], flat32 |-> <<>>, flat64 |-> <<>>,
               e820 |-> <<>>, e820ok |-> FALSE]

GpmAddMapping(m, r) == [p \in GpmPage |-> IF p \in r.lo..(r.hi - 1) THEN RamPage(r.hpa + p - r.lo) ELSE m[p]]
GpmRemoveMapping(m, r) == [p \in GpmPage |-> IF p \in r.lo..(r.hi - 1) THEN NoPage ELSE m[p]]
GpmAddMmioRange(m, r) == [p \in GpmPage |-> IF p \in r.lo..(r.hi - 1) THEN MmioPage ELSE m[p]]

BuildMap ==
    /\ gpm.calls < MaxGpmCalls /\ gpm.done = {}
    /\ \E r \in GpmRequests :
        gpm' = [gpm EXCEPT !.calls = @ + 1,
                           !.map = CASE r.op = "add" -> GpmAddMapping(@, r)
                                     [] r.op = "remove" -> GpmRemoveMapping(@, r)
                                     [] r.op = "mmio" -> GpmAddMmioRange(@, r)]

\* mam_get_size_of_range: how far what is at page p continues in its table.
Continues(m, p, q) ==
    IF m[p].is = "ram" THEN m[q] = RamPage(m[p].hpa + q - p) ELSE m[q] = m[p]

RangeEnd(m, p) ==
    CHOOSE e \in (p + 1)..GpmPages :
        /\ e <= (p \div GpmBlock + 1) * GpmBlock
        /\ \A q \in p..(e - 1) : Continues(m, p, q)
        /\ \/ e = GpmPages \/ e = (p \div GpmBlock + 1) * GpmBlock
           \/ ~Continues(m, p, e)

\* gpm_advance_mam_iterator_to_appropriate_range: skip what is absent.
RECURSIVE Advance(_, _)
Advance(m, p) == IF p # NoIter /\ m[p].is = "absent" THEN Advance(m, RangeEnd(m, p)) ELSE p

\* The ranges in the order of the iterator.
RECURSIVE RangesFrom(_, _)
RangesFrom(m, p) ==
    IF p = NoIter THEN <<>>
    ELSE <<[from |-> p, to |-> RangeEnd(m, p)]>> \o RangesFrom(m, Advance(m, RangeEnd(m, p)))

RangesOf(m) == RangesFrom(m, Advance(m, 0))

\* gpm_gpa_to_hpa of a range's first page gives the place of the whole range.
InsertRange(m, t, r) ==
    [p \in GpmPage |-> IF p \in r.from..(r.to - 1) THEN RamPage(m[r.from].hpa + p - r.from) ELSE t[p]]

\* Mutant: a range that crosses 4 GB is taken whole.
NoClip(r) == r

\* Ranges beyond 4 GB end the loop; one across 4 GB is cut.
Clip32(r) == [r EXCEPT !.to = IF @ > FourGig THEN FourGig ELSE @]

\* The loop of fpt_create_flat_page_tables, the whole memory or its first 4 GB.
RECURSIVE FlatLoop(_, _, _, _)
FlatLoop(m, rs, is32, t) ==
    IF rs = <<>> \/ (is32 /\ Head(rs).from >= FourGig) THEN t
    ELSE LET r == IF is32 THEN Clip32(Head(rs)) ELSE Head(rs)
         IN FlatLoop(m, Tail(rs), is32, IF m[r.from].is = "ram" THEN InsertRange(m, t, r) ELSE t)

FlatTables(m, is32) == FlatLoop(m, RangesOf(m), is32, [p \in GpmPage |-> NoPage])

\* Tables made before are used again; a failure (no range, no memory for the
\* tables) frees what was made and caches nothing.
CreateFlat32 ==
    /\ gpm.calls > 0
    /\ \/ gpm.flat32 # <<>> /\ gpm' = [gpm EXCEPT !.done = @ \cup {"flat32"}]
       \/ /\ gpm.flat32 = <<>> /\ RangesOf(gpm.map) # <<>>
          /\ gpm' = [gpm EXCEPT !.flat32 = <<FlatTables(gpm.map, TRUE)>>, !.done = @ \cup {"flat32"}]
       \/ gpm.flat32 = <<>> /\ gpm' = [gpm EXCEPT !.done = @ \cup {"flat32"}]

CreateFlat64 ==
    /\ gpm.calls > 0
    /\ \/ gpm.flat64 # <<>> /\ gpm' = [gpm EXCEPT !.done = @ \cup {"flat64"}]
       \/ /\ gpm.flat64 = <<>> /\ RangesOf(gpm.map) # <<>>
          /\ gpm' = [gpm EXCEPT !.flat64 = <<FlatTables(gpm.map, FALSE)>>, !.done = @ \cup {"flat64"}]
       \/ gpm.flat64 = <<>> /\ gpm' = [gpm EXCEPT !.done = @ \cup {"flat64"}]

\* gpm_copy into an empty map: MMIO ranges as MMIO, others page for page.
RECURSIVE CopyLoop(_, _, _)
CopyLoop(m, rs, t) ==
    IF rs = <<>> THEN t
    ELSE LET r == Head(rs)
             q == [op |-> "copy", lo |-> r.from, hi |-> r.to, hpa |-> m[r.from].hpa]
         IN CopyLoop(m, Tail(rs), IF m[r.from].is = "mmio" THEN GpmAddMmioRange(t, q) ELSE GpmAddMapping(t, q))

GpmCopy ==
    /\ gpm.calls > 0 /\ "copy" \notin gpm.done
    /\ gpm' = [gpm EXCEPT !.copy = CopyLoop(gpm.map, RangesOf(gpm.map), @), !.done = @ \cup {"copy"}]

\* e820_abstraction_add_new_range: FALSE when the page is full, the range empty
\* or not beyond the last one.  A faulty form: one entry too many.
CanAddOneMore(out, from, to) ==
    /\ Len(out) <= E820Room /\ to > from
    /\ out # <<>> => out[Len(out)].from < from /\ out[Len(out)].to <= from
CanAdd(out, from, to) ==
    /\ Len(out) < E820Room /\ to > from
    /\ out # <<>> => out[Len(out)].from < from /\ out[Len(out)].to <= from

\* The inner loop of gpm_create_e820_map: while the range lies within the
\* entry, take the adjoining ranges in.
RECURSIVE Extend(_, _, _)
Extend(e, r, rest) ==
    IF rest = <<>> \/ r.to > e.to THEN [r |-> r, rest |-> rest, gap |-> FALSE]
    ELSE IF Head(rest).from > r.to THEN [r |-> r, rest |-> rest, gap |-> TRUE]
         ELSE Extend(e, [r EXCEPT !.to = Head(rest).to], Tail(rest))

\* The loop of gpm_create_e820_map: es the entries of the machine's map from the
\* current one, r the current range, rest the ranges after it.
RECURSIVE E820Loop(_, _, _, _)
E820Loop(es, r, rest, out) ==
    LET e == Head(es)
        failed == [ok |-> FALSE, map |-> <<>>]
        piece(from, to) == Append(out, [from |-> from, to |-> to, type |-> e.type])
        x == Extend(e, r, rest)
    IN CASE es = <<>> -> [ok |-> TRUE, map |-> out]
         [] es # <<>> /\ r.from >= e.from /\ r.to <= e.to ->
              IF x.gap
              THEN IF CanAdd(out, x.r.from, x.r.to)
                   THEN E820Loop(es, Head(x.rest), Tail(x.rest), piece(x.r.from, x.r.to)) ELSE failed
              ELSE IF x.r.to > e.to THEN E820Loop(es, x.r, x.rest, out)
              ELSE IF CanAdd(out, x.r.from, x.r.to)
                   THEN [ok |-> TRUE, map |-> piece(x.r.from, x.r.to)] ELSE failed
         [] es # <<>> /\ r.to <= e.from ->
              IF rest = <<>> THEN [ok |-> TRUE, map |-> out] ELSE E820Loop(es, Head(rest), Tail(rest), out)
         [] es # <<>> /\ e.to <= r.from -> E820Loop(Tail(es), r, rest, out)
         [] es # <<>> /\ r.from < e.from /\ r.to > e.from ->
              E820Loop(es, [r EXCEPT !.from = e.from], rest, out)
         [] OTHER ->
              IF CanAdd(out, r.from, e.to)
              THEN E820Loop(es, [r EXCEPT !.from = e.to], rest, piece(r.from, e.to)) ELSE failed

CreateE820Map ==
    /\ gpm.calls > 0 /\ "e820" \notin gpm.done
    /\ LET rs == RangesOf(gpm.map)
           res == IF rs = <<>> \/ gpm.orig = <<>> THEN [ok |-> FALSE, map |-> <<>>]
                  ELSE E820Loop(gpm.orig, Head(rs), Tail(rs), <<>>)
       IN gpm' = [gpm EXCEPT !.e820 = res.map, !.e820ok = res.ok, !.done = @ \cup {"e820"}]

GpmRest == gpm.calls > 0 /\ UNCHANGED gpm

GpmNext == BuildMap \/ CreateFlat32 \/ CreateFlat64 \/ GpmCopy \/ CreateE820Map \/ GpmRest

GpmTypeOK ==
    /\ gpm.map \in [GpmPage -> [is : {"absent", "mmio", "ram"}, hpa : Nat]]
    /\ gpm.calls \in 0..MaxGpmCalls /\ gpm.done \subseteq {"flat32", "flat64", "copy", "e820"}
    /\ Len(gpm.e820) <= E820Room

(***************************************************************************)
(* What is derived from the map by walking its ranges says of every page   *)
(* what the map says: the flat tables send a page of memory where the map  *)
(* does and know no other (fpt_create_flat_page_tables; 32-bit tables stop *)
(* at 4 GB), a copy is the map (gpm_copy), and the E820 map covers each    *)
(* page that the map has, with the type the machine's map gives it, and    *)
(* no other, in order and without overlap (gpm_create_e820_map).           *)
(***************************************************************************)
MapViewsAgree ==
    LET ram(p) == IF gpm.map[p].is = "ram" THEN gpm.map[p] ELSE NoPage
        typed(es, p, t) == \E i \in DOMAIN es : p \in es[i].from..(es[i].to - 1) /\ es[i].type = t
        types == {gpm.orig[i].type : i \in DOMAIN gpm.orig}
    IN /\ gpm.flat64 # <<>> => \A p \in GpmPage : gpm.flat64[1][p] = ram(p)
       /\ gpm.flat32 # <<>> =>
            \A p \in GpmPage : gpm.flat32[1][p] = IF p < FourGig THEN ram(p) ELSE NoPage
       /\ "copy" \in gpm.done => gpm.copy = gpm.map
       /\ gpm.e820ok =>
            /\ \A p \in GpmPage, t \in types :
                  typed(gpm.e820, p, t) = (gpm.map[p].is # "absent" /\ typed(gpm.orig, p, t))
            /\ \A i \in 2..Len(gpm.e820) : gpm.e820[i - 1].to <= gpm.e820[i].from
=============================================================================
