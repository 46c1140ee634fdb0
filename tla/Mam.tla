--------------------------------- MODULE Mam ---------------------------------
(***************************************************************************)
(* The memory address mapper (memory/memory_manager/                       *)
(* memory_address_mapper.c): mappings of page ranges kept as trees of      *)
(* tables, from which page tables and EPT tables are made.  An entry is    *)
(* absent (with a reason), a leaf that maps everything it covers, or a     *)
(* table of the next lower level.  An update splits a leaf it covers in    *)
(* part, replaces subtrees it covers whole, and retracts tables that have  *)
(* become uniform to one entry; it may run out of memory on the way.       *)
(*                                                                         *)
(* A query takes no lock.  It walks the tables between two reads of the    *)
(* update counter, which is odd while an update is being made, and repeats *)
(* if it saw an update: what it finds while one is made is arbitrary.      *)
(* Tables have Fanout entries (the code: 512).  Attributes are sets of     *)
(* permissions; an EPT entry without any would not be present, and is not  *)
(* asked for.  First tables grow before queries start (see README).        *)
(***************************************************************************)
EXTENDS Naturals, FiniteSets

CONSTANTS
    Fanout,       \* entries in a table
    TopLevel,     \* the highest level of a first table (the code: 4)
    MamRequests,  \* the requests made: [op, lo, hi, to, attr, why, kind]
    SuperPages,   \* whether the EPT supports leaves of level 2
    QueryPages,   \* pages queried
    MaxUpdates    \* bound: requests

ASSUME MamAssumption == Fanout \in Nat \ {0, 1} /\ TopLevel \in Nat \ {0} /\ MaxUpdates \in Nat

VARIABLES
    mam,   \* the mapping: level and entries of the first table, kind, counter, last request
    query  \* a query on another CPU

mamVars == <<mam, query>>

UnknownMapping == "unknown"
NoRequest == [op |-> "none", lo |-> 0, hi |-> 0]

Absent(why) == [is |-> "absent", why |-> why]
Leaf(to, attr) == [is |-> "leaf", to |-> to, attr |-> attr]
Inner(entries) == [is |-> "inner", entries |-> entries]

Slots == 0..Fanout - 1
(* Pages covered by an entry of a level *)
Covers(level) == Fanout ^ (level - 1)
EntryIndex(page, level) == (page \div Covers(level)) % Fanout

NewTable(why) == [i \in Slots |-> Absent(why)]

(* mam_expand_leaf_entry: the table of the level below that maps the same. *)
Expanded(e, level) == [i \in Slots |-> Leaf(e.to + i * Covers(level - 1), e.attr)]

(* mam_can_be_leaf_entry of the entries' kind *)
CanBeLeaf(kind, super, level, to) ==
    CASE kind = "internal" -> TRUE
      [] kind = "paging" -> level = 1 \/ (level = 2 /\ to % Covers(2) = 0)
      [] kind = "ept" -> level = 1 \/ (super /\ level = 2 /\ to % Covers(2) = 0)

SameAbsence(t) == \A i \in Slots : t[i].is = "absent" /\ t[i] = t[0]

(* A check that overlooks the attributes *)
SequentialAnyAttr(t, level) ==
    \A i \in Slots : t[i].is = "leaf" /\ t[i].to = t[0].to + i * Covers(level - 1)

Sequential(t, level) ==
    /\ t[0].is = "leaf"
    /\ \A i \in Slots : t[i] = Leaf(t[0].to + i * Covers(level - 1), t[0].attr)

(* mam_try_to_retract_inner_entry_to_leaf *)
Retracted(kind, super, level, t) ==
    IF SameAbsence(t) \/ (Sequential(t, level) /\ CanBeLeaf(kind, super, level, t[0].to))
    THEN t[0]
    ELSE Inner(t)

-----------------------------------------------------------------------------
(* mam_update_table and mam_remove_range_from_table, for request r.  memory *)
(* is the number of tables that can still be allocated.                     *)

Whole(r, first, level) == r.lo <= first /\ first + Covers(level) <= r.hi

NewAttrs(r, attr) ==
    CASE r.op = "set" -> attr \cup r.attr
      [] r.op = "clear" -> attr \ r.attr
      [] r.op = "overwrite" -> r.attr

(* The entry needs no lower table for what r asks of it. *)
Settles(r, k, super, level, e, first) ==
    CASE r.op = "insert" -> Whole(r, first, level) /\ CanBeLeaf(k, super, level, r.to + (first - r.lo))
      [] r.op = "remove" -> Whole(r, first, level) \/ e = Absent(r.why)
      [] OTHER -> \/ e.is = "absent"
                  \/ e.is = "leaf" /\ (Whole(r, first, level) \/ NewAttrs(r, e.attr) = e.attr)

Settled(r, e, first) ==
    CASE r.op = "insert" -> Leaf(r.to + (first - r.lo), r.attr)
      [] r.op = "remove" -> Absent(r.why)
      [] OTHER -> IF e.is = "leaf" THEN [e EXCEPT !.attr = NewAttrs(r, @)] ELSE e

(* The table below an entry, made if there is none *)
Below(e, level) ==
    CASE e.is = "inner" -> e.entries
      [] e.is = "leaf" -> Expanded(e, level)
      [] e.is = "absent" -> NewTable(e.why)

RECURSIVE UpdateTable(_, _, _, _, _, _, _, _)
UpdateEntry(r, k, super, level, e, first, memory) ==
    LET made == IF e.is = "inner" THEN 0 ELSE 1
        x == UpdateTable(r, k, super, level - 1, Below(e, level), first, 0, memory - made) IN
    IF Settles(r, k, super, level, e, first)
    THEN [ok |-> TRUE, entry |-> Settled(r, e, first), memory |-> memory]
    ELSE IF made > memory
    THEN [ok |-> FALSE, entry |-> e, memory |-> memory]
    ELSE [ok |-> x.ok, memory |-> x.memory,
          entry |-> IF x.ok /\ e.is = "inner" THEN Retracted(k, super, level, x.table) ELSE Inner(x.table)]

(* The entries from slot i on, those outside the range left alone *)
UpdateTable(r, k, super, level, t, first, i, memory) ==
    LET f == first + i * Covers(level)
        x == UpdateEntry(r, k, super, level, t[i], f, memory) IN
    IF i = Fanout
    THEN [ok |-> TRUE, table |-> t, memory |-> memory]
    ELSE IF f >= r.hi \/ f + Covers(level) <= r.lo
    THEN UpdateTable(r, k, super, level, t, first, i + 1, memory)
    ELSE IF ~x.ok
    THEN [ok |-> FALSE, table |-> [t EXCEPT ![i] = x.entry], memory |-> x.memory]
    ELSE UpdateTable(r, k, super, level, [t EXCEPT ![i] = x.entry], first, i + 1, x.memory)

(* mam_convert_entries_in_table: leaves the new kind cannot have are split. *)
RECURSIVE Converted(_, _, _, _)
Converted(k, super, level, e) ==
    IF e.is = "absent" \/ (e.is = "leaf" /\ CanBeLeaf(k, super, level, e.to))
    THEN e
    ELSE Inner([i \in Slots |-> Converted(k, super, level - 1, Below(e, level)[i])])

(* The tables a conversion allocates *)
RECURSIVE Splits(_, _, _, _)
Splits(k, super, level, e) ==
    LET Sum[n \in 0..Fanout] ==
            IF n = 0 THEN 0 ELSE Sum[n - 1] + Splits(k, super, level - 1, Below(e, level)[n - 1]) IN
    IF e.is = "absent" \/ (e.is = "leaf" /\ CanBeLeaf(k, super, level, e.to))
    THEN 0
    ELSE (IF e.is = "leaf" THEN 1 ELSE 0) + Sum[Fanout]

(* mam_get_mapping_from_table *)
RECURSIVE Lookup(_, _, _)
Lookup(t, level, page) ==
    LET e == t[EntryIndex(page, level)] IN
    CASE e.is = "absent" -> [why |-> e.why]
      [] e.is = "leaf" -> [to |-> e.to + (page % Covers(level)), attr |-> e.attr]
      [] e.is = "inner" -> Lookup(e.entries, level - 1, page)

Mapping(m, page) ==
    IF page >= Covers(m.level + 1) THEN [why |-> UnknownMapping] ELSE Lookup(m.first, m.level, page)

(* mam_update_first_table_to_cover_requested_range *)
RECURSIVE Grown(_, _, _)
Grown(m, hi, memory) ==
    IF Covers(m.level + 1) >= hi \/ memory = 0
    THEN [m |-> m, memory |-> memory]
    ELSE Grown([m EXCEPT !.level = @ + 1,
                         !.first = [NewTable(UnknownMapping) EXCEPT ![0] = Inner(m.first)]],
               hi, memory - 1)

-----------------------------------------------------------------------------
MamInit ==
    /\ mam = [level |-> 1, first |-> NewTable(UnknownMapping), kind |-> "internal",
              counter |-> 0, did |-> [req |-> NoRequest, ok |-> TRUE]]
    /\ \E p \in QueryPages :
           query = [at |-> "idle", page |-> p, counter |-> 0, torn |-> FALSE, answer |-> [why |-> UnknownMapping]]

(* A walk during which an update starts, or that one started before, finds *)
(* anything: its result is torn.                                           *)
WalkDisturbed ==
    query' = IF query.at = "walk" THEN [query EXCEPT !.torn = TRUE] ELSE query

Odd(n) == n % 2 = 1

(* The lock is taken and the counter made odd, and the tables are changed. *)
Updated(r, m, ok) ==
    /\ mam' = [m EXCEPT !.counter = @ + 1, !.did = [req |-> r, ok |-> ok]]
    /\ WalkDisturbed

(* mam_insert_range and mam_insert_not_existing_range, whose checks of the *)
(* arguments come first; the first table grows only in the internal form.  *)
MamInsert(r, memory) ==
    /\ r.op \in {"insert", "remove"}
    /\ r.op = "insert" => r.hi > r.lo /\ (mam.kind = "ept" => r.attr # {})
    /\ mam.kind # "internal" \/ query.at = "walk" => r.hi <= Covers(mam.level + 1)
    /\ LET g == Grown(mam, r.hi, memory)
           x == UpdateTable(r, mam.kind, FALSE, g.m.level, g.m.first, 0, 0, g.memory) IN
       IF \/ r.op = "remove" /\ r.why = UnknownMapping
          \/ r.hi > Covers(TopLevel + 1)
       THEN Updated(r, mam, FALSE)
       ELSE IF r.hi > Covers(g.m.level + 1)
       THEN Updated(r, g.m, FALSE)
       ELSE Updated(r, [g.m EXCEPT !.first = x.table], x.ok)

(* mam_add_, mam_remove_ and mam_overwrite_permissions_..., of a range     *)
(* within the first table                                                  *)
MamPermissions(r, memory) ==
    /\ r.op \in {"set", "clear", "overwrite"} /\ mam.kind \in {"internal", "paging"}
    /\ r.hi <= Covers(mam.level + 1)
    /\ LET x == UpdateTable(r, mam.kind, FALSE, mam.level, mam.first, 0, 0, memory) IN
       Updated(r, [mam EXCEPT !.first = x.table], x.ok)

(* mam_convert_to_64bit_page_tables, mam_convert_to_32bit_pae_page_tables  *)
(* and mam_convert_to_ept, the first table grown to the level wanted.  A   *)
(* conversion cut short leaves entries of both kinds behind.               *)
MamConvert(r, memory) ==
    /\ r.op = "convert" /\ mam.kind = "internal" /\ query.at # "walk"
    /\ LET g == Grown(mam, Covers(r.level + 1), memory)
           super == SuperPages /\ r.kind = "ept"
           whole == Inner(g.m.first)
           c == Converted(r.kind, super, g.m.level + 1, whole) IN
       IF g.m.level # r.level
       THEN Updated(r, g.m, FALSE)
       ELSE IF Splits(r.kind, super, g.m.level + 1, whole) > g.memory
       THEN Updated(r, [g.m EXCEPT !.kind = "mixed"], FALSE)
       ELSE Updated(r, [g.m EXCEPT !.first = c.entries, !.kind = r.kind], TRUE)

(* The counter made even and the lock released *)
MamUpdateDone ==
    /\ Odd(mam.counter)
    /\ mam' = [mam EXCEPT !.counter = @ + 1]
    /\ UNCHANGED query

MamUpdate ==
    /\ ~Odd(mam.counter) /\ mam.counter < 2 * MaxUpdates /\ mam.kind # "mixed"
    /\ \E r \in MamRequests, memory \in 0..TopLevel :
           MamInsert(r, memory) \/ MamPermissions(r, memory) \/ MamConvert(r, memory)

(* mam_get_mapping: the counter is read before the walk ... *)
QueryStart ==
    /\ query.at = "idle"
    /\ query' = [query EXCEPT !.at = "walk", !.counter = mam.counter, !.torn = Odd(mam.counter)]
    /\ UNCHANGED mam

(* ... and after it, and both must be the same even number; otherwise the  *)
(* walk is repeated.  A query on the CPU of the update itself would be     *)
(* answered, but no update makes one.                                      *)
QueryEnd ==
    LET torn == query.torn \/ Odd(mam.counter)
        again == query.counter # mam.counter \/ Odd(mam.counter) IN
    /\ query.at = "walk"
    /\ query' = [query EXCEPT !.at = "idle", !.counter = 0, !.torn = FALSE,
                    !.answer = IF again THEN @
                               ELSE IF torn THEN [why |-> "torn"] ELSE Mapping(mam, query.page)]
    /\ UNCHANGED mam

MamRest == mam.counter = 2 * MaxUpdates /\ UNCHANGED mamVars

MamNext == MamUpdate \/ MamUpdateDone \/ QueryStart \/ QueryEnd \/ MamRest

MamSpec == MamInit /\ [][MamNext]_mamVars

-----------------------------------------------------------------------------
MamTypeOK ==
    /\ mam.level \in 1..TopLevel
    /\ mam.kind \in {"internal", "paging", "ept", "mixed"}
    /\ mam.counter \in 0..2 * MaxUpdates
    /\ query.at \in {"idle", "walk"} /\ query.page \in QueryPages

(* The tree is a flat map: every request of memory_address_mapper.c, with  *)
(* the splits, replacements and retractions it needs, changes the mapping  *)
(* of the pages it asks for and of no others (a beginning of them, and     *)
(* reports failure, when memory runs out), a conversion changes none, and  *)
(* a query answers with a mapping in force, never a half-made one.  (A     *)
(* step that leaves mamVars alone leaves the flat map alone.)              *)
Flat == INSTANCE FlatMap WITH
    FlatPages <- Covers(TopLevel + 1), FlatRequests <- MamRequests,
    NotMapped <- [why |-> UnknownMapping],
    map <- [p \in 0..Covers(TopLevel + 1) - 1 |-> Mapping(mam, p)],
    did <- mam.did, answer <- [page |-> query.page, is |-> query.answer]
MapsAsAsked == Flat!Init /\ [][UNCHANGED mamVars \/ Flat!Next]_(Flat!flatVars)
=============================================================================
