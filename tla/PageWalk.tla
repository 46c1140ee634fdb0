------------------------------ MODULE PageWalk ------------------------------
(***************************************************************************)
(* The monitor's walk of the guest's page tables (memory_manager/          *)
(* page_walker.c) and the translation built on it (gcpu_gva_to_gpa and     *)
(* gcpu_gva_to_hva, guest_cpu.c).  The walker reads one entry per level    *)
(* while the guest's other processors go on running and may replace any    *)
(* entry between two reads, or between a read and the compare-exchange     *)
(* that sets the accessed and dirty bits.                                  *)
(*                                                                         *)
(* An entry is the set of its flags: the hardware's P W U A D PS NX, and   *)
(* "AVL", "HIGH" and "LOW" for bits set in the fields that are reserved in *)
(* some modes, and "HOLE" for an address outside guest memory.  An entry   *)
(* is read atomically: pw_read_entry_value reads until it sees one value   *)
(* twice.  A table that contains itself makes the walker meet one entry at *)
(* several levels; pw.alias is the number of leading levels that are one.  *)
(***************************************************************************)
EXTENDS Integers, Sequences, FiniteSets

CONSTANTS PwModes,      \* the paging modes: [lme, pae, pse, nxe, wp]
          PwMemories,   \* the initial tables: functions from PwLevels to entries
          PwAccesses,   \* the calls: [write, user, fetch, ad]
          PwEntries,    \* what another processor may write into an entry
          PwAliases,    \* how many leading levels may be one entry
          PwMaxChanges  \* bound on the writes by other processors

PwLevels == {"pml4", "pdpt", "pd", "pt"}
PwFlags == {"P", "W", "U", "A", "D", "PS", "NX", "AVL", "HIGH", "LOW", "HOLE"}

ASSUME PageWalkAssumption ==
    /\ PwMemories \subseteq [PwLevels -> SUBSET PwFlags]
    /\ PwEntries \subseteq SUBSET PwFlags
    /\ PwAliases \subseteq 1..4
    /\ PwMaxChanges \in Nat

VARIABLE pw

\* The tables that a walk of the mode goes through, from the one in CR3.
LevelsOf(m) ==
    IF m.pae
    THEN IF m.lme THEN <<"pml4", "pdpt", "pd", "pt">> ELSE <<"pdpt", "pd", "pt">>
    ELSE <<"pd", "pt">>

\* The place of the i-th entry of the walk.
PlaceOf(i) == LevelsOf(pw.mode)[IF i <= pw.alias THEN 1 ELSE i]

\* pw_read_entry_value.
EntryAt(i) == pw.mem[PlaceOf(i)]

NoEntry == {}

PwInit ==
    \E m \in PwModes, t \in PwMemories, a \in PwAccesses, k \in PwAliases,
       env \in [ug : BOOLEAN, pg : BOOLEAN, flat : BOOLEAN] :
        /\ k <= Len(LevelsOf(m))
        /\ (env.ug \/ env.pg \/ env.flat) /\ ~(env.ug /\ env.flat)
        /\ env.flat => ~env.pg
        /\ pw = [mode |-> m, mem |-> t, access |-> a, alias |-> k, env |-> env,
                 at |-> "start", level |-> 1, seen |-> [l \in PwLevels |-> NoEntry],
                 used |-> <<>>, result |-> "none", pfec |-> {}, page |-> "none",
                 changes |-> 0, changed |-> FALSE]

\* A page directory entry with the size bit maps a big page; without PAE only
\* when CR4.PSE is set.
IsBigPagePde(m, e) == "PS" \in e /\ (m.lme \/ m.pae \/ m.pse)

Is1GbPage(e) == "PS" \in e

Pml4teReserved(m, e) == "HIGH" \in e \/ (~m.nxe /\ "NX" \in e)

PdpteReserved(m, e) ==
    \/ "HIGH" \in e
    \/ ~m.lme /\ e \cap {"AVL", "NX", "W", "U"} # {}
    \/ m.lme /\ ((~m.nxe /\ "NX" \in e) \/ (Is1GbPage(e) /\ "LOW" \in e))

PdeReserved(m, e) ==
    \/ m.pae /\ ("HIGH" \in e \/ (~m.nxe /\ "NX" \in e) \/ (~m.lme /\ "AVL" \in e))
    \/ IsBigPagePde(m, e) /\ "LOW" \in e

PteReserved(m, e) ==
    m.pae /\ ("HIGH" \in e \/ (~m.nxe /\ "NX" \in e) \/ (~m.lme /\ "AVL" \in e))

ReservedBits(l, m, e) ==
    CASE l = "pml4" -> Pml4teReserved(m, e)
      [] l = "pdpt" -> PdpteReserved(m, e)
      [] l = "pd" -> PdeReserved(m, e)
      [] l = "pt" -> PteReserved(m, e)

\* The permission checks of the three page sizes: the two upper levels count
\* in long mode only, a 1 GB page ends the check, then so does a big page.
WalkChain(m, s, ok(_)) ==
    /\ m.lme => ok(s["pml4"]) /\ ok(s["pdpt"])
    /\ \/ Is1GbPage(s["pdpt"])
       \/ ok(s["pd"]) /\ (IsBigPagePde(m, s["pd"]) \/ ok(s["pt"]))

WritePermitted(m, s, a) ==
    LET writable(e) == "W" \in e
    IN (~a.user /\ ~m.wp) \/ WalkChain(m, s, writable)

UserPermitted(m, s) ==
    LET user(e) == "U" \in e IN WalkChain(m, s, user)

FetchPermitted(m, s) ==
    LET executable(e) == "NX" \notin e IN WalkChain(m, s, executable)

FetchChecked(m, a) == m.pae /\ m.nxe /\ a.fetch

\* The page-fault error code before "present" and "reserved" are known.
AccessCode(m, a) ==
    (IF a.write THEN {"write"} ELSE {}) \cup (IF a.user THEN {"user"} ELSE {})
        \cup (IF FetchChecked(m, a) THEN {"fetch"} ELSE {})

Finish(s, result, pfec, page) ==
    [s EXCEPT !.at = "out", !.result = result, !.pfec = pfec, !.page = page]

\* Where the guest's linear addresses are its physical ones no walk is made.
GvaToGpa ==
    /\ pw.at = "start"
    /\ pw' = IF (pw.env.ug /\ ~pw.env.pg) \/ pw.env.flat
             THEN Finish(pw, "identity", {}, "none")
             ELSE [pw EXCEPT !.at = "walk"]

\* The page that the entry at this level maps, if it is a leaf.
LeafSize(l, m, e) ==
    CASE l = "pdpt" /\ Is1GbPage(e) -> "1G"
      [] l = "pd" /\ IsBigPagePde(m, e) -> IF m.pae THEN "2M" ELSE "4M"
      [] l = "pt" -> "4K"
      [] OTHER -> "none"

\* The permissions are looked at once the leaf has been read.
CheckAccess(s, page) ==
    LET m == s.mode
        a == s.access
    IN IF \/ a.write /\ ~WritePermitted(m, s.seen, a)
          \/ a.user /\ ~UserPermitted(m, s.seen)
          \/ FetchChecked(m, a) /\ ~FetchPermitted(m, s.seen)
       THEN Finish(s, "fault", AccessCode(m, a) \cup {"present"}, page)
       ELSE IF a.ad THEN [s EXCEPT !.at = "ad", !.level = 1, !.page = page]
                    ELSE Finish(s, "success", {}, page)

\* pw_retrieve_table_entry: the table may lie outside guest memory.
TableOutside(s) == s.level > 1 /\ "HOLE" \in s.seen[LevelsOf(s.mode)[s.level - 1]]

\* One level: find the entry (its table may lie outside guest memory), read it,
\* fault if it is absent or malformed, and stop at a leaf or go on.
ReadLevel ==
    /\ pw.at = "walk"
    /\ LET m == pw.mode
           l == LevelsOf(m)[pw.level]
           e == EntryAt(pw.level)
           s == [pw EXCEPT !.seen[l] = e, !.used = Append(@, l)]
           outside == TableOutside(pw)
       IN pw' = CASE outside -> Finish(pw, "violation", {}, "none")
                  [] ~outside /\ "P" \notin e -> Finish(s, "fault", AccessCode(m, pw.access), "none")
                  [] ~outside /\ "P" \in e /\ ReservedBits(l, m, e) ->
                        Finish(s, "fault", AccessCode(m, pw.access) \cup {"present", "reserved"}, "none")
                  [] OTHER -> IF LeafSize(l, m, e) = "none"
                              THEN [s EXCEPT !.level = @ + 1]
                              ELSE CheckAccess(s, LeafSize(l, m, e))

\* The levels whose entries get status bits: a PDPT entry outside long mode has none.
Marked(s) ==
    IF s.mode.lme THEN s.used ELSE SelectSeq(s.used, LAMBDA l : l # "pdpt")

\* hw_interlocked_compare_exchange on the entry's low half: it takes effect only
\* where the low half still is what the walker expects ("NX", "AVL" and "HIGH"
\* are in the high half).
LowHalf(e) == e \ {"NX", "AVL", "HIGH"}

CompareExchange(e, old, new) ==
    IF LowHalf(e) = LowHalf(old) THEN (e \ LowHalf(e)) \cup LowHalf(new) ELSE e

\* The walk's index of the i-th entry that gets status bits.
WalkIndex(s, i) == Len(s.used) - Len(Marked(s)) + i

\* Mutant: the entries met before are not taken into account.
AdBeforeAsRead(s, i) == s.seen[Marked(s)[i]]

\* The walker expects the accessed bit where an upper level is the same entry,
\* and sets the dirty bit in a leaf below the PDPT.
AdBefore(s, i) ==
    s.seen[Marked(s)[i]] \cup IF WalkIndex(s, i) \in 2..s.alias THEN {"A"} ELSE {}

AdAfter(s, i) ==
    LET l == Marked(s)[i]
        leaf == i = Len(Marked(s))
    IN s.seen[l] \cup {"A"}
         \cup IF leaf /\ s.access.write /\ l # "pdpt" THEN {"D"} ELSE {}

UpdateAdBits ==
    /\ pw.at = "ad"
    /\ IF pw.level > Len(Marked(pw))
       THEN pw' = Finish(pw, "success", {}, pw.page)
       ELSE LET place == PlaceOf(WalkIndex(pw, pw.level))
            IN pw' = [pw EXCEPT !.mem[place] =
                                    CompareExchange(@, AdBefore(pw, pw.level), AdAfter(pw, pw.level)),
                                !.level = @ + 1]

\* Another processor of the guest replaces an entry while the walk is under way.
OtherWrites ==
    /\ pw.at \in {"walk", "ad"} /\ pw.changes < PwMaxChanges
    /\ \E l \in PwLevels, e \in PwEntries :
        /\ e # pw.mem[l]
        /\ pw' = [pw EXCEPT !.mem[l] = e, !.changes = @ + 1, !.changed = TRUE]

\* gcpu_gva_to_hva goes on with the physical address it got; only success and
\* the identity give one, and the page must be in guest memory.
GvaToHva ==
    /\ pw.at = "out"
    /\ \E hole \in BOOLEAN :
        /\ pw.result = "success" => hole = ("HOLE" \in pw.seen[pw.used[Len(pw.used)]])
        /\ pw' = [pw EXCEPT !.at = IF pw.result \in {"success", "identity"} /\ ~hole
                                   THEN "hva" ELSE "failed"]

PwRest == pw.at \in {"hva", "failed"} /\ UNCHANGED pw

PwNext == GvaToGpa \/ ReadLevel \/ UpdateAdBits \/ OtherWrites \/ GvaToHva \/ PwRest

(***************************************************************************)
(* pw_perform_page_walk: an address is translated only through entries     *)
(* that were all present, well formed and, level by level, allowed the     *)
(* access; a fault's error code says which of these failed.  When nobody   *)
(* wrote the tables meanwhile, every entry used has its accessed bit and   *)
(* the leaf of a write its dirty bit, also where the tables contain        *)
(* themselves (pw_update_ad_bits; a 1 GB leaf gets no dirty bit, and a     *)
(* PDPT entry of 32-bit PAE paging that is its own page directory is       *)
(* expected with a bit it does not have).                                  *)
(***************************************************************************)
WalkSound ==
    LET m == pw.mode
        a == pw.access
        met == {pw.used[i] : i \in DOMAIN pw.used}
        last == pw.used[Len(pw.used)]
        graded == met \ (IF m.lme THEN {} ELSE {"pdpt"})
        denied == \/ a.write /\ (a.user \/ m.wp) /\ \E l \in graded : "W" \notin pw.seen[l]
                  \/ a.user /\ \E l \in graded : "U" \notin pw.seen[l]
                  \/ a.fetch /\ m.nxe /\ m.pae /\ \E l \in graded : "NX" \in pw.seen[l]
        sound == \A l \in met : "P" \in pw.seen[l] /\ ~ReservedBits(l, m, pw.seen[l])
    IN /\ pw.result = "success" => sound /\ ~denied /\ LeafSize(last, m, pw.seen[last]) = pw.page
       /\ pw.result = "fault" =>
            /\ ("present" \notin pw.pfec) = ("P" \notin pw.seen[last])
            /\ ("reserved" \in pw.pfec) = ("P" \in pw.seen[last] /\ ~sound)
            /\ ("present" \in pw.pfec /\ "reserved" \notin pw.pfec) => denied
       /\ (pw.result = "success" /\ a.ad /\ ~pw.changed /\ (m.lme \/ ~m.pae \/ pw.alias = 1)) =>
            /\ \A i \in DOMAIN pw.used :
                   pw.used[i] \in graded => "A" \in pw.mem[PlaceOf(i)]
            /\ a.write /\ last # "pdpt" => "D" \in pw.mem[PlaceOf(Len(pw.used))]

PwTypeOK ==
    /\ pw.mem \in [PwLevels -> SUBSET PwFlags] /\ pw.seen \in [PwLevels -> SUBSET PwFlags]
    /\ pw.at \in {"start", "walk", "ad", "out", "hva", "failed"}
    /\ pw.result \in {"none", "identity", "success", "fault", "violation"}
    /\ pw.level \in 1..5 /\ pw.changes \in 0..PwMaxChanges
    /\ pw.page \in {"none", "4K", "2M", "4M", "1G"}
=============================================================================
