----------------------------- MODULE GuestMemory -----------------------------
(***************************************************************************)
(* A change of the guest's physical memory while its CPUs run              *)
(* (guest/guest.c, memory/ept/ept.c, memory/ept/ept_hw_layer.c).  One CPU  *)
(* takes the EPT lock, stops the others, changes the memory map, and then  *)
(* either invalidates what the processors cache of the EPT (an update of   *)
(* permissions) or builds the tables anew and points every CPU to them.    *)
(* Meanwhile the guest writes CR0, CR3 and CR4, whose handlers also take   *)
(* the EPT lock, and CPUs waiting for it answer messages.                  *)
(*                                                                         *)
(* A layout is the number of the change that made it.  A table's address   *)
(* is one of TableAddrs, and a new table may get the address of the one    *)
(* just destroyed.  Messages go through the queues of ipc.c, whose         *)
(* delivery module Ipc models: here a queue is handled in order, by a CPU  *)
(* in the guest, in wait-for-SIPI, waiting for the lock or stopped.        *)
(***************************************************************************)
EXTENDS Integers, Sequences

CONSTANTS
    GmCpus,      \* the CPUs of the machine, each running a CPU of the guest
    GmStarts,    \* the initial states: unrestricted guests or not, the CPUs that page,
                 \* and the invalidations the processor offers
    TableAddrs,  \* addresses of EPT root tables
    MaxChanges,  \* bound: changes of the memory
    MaxWrites    \* bound: control register writes and INITs of the guest

ASSUME GmAssumption == /\ MaxChanges \in Nat /\ MaxWrites \in Nat
                       /\ GmCpus \subseteq Nat /\ TableAddrs # {}

(* A processor offers INVVPID for a context, and INVEPT for one or for all. *)
ASSUME GmStartsAssumption ==
    \A s \in GmStarts : /\ s.ug \in BOOLEAN
                        /\ {"invept", "invvpid", "invvpidContext"} \subseteq s.hw
                        /\ "inveptContext" \in s.hw \/ "inveptAll" \in s.hw

VARIABLES
    gm,   \* what the CPUs share: EPT lock, memory map, tables, unrestricted guest
    gc    \* what each CPU has: control point, queue, control registers, EPT state

gmVars == <<gm, gc>>

NoOne == -1
Destroyed == 0
CrRegs == {"cr0", "cr3", "cr4"}

(* ept_add_static_guest and, with unrestricted guests, the enabling of EPT *)
(* before the first entry; otherwise EPT is on while paging is on.         *)
GmInit ==
    \E s \in GmStarts :
    LET a == CHOOSE x \in TableAddrs : TRUE   \* the heap's first page
        ug == s.ug
        p(c) == c \in s.paged IN
       /\ gm = [ug |-> ug, hw |-> s.hw, owner |-> NoOne, count |-> 0, layout |-> 1, perm |-> 1, default |-> a,
                tables |-> [x \in TableAddrs |-> IF x = a THEN 1 ELSE Destroyed], changes |-> 0, writes |-> 0]
       /\ gc = [c \in GmCpus |->
                 [at |-> "guest", stopped |-> FALSE, box |-> <<>>, reg |-> "cr0",
                  pg |-> p(c), pae |-> FALSE, cr3 |-> 1, cr0s |-> p(c), cr4s |-> FALSE,
                  pdptr |-> 0, on |-> ug \/ p(c), root |-> a, active |-> a, tlb |-> {}, lin |-> {},
                  flat |-> IF ug \/ p(c) THEN 0 ELSE 1]]

Others(c) == GmCpus \ {c}
Cached(c) == [addr |-> gc[c].root, layout |-> gm.tables[gc[c].root], perm |-> gm.perm]

(* ept_hw_invept_all_contexts: nothing where the processor has no INVEPT    *)
(* or not this kind of it.                                                 *)
InveptAll(tlb) == IF {"invept", "inveptAll"} \subseteq gm.hw THEN {} ELSE tlb

(* ept_invalidate_ept and ept_hw_invept_context: where INVEPT knows no     *)
(* single context, all of them.                                            *)
Invalidate(tlb, addr) ==
    IF {"invept", "inveptContext"} \subseteq gm.hw THEN {e \in tlb : e.addr # addr} ELSE InveptAll(tlb)

(* ept_hw_invvpid_single_context: the translations of linear addresses     *)
(* cached under the guest's VPID go.                                       *)
Invvpid(lin) == IF {"invvpid", "invvpidContext"} \subseteq gm.hw THEN {} ELSE lin

(* ept_set_pdtprs; EFER.LME is clear in this model's guest. *)
Pdptrs(g, pae) == IF pae THEN g.cr3 ELSE 0

(* gcpu_perform_resume_actions: without unrestricted guests a CPU whose    *)
(* guest does not page runs on flat page tables, made of the guest's map.  *)
ResumedWith(g) ==
    [g EXCEPT !.flat = IF gm.ug \/ g.pg THEN 0 ELSE IF g.flat = 0 THEN gm.layout ELSE g.flat,
              !.at = "guest"]

(* What a cached translation of a linear address was made with. *)
Paging(g) == <<g.cr3, g.pae>>

(* The guest uses memory: the processor caches what the tables say, and,   *)
(* while the guest pages, the translations of its linear addresses.        *)
GuestTranslates(c) ==
    /\ gc[c].at = "guest" /\ ~gc[c].stopped /\ gc[c].on
    /\ gc' = [gc EXCEPT ![c].tlb = @ \cup {Cached(c)},
                        ![c].lin = IF gc[c].pg THEN @ \cup {Paging(gc[c])} ELSE @]
    /\ UNCHANGED gm

(* A write to CR0, CR3 or CR4 exits; the visible register is set and the   *)
(* event raised, whose observer asks for the EPT lock.                     *)
CrWrite(c, r) ==
    /\ gc[c].at = "guest" /\ ~gc[c].stopped /\ gm.writes < MaxWrites
    /\ gc' = [gc EXCEPT ![c].at = "cr", ![c].reg = r,
                        ![c].pg = IF r = "cr0" THEN ~@ ELSE @,
                        ![c].pae = IF r = "cr4" THEN ~@ ELSE @,
                        ![c].cr3 = IF r = "cr3" THEN 3 - @ ELSE @]
    /\ gm' = [gm EXCEPT !.writes = @ + 1]

(* ept_hw_set_eptp *)
SetEptp(g, a) == [g EXCEPT !.root = a]

(* ept_enable: the pointer comes from the root saved for this CPU. *)
Enable(g) == [SetEptp(g, g.active) EXCEPT !.on = TRUE]

(* ept_hw_disable_ept *)
Disable(g) == [g EXCEPT !.lin = Invvpid(@), !.on = FALSE]

CR0Update(g) ==
    LET toggled == g.pg # g.cr0s
        flushed == [g EXCEPT !.lin = IF toggled THEN Invvpid(@) ELSE @]
        enabled == CASE g.pg /\ toggled /\ ~gm.ug /\ ~g.on -> Enable(flushed)
                     [] ~g.pg /\ ~gm.ug /\ g.on -> Disable(flushed)
                     [] OTHER -> flushed
    IN  [enabled EXCEPT !.cr0s = g.pg,
                        !.pdptr = IF g.pg /\ toggled THEN Pdptrs(g, g.pae) ELSE @]

(* A faulty form: only a guest that uses PAE has its translations flushed. *)
CR3UpdatePaeOnly(g) ==
    IF g.cr0s /\ g.cr4s THEN [g EXCEPT !.pdptr = Pdptrs(g, TRUE), !.lin = Invvpid(@)] ELSE g

CR3Update(g) ==
    [g EXCEPT !.pdptr = IF g.cr0s /\ g.cr4s THEN Pdptrs(g, TRUE) ELSE @, !.lin = Invvpid(@)]

CR4Update(g) ==
    [g EXCEPT !.pdptr = IF g.on /\ g.pae # g.cr4s THEN Pdptrs(g, g.pae) ELSE @, !.cr4s = g.pae,
              !.lin = Invvpid(@)]

(* The observers: lock, update, unlock; then the CPU resumes its guest. *)
CrUpdate(c) ==
    /\ gc[c].at = "cr" /\ ~gc[c].stopped /\ gm.owner = NoOne
    /\ gc' = [gc EXCEPT ![c] = ResumedWith(
                 CASE gc[c].reg = "cr0" -> CR0Update(gc[c])
                   [] gc[c].reg = "cr3" -> CR3Update(gc[c])
                   [] gc[c].reg = "cr4" -> CR4Update(gc[c]))]
    /\ UNCHANGED gm

(* vmexit_init_event on an application processor. *)
GuestInitCpu(c) ==
    /\ gc[c].at = "guest" /\ ~gc[c].stopped /\ gm.writes < MaxWrites
    /\ gc' = [gc EXCEPT ![c].at = "sipi"]
    /\ gm' = [gm EXCEPT !.writes = @ + 1]

(* vmexit_sipi_event: registers as after a reset; the activity change makes *)
(* ept_guest_cpu_initialize read CR0 and CR4 again.  EPT stays as it was.  *)
GuestSipiCpu(c) ==
    /\ gc[c].at = "sipi" /\ ~gc[c].stopped
    /\ gc' = [gc EXCEPT ![c] = ResumedWith(
                 [gc[c] EXCEPT !.pg = FALSE, !.pae = FALSE, !.cr3 = 1,
                               !.cr0s = FALSE, !.cr4s = FALSE])]
    /\ UNCHANGED gm

(* guest_begin_physical_memory_modifications: the event's observer asks for *)
(* the EPT lock, then the other CPUs are told to stop.                     *)
Begin(c) ==
    /\ gc[c].at = "guest" /\ ~gc[c].stopped /\ gm.changes < MaxChanges
    /\ gc' = [gc EXCEPT ![c].at = "begin"]
    /\ UNCHANGED gm

StopOthers(c) ==
    /\ gc[c].at = "begin" /\ ~gc[c].stopped /\ gm.owner = NoOne
    /\ gm' = [gm EXCEPT !.owner = c, !.count = 1, !.changes = @ + 1]
    /\ gc' = [d \in GmCpus |-> IF d = c THEN [gc[c] EXCEPT !.at = "stopping"]
                                        ELSE [gc[d] EXCEPT !.box = Append(@, "stop")]]

AllStoppedFor(c) == gc[c].at = "stopping" /\ \A d \in Others(c) : gc[d].stopped

(* guest_end_physical_memory_perm_update after the permissions changed in   *)
(* the tables: VMM_MEM_OP_UPDATE invalidates here and, by message, on the   *)
(* other CPUs.                                                             *)
PermUpdate(c) ==
    /\ AllStoppedFor(c)
    /\ gm' = [gm EXCEPT !.perm = @ + 1]
    /\ gc' = [d \in GmCpus |->
               IF d = c THEN [gc[c] EXCEPT !.tlb = Invalidate(@, gm.default), !.at = "waiting"]
               ELSE [gc[d] EXCEPT !.box = Append(@, "invalidate")]]

(* gcpu_physical_memory_modified *)
RenewFlat(g, layout) == [g EXCEPT !.flat = IF @ = 0 THEN 0 ELSE layout]

(* guest_end_physical_memory_modifications after the guest's map changed:   *)
(* flat tables are renewed here and by message; VMM_MEM_OP_RECREATE         *)
(* destroys the tables, builds new ones at address a and points this CPU,   *)
(* and by message the others, to them.                                      *)
Recreate(c, a) ==
    /\ AllStoppedFor(c)
    /\ gm.tables[a] = Destroyed \/ a = gm.default
    /\ gm' = [gm EXCEPT !.layout = @ + 1, !.default = a,
                        !.tables = [x \in TableAddrs |-> IF x = a THEN gm.layout + 1 ELSE Destroyed]]
    /\ gc' = [d \in GmCpus |->
               IF d = c THEN [SetEptp(RenewFlat(gc[c], gm.layout + 1), a) EXCEPT
                                !.tlb = Invalidate(@, a), !.at = "waiting"]
               ELSE [gc[d] EXCEPT !.box = @ \o <<"notify", "set">>]]

(* The synchronous message is done on every CPU: start_all_cpus, and the    *)
(* lock's release by the last event.                                       *)
StartOthers(c) ==
    /\ gc[c].at = "waiting" /\ \A d \in Others(c) : gc[d].box = <<>>
    /\ gc' = [d \in GmCpus |-> IF d = c THEN [gc[c] EXCEPT !.at = "release"]
                                        ELSE [gc[d] EXCEPT !.stopped = FALSE]]
    /\ UNCHANGED gm

(* ept_release_lock *)
Release(c) ==
    /\ gc[c].at = "release"
    /\ gm' = [gm EXCEPT !.owner = NoOne, !.count = 0]
    /\ gc' = [gc EXCEPT ![c] = ResumedWith(gc[c])]

(* A faulty form: what the processor cached under the address stays. *)
SetRemoteNoInvalidate(g) == IF g.on THEN SetEptp(g, gm.default) ELSE g

(* ept_set_remote_eptp *)
SetRemote(g) ==
    IF g.on THEN [SetEptp(g, gm.default) EXCEPT !.tlb = Invalidate(@, gm.default)] ELSE g

(* A CPU handles the first message of its queue. *)
Handle(c) ==
    LET rest == [gc[c] EXCEPT !.box = Tail(@)]
        m == Head(gc[c].box)
    IN  /\ gc[c].box # <<>> /\ gc[c].at \in {"guest", "sipi", "cr", "begin"}
        /\ gc' = [gc EXCEPT ![c] =
                    CASE m = "stop" -> [rest EXCEPT !.stopped = TRUE]
                      [] m = "invalidate" -> [rest EXCEPT !.tlb = Invalidate(@, gm.default)]
                      [] m = "notify" -> RenewFlat(rest, gm.layout)
                      [] m = "set" -> SetRemote(rest)]
        /\ UNCHANGED gm

(* Nothing is left to do: the bounds are reached and every CPU is in its guest. *)
GmRest == (\A c \in GmCpus : gc[c].at = "guest" /\ ~gc[c].stopped) /\ UNCHANGED gmVars

GmNext ==
    \/ GmRest
    \/ \E c \in GmCpus :
         \/ GuestTranslates(c) \/ CrUpdate(c) \/ GuestInitCpu(c) \/ GuestSipiCpu(c) \/ Begin(c)
         \/ StopOthers(c) \/ PermUpdate(c) \/ StartOthers(c)
         \/ Release(c) \/ Handle(c)
         \/ \E r \in CrRegs : CrWrite(c, r)
         \/ \E a \in TableAddrs : Recreate(c, a)

GmSpec == GmInit /\ [][GmNext]_gmVars

-----------------------------------------------------------------------------

GmTypeOK ==
    /\ gm.owner \in GmCpus \cup {NoOne} /\ gm.default \in TableAddrs
    /\ gm.count = (IF gm.owner = NoOne THEN 0 ELSE 1)
    /\ \A c \in GmCpus : gc[c].root \in TableAddrs /\ gc[c].pdptr \in 0..2 /\ Len(gc[c].box) <= 3

InGuestNow(c) == gc[c].at = "guest" /\ ~gc[c].stopped

(* No CPU runs its guest on memory that is gone: with EPT on, its pointer   *)
(* leads to the current tables and nothing cached under that address is     *)
(* older than the last change, whether the tables were changed in place or  *)
(* rebuilt, at a new address or at the old one; with EPT off its flat       *)
(* tables show the current map; while the guest pages, no translation of a  *)
(* linear address is left from another CR3 or paging mode, and in PAE       *)
(* paging the four PDPTEs are the guest's.  Without unrestricted guests     *)
(* the first part is claimed only until the tables are rebuilt: ept_enable  *)
(* restores the root saved at initialization (ept.c:766), which a rebuild   *)
(* does not change.                                                         *)
GuestMemoryCurrent ==
    \A c \in GmCpus :
       InGuestNow(c) =>
         /\ gc[c].on /\ (gm.ug \/ gm.layout = 1) =>
              /\ gm.tables[gc[c].root] = gm.layout
              /\ \A e \in gc[c].tlb :
                    e.addr = gc[c].root => e.layout = gm.layout /\ e.perm = gm.perm
         /\ gc[c].flat \in {0, gm.layout}
         /\ gc[c].on /\ gc[c].pg => gc[c].lin \subseteq {Paging(gc[c])}
         /\ gc[c].on /\ gc[c].pg /\ gc[c].pae => gc[c].pdptr = gc[c].cr3
=============================================================================
