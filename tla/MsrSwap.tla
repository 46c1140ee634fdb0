------------------------------ MODULE MsrSwap ------------------------------
(***************************************************************************)
(* The model-specific registers that guest and monitor both use: the       *)
(* monitor's VM-exit MSR-load list (host/host_cpu.c), the list every VMCS  *)
(* uses both to store guest registers at a VM exit and to load them at a   *)
(* VM entry (vmx/vmcs.c), the entry and exit controls                      *)
(* (guest_cpu_control.c) and the accessors that find a guest's register    *)
(* in whichever place holds it (guest_cpu_access.c).                       *)
(*                                                                         *)
(* The three SYSENTER registers are one.  A value is a number: 0 is the    *)
(* reset value, 10 + c is what the monitor has on CPU c, the rest is the   *)
(* guest's.  EFER stands for its LME bit; LMA and the IA-32e entry control *)
(* are in GuestCpu.  The processor is as in the Intel manual: SYSENTER is  *)
(* always saved and loaded by controls, DEBUGCTL is cleared by a VM exit   *)
(* and the monitor leaves it 0, and PERF_GLOBAL_CTRL has no save control.  *)
(***************************************************************************)
EXTENDS Naturals, SequencesExt

CONSTANTS
    SwapCpus,       \* host CPUs 0, 1, ..: 0 is the bootstrap processor
    SwapConfigs,    \* [auto: registers the exit controls cover, ug: unrestricted guest]
    SwapValues,     \* what a guest writes
    MaxSwapWrites   \* bound: writes of guest registers

Msrs == {"DEBUGCTL", "SYSENTER", "EFER", "PAT", "PERF"}

ASSUME SwapAssumption ==
    /\ 0 \in SwapCpus /\ SwapCpus \subseteq Nat
    /\ \A cf \in SwapConfigs : "SYSENTER" \in cf.auto /\ cf.auto \subseteq Msrs /\ cf.ug \in BOOLEAN
    /\ SwapValues \subseteq 1..9 /\ MaxSwapWrites \in Nat

VARIABLE sw

swapVars == <<sw>>

HostValue(c, m) == IF m = "DEBUGCTL" THEN 0 ELSE 10 + c

StartValue == 9     \* what the loader gives the guest's first CPU

MinSizeOfMsrList == 4

---------------------------------------------------------------------------
(* Lists: arrays of a capacity in the heap, addressed by a number, 0 being *)
(* none.  Entries beyond the capacity would overwrite other memory.        *)

Fresh(s) == CHOOSE a \in 1..(Cardinality(DOMAIN s.mem) + 1) : a \notin DOMAIN s.mem

PositionOf(s, l, m) == {i \in 1..l.n : s.mem[l.a].ent[i].m = m}

(* vmcs_alloc_msr_list: the number of entries allocated. *)
AllocMsrList(n) ==
    LET k == IF n > 8 THEN n ELSE MinSizeOfMsrList
    IN  CHOOSE p \in {4, 8, 16, 32} : p >= k /\ \A q \in {4, 8, 16, 32} : q >= k => p <= q

(* Add or overwrite an entry of list l, which grows to cap when full. *)
AddEntry(s, l, cap, m, v) ==
    LET found == PositionOf(s, l, m)
        full == l.n >= l.max
        a == IF full THEN Fresh(s) ELSE l.a
        old == IF l.n = 0 THEN <<>> ELSE SubSeq(s.mem[l.a].ent, 1, l.n)
        keep == IF full /\ l.n # 0 THEN DOMAIN s.mem \ {l.a} ELSE DOMAIN s.mem
    IN  IF found # {}
        THEN [mem |-> [s.mem EXCEPT ![l.a].ent[Min(found)].v = v], l |-> l, moved |-> FALSE]
        ELSE [mem |-> (a :> [cap |-> IF full THEN cap ELSE l.max, ent |-> Append(old, [m |-> m, v |-> v])])
                          @@ Restrict(s.mem, keep),
              l |-> [a |-> a, n |-> l.n + 1, max |-> IF full THEN cap ELSE l.max],
              moved |-> full]

NoList == [a |-> 0, n |-> 0, max |-> 0]

---------------------------------------------------------------------------
(* host_cpu_add_msr_to_vmexit_load_list: only a reallocation is reported   *)
(* to the guest CPUs of the host CPU.                                      *)
HostAdd(s, c, m) ==
    LET h == s.host[c]
        grown == AddEntry(s, h, IF h.max * 2 > MinSizeOfMsrList THEN h.max * 2 ELSE MinSizeOfMsrList,
                          m, s.phys[c][m])
        s1 == [s EXCEPT !.mem = grown.mem, !.host[c] = grown.l]
    IN  IF grown.moved /\ s.made
        THEN [s1 EXCEPT !.vmcs[c].load = [@ EXCEPT !.a = grown.l.a, !.n = grown.l.n]]
        ELSE s1

(* host_cpu_init: list what the exit controls cannot save. *)
HostListed(s, c) ==
    FoldLeft(LAMBDA t, m : IF m \in s.auto THEN t ELSE HostAdd(t, c, m),
             [s EXCEPT !.host[c] = NoList], <<"DEBUGCTL", "SYSENTER", "EFER", "PAT", "PERF">>)

(* vmcs_add_msr_to_list for one list of a VMCS. *)
VmcsAdd(s, c, name, m, v) ==
    LET l == s.vmcs[c][name]
        grown == AddEntry(s, l, AllocMsrList(l.n + 1), m, v)
    IN  [s EXCEPT !.mem = grown.mem, !.vmcs[c][name] = grown.l]

(* A faulty form: the entry list keeps its old count when the two lists are *)
(* one.                                                                     *)
AddToBothOldCount(s, c, m, v) ==
    LET st == VmcsAdd(s, c, "store", m, v)
    IN  [st EXCEPT !.vmcs[c].enter.a = st.vmcs[c].store.a,
                   !.vmcs[c].enter.n = IF s.vmcs[c].enter.n = 0 THEN 1 ELSE s.vmcs[c].enter.n]

(* vmcs_add_msr_to_vmexit_store_and_vmenter_load_lists: one array for both. *)
AddToBoth(s, c, m, v) ==
    LET st == VmcsAdd(s, c, "store", m, v)
        l == s.vmcs[c]
    IN  IF l.store.a # l.enter.a /\ l.enter.a # 0
        THEN VmcsAdd(st, c, "enter", m, v)
        ELSE [st EXCEPT !.vmcs[c].enter.a = st.vmcs[c].store.a, !.vmcs[c].enter.n = st.vmcs[c].store.n]

---------------------------------------------------------------------------
(* The controls of set_minimal_exit_ctrls and set_minimal_entry_ctrls.     *)

ExitSaves(s) == s.auto \ {"PERF"}

ExitLoads(s) == {"SYSENTER"} \cup (s.auto \cap {"EFER", "PAT", "PERF"})

EntryLoads(s) == {"SYSENTER"} \cup (s.auto \cap {"DEBUGCTL", "EFER", "PAT"})

(* gcpu_set_msr_value_in_list: the last entry of the register. *)
InList(s, l, m, v) ==
    IF PositionOf(s, l, m) = {} THEN s
    ELSE [s EXCEPT !.mem[l.a].ent[Max(PositionOf(s, l, m))].v = v]

(* A faulty form: only the VMCS field is written. *)
SetMsrFieldOnly(s, c, m, v) == [s EXCEPT !.vmcs[c].area[m] = v]

(* gcpu_set_msr_reg_layered: the VMCS field, or the entry list, and the     *)
(* store list when that is another array (searched with the entry list's   *)
(* count).                                                                 *)
SetMsr(s, c, m, v) ==
    LET g == s.vmcs[c]
        s1 == IF m \in s.auto \/ PositionOf(s, g.enter, m) = {}
              THEN [s EXCEPT !.vmcs[c].area[m] = v] ELSE InList(s, g.enter, m, v)
    IN  IF m \notin s.auto /\ g.store.a # g.enter.a
        THEN InList(s1, [g.store EXCEPT !.n = g.enter.n], m, v) ELSE s1

(* gcpu_get_msr_reg_internal_layered *)
GetMsr(s, c, m) ==
    LET g == s.vmcs[c] found == PositionOf(s, g.store, m)
    IN  IF m \in s.auto THEN g.area[m]
        ELSE IF found = {} THEN 0 ELSE s.mem[g.store.a].ent[Max(found)].v

---------------------------------------------------------------------------
(* setup_default_state for one guest CPU, run by the bootstrap processor:   *)
(* its lists follow the bootstrap processor's host list.                    *)
DefaultMsrs(s, c) ==
    LET h == s.host[0]
        entries == IF h.n = 0 THEN <<>> ELSE SubSeq(s.mem[h.a].ent, 1, h.n)
        s1 == [s EXCEPT !.vmcs[c].store = NoList, !.vmcs[c].enter = NoList, !.vmcs[c].load = NoList,
                        !.vmcs[c].area = [@ EXCEPT !["SYSENTER"] = s.phys[0]["SYSENTER"],
                                                   !["PERF"] = s.phys[0]["PERF"]]]
        s2 == FoldLeft(LAMBDA t, e : AddToBoth(t, c, e.m, e.v), s1, entries)
    IN  SetMsr(SetMsr(s2, c, "EFER", 0), c, "PAT", s.phys[0]["PAT"])

(* gcpu_initialize: the first guest CPU starts with what the loader gives. *)
InitialMsrs(s, c) ==
    FoldLeft(LAMBDA t, m : SetMsr(t, c, m, StartValue), s, <<"DEBUGCTL", "EFER", "PAT", "SYSENTER">>)

Wanted(s) == [s EXCEPT !.want = [c \in SwapCpus |-> [m \in Msrs |-> GetMsr(s, c, m)]]]

NoVmcs ==
    [area |-> [m \in Msrs |-> 0], harea |-> [m \in Msrs |-> 0],
     store |-> NoList, enter |-> NoList, load |-> NoList]

SwapInit ==
    \E cf \in SwapConfigs :
        sw = [auto |-> cf.auto, ug |-> cf.ug, mem |-> <<>>, made |-> FALSE, left |-> MaxSwapWrites,
              host |-> [c \in SwapCpus |-> NoList], vmcs |-> [c \in SwapCpus |-> NoVmcs],
              phys |-> [c \in SwapCpus |-> [m \in Msrs |-> HostValue(c, m)]],
              want |-> [c \in SwapCpus |-> [m \in Msrs |-> 0]],
              at |-> [c \in SwapCpus |-> "off"]]

HostMsrInit(c) ==
    /\ sw.at[c] = "off"
    /\ (c = 0) # sw.made
    /\ sw' = [HostListed(sw, c) EXCEPT !.at[c] = "init"]

MakeGuestCpus ==
    /\ sw.at[0] = "init" /\ ~sw.made
    /\ sw' = LET s1 == FoldSet(LAMBDA c, t : DefaultMsrs(t, c), sw, SwapCpus)
             IN  [Wanted(InitialMsrs(s1, 0)) EXCEPT !.made = TRUE]

(* host_cpu_vmcs_init: the host area takes what the CPU has now; the field  *)
(* of PERF_GLOBAL_CTRL is not written.                                      *)
HostVmcsInit(c) ==
    /\ sw.at[c] = "init" /\ sw.made
    /\ sw' = [sw EXCEPT !.at[c] = "host",
                        !.vmcs[c].harea = [m \in Msrs |-> IF m \in ExitLoads(sw) \ {"PERF"} THEN sw.phys[c][m] ELSE 0],
                        !.vmcs[c].load = [sw.host[c] EXCEPT !.max = 0]]

---------------------------------------------------------------------------
(* The processor. *)

Listed(s, l, regs) ==
    FoldLeft(LAMBDA r, e : [r EXCEPT ![e.m] = e.v], regs,
             IF l.n = 0 THEN <<>> ELSE SubSeq(s.mem[l.a].ent, 1, l.n))

VmEnter(c) ==
    /\ sw.at[c] = "host"
    /\ sw' = [sw EXCEPT !.at[c] = "guest",
                        !.phys[c] = Listed(sw, sw.vmcs[c].enter,
                                           [m \in Msrs |-> IF m \in EntryLoads(sw) THEN sw.vmcs[c].area[m]
                                                           ELSE sw.phys[c][m]])]

VmLeave(c) ==
    LET l == sw.vmcs[c].store
        stored == IF l.n = 0 THEN sw
                  ELSE [sw EXCEPT !.mem[l.a].ent = [i \in DOMAIN @ |->
                           IF i <= l.n THEN [m |-> @[i].m, v |-> sw.phys[c][@[i].m]] ELSE @[i]]]
    IN  /\ sw.at[c] = "guest"
        /\ sw' = [stored EXCEPT !.at[c] = "host",
                     !.vmcs[c].area = [m \in Msrs |-> IF m \in ExitSaves(sw) THEN sw.phys[c][m] ELSE @[m]],
                     !.phys[c] = Listed(stored, sw.vmcs[c].load,
                                        [m \in Msrs |-> IF m = "DEBUGCTL" THEN 0
                                                        ELSE IF m \in ExitLoads(sw) THEN sw.vmcs[c].harea[m]
                                                        ELSE sw.phys[c][m]])]

(* The guest writes a register that is not intercepted: all but EFER, and   *)
(* EFER too with unrestricted guest.                                        *)
GuestWrites(c, m, v) ==
    /\ sw.at[c] = "guest" /\ sw.left > 0
    /\ m # "EFER" \/ sw.ug
    /\ sw' = [sw EXCEPT !.phys[c][m] = v, !.want[c][m] = v, !.left = @ - 1]

(* The monitor writes it for the guest: msr_efer_write_handler, the start   *)
(* of a waiting CPU, vmm_set_vmcs_guest_state.                              *)
MonitorWrites(c, m, v) ==
    /\ sw.at[c] = "host" /\ sw.left > 0
    /\ sw' = [SetMsr(sw, c, m, v) EXCEPT !.want[c][m] = v, !.left = @ - 1]

SwapRest == sw.left = 0 /\ UNCHANGED sw

SwapNext ==
    \/ MakeGuestCpus
    \/ \E c \in SwapCpus :
          \/ HostMsrInit(c) \/ HostVmcsInit(c) \/ VmEnter(c) \/ VmLeave(c)
          \/ \E m \in Msrs, v \in SwapValues : GuestWrites(c, m, v)
          \/ \E m \in {"EFER", "PAT"}, v \in SwapValues \cup {0} : MonitorWrites(c, m, v)
    \/ SwapRest

SwapSpec == SwapInit /\ [][SwapNext]_swapVars

---------------------------------------------------------------------------
SwapTypeOK ==
    /\ sw.auto \subseteq Msrs /\ sw.ug \in BOOLEAN /\ sw.made \in BOOLEAN /\ sw.left \in 0..MaxSwapWrites
    /\ \A c \in SwapCpus :
          /\ sw.at[c] \in {"off", "init", "host", "guest"}
          /\ \A m \in Msrs : sw.phys[c][m] \in Nat /\ sw.vmcs[c].area[m] \in Nat

(***************************************************************************)
(* Guest and monitor each find their own registers.  While a guest CPU     *)
(* runs, every register holds what the guest or the monitor last gave it;  *)
(* after an exit the registers hold the monitor's values again, those of   *)
(* this host CPU, and gcpu_get_msr_reg answers the guest's, wherever the   *)
(* processor keeps it; and no list is longer than its array or in memory   *)
(* that was given back.  PERF_GLOBAL_CTRL is left out where the exit       *)
(* control for it exists: the exit replaces it, nothing saves it and no    *)
(* entry control brings it back.                                           *)
(***************************************************************************)
Swapped == IF "PERF" \in sw.auto THEN Msrs \ {"PERF"} ELSE Msrs

MsrsSwapped ==
    \A c \in SwapCpus :
        /\ sw.at[c] = "guest" => \A m \in Swapped : sw.phys[c][m] = sw.want[c][m]
        /\ sw.at[c] = "host" => \A m \in Swapped : GetMsr(sw, c, m) = sw.want[c][m]
        /\ sw.at[c] # "guest" => \A m \in Swapped : sw.phys[c][m] = HostValue(c, m)
        /\ \A name \in {"store", "enter", "load"} :
              LET l == sw.vmcs[c][name]
              IN  sw.at[c] \in {"host", "guest"} /\ l.n > 0 =>
                      l.a \in DOMAIN sw.mem /\ l.n <= sw.mem[l.a].cap
============================================================================
