------------------------------ MODULE MCNative ------------------------------
(***************************************************************************)
(* The components written in C and C++ on small instances, one at a time:  *)
(* the monitor (cpvmm) with its loader, the TPM 2.0 library and programs,  *)
(* and the C++ Tao client.  A behaviour picks one part and runs it while   *)
(* the others rest.  The composition adds nothing to the parts: it lets    *)
(* one run ask the questions of all of them.                               *)
(***************************************************************************)
EXTENDS TLC, Ipc, VmcsCache, Heap, Pool, GuestMemory, Mam, Tpm2Session,
        ProgramKeys, TpmHandles, Bootstrap, Startup, MemoryLayout,
        GuestCpu, VmExits, TaskSwitch, TaoRpc, TaoClient,
        TaoChannel, AgileCrypto, PageWalk, Gpm, Encodings,
        Console, Hash64, Guests, MsrSwap, TpmCommands, Text,
        LocalApic

VARIABLE which   \* the part that runs

-----------------------------------------------------------------------------
(* Constants of the parts. *)

(* Identifiers with a gap. *)
ApicIdentifiers == 0 :> 0 @@ 1 :> 2

PoolRequests == {[size |-> 2040, align |-> 8], [size |-> 100, align |-> 1024]}

(* Two processors, with and without unrestricted guests and the single- *)
(* context form of INVEPT.                                               *)
InvContext == {"invept", "inveptContext", "invvpid", "invvpidContext"}
InvAll == {"invept", "inveptAll", "invvpid", "invvpidContext"}
MemoryStarts ==
    {[ug |-> TRUE, paged |-> {0, 1}, hw |-> InvContext],
     [ug |-> TRUE, paged |-> {1}, hw |-> InvAll],
     [ug |-> FALSE, paged |-> {0}, hw |-> InvContext]}

(* Updates of a mapping of eight or sixteen pages that overlap, split big *)
(* pages and merge them again, and a removal reaching past its end.       *)
MapRequest(op, lo, hi, to, attr, why, kind, level) ==
    [op |-> op, lo |-> lo, hi |-> hi, to |-> to, attr |-> attr, why |-> why, kind |-> kind, level |-> level]
MapRequests ==
    {MapRequest("insert", r[1], r[2], r[3], r[4], "", "", 0) :
        r \in {<<0, 8, 0, {"r"}>>, <<1, 4, 1, {"r"}>>, <<2, 6, 3, {"r"}>>, <<0, 3, 0, {"r", "w"}>>}}
    \cup {MapRequest("remove", r[1], r[2], 0, {}, "a", "", 0) : r \in {<<3, 5>>, <<0, 8>>, <<4, 9>>}}
    \cup {MapRequest(r[1], r[2], r[3], 0, r[4], "", "", 0) :
            r \in {<<"set", 0, 3, {"w"}>>, <<"clear", 2, 5, {"w"}>>, <<"overwrite", 0, 4, {"r"}>>}}
    \cup {MapRequest("convert", 0, 0, 0, {}, "", r[1], r[2]) :
            r \in {<<"paging", 3>>, <<"ept", 2>>, <<"ept", 3>>}}

(* Memory maps of a machine of 58 pages: plain, out of order, overlapping, *)
(* fragmented, and with ACPI tables where the loader wants its memory.     *)
MapEntry(from, to, type) == Entry(from, to - from, type)
RawMaps ==
    {<<MapEntry(0, 6, "ram"), MapEntry(6, 8, "reserved"), MapEntry(8, 50, "ram"), MapEntry(52, 58, "ram")>>,
     <<MapEntry(0, 6, "ram"), MapEntry(8, 30, "ram"), MapEntry(30, 50, "ram"), MapEntry(6, 8, "reserved")>>,
     <<MapEntry(0, 50, "ram"), MapEntry(6, 8, "reserved"), MapEntry(17, 18, "reserved")>>,
     <<MapEntry(0, 6, "ram"), MapEntry(8, 50, "ram"), MapEntry(17, 18, "acpi"), MapEntry(5, 8, "reserved"),
       MapEntry(30, 58, "acpi")>>,
     <<MapEntry(0, 6, "ram"), MapEntry(8, 20, "ram"), MapEntry(20, 25, "ram"), MapEntry(25, 50, "ram")>>,
     <<MapEntry(0, 6, "ram"), MapEntry(40, 50, "acpi"), MapEntry(8, 19, "ram"), MapEntry(18, 45, "ram"),
       MapEntry(8, 10, "ram")>>}
(* What tboot hands over, in a plain case; the cases vary it. *)
PlainBoot(raw) ==
    [raw |-> raw, modules |-> 3, x86_64 |-> TRUE, bootFrom |-> 12, bootTo |-> 13,
     segments |-> <<[type |-> "note", at |-> 0, pages |-> 1], [type |-> "load", at |-> 30, pages |-> 1]>>,
     heapBase |-> 20, heapSize |-> 10, evmmHeap |-> 1, params |-> 1, cpuid |-> 0, images |-> TRUE,
     cmdline |-> TRUE, code32 |-> 8, header |-> TRUE, initrd |-> 1, initrdMax |-> 60, realFits |-> TRUE,
     relocatable |-> TRUE, loadHigh |-> TRUE, kernelAt |-> 9, kernelLow |-> 8, kernel |-> 3,
     lowMemory |-> 6, realSize |-> 1, realLowest |-> 3, realHighest |-> 4, gdt |-> 8]
Boots ==
    UNION {
      LET plain == PlainBoot(raw) IN
        {[plain EXCEPT !.bootTo = to, !.initrd = i, !.initrdMax = m, !.relocatable = r, !.cmdline = r,
                       !.cpuid = n] :
            to \in {13, 14}, i \in {1, 3}, m \in {17, 60}, r \in BOOLEAN, n \in 0..3}
        \cup {[plain EXCEPT !.initrd = 7],
              [plain EXCEPT !.relocatable = FALSE, !.cmdline = FALSE, !.loadHigh = FALSE],
              [plain EXCEPT !.modules = 2],
              [plain EXCEPT !.gdt = 7],
              [plain EXCEPT !.gdt = 9],
              [plain EXCEPT !.header = FALSE],
              [plain EXCEPT !.images = FALSE],
              [plain EXCEPT !.segments = <<@[1]>>]}
        : raw \in RawMaps}
AnyBoot == CHOOSE c \in Boots : TRUE

(* Range registers that overlap, leave holes and change type in the middle *)
(* of a piece of the map.                                                  *)
RangeReg(type, base, size) == [valid |-> TRUE, base |-> base, size |-> size, type |-> type]
UnusedReg == [valid |-> FALSE, base |-> 0, size |-> 1, type |-> "WB"]
RangeRegs(vars, default) ==
    [enabled |-> TRUE, fixedEnabled |-> TRUE,
     fixed |-> <<[end |-> 0, type |-> "WB"], [end |-> 1, type |-> "UC"]>>,
     vars |-> vars, default |-> default]
Layouts ==
    {[mtrr |-> m, e820 |-> e, monitor |-> [base |-> 4, length |-> 1], heap |-> h, apic |-> 7] :
        m \in {RangeRegs(<<RangeReg("WB", 0, 8), RangeReg("UC", 4, 4), RangeReg("WT", 2, 1)>>, "UC"),
               RangeRegs(<<RangeReg("WB", 0, 8), RangeReg("WB", 8, 4), RangeReg("UC", 6, 2)>>, "WB")},
        e \in {<<[base |-> 0, length |-> 6], [base |-> 6, length |-> 4]>>,
               <<[base |-> 0, length |-> 6], [base |-> 9, length |-> 3]>>},
        h \in {<<>>, <<5, 3>>}}
GuestRegisterWrites ==
    {[index |-> 3, register |-> RangeReg("UC", 2, 2)], [index |-> 3, register |-> UnusedReg]}

(* A processor that waits for its SIPI under an unrestricted guest, and the *)
(* boot processor without one.                                              *)
GuestCpus ==
    {[ug |-> TRUE, cd |-> TRUE, active |-> FALSE], [ug |-> FALSE, cd |-> FALSE, active |-> TRUE]}
Cr0Values == {{"PE", "NE"}, {"PE", "NE", "PG", "CD"}, {"PG"}}
Cr4Values == {{"PAE"}, {"VMXE"}}

(* Three tasks, two of which share an LDT, and one in virtual-8086 mode. *)
TaskLdts == "A" :> "l1" @@ "B" :> "null" @@ "C" :> "l1"
TaskSegments == "A" :> "ldt" @@ "B" :> "v86" @@ "C" :> "ldt"

(* A Go program and a C++ one on either side, with every choice of who     *)
(* verifies whom, and two clients of one server.                           *)
Endpoint(mode, issuer, go) == [mode |-> mode, issuer |-> issuer, policy |-> "p1", go |-> go, key |-> TRUE]
Channels ==
    {[server |-> Endpoint(m, i, TRUE), clients |-> [c \in {"c1"} |-> Endpoint(n, j, FALSE)]] :
        m, n \in VerifyModes, i, j \in {"p1", "p2"}}
    \cup {[server |-> Endpoint(m, "p1", FALSE),
           clients |-> ("c1" :> Endpoint(m, "p1", FALSE) @@ "c2" :> Endpoint(m, "p2", TRUE))] :
            m \in {"SERVER_VERIFY_CLIENT_VERIFY"}}

(* Page tables with one odd entry, on each level, in each paging mode. *)
GoodEntry == {"P", "W", "U"}
OddEntries == {{}, {"P", "W"}} \cup {GoodEntry \cup e : e \in {{"PS"}, {"PS", "LOW"}, {"NX"}, {"HIGH"}, {"HOLE"}}}
GoodTables == [l \in PwLevels |-> GoodEntry]
GoodPae == [GoodTables EXCEPT !["pdpt"] = {"P"}]
WalkTables ==
    {GoodTables, GoodPae}
    \cup {[GoodTables EXCEPT ![l] = e] : l \in PwLevels, e \in OddEntries}
    \cup {[GoodPae EXCEPT ![l] = e] : l \in {"pdpt", "pd"}, e \in OddEntries \cup {{"P", "AVL"}}}
PagingMode(lme, pae, pse, nxe, wp) == [lme |-> lme, pae |-> pae, pse |-> pse, nxe |-> nxe, wp |-> wp]
WalkModes ==
    {PagingMode(TRUE, TRUE, FALSE, TRUE, FALSE), PagingMode(FALSE, TRUE, FALSE, FALSE, TRUE),
     PagingMode(FALSE, FALSE, TRUE, FALSE, TRUE), PagingMode(FALSE, FALSE, FALSE, FALSE, FALSE)}
WalkAccesses ==
    {[write |-> a[1], user |-> a[2], fetch |-> a[3], ad |-> a[4]] :
        a \in {<<FALSE, FALSE, FALSE, FALSE>>, <<TRUE, FALSE, FALSE, TRUE>>,
               <<TRUE, TRUE, FALSE, TRUE>>, <<FALSE, TRUE, TRUE, TRUE>>}}
WalkEntries == {{"P", "U"}}

(* Ranges that overlap, touch the end, and cross the 4 GB line (page 6). *)
GpmRequestsMade ==
    {[op |-> r[1], lo |-> r[2], hi |-> r[3], hpa |-> r[4]] :
        r \in {<<"add", 0, 10, 0>>, <<"add", 2, 7, 12>>, <<"add", 8, 10, 2>>,
               <<"remove", 3, 5, 0>>, <<"remove", 6, 9, 0>>,
               <<"mmio", 4, 7, 0>>, <<"mmio", 9, 10, 0>>}}
MapPiece(from, to, type) == [from |-> from, to |-> to, type |-> type]
HostMaps ==
    {<<MapPiece(0, 10, "ram")>>, <<MapPiece(1, 3, "ram"), MapPiece(5, 8, "acpi")>>, <<>>,
     <<MapPiece(0, 4, "ram"), MapPiece(4, 6, "res"), MapPiece(6, 10, "ram")>>}

(* Byte strings of every length modulo three, texts with padding in and out *)
(* of place, strings with quotes and escapes.                               *)
SampleBytes ==
    UNION {[1..n -> {0, 3, 171, 255}] : n \in 0..2}
    \cup [1..3 -> {0, 171, 255}] \cup UNION {[1..n -> {6, 171}] : n \in {4, 5}}
SampleTexts ==
    UNION {[1..n -> {0, 63, Pad, BadChar}] : n \in {0, 1, 4}}
    \cup {a \o b : a, b \in [1..4 -> {63, Pad}]}
SampleHex == UNION {[1..n -> {0, 15, 16, 255}] : n \in 0..3}
SampleStrings == UNION {[1..n -> {"quote", "backslash", "blank", "x"}] : n \in 0..3}
SampleParts == {<<>>, <<"x">>, <<"blank">>, <<"x", "blank">>}
SampleLists == (SampleParts \X SampleParts) \cup (SampleParts \X SampleParts \X SampleParts)
CommaBlank == <<"comma", "blank">>
SampleKeys == {<<>>, <<1>>, <<17, 0>>, [i \in 1..130 |-> 7]}

(* How many guest CPUs the primary guest starts with, and in which state. *)
GuestStarts == {<<"Active">>, <<"Active", "WaitForSipi">>, <<>>}

(* Processors whose VMCS saves and loads all, some or few of the MSRs. *)
SwapControls ==
    {[auto |-> Msrs, ug |-> TRUE], [auto |-> {"SYSENTER", "DEBUGCTL"}, ug |-> FALSE],
     [auto |-> {"SYSENTER"}, ug |-> FALSE], [auto |-> {"SYSENTER", "DEBUGCTL", "EFER", "PAT"}, ug |-> TRUE]}

(* Sizes round the points where a command no longer fits. *)
SamplePasswords == {<<>>, <<0, 1, 0, 2>>, <<5>>}
SampleBlobs ==
    {<<>>, <<7, 8>>}
    \cup {[i \in 1..n |-> i] : n \in {30} \cup 53..66 \cup {80, 85, 88, 90, 92, 100}}
SamplePcrs == {-1, 7, 16}

(* The conversions the callers use, and formats that end where they should *)
(* not.                                                                    *)
NumberForm(d, base, wide, sign, width) == [d |-> d, base |-> base, wide |-> wide, sign |-> sign, width |-> width]
NumberForms ==
    {NumberForm(<<"%", "d">>, 10, FALSE, TRUE, 0), NumberForm(<<"%", "u">>, 10, FALSE, FALSE, 0),
     NumberForm(<<"%", "x">>, 16, FALSE, FALSE, 0), NumberForm(<<"%", "p">>, 16, FALSE, FALSE, 0),
     NumberForm(<<"%", "0", "8", "x">>, 16, FALSE, FALSE, 8),
     NumberForm(<<"%", "0", "1", "6", "l", "l", "x">>, 16, TRUE, FALSE, 16),
     NumberForm(<<"%", "l", "l", "d">>, 10, TRUE, TRUE, 0),
     NumberForm(<<"%", "l", "u">>, 10, FALSE, FALSE, 0),
     NumberForm(<<"%", "0", "1", "6", "L", "x">>, 16, TRUE, FALSE, 16)}
SampleNumbers == {0, -1, 100, -128}
SampleFormats ==
    {<<"%", "0", "2", "d", "%", "0", "4", "d", "\n">>, <<"a", "%", "s", "\n">>, <<"%", "p", ":">>,
     <<"%", "0", "8", "X", "-", "%", "4", "d">>, <<"%", "#", "x">>, <<"%", "l", "d", "%", "%">>,
     <<"%", "-", "4", "d">>, <<"%", "5", ".", "2", "s", "|">>}
ScreenLines ==
    {[f |-> t, args |-> <<>>] :
        t \in {<<"a", "b", "c", "\n">>, <<"x", "\r", "y">>, <<"\t", "t">>, <<"\n", "\n">>,
               <<"l", "o", "n", "g", "e", "r", "t", "e", "x", "t">>}}
    \cup {[f |-> <<"[", "%", "4", "s", "]">>, args |-> <<<<"h", "i">>>>]}

-----------------------------------------------------------------------------
Parts ==
    {"ipc", "vmcs", "heap", "pool", "guest memory", "mam", "session",
     "keys", "handles", "bootstrap", "startup", "layout", "guest cpu", "exits",
     "tasks", "rpc", "client", "channel", "crypto", "walk", "gpm",
     "encodings", "console", "hash", "guests", "swap", "commands", "text",
     "apic"}

(* The part that runs starts as it does alone.  Of the others, those a     *)
(* property speaks of without asking which part runs are in one of their   *)
(* initial states, and the rest are resting.                               *)
Resting == "resting"
NativeInit ==
    /\ which \in Parts
    /\ IpcInit
    /\ which # "ipc" => LET w == CHOOSE x \in Workloads : TRUE IN ipcCalls = w.calls /\ ipcLeft = w.left
    /\ VcInit
    /\ HeapInit
    /\ IF which = "pool" THEN PoolInit ELSE pool = Resting
    /\ GmInit
    /\ which # "guest memory" => \E s \in {CHOOSE s \in GmStarts : TRUE} : gm.ug = s.ug /\ gm.hw = s.hw
    /\ MamInit
    /\ SessionInit
    /\ which # "session" => ~tpmSide.nv.written
    /\ KeysInit
    /\ HandlesInit
    /\ BootInit
    /\ which # "bootstrap" => boot.cfg = AnyBoot
    /\ SuInit
    /\ IF which = "layout" THEN LayoutInit ELSE ml = Resting
    /\ IF which = "guest cpu" THEN GuestCpuInit ELSE vcpu = Resting
    /\ ExitsInit
    /\ TaskInit
    /\ RpcInit
    /\ TaoClientInit
    /\ ChannelInit
    /\ which # "channel" => ch.config = CHOOSE f \in ChannelConfigs : TRUE
    /\ IF which = "crypto" THEN AgileInit ELSE ag = Resting
    /\ IF which = "walk" THEN PwInit ELSE pw = Resting
    /\ IF which = "gpm" THEN GpmInit ELSE gpm = Resting
    /\ IF which = "encodings" THEN EncInit ELSE enc = Resting
    /\ IF which = "console" THEN ConInit ELSE con = Resting
    /\ HashInit
    /\ IF which = "guests" THEN GuestsInit ELSE gs = Resting
    /\ IF which = "swap" THEN SwapInit ELSE sw = Resting
    /\ IF which = "commands" THEN TmInit ELSE tm = Resting
    /\ IF which = "text" THEN TxInit ELSE tx = Resting
    /\ IF which = "apic" THEN LaInit ELSE la = Resting

(* A step of one part. *)
Alone(part) ==
    /\ which = part /\ UNCHANGED which
    /\ part # "ipc" => UNCHANGED ipcVars
    /\ part # "vmcs" => UNCHANGED vcVars
    /\ part # "heap" => UNCHANGED heapVars
    /\ part # "pool" => UNCHANGED pool
    /\ part # "guest memory" => UNCHANGED gmVars
    /\ part # "mam" => UNCHANGED mamVars
    /\ part # "session" => UNCHANGED sessionVars
    /\ part # "keys" => UNCHANGED keyVars
    /\ part # "handles" => UNCHANGED handleVars
    /\ part # "bootstrap" => UNCHANGED bootVars
    /\ part # "startup" => UNCHANGED startupVars
    /\ part # "layout" => UNCHANGED layoutVars
    /\ part # "guest cpu" => UNCHANGED vcpu
    /\ part # "exits" => UNCHANGED vx
    /\ part # "tasks" => UNCHANGED ts
    /\ part # "rpc" => UNCHANGED tr
    /\ part # "client" => UNCHANGED tc
    /\ part # "channel" => UNCHANGED ch
    /\ part # "crypto" => UNCHANGED ag
    /\ part # "walk" => UNCHANGED pw
    /\ part # "gpm" => UNCHANGED gpm
    /\ part # "encodings" => UNCHANGED enc
    /\ part # "console" => UNCHANGED con
    /\ part # "hash" => UNCHANGED ht
    /\ part # "guests" => UNCHANGED gs
    /\ part # "swap" => UNCHANGED swapVars
    /\ part # "commands" => UNCHANGED tm
    /\ part # "text" => UNCHANGED tx
    /\ part # "apic" => UNCHANGED la

NativeNext ==
    \/ Alone("ipc") /\ IpcNext
    \/ Alone("vmcs") /\ VcNext
    \/ Alone("heap") /\ HeapNext
    \/ Alone("pool") /\ PoolNext
    \/ Alone("guest memory") /\ GmNext
    \/ Alone("mam") /\ MamNext
    \/ Alone("session") /\ SessionNext
    \/ Alone("keys") /\ KeysNext
    \/ Alone("handles") /\ HandlesNext
    \/ Alone("bootstrap") /\ BootNext
    \/ Alone("startup") /\ SuNext
    \/ Alone("layout") /\ LayoutNext
    \/ Alone("guest cpu") /\ GuestCpuNext
    \/ Alone("exits") /\ ExitsNext
    \/ Alone("tasks") /\ TaskNext
    \/ Alone("rpc") /\ RpcNext
    \/ Alone("client") /\ TaoClientNext
    \/ Alone("channel") /\ ChannelNext
    \/ Alone("crypto") /\ AgileNext
    \/ Alone("walk") /\ PwNext
    \/ Alone("gpm") /\ GpmNext
    \/ Alone("encodings") /\ EncNext
    \/ Alone("console") /\ ConNext
    \/ Alone("hash") /\ HashNext
    \/ Alone("guests") /\ GuestsNext
    \/ Alone("swap") /\ SwapNext
    \/ Alone("commands") /\ TmNext
    \/ Alone("text") /\ TxNext
    \/ Alone("apic") /\ LaNext

nativeVars ==
    <<which, ipcVars, vcVars, heapVars, pool, gmVars, mamVars, sessionVars, keyVars, handleVars, bootVars,
      startupVars, layoutVars, vcpu, vx, ts, tr, tc, ch, ag, pw,
      gpm, enc, con, ht, gs, swapVars, tm, tx, la>>

(* IpcFairness and SuFairness, each while its part runs. *)
NativeFairness ==
    /\ \A c \in Cpus : /\ WF_ipcVars(which = "ipc" /\ IpcRuns(c))
                       /\ WF_ipcVars(which = "ipc" /\ Resends(c))
    /\ \A c \in SuCpus : WF_startupVars(which = "startup" /\ CpuComesUp(c))

NativeSpec == NativeInit /\ [][NativeNext]_nativeVars /\ NativeFairness

-----------------------------------------------------------------------------
(* Properties of a part are properties of the whole; those of several small *)
(* parts are stated together.                                               *)

(* The types of the part that runs. *)
TypesOK ==
    CASE which = "ipc" -> IpcTypeOK
      [] which = "vmcs" -> VcTypeOK
      [] which = "heap" -> HeapTypeOK
      [] which = "pool" -> PoolTypeOK
      [] which = "guest memory" -> GmTypeOK
      [] which = "mam" -> MamTypeOK
      [] which = "session" -> SessionTypeOK
      [] which = "keys" -> KeysTypeOK
      [] which = "handles" -> HandlesTypeOK
      [] which = "bootstrap" -> BootTypeOK
      [] which = "startup" -> SuTypeOK
      [] which = "layout" -> LayoutTypeOK
      [] which = "guest cpu" -> GuestCpuTypeOK
      [] which = "exits" -> ExitsTypeOK
      [] which = "tasks" -> TaskTypeOK
      [] which = "rpc" -> RpcTypeOK
      [] which = "client" -> TaoClientTypeOK
      [] which = "channel" -> ChannelTypeOK
      [] which = "crypto" -> AgileTypeOK
      [] which = "walk" -> PwTypeOK
      [] which = "gpm" -> GpmTypeOK
      [] which = "encodings" -> EncTypeOK
      [] which = "console" -> ConTypeOK
      [] which = "hash" -> HashTypeOK
      [] which = "guests" -> GuestsTypeOK
      [] which = "swap" -> SwapTypeOK
      [] which = "commands" -> TmTypeOK
      [] which = "text" -> TxTypeOK
      [] which = "apic" -> LaTypeOK

(* The monitor's own services under every order of calls: the element pools *)
(* of memory_allocator.c agree with what is free, the nodes of hash64.c are *)
(* all accounted for, the console's lock count and output are whole         *)
(* although handlers force their way in (vmm_io.c), and the loader's and    *)
(* the monitor's formatting, screen and memory copies do what callers rely  *)
(* on (bootstrap_print.c, sprintf.c, memory copies of common/libc).         *)
UtilitiesSound ==
    /\ which = "pool" => PoolConsistent
    /\ which = "hash" => NodesAccounted
    /\ which = "console" => ConsoleSound
    /\ which = "text" => TextSound

(* The views of memory agree: host page tables both ways and EPT types      *)
(* (host_memory_manager.c, ept.c), the guest physical map with its flat     *)
(* tables and E820 copy (gpm.c, flat_page_tables.c), and the walk of guest  *)
(* page tables with what the processor would find (page_walker.c).          *)
MemoryViewsAgree ==
    /\ which = "layout" => HostMapsAgree /\ EptTypesExact
    /\ which = "gpm" => MapViewsAgree
    /\ which = "walk" => WalkSound

(* A message to another processor belongs to a send that waits for it, and  *)
(* stopped processors stay stopped (ipc.c, ipc_api.c); the interrupt that   *)
(* announces it arrives (local_apic.c).                                     *)
SignalsSound ==
    /\ which = "ipc" => CallsSound
    /\ which = "apic" => IpisArrive

(* A guest CPU sees its own registers while the monitor's stay in force     *)
(* (guest_cpu_control.c, vmexit_cr_access.c), its MSRs are there when it    *)
(* runs and the host's when it does not (vmcs.c, host_cpu.c), a processor   *)
(* runs its own guest CPU (scheduler.c, guest.c), and an observer is told   *)
(* once (event_mgr.c).                                                      *)
GuestCpuSound ==
    /\ which = "guest cpu" => GuestReadsItsWrites /\ MonitorInForce
    /\ which = "swap" => MsrsSwapped
    /\ which = "guests" => RunsItsGuestCpu /\ ObserversOnce

(* What one side encodes the other decodes: keys, signatures and boxes of   *)
(* agile_crypto_support.cc, the texts of conversions.cc, and the commands   *)
(* and answers of tpm2_lib.cc.                                              *)
CodecsSound ==
    /\ which = "crypto" => CryptoSound
    /\ which = "encodings" => EncodingsSound
    /\ which = "commands" => CommandsSound

(* When the monitor starts, its guest is launched on the boot processor and *)
(* on every processor that was counted (vmm.c, bootstrap_ap_procs_init.c).  *)
GuestLaunches == <>[](which = "startup" => GuestRunning)
=============================================================================
