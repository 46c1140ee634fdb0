------------------------------- MODULE Startup ---------------------------------
(***************************************************************************)
(* How the processors come up: the bootstrap wakes the application         *)
(* processors (bootstrap_ap_procs_init.c, bootstrap_startap.c), every      *)
(* processor enters vmm_main (cpvmm/vmm/vmm.c), the boot processor         *)
(* initializes the monitor alone while the others wait, then all of them   *)
(* turn VMX on and launch their guest processors.                          *)
(*                                                                         *)
(* Memory is counted in pages from the start of the monitor's image.       *)
(*                                                                         *)
(* The boot processor gives the others a fixed time to appear.  One that   *)
(* is later is not counted, yet it is let through with the rest.           *)
(***************************************************************************)
EXTENDS Integers, Sequences, FiniteSets

CONSTANTS
    Aps,                  \* the APIC ids of the application processors: 1..n
    ImageSize,            \* pages of the monitor's image
    StackSize,            \* size_of_vmm_stack: pages asked for each stack
    Locked                \* processors whose firmware enabled VMX and locked it

ASSUME SuAssumption == IsFiniteSet(Aps) /\ Aps = 1..Cardinality(Aps) /\ ImageSize \in Nat /\ StackSize \in Nat

VARIABLE su

startupVars == <<su>>

SuCpus == {0} \cup Aps

NullPage == 0
NoId == -1

---------------------------------------------------------------------------
(* The stacks, in pages: the stacks of all the processors follow the image *)
(* and the heap follows them.  The block of a processor holds its stack    *)
(* and the stacks of the exceptions that switch: the last of those is the  *)
(* page above the stack, the others are below it.                          *)

ExtraStacks == 6

StacksFor(num) == [base |-> ImageSize, per |-> StackSize + ExtraStacks, max |-> num]

\* A faulty form: no page is left above the stack of a processor.
StackPointerAtEnd(stacks, c) == stacks.base + stacks.per * (c + 1)

StackPointer(stacks, c) == stacks.base + stacks.per * (c + 1) - 1

ExceptionStack(stacks, c, n) ==
    IF n = ExtraStacks - 1 THEN StackPointer(stacks, c) ELSE stacks.base + stacks.per * c + n

StacksEnd(stacks) == stacks.base + stacks.max * stacks.per

---------------------------------------------------------------------------
(* What VMX asks of the control registers.  The capability registers give  *)
(* the bits that may be 0 and the bits that may be 1.                      *)

HardwareCr0 == [may0 |-> {"PE", "PG", "NE"}, may1 |-> {"PE", "PG", "NE", "TS", "MP", "CD"}]
HardwareCr4 == [may0 |-> {"VMXE"}, may1 |-> {"PAE", "OSFXSR", "VMXE"}]

FixedBits(may) == [one |-> may.may0 \cap may.may1, zero |-> may.may0 \cup may.may1]

\* With unrestricted guests PE and PG are not among the bits that must be 1.
FillVmxCapabilities ==
    [cr0 |-> [FixedBits(HardwareCr0) EXCEPT !.one = @ \ {"PE", "PG"}], cr4 |-> FixedBits(HardwareCr4)]

\* Before that they are zero.
NoFixedBits == [one |-> {}, zero |-> {}]

MakeCompliant(value, fixed) == (value \cap fixed.zero) \cup fixed.one

---------------------------------------------------------------------------
(* What the monitor initializes, in the order of vmm_bsp_proc_main, with   *)
(* what each part uses of the earlier ones.                                *)

Part(name, uses) == [does |-> name, uses |-> uses]

StackInitialize == Part("stacks", {})
HeapInitialize == Part("heap", {"stacks"})
StartupCopies == Part("copies", {"heap"})
DescriptorTables == Part("tables", {"heap", "stacks"})
LoadTables == Part("load", {"tables"})
HostMemory == Part("memory", {"heap", "stacks", "tables", "copies"})
InstallMemory == Part("cr3", {"memory"})
VmxCapabilities == Part("vmx", {"memory"})
ControlRegisters == Part("compliant", {"vmx"})
Managers == Part("managers", {"heap", "vmx"})
HostCpuInit == Part("host", {"managers", "vmx"})
CreateGuests == Part("guests", {"managers", "memory", "copies"})
Events == Part("events", {"guests"})
IpcEngine == Part("ipc", {"guests"})
Addons == Part("addons", {"guests", "events", "copies"})
VmxonRegions == Part("regions", {"vmx", "managers", "memory"})

\* The copies of the startup structures are freed before the processors are
\* released.
FreeCopies == Part("freed", {"copies"})

BspInitialization ==
    <<StackInitialize, HeapInitialize, StartupCopies, DescriptorTables, LoadTables, HostMemory,
      InstallMemory, VmxCapabilities, ControlRegisters, Managers, HostCpuInit, CreateGuests,
      Events, IpcEngine, Addons, FreeCopies, VmxonRegions>>

\* What each processor then does for itself.
HostVmcsRegions == Part("vmcs", {"managers", "guests", "memory"})
VmxOn == Part("vmxon", {"regions"})
IpcActive == Part("active", {"ipc", "guests"})
CountMe == Part("count", {})
WaitForAll == Part("wait", {})
LaunchEvent == Part("event", {"events", "addons"})
ResumeGuest == Part("guest", {"guests", "addons"})

BspLaunch == <<HostVmcsRegions, VmxOn, IpcActive, WaitForAll, LaunchEvent, ResumeGuest>>

ApProgram ==
    <<LoadTables, InstallMemory, ControlRegisters, HostCpuInit, HostVmcsRegions, VmxOn,
      IpcActive, CountMe, LaunchEvent, ResumeGuest>>

\* A faulty form: the VMXON regions are allocated after the processors are
\* released.
BspReleasesFirst ==
    SubSeq(BspInitialization, 1, Len(BspInitialization) - 1)
        \o <<Part("release", {}), VmxonRegions>> \o BspLaunch

BspProgram == BspInitialization \o <<Part("release", {})>> \o BspLaunch

Program(c) == IF c = 0 THEN BspProgram ELSE ApProgram

---------------------------------------------------------------------------
(* What a processor holds of its own: the identity hw_cpu_id reads back    *)
(* from the task register, its control registers and page tables, whether  *)
(* VMX operation is enabled and on, and the stack it runs on.              *)

HardwareAt(c) ==
    [id |-> NoId, cr0 |-> {"PE", "PG"}, cr3 |-> "loader", cr4 |-> {"PAE"},
     optIn |-> IF c \in Locked THEN "on" ELSE "open", vmx |-> FALSE, sp |-> NullPage]

\* host_cpu_vmcs_init: what a VM exit loads is what the processor that fills
\* its VMCS has now.
HostState(s, c) ==
    [cr0 |-> MakeCompliant(s.hw[c].cr0, s.fixed.cr0), cr3 |-> s.hw[c].cr3,
     cr4 |-> MakeCompliant(s.hw[c].cr4, s.fixed.cr4), tr |-> s.hw[c].id,
     rsp |-> StackPointer(s.stacks, s.hw[c].id)]

NoHostState == [cr0 |-> {}, cr3 |-> "loader", cr4 |-> {}, tr |-> NoId, rsp |-> NullPage]

\* One page after the other, one for each processor.
AllocateVmxonRegions(s) ==
    [s EXCEPT !.region = [c \in SuCpus |-> IF c < s.num THEN s.heap + c ELSE NullPage],
              !.heap = @ + s.num]

\* What the VMXON instruction demands of the processor, and of the region.
VmxonAccepted(s, c) ==
    /\ "VMXE" \in s.hw[c].cr4 /\ s.hw[c].optIn = "on"
    /\ {"PE", "PG", "NE"} \subseteq s.hw[c].cr0
    /\ s.region[s.hw[c].id] # NullPage
    /\ \A d \in SuCpus : s.hw[d].vmx => s.region[s.hw[d].id] # s.region[s.hw[c].id]

\* A faulty form: the feature control register is taken to be open.
VmxonSetUpOpen(s, c) ==
    [s EXCEPT !.hw[c].cr4 = @ \cup {"VMXE"}, !.hw[c].optIn = IF @ = "open" THEN "open" ELSE @]

VmxonSetUp(s, c) ==
    [s EXCEPT !.hw[c].cr4 = @ \cup {"VMXE"}, !.hw[c].optIn = IF @ = "open" THEN "on" ELSE @]

\* A VMXON that fails ends at a breakpoint.
VmcsHwVmxOn(s, c) ==
    LET t == VmxonSetUp(s, c)
    IN IF VmxonAccepted(t, c) THEN [t EXCEPT !.hw[c].vmx = TRUE]
                              ELSE [t EXCEPT !.at[c] = "trapped"]

---------------------------------------------------------------------------

SuInit ==
    su = [at |-> [c \in SuCpus |-> IF c = 0 THEN "wake" ELSE "off"],
          step |-> [c \in SuCpus |-> 1],
          present |-> {}, enumerated |-> FALSE, ready |-> 0, counted |-> 0, num |-> 1,
          done |-> {}, released |-> FALSE, launched |-> 0, active |-> {}, running |-> FALSE,
          stacks |-> StacksFor(0), heap |-> NullPage, fixed |-> [cr0 |-> NoFixedBits, cr4 |-> NoFixedBits],
          hw |-> [c \in SuCpus |-> HardwareAt(c)],
          region |-> [c \in SuCpus |-> NullPage],
          hostState |-> [c \in SuCpus |-> NoHostState]]

\* ap_procs_startup up to its wait: the environment is reset and the
\* broadcast INIT, SIPI, SIPI is sent.
WakeAps ==
    /\ su.at[0] = "wake"
    /\ su' = [su EXCEPT !.at[0] = "timeout", !.present = {}, !.enumerated = FALSE, !.ready = 0]

\* The wait is over, however many have appeared: they are counted, their
\* number goes into the startup structure, and if there are any they are let
\* through.
EnumerateAps ==
    LET n == Cardinality(su.present)
    IN /\ su.at[0] = "timeout"
       /\ su' = [su EXCEPT !.counted = n, !.num = n + 1, !.enumerated = n > 0,
                           !.at[0] = IF n > 0 THEN "accept" ELSE "vmm_main"]

\* A faulty form: one processor more is waited for than was counted.
AcceptsOneMore ==
    /\ su.at[0] = "accept"
    /\ su.ready > su.counted
    /\ su' = [su EXCEPT !.at[0] = "vmm_main"]

ApsAccepted ==
    /\ su.at[0] = "accept"
    /\ su.ready >= su.counted
    /\ su' = [su EXCEPT !.at[0] = "vmm_main"]

\* The SIPI is delivered; the code in low memory switches to protected mode
\* and marks the processor present.
ApAppears(c) ==
    /\ su.at[c] = "off"
    /\ su.at[0] # "wake"
    /\ su' = [su EXCEPT !.at[c] = "spin", !.present = @ \cup {c}]

ApPasses(c) ==
    /\ su.at[c] = "spin"
    /\ su.enumerated
    /\ su' = [su EXCEPT !.at[c] = "vmm_main", !.ready = @ + 1]

\* A processor whose identity is not below the number of processors has no
\* stack: it stops at a breakpoint.  The others move to their own stacks.
VmmMain(c) ==
    /\ su.at[c] = "vmm_main"
    /\ IF c >= su.num
       THEN su' = [su EXCEPT !.at[c] = "trapped"]
       ELSE su' = [su EXCEPT !.at[c] = IF c = 0 THEN "run" ELSE "released",
                             !.hw[c].cr4 = @ \cup {"OSFXSR"},
                             !.hw[c].sp = StackPointer(StacksFor(su.num), c)]

ApReleased(c) ==
    /\ su.at[c] = "released"
    /\ su.released
    /\ su' = [su EXCEPT !.at[c] = "run"]

Current(c) == Program(c)[su.step[c]]

\* What a part leaves behind in s.
Effect(s, c, part) ==
    CASE part.does = "stacks" -> [s EXCEPT !.stacks = StacksFor(s.num)]
      [] part.does = "heap" -> [s EXCEPT !.heap = StacksEnd(s.stacks)]
      [] part.does = "freed" -> [s EXCEPT !.done = @ \ {"copies"}]
      [] part.does = "load" -> [s EXCEPT !.hw[c].id = c]
      [] part.does = "cr3" -> [s EXCEPT !.hw[c].cr3 = "monitor"]
      [] part.does = "vmx" -> [s EXCEPT !.fixed = FillVmxCapabilities]
      [] part.does = "compliant" ->
            [s EXCEPT !.hw[c].cr0 = MakeCompliant(@, s.fixed.cr0),
                      !.hw[c].cr4 = MakeCompliant(@, s.fixed.cr4)]
      [] part.does = "regions" -> AllocateVmxonRegions(s)
      [] part.does = "vmcs" -> [s EXCEPT !.hostState[s.hw[c].id] = HostState(s, c)]
      [] part.does = "vmxon" -> VmcsHwVmxOn(s, c)
      [] part.does = "release" -> [s EXCEPT !.released = TRUE]
      [] part.does = "active" -> [s EXCEPT !.active = @ \cup {c}]
      [] part.does = "count" -> [s EXCEPT !.launched = @ + 1]
      [] part.does = "wait" -> [s EXCEPT !.running = TRUE]
      [] part.does = "guest" -> [s EXCEPT !.at[c] = "guest"]
      [] OTHER -> s

\* One part of the processor's program.
RunPart(c) ==
    LET part == Current(c)
        next == [su EXCEPT !.step[c] = IF @ < Len(Program(c)) THEN @ + 1 ELSE @,
                           !.done = IF c = 0 THEN @ \cup {part.does} ELSE @]
    IN /\ su.at[c] = "run"
       /\ part.does = "wait" => su.launched = su.num - 1
       /\ su' = Effect(next, c, part)

\* A processor goes round the loop it waits in: a parked application processor,
\* the boot processor waiting for the others to be counted, one that ended in
\* the dead loop, or one that runs its guest.
SuRest ==
    /\ \E c \in SuCpus : su.at[c] \in {"spin", "accept", "released", "guest", "trapped"}
    /\ UNCHANGED su

CpuComesUp(c) ==
    \/ c = 0 /\ (WakeAps \/ EnumerateAps \/ ApsAccepted)
    \/ c # 0 /\ (ApAppears(c) \/ ApPasses(c) \/ ApReleased(c))
    \/ VmmMain(c)
    \/ RunPart(c)

SuNext == (\E c \in SuCpus : CpuComesUp(c)) \/ SuRest

\* Every processor keeps executing, and the SIPI reaches every application
\* processor sooner or later.
SuFairness == \A c \in SuCpus : WF_startupVars(CpuComesUp(c))

SuSpec == SuInit /\ [][SuNext]_startupVars /\ SuFairness

---------------------------------------------------------------------------

SuTypeOK ==
    /\ su.at \in [SuCpus -> {"wake", "timeout", "accept", "off", "spin", "vmm_main", "released",
                             "run", "guest", "trapped"}]
    /\ \A c \in SuCpus : su.step[c] \in 1..Len(Program(c))
    /\ su.present \subseteq Aps /\ su.active \subseteq SuCpus
    /\ su.counted \in 0..Cardinality(Aps) /\ su.num \in 1..(Cardinality(Aps) + 1)
    /\ su.launched \in 0..(su.num - 1)
    /\ \A c \in SuCpus : su.region[c] \in 0..(su.heap + su.num) /\ su.hw[c].id \in {NoId, c}

\* A processor, early, counted or late, uses a part of the monitor only when
\* the boot processor has initialized it: the single-core initializations of
\* vmm_bsp_proc_main are complete before LAUNCH_APPLICATION_PROCS, in an order
\* that serves each of them, and the guest runs for the first time only when
\* every processor with an identity below the number of processors has VMX on
\* and its IPC state active, so that the first stop of all processors finds
\* them all.
UsesOnlyInitialized ==
    /\ \A c \in SuCpus : su.at[c] = "run" => Current(c).uses \subseteq su.done
    /\ su.running => \A c \in SuCpus : c < su.num => c \in su.active /\ su.hw[c].vmx

\* The pages a processor runs on: its stack, and its exception stacks.
OwnStackPages(c) ==
    (StackPointer(su.stacks, c) - StackSize)..(StackPointer(su.stacks, c) - 1)

ExceptionPages(c) == {ExceptionStack(su.stacks, c, n) : n \in 0..(ExtraStacks - 1)}

\* The stacks that vmm_stack_initialize lays out keep apart, from each other and
\* from the image below and the heap above them, and every processor is on the
\* one laid out for it, although each computed the address for itself.
StacksApart ==
    "heap" \in su.done =>
        \A c \in 0..(su.num - 1) :
            /\ Cardinality(ExceptionPages(c)) = ExtraStacks
            /\ OwnStackPages(c) \cap ExceptionPages(c) = {}
            /\ OwnStackPages(c) \cup ExceptionPages(c) \subseteq ImageSize..(StacksEnd(su.stacks) - 1)
            /\ \A d \in 0..(su.num - 1) : d # c =>
                   (OwnStackPages(c) \cup ExceptionPages(c))
                       \cap (OwnStackPages(d) \cup ExceptionPages(d)) = {}
            /\ su.hw[c].sp \in {NullPage, StackPointer(su.stacks, c)}

\* A processor that is in the guest leaves it again for its own stack and
\* identity and the monitor's page tables, in VMX operation in a region of its
\* own: vmcs_hw_vmx_on succeeds on every processor that was counted.
ReturnsToItself ==
    /\ \A c \in SuCpus : su.at[c] = "trapped" => c >= su.num
    /\ \A c \in SuCpus : su.at[c] = "guest" =>
           /\ su.hw[c].vmx
           /\ su.hostState[c].rsp = su.hw[c].sp
           /\ su.hostState[c].tr = c
           /\ su.hostState[c].cr3 = "monitor"
           /\ "VMXE" \in su.hostState[c].cr4 /\ "NE" \in su.hostState[c].cr0
           /\ \A d \in SuCpus : d # c /\ su.hw[d].vmx => su.region[d] # su.region[c]

\* However late a processor appears, it finds what it uses initialized, runs on
\* a stack of its own, and enters the guest with a host state that brings it
\* back to the monitor.
InitializedBeforeUse == UsesOnlyInitialized /\ StacksApart /\ ReturnsToItself

\* The boot processor and every processor below the number it counted run the
\* guest.
GuestRunning == su.at[0] = "guest" /\ \A c \in Aps : c < su.num => su.at[c] = "guest"
================================================================================
