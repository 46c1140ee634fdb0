------------------------------ MODULE GuestCpu ------------------------------
(***************************************************************************)
(* One virtual CPU between its exits and its entries: the control         *)
(* registers the guest believes it has, the ones the hardware has, and the *)
(* exits the monitor asks for (guest/guest_cpu/guest_cpu_control.c,        *)
(* guest_cpu_access.c, guest_cpu_switch.c, guest_cpu.c,                    *)
(* unrestricted_guest.c, vmexit/vmexit_cr_access.c, vmexit_msr.c,          *)
(* vmexit_init.c, vmexit_sipi.c).                                          *)
(*                                                                         *)
(* A register is the set of its bits that are 1, of the bits that the code *)
(* tells apart: PE, TS, NE (a bit VMX fixes to 1), CD and PG of CR0, PSE,  *)
(* PAE and VMXE (fixed to 1) of CR4, LME and LMA of EFER.  CR3 is one of   *)
(* Cr3s, or FlatCr3 when it leads to the monitor's flat page tables.  A    *)
(* bit of a guest/host mask makes the guest read the shadow's bit, and a   *)
(* write of another value exits.  The guest's memory (EPT, the PDPTEs) is  *)
(* in module GuestMemory.                                                  *)
(***************************************************************************)
EXTENDS Integers, FiniteSets

CONSTANTS
    CpuConfigs,  \* [ug |-> unrestricted guests, cd |-> CR0.CD is virtualized, active |-> at start]
    GuestCr0s,   \* the values the guest moves to CR0
    GuestCr4s,   \* and to CR4
    Cr3s,        \* and to CR3
    MaxRequests  \* bound: requests outstanding at once

ASSUME GuestCpuAssumption == MaxRequests \in Nat /\ 0 \in Cr3s

VARIABLE vcpu

NoCr3 == -1        \* INVALID_CR3_SAVED_VALUE
FlatCr3 == -2
RequestKinds == {"ts", "pae", "cr3", "pf"}

(* vmcs_hw_make_compliant_cr0 and _cr4, with the bits fixed to 1: PE and   *)
(* PG are among them only without unrestricted guests.                     *)
FixedCr0(g) == {"NE"} \cup (IF g.ug THEN {} ELSE {"PE", "PG"})
FixedCr4 == {"VMXE"}
CompliantCr0(g, v) == v \cup FixedCr0(g)
CompliantCr4(v) == v \cup FixedCr4

(* set_minimal_cr0_reg_mask, set_minimal_cr4_reg_mask *)
MinimalCr0(g) == FixedCr0(g) \cup (IF g.cd THEN {"CD"} ELSE {})
MinimalCr4(g) == FixedCr4 \cup (IF g.ug THEN {} ELSE {"PAE"})

(* gcpu_get_guest_visible_control_reg *)
ReadAs(real, shadow, mask) == (real \ mask) \cup (shadow \cap mask)
VisibleCr0(g) == ReadAs(g.cr0, g.shadow0, g.mask0)
VisibleCr4(g) == ReadAs(g.cr4, g.shadow4, g.mask4)
VisibleCr3(g) == IF g.cr3saved = NoCr3 THEN g.cr3 ELSE g.cr3saved

(* gcpu_set_control_reg, gcpu_set_guest_visible_control_reg *)
SetCr0(g, v) == [g EXCEPT !.cr0 = CompliantCr0(g, v)]
SetCr4(g, v) == [g EXCEPT !.cr4 = CompliantCr4(v)]
SetReal(g, r, v) ==
    CASE r = "cr0" -> SetCr0(g, v) [] r = "cr4" -> SetCr4(g, v) [] r = "cr3" -> [g EXCEPT !.cr3 = v]
SetVisible(g, r, v) ==
    CASE r = "cr0" -> [g EXCEPT !.shadow0 = v, !.important = TRUE]
      [] r = "cr4" -> [g EXCEPT !.shadow4 = v]
      [] r = "cr3" -> [g EXCEPT !.cr3saved = v]
GetVisible(g, r) ==
    CASE r = "cr0" -> VisibleCr0(g) [] r = "cr4" -> VisibleCr4(g) [] r = "cr3" -> VisibleCr3(g)

(* gcpu_update_control_counters: a bit is requested while its counter is not 0. *)
RequestsOf(g) == {k \in RequestKinds : g.count[k] > 0}
Cr3Virtualized(g) == "cr3" \in RequestsOf(g)

(* What the bits come to in the VMCS (calculate_cr0_reg_mask and its       *)
(* like): the monitor's minimal settings and the requests.  The minimal    *)
(* controls (set_minimal_pin_ctrls to set_minimal_exceptions_map) make an  *)
(* NMI exit, and neither an access to CR3 nor a page fault.                *)
MinimalExits == {"nmi"}
MaskCr0(g) == MinimalCr0(g) \cup (IF "ts" \in RequestsOf(g) THEN {"TS"} ELSE {})
MaskCr4(g) == MinimalCr4(g) \cup (IF "pae" \in RequestsOf(g) THEN {"PAE"} ELSE {})
ExitsOf(g) == MinimalExits \cup (RequestsOf(g) \cap {"cr3", "pf"})

(* request_vmexit_on_cr0: the mask is written, and the shadow of every     *)
(* masked bit that is not the monitor's own gets the real value.           *)
NoShadowRequestOnCr0(g) == [g EXCEPT !.mask0 = MaskCr0(g)]

RequestOnCr0(g) ==
    LET own == MaskCr0(g) \ MinimalCr0(g)
    IN  [g EXCEPT !.mask0 = MaskCr0(g), !.shadow0 = (@ \ own) \cup (g.cr0 \cap own)]

(* request_vmexit_on_cr4 *)
RequestOnCr4(g) ==
    LET own == MaskCr4(g) \ MinimalCr4(g)
    IN  [g EXCEPT !.mask4 = MaskCr4(g), !.shadow4 = (@ \ own) \cup (g.cr4 \cap own)]

(* request_vmexit_on_proc_ctrls and request_vmexit_on_exceptions, whose    *)
(* page fault mask and match make every fault exit, or none.               *)
RequestOnControls(g) == [g EXCEPT !.exits = ExitsOf(g)]

(* gcpu_apply_all *)
ApplyAll(g) == RequestOnCr4(RequestOnCr0(RequestOnControls(g)))

(* ept_cr0_update: EPT follows paging without unrestricted guests, and     *)
(* with them IA32_EFER.LMA and the entry control follow LME and PG.        *)
EptCr0Update(g, v) ==
    LET lma == g.lme /\ "PG" \in v
    IN  IF g.ug THEN [g EXCEPT !.lma = lma, !.ia32e = lma, !.important = TRUE]
        ELSE IF ("PG" \in v) # g.ept THEN ApplyAll([g EXCEPT !.ept = "PG" \in v]) ELSE g

(* vmexit_cr_access_is_gpf0; the guest's PDPTEs are valid in this model. *)
IsGpf0(g) ==
    \/ "PG" \in VisibleCr0(g) /\ "PE" \notin VisibleCr0(g)
    \/ "VMXE" \in VisibleCr4(g)
    \/ g.lme /\ "PAE" \notin VisibleCr4(g)

Believes(g, r, v) ==
    CASE r = "cr0" -> [g EXCEPT !.wrote.cr0 = v]
      [] r = "cr4" -> [g EXCEPT !.wrote.cr4 = v]
      [] r = "cr3" -> [g EXCEPT !.wrote.cr3 = v]

(* cr_guest_write and cr_guest_update: the visible register first, then    *)
(* the check, which puts it back, then the real register and the event.    *)
CrGuestUpdate(g, r, visible, real) ==
    LET seen == SetVisible(g, r, visible)
        set == SetReal(seen, r, real)
    IN  IF IsGpf0(seen) THEN SetVisible(seen, r, GetVisible(g, r))
        ELSE Believes(IF r = "cr0" THEN EptCr0Update(set, visible) ELSE set, r, visible)

CrGuestWrite(g, r, v) == CrGuestUpdate(g, r, v, v)

(* gcpu_vmexit_start: the CR3 kept in memory is void unless CR3 exits. *)
VmexitStart(g) ==
    [g EXCEPT !.at = "vmm",
              !.cr3saved = IF g.flat = 0 /\ ~Cr3Virtualized(g) THEN NoCr3 ELSE @]

(* gcpu_set_msr_reg for EFER, outside unrestricted mode LMA is LME. *)
SetEfer(g, lme) ==
    IF g.ugOn THEN [g EXCEPT !.lme = lme, !.lma = FALSE, !.important = TRUE]
    ELSE [g EXCEPT !.lme = lme, !.lma = lme, !.ia32e = lme, !.important = TRUE]

(* gcpu_set_activity_state *)
SetActive(g, a) == [g EXCEPT !.active = a, !.important = @ \/ a # g.cached]

(* gcpu_enforce_settings_on_hardware for GCPU_TEMP_EXIT_ON_PF_AND_CR3 and  *)
(* for GCPU_TEMP_RESTORE_PF_AND_CR3                                        *)
ForceExits(g) == [g EXCEPT !.exits = @ \cup {"cr3", "pf"}]
RestoreExits(g) == [g EXCEPT !.exits = ExitsOf(g)]

(* gcpu_install_flat_memory *)
InstallFlat(g, bits) ==
    [g EXCEPT !.cr3saved = IF g.flat = 0 /\ @ = NoCr3 THEN g.cr3 ELSE @,
              !.flat = bits, !.enforced = @ \cup {"flat"}]

(* gcpu_destroy_flat_memory, with gcpu_remove_hw_enforcement *)
DestroyFlat(g) ==
    [RestoreExits(SetCr4(g, VisibleCr4(g))) EXCEPT
       !.cr3 = g.cr3saved, !.enforced = @ \ {"flat"}, !.flat = 0]

(* unrestricted_guest_enable *)
UnrestrictedGuestEnable(g) ==
    IF g.ug /\ ~g.ugOn THEN [g EXCEPT !.ugOn = TRUE, !.ept = TRUE] ELSE g

(* gcpu_decide_on_resume_actions and gcpu_perform_resume_actions.  Without *)
(* unrestricted guests real mode would be the emulator's, which is not     *)
(* part of the build.                                                      *)
FlatActionOnce(g) ==
    IF g.ug THEN g
    ELSE IF "PG" \in VisibleCr0(g) THEN IF g.flat # 0 THEN DestroyFlat(g) ELSE g
    ELSE IF g.flat = 0 THEN InstallFlat(g, IF g.lme THEN 64 ELSE 32) ELSE g

FlatAction(g) ==
    LET bits == IF g.lme THEN 64 ELSE 32
    IN  IF g.ug THEN g
        ELSE IF "PG" \in VisibleCr0(g) THEN IF g.flat # 0 THEN DestroyFlat(g) ELSE g
        ELSE IF g.flat # bits THEN InstallFlat(g, bits) ELSE g

CacheDisabledSupport(g) ==
    IF ~g.cd THEN g
    ELSE [g EXCEPT !.enforced = IF "CD" \in VisibleCr0(g) THEN @ \cup {"cd"} ELSE @ \ {"cd"}]

ResumeActions(g) ==
    LET cached == IF g.cd /\ "CD" \in VisibleCr0(g) THEN SetCr0(g, g.cr0 \ {"CD"}) ELSE g
        u == UnrestrictedGuestEnable(cached)
    IN  IF ~g.cached THEN g
        ELSE IF "PE" \notin VisibleCr0(g) THEN u
        ELSE CacheDisabledSupport(FlatAction(u))

(* The part of gcpu_resume that restores CR3. *)
RestoreCr3(g) ==
    IF g.flat = 0 /\ ~Cr3Virtualized(g) /\ g.cr3saved # NoCr3 THEN [g EXCEPT !.cr3 = g.cr3saved] ELSE g

(* gcpu_apply_hw_enforcements and gcpu_enforce_flat_memory_setup *)
EnforceFlat(g) ==
    IF "flat" \in g.enforced
    THEN [ForceExits(SetCr0(SetCr4(g, g.cr4 \cup {"PAE", "PSE"}), g.cr0 \cup {"PG"})) EXCEPT
            !.cr3 = FlatCr3]
    ELSE g

ApplyHwEnforcements(g) ==
    LET f == EnforceFlat(g)
    IN  IF "cd" \in g.enforced THEN [f EXCEPT !.cr0 = @ \ {"CD"}] ELSE f

(* The checks of a VM entry and of MOV that concern these registers. *)
HwLegal(cr0, cr4, lma) ==
    ("PG" \in cr0 => "PE" \in cr0) /\ (lma => "PG" \in cr0 /\ "PAE" \in cr4)

(* gcpu_process_activity_state_change and gcpu_resume *)
GcpuResumed(g) ==
    LET changed == IF g.important THEN ResumeActions([g EXCEPT !.cached = g.active]) ELSE g
        ready == ApplyHwEnforcements(RestoreCr3([changed EXCEPT !.important = FALSE]))
    IN  [ready EXCEPT !.at = IF ~HwLegal(ready.cr0, ready.cr4, ready.lma) THEN "failed"
                             ELSE IF ready.active THEN "guest" ELSE "sipi"]

(* gcpu_allocate and setup_default_state: wait-for-SIPI, registers all 0. *)
DefaultState(c) ==
    LET g == [ug |-> c.ug, cd |-> c.cd, at |-> "vmm",
              cr0 |-> {}, cr4 |-> {}, cr3 |-> 0, lme |-> FALSE, lma |-> FALSE, ia32e |-> FALSE,
              shadow0 |-> {}, shadow4 |-> {}, mask0 |-> {}, mask4 |-> {}, cr3saved |-> 0,
              count |-> [k \in RequestKinds |-> 0], exits |-> {}, ugOn |-> FALSE, ept |-> FALSE,
              flat |-> 0, enforced |-> {}, important |-> TRUE, active |-> FALSE, cached |-> TRUE,
              wrote |-> [cr0 |-> {}, cr4 |-> {}, cr3 |-> 0, lme |-> FALSE]]
    IN  SetCr4(SetCr0(ApplyAll(g), {}), {})

(* gcpu_initialize: the boot processor starts active, in protected mode    *)
(* without paging; the others have no startup state.                       *)
GuestCpuInit ==
    \E c \in CpuConfigs :
      LET cr0 == {"PE", "NE"}
          g == SetVisible(SetCr0(DefaultState(c), cr0), "cr0", cr0)
      IN  vcpu = IF c.active THEN SetActive([g EXCEPT !.wrote.cr0 = cr0], TRUE) ELSE DefaultState(c)

GuestRuns == vcpu.at = "guest"

(* MOV to CR0.  With no difference in a masked bit the processor writes    *)
(* the others itself, and keeps LMA up to date.                            *)
MovToCr0(v) ==
    LET differ == {b \in vcpu.mask0 : (b \in v) # (b \in vcpu.shadow0)}
        real == (v \ vcpu.mask0) \cup (vcpu.cr0 \cap vcpu.mask0)
        lma == IF vcpu.ug THEN vcpu.lme /\ "PG" \in v ELSE vcpu.lma
    IN  /\ GuestRuns
        /\ \/ /\ differ # {}
              /\ vcpu' = CrGuestWrite(VmexitStart(vcpu), "cr0", v)
           \/ /\ differ = {} /\ HwLegal(real, vcpu.cr4, lma)
              /\ vcpu' = [Believes(vcpu, "cr0", v) EXCEPT !.cr0 = real, !.lma = lma, !.ia32e = lma]

MovToCr4(v) ==
    LET differ == {b \in vcpu.mask4 : (b \in v) # (b \in vcpu.shadow4)}
        real == (v \ vcpu.mask4) \cup (vcpu.cr4 \cap vcpu.mask4)
    IN  /\ GuestRuns
        /\ \/ /\ differ # {}
              /\ vcpu' = CrGuestWrite(VmexitStart(vcpu), "cr4", v)
           \/ /\ differ = {} /\ HwLegal(vcpu.cr0, real, vcpu.lma)
              /\ vcpu' = [Believes(vcpu, "cr4", v) EXCEPT !.cr4 = real]

MovToCr3(v) ==
    /\ GuestRuns
    /\ vcpu' = IF "cr3" \in vcpu.exits THEN CrGuestWrite(VmexitStart(vcpu), "cr3", v)
               ELSE Believes([vcpu EXCEPT !.cr3 = v], "cr3", v)

(* CLTS, and LMSW of the value SMSW gave with TS changed: the bits of      *)
(* bits_to_update are assigned in the visible and in the real register.    *)
SetTs(ts) ==
    LET v == IF ts THEN VisibleCr0(vcpu) \cup {"TS"} ELSE VisibleCr0(vcpu) \ {"TS"}
        e == VmexitStart(vcpu)
        real == IF ts THEN e.cr0 \cup {"TS"} ELSE e.cr0 \ {"TS"}
    IN  /\ GuestRuns
        /\ vcpu' = IF "TS" \in vcpu.mask0
                   THEN IF v = VisibleCr0(vcpu) THEN vcpu ELSE CrGuestUpdate(e, "cr0", v, real)
                   ELSE Believes([vcpu EXCEPT !.cr0 = real], "cr0", v)

(* A write of EFER.LME, while paging is off: msr_efer_write_handler without *)
(* unrestricted guests, otherwise no exit.                                 *)
WriteEfer(lme) ==
    /\ GuestRuns /\ "PG" \notin vcpu.wrote.cr0
    /\ vcpu' = [(IF vcpu.ug THEN [vcpu EXCEPT !.lme = lme] ELSE SetEfer(VmexitStart(vcpu), lme))
                  EXCEPT !.wrote.lme = lme]

(* Any other exit, in whose handler an add-on may ask for exits. *)
OtherExit == GuestRuns /\ vcpu' = VmexitStart(vcpu)

(* vmm_set_vmcs_control_state with a mask, one bit (the CR3 pair) at a time *)
RequestOn(g, k) ==
    CASE k = "ts" -> RequestOnCr0(g) [] k = "pae" -> RequestOnCr4(g)
      [] k = "cr3" -> [g EXCEPT !.exits = (@ \ {"cr3"}) \cup (RequestsOf(g) \cap {"cr3"})]
      [] k = "pf" -> [g EXCEPT !.exits = (@ \ {"pf"}) \cup (RequestsOf(g) \cap {"pf"})]

MayRequest ==
    /\ vcpu.at = "vmm"
    /\ vcpu.count["ts"] + vcpu.count["pae"] + vcpu.count["cr3"] + vcpu.count["pf"] < MaxRequests

RequestExit(k) ==
    /\ MayRequest
    /\ vcpu' = RequestOn([vcpu EXCEPT !.count[k] = @ + 1], k)

ReleaseExit(k) ==
    /\ vcpu.at = "vmm" /\ vcpu.count[k] > 0
    /\ vcpu' = RequestOn([vcpu EXCEPT !.count[k] = @ - 1], k)

(* gcpu_control_setup: the counters, then gcpu_apply_all. *)
ControlSetup(k) ==
    /\ MayRequest
    /\ vcpu' = ApplyAll([vcpu EXCEPT !.count[k] = @ + 1])

(* vmexit_init_event, on an application processor *)
InitSignal == GuestRuns /\ vcpu' = SetActive(VmexitStart(vcpu), FALSE)

(* vmexit_sipi_event: the registers as after a reset. *)
SipiSignal ==
    LET e == VmexitStart(vcpu)
        c0 == SetCr0(SetVisible(e, "cr0", {"CD"}), {"CD"})
        c3 == [c0 EXCEPT !.cr3saved = 0, !.cr3 = 0]
        c4 == SetCr4(SetVisible(c3, "cr4", {}), {})
        f == SetEfer(c4, FALSE)
    IN  /\ vcpu.at = "sipi"
        /\ vcpu' = [SetActive(f, TRUE) EXCEPT
                      !.ia32e = f.lma,
                      !.wrote = [cr0 |-> {"CD"}, cr4 |-> {}, cr3 |-> 0, lme |-> FALSE]]

GcpuResume == vcpu.at = "vmm" /\ vcpu' = GcpuResumed(vcpu)

(* A failed entry is the end of the CPU. *)
GuestCpuRest == vcpu.at = "failed" /\ UNCHANGED vcpu

GuestCpuNext ==
    \/ \E v \in GuestCr0s : MovToCr0(v)
    \/ \E v \in GuestCr4s : MovToCr4(v)
    \/ \E v \in Cr3s : MovToCr3(v)
    \/ \E b \in BOOLEAN : SetTs(b) \/ WriteEfer(b)
    \/ \E k \in RequestKinds : RequestExit(k) \/ ReleaseExit(k) \/ ControlSetup(k)
    \/ OtherExit \/ InitSignal \/ SipiSignal \/ GcpuResume \/ GuestCpuRest

-----------------------------------------------------------------------------

GuestCpuTypeOK ==
    /\ vcpu.at \in {"guest", "vmm", "sipi", "failed"}
    /\ vcpu.cr3 \in Cr3s \cup {FlatCr3} /\ vcpu.cr3saved \in Cr3s \cup {NoCr3}
    /\ vcpu.flat \in {0, 32, 64} /\ vcpu.exits \subseteq {"nmi", "cr3", "pf"}

(* The guest reads what it last wrote: whatever bits the monitor forces on  *)
(* the hardware, masks, hands over to an add-on or takes back, and whatever *)
(* page tables it runs the guest on, CR0, CR3, EFER.LME and CR4 without PSE *)
(* read as the value the guest's last successful write gave them.  PSE is   *)
(* left out: the flat page tables set it and no mask hides it.              *)
GuestReadsItsWrites ==
    GuestRuns =>
      /\ VisibleCr0(vcpu) = vcpu.wrote.cr0
      /\ VisibleCr4(vcpu) \ {"PSE"} = vcpu.wrote.cr4 \ {"PSE"}
      /\ (IF "cr3" \in vcpu.exits THEN VisibleCr3(vcpu) ELSE vcpu.cr3) = vcpu.wrote.cr3
      /\ vcpu.lme = vcpu.wrote.lme

(* What the monitor needs is in force whenever the guest runs: the fixed    *)
(* bits are set and a virtualized CD is clear; a guest in protected mode    *)
(* without paging runs, without unrestricted guests, on flat tables of its  *)
(* width with CR3 accesses and page faults exiting; otherwise exactly the   *)
(* requested exits are on; the entry control agrees with LMA.               *)
MonitorInForce ==
    GuestRuns =>
      /\ FixedCr0(vcpu) \subseteq vcpu.cr0 /\ FixedCr4 \subseteq vcpu.cr4
      /\ vcpu.cd => "CD" \notin vcpu.cr0
      /\ ~vcpu.ug /\ "PE" \in vcpu.wrote.cr0 =>
           vcpu.flat = (IF "PG" \in vcpu.wrote.cr0 THEN 0 ELSE IF vcpu.lme THEN 64 ELSE 32)
      /\ vcpu.flat # 0 => /\ vcpu.cr3 = FlatCr3 /\ {"cr3", "pf"} \subseteq vcpu.exits
                          /\ "PG" \in vcpu.cr0 /\ "PAE" \in vcpu.cr4
      /\ vcpu.flat = 0 => vcpu.exits = ExitsOf(vcpu)
      /\ vcpu.ia32e = vcpu.lma
=============================================================================
