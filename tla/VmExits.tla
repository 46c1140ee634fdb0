------------------------------ MODULE VmExits ------------------------------
(***************************************************************************)
(* From a VM exit of one guest CPU to its next VM entry: the tables of I/O *)
(* port, MSR and VMCALL handlers, the handler of each exit reason, and the *)
(* event that the entry injects (vmexit/vmexit.c, vmexit_msr.c,            *)
(* vmexit_io.c, vmcall.c, vmexit_cpuid.c, vmexit_interrupt_exception_nmi.c *)
(* and the small handlers beside them, guest/guest_cpu/                    *)
(* guest_cpu_vmenter_event.c, the end of gcpu_resume).                     *)
(*                                                                         *)
(* An event is a type and a vector.  Registers and memory are left out:    *)
(* what counts is whether the instruction was skipped, which event enters  *)
(* the guest and what stays blocked.  Control registers are in GuestCpu,   *)
(* task switches in TaskSwitch, the processing of NMIs between CPUs in Ipc.*)
(***************************************************************************)
EXTENDS Integers, FiniteSets, Sequences, TaskSwitch

CONSTANTS
    Unrestricted,  \* is_unrestricted_guest_supported
    Ports,         \* I/O ports handlers are registered for
    IoSlots,       \* IO_VMEXIT_MAX_COUNT
    CallIds,       \* VMCALL ids
    CallSlots,     \* MAX_ACTIVE_VMCALLS_PER_GUEST
    MaxSetups      \* bound: calls on the tables before the guest starts

(* "free" marks a descriptor without a handler. *)
ASSUME VmExitsAssumption ==
    /\ IoSlots \in Nat /\ CallSlots \in Nat /\ MaxSetups \in Nat
    /\ "free" \notin Ports

VARIABLE vx

Ev(type, vec) == [type |-> type, vec |-> vec]
NoEvent == Ev("none", "none")
Fault(vec) == Ev("fault", vec)
NmiEvent == Ev("nmi", "NMI")
Irq == Ev("irq", "IRQ")
Interrupts == {NmiEvent, Irq}
Faults == {Fault(v) : v \in {"PF", "GP", "UD", "DB", "DF"}}

(* vector_to_exception_class and idt_resolution_table *)
ClassOf(vec) ==
    CASE vec = "PF" -> "page fault"
      [] vec \in {"GP", "TS", "NP", "SS"} -> "contributory"
      [] vec = "DF" -> "triple"
      [] OTHER -> "benign"

Resolution(first, second) ==
    IF "triple" \in {first, second} THEN "tear down"
    ELSE IF second = "contributory" /\ first # "benign" THEN "double"
    ELSE IF second = "page fault" /\ first = "page fault" THEN "double"
    ELSE "second"

(* gcpu_inject_event: what keeps an event out, and what becomes of it: an  *)
(* NMI waits for its window, another event is dropped, because             *)
(* gcpu_temp_exceptions_setup asks for no exit.                            *)
InjectionAllowed(s, e) ==
    /\ s.idt = NoEvent
    /\ CASE e.type = "irq" -> s.block \cap {"sti", "movss"} = {}
         [] e.type = "nmi" -> s.block \cap {"nmi", "movss"} = {}
         [] OTHER -> ~("movss" \in s.block /\ e.vec \in {"BP", "DB"})
NotInjected(s, e) == IF e.type = "nmi" THEN [s EXCEPT !.window = TRUE] ELSE s
InjectEvent(s, e) == IF InjectionAllowed(s, e) THEN [s EXCEPT !.entry = e] ELSE NotInjected(s, e)

InjectGp0(s) == InjectEvent(s, Fault("GP"))
InjectDoubleFault(s) == InjectEvent(s, Fault("DF"))
InjectInvalidOpcode(s) == InjectEvent(s, Fault("UD"))
UndefinedOpcode(s) == InjectEvent(s, Fault("UD"))

(* gcpu_inject_nmi with nmi_propagate_nmi: the platform NMI is cleared     *)
(* when it was injected.                                                   *)
InjectNmi(s) == [InjectEvent(s, NmiEvent) EXCEPT !.nmi = ~InjectionAllowed(s, NmiEvent)]

(* gcpu_skip_guest_instruction *)
SkipInstruction(s) == [s EXCEPT !.skipped = @ + 1]

BlockNmi(s) == [s EXCEPT !.block = @ \cup {"nmi"}]

(* gcpu_reinject_vmexit_exception, gcpu_reinject_idt_exception *)
ReinjectVmexit(s) == InjectEvent(s, Fault(s.cause.what))
ReinjectIdt(s) == InjectEvent([s EXCEPT !.idt = NoEvent], s.idt)

(* gcpu_vmexit_exception_resolve: the event whose delivery the exception   *)
(* cut short goes in again, or the NMIs that a faulting IRET unblocked are *)
(* blocked again.                                                          *)
ExceptionResolve(s) ==
    IF s.idt # NoEvent THEN ReinjectIdt(s)
    ELSE IF s.cause.flag /\ s.cause.what # "DF" THEN BlockNmi(s) ELSE s

(* gcpu_vmexit_exception_reflect *)
ExceptionReflect(s) ==
    LET t == [s EXCEPT !.idt = NoEvent]
        act == IF s.idt = NoEvent THEN "second" ELSE Resolution(ClassOf(s.idt.vec), ClassOf(s.cause.what))
    IN  CASE act = "second" -> ReinjectVmexit(t)
          [] act = "double" -> InjectDoubleFault(t)
          [] act = "tear down" -> t

(* check_and_set_nmi_blocking, and the same in ept_violation_vmexit *)
IgnoreUnblocking(s) == s
CheckNmiBlocking(s) ==
    IF s.idt = NoEvent /\ s.cause.flag /\ s.cause.what # "DF" THEN BlockNmi(s) ELSE s
EptNmiBlocking(s) == IF s.cause.flag /\ s.idt = NoEvent THEN BlockNmi(s) ELSE s

(* vmdb_exception_handler resolves a debug exception. *)
DebugException(s) == ExceptionResolve(s)
(* page_fault: no handler of EVENT_GCPU_PAGE_FAULT is registered. *)
PageFaultProcessed == FALSE

(* vmexit_software_interrupt_exception_nmi: the state, and whether the     *)
(* exit was handled                                                        *)
HandleException(s) ==
    LET t == CheckNmiBlocking(s)
    IN  CASE s.cause.what = "MC" -> <<t, TRUE>>
          [] s.cause.what = "DB" -> <<DebugException(t), TRUE>>
          [] s.cause.what = "PF" /\ PageFaultProcessed -> <<ExceptionResolve(t), TRUE>>
          [] OTHER -> <<t, FALSE>>
(* vmexit_bottom_up_common_handler gives the guest what was not handled. *)
BottomUp(r) == IF r[2] THEN r[1] ELSE ExceptionReflect(r[1])

(* nmi_vmexit_handler and nmi_window_vmexit_handler; the flag says that    *)
(* ipc_nmi_vmexit_handler found a platform NMI.                            *)
HandleNmi(s) == IF s.cause.flag \/ s.nmi THEN InjectNmi(s) ELSE s
HandleNmiWindow(s) ==
    LET t == [s EXCEPT !.window = FALSE]
    IN  IF s.nmi THEN InjectNmi(t) ELSE t

(* vmexit_ept_violation; vmexit_ept_misconfiguration only reports. *)
HandleEptViolation(s) == EptNmiBlocking(s)

-----------------------------------------------------------------------------
(* MSRs.  The ids stand for the ranges the code tells apart: "outside" and *)
(* "hyperv" are in neither range of the bitmap, so that they always exit,  *)
(* "resident" and "plain" are in a range and have no handler.              *)
MsrIds == {"vmx", "efer", "apic", "feature", "misc", "mtrr", "resident", "plain", "outside", "hyperv"}
Outside == {"outside", "hyperv"}
Accesses == {"r", "w"}
NoMsrHandlers == [a \in Accesses |-> "null"]

(* msr_vmexit_bits_config, msr_descriptor_lookup, msr_vmexit_handler_      *)
(* register and _unregister: a descriptor exists while one handler does.   *)
BitsConfig(t, id, as, set) ==
    IF set THEN [t EXCEPT !.bits = @ \cup {<<id, a>> : a \in as}]
    ELSE [t EXCEPT !.bits = @ \ {<<id, a>> : a \in as}]
MsrRegister(t, id, as, h) ==
    IF id \in Outside THEN t
    ELSE [BitsConfig(t, id, as, TRUE) EXCEPT !.of[id] = [a \in Accesses |-> IF a \in as THEN h ELSE @[a]]]
MsrUnregister(t, id, as) ==
    IF t.of[id] = NoMsrHandlers THEN t
    ELSE [BitsConfig(t, id, as, FALSE) EXCEPT !.of[id] = [a \in Accesses |-> IF a \in as THEN "null" ELSE @[a]]]

(* msr_guest_access_inhibit, msr_vmexit_register_mtrr_accesses_handler and *)
(* msr_vmexit_guest_setup                                                  *)
Inhibit(t, id) == MsrRegister(t, id, Accesses, "unsupported")
RegisterMtrrs(t) == MsrRegister(t, "mtrr", {"w"}, "write")
EmptyMsrs == [bits |-> {}, of |-> [id \in MsrIds |-> NoMsrHandlers]]
MsrGuestSetup ==
    LET vmx == Inhibit(EmptyMsrs, "vmx")
        efer == IF Unrestricted THEN vmx ELSE MsrRegister(vmx, "efer", Accesses, "write")
        apic == MsrRegister(efer, "apic", {"w"}, "apic")
        feature == MsrRegister(apic, "feature", Accesses, "feature")
    IN  RegisterMtrrs(MsrRegister(feature, "misc", {"w"}, "write"))

MsrExits(s, id, a) == id \in Outside \/ <<id, a>> \in s.msrs.bits

(* The handlers: the state, and whether the instruction was executed.      *)
(* "write" stands for the EFER, MTRR and MISC_ENABLE handlers, which do    *)
(* what was asked; the flag is the outcome of the hardware's access, or of *)
(* validate_APIC_BASE_change.  msr_vmcs_resident_default_handler finds no  *)
(* MSR that exits without a handler: those are outside the bitmap's ranges.*)
UnsupportedHandler(s) == <<InjectGp0(s), FALSE>>
FeatureControlHandler(s) == <<InjectGp0(s), TRUE>>
ApicBaseHandler(s) == IF s.cause.flag THEN <<s, TRUE>> ELSE <<InjectGp0(s), FALSE>>
ResidentFound(s) == s.cause.what = "resident"
TrialAccess(s) == IF s.cause.flag THEN <<s, TRUE>> ELSE <<InjectGp0(s), FALSE>>

RunMsrHandler(s, h) ==
    CASE h = "unsupported" -> UnsupportedHandler(s)
      [] h = "feature" -> FeatureControlHandler(s)
      [] h = "apic" -> ApicBaseHandler(s)
      [] h = "write" -> <<s, TRUE>>
      [] h = "null" -> IF ResidentFound(s) THEN <<s, TRUE>> ELSE TrialAccess(s)

(* msr_common_vmexit_handler under vmexit_msr_read and vmexit_msr_write *)
MsrSkipsAlways(s, a) ==
    LET h == s.msrs.of[s.cause.what][a]
    IN  SkipInstruction(RunMsrHandler([s EXCEPT !.ran = h], h)[1])
MsrCommon(s, a) ==
    LET h == s.msrs.of[s.cause.what][a]
        r == RunMsrHandler([s EXCEPT !.ran = h], h)
    IN  IF r[2] THEN SkipInstruction(r[1]) ELSE r[1]
MsrRead(s) == IF s.cause.what = "hyperv" THEN InjectGp0(s) ELSE MsrCommon(s, "r")
MsrWrite(s) == IF s.cause.what = "hyperv" THEN InjectGp0(s) ELSE MsrCommon(s, "w")

-----------------------------------------------------------------------------
(* I/O ports: io_port_lookup, io_free_port_lookup and the calls on the     *)
(* table.  A port whose bit is set and that has no descriptor is blocked.  *)
NoPort == "free"
SlotOf(t, p) == {i \in 1 .. IoSlots : t.slots[i] = p}
FreeSlots(t) == SlotOf(t, NoPort)
IoRegister(t, p) ==
    LET at == IF SlotOf(t, p) # {} THEN SlotOf(t, p) ELSE FreeSlots(t)
        i == CHOOSE i \in at : \A j \in at : i <= j
    IN  IF at = {} THEN t ELSE [t EXCEPT !.slots[i] = p, !.bits = @ \cup {p}]
IoUnregister(t, p) ==
    IF SlotOf(t, p) = {} THEN t
    ELSE [slots |-> [i \in 1 .. IoSlots |-> IF t.slots[i] = p THEN NoPort ELSE t.slots[i]],
          bits |-> t.bits \ {p}]
IoBlockPort(t, p) == LET u == IoUnregister(t, p) IN [u EXCEPT !.bits = @ \cup {p}]
EmptyIo == [slots |-> [i \in 1 .. IoSlots |-> NoPort], bits |-> {}]

(* io_vmexit_handler: the flag is what the handler returns; the blocking   *)
(* handler returns TRUE.                                                   *)
BlockingHandler(s) == SkipInstruction(s)
HandleIo(s) ==
    LET h == IF SlotOf(s.io, s.cause.what) = {} THEN "blocking" ELSE "port"
        t == [s EXCEPT !.ran = h]
    IN  IF h = "blocking" THEN BlockingHandler(t) ELSE IF s.cause.flag THEN SkipInstruction(t) ELSE t

(* io_access_native_fault: INS goes through ES and RDI, OUTS through the   *)
(* segment of the instruction and RSI.  The alignment check ends in a      *)
(* VMM_DEADLOOP, which is compiled out.  No handler runs after a fault.    *)
IoNativeFault(u) ==
    IF u.dir = "in" THEN u.bad = "es" \/ (u.long /\ u.bad = "rdi")
    ELSE u.bad = "seg" \/ (u.long /\ u.bad = "rsi")
HandleStringIo(s) == IF IoNativeFault(s.cause.use) THEN InjectGp0(s) ELSE HandleIo(s)

-----------------------------------------------------------------------------
(* VMCALLs: vmcall_register (a different handler for an id that has one    *)
(* takes a further entry, the assertion being compiled out),               *)
(* find_guest_vmcall_entry and vmcall_common_handler.                      *)
CallEntry(t, id) ==
    LET at == {i \in DOMAIN t : t[i][1] = id}
    IN  IF at = {} THEN 0 ELSE CHOOSE i \in at : \A j \in at : i <= j
VmcallRegister(t, id, h) ==
    IF CallEntry(t, id) # 0 /\ t[CallEntry(t, id)][2] = h THEN t ELSE Append(t, <<id, h>>)
VmcallFits(t, id, h) == Len(VmcallRegister(t, id, h)) <= CallSlots

VmcallHandler(s) ==
    LET i == CallEntry(s.calls, s.cause.what)
        t == [s EXCEPT !.ran = IF i = 0 THEN "unimplemented" ELSE s.calls[i][2]]
    IN  IF i # 0 /\ s.cause.flag THEN SkipInstruction(t) ELSE t

-----------------------------------------------------------------------------
(* vmexit_cpuid_instruction, vmexit_invd, vmexit_invlpg under              *)
(* vmexit_bottom_up_all_vmms_skip_instruction                              *)
HandleCpuid(s) == SkipInstruction(s)
HandleInvd(s) == SkipInstruction(s)
HandleInvlpg(s) == s
AllVmmsSkipInstruction(s) == SkipInstruction(HandleInvlpg(s))
(* vmexit_xsetbv, for the checks of the new value *)
HandleXsetbv(s) == IF s.cause.flag THEN SkipInstruction(s) ELSE InjectGp0(s)
(* vmexit_vmxon_instruction to vmexit_vmclear_instruction *)
HandleVmxInstruction(s) == InjectInvalidOpcode(s)
(* vmexit_halt_instruction, vmexit_dr_access, vmexit_gdtr_idtr_access,     *)
(* vmexit_ldtr_tr_access and vmexit_mtf only report.                       *)
HandleReport(s) == s
(* vmexit_handler_default, vmentry_failure_function and                    *)
(* msr_failed_vmenter_loading_handler after a failed entry                 *)
HandleFailedEntry(s) == InjectGp0([s EXCEPT !.block = @ \ {"sti"}, !.idt = NoEvent])
(* vmexit_triple_fault, vmexit_vmentry_failure_due2_machine_check *)
ResetPlatform(s) == [s EXCEPT !.pc = "reset"]

(* The table that vmexit_guest_initialize fills *)
HandlerTable(s) ==
    CASE s.cause.reason = "exception" -> BottomUp(HandleException(s))
      [] s.cause.reason = "nmi" -> HandleNmi(s)
      [] s.cause.reason = "nmi window" -> HandleNmiWindow(s)
      [] s.cause.reason = "ept" -> HandleEptViolation(s)
      [] s.cause.reason = "rdmsr" -> MsrRead(s)
      [] s.cause.reason = "wrmsr" -> MsrWrite(s)
      [] s.cause.reason = "io" -> HandleIo(s)
      [] s.cause.reason = "ios" -> HandleStringIo(s)
      [] s.cause.reason = "vmcall" -> VmcallHandler(s)
      [] s.cause.reason = "cpuid" -> HandleCpuid(s)
      [] s.cause.reason = "invd" -> HandleInvd(s)
      [] s.cause.reason = "invlpg" -> AllVmmsSkipInstruction(s)
      [] s.cause.reason = "xsetbv" -> HandleXsetbv(s)
      [] s.cause.reason = "vmx" -> HandleVmxInstruction(s)
      [] s.cause.reason = "invept" -> UndefinedOpcode(s)
      [] s.cause.reason = "report" -> HandleReport(s)
      [] s.cause.reason = "failed entry" -> HandleFailedEntry(s)
      [] s.cause.reason = "triple fault" -> ResetPlatform(s)

-----------------------------------------------------------------------------
(* A string access: its direction, the mode, and which segment is unusable *)
(* or which register not canonical, if any                                 *)
StringUses == [dir : {"in", "out"}, long : BOOLEAN, bad : {"none", "es", "seg", "rdi", "rsi"}]
NoUse == [dir |-> "none", long |-> FALSE, bad |-> "none"]
StringCause(what, flag, use) == [reason |-> "ios", what |-> what, flag |-> flag, use |-> use]
Cause(reason, what, flag) == [reason |-> reason, what |-> what, flag |-> flag, use |-> NoUse]
NoCause == Cause("none", "none", FALSE)
PlainCauses == {"cpuid", "invd", "invlpg", "vmx", "invept", "report", "failed entry", "triple fault", "nmi window"}
ExitCauses ==
    {Cause(r, "none", FALSE) : r \in PlainCauses}
    \cup {Cause(r, "none", b) : r \in {"nmi", "ept", "xsetbv"}, b \in BOOLEAN}
    \cup {Cause("exception", v, b) : v \in {"PF", "GP", "UD", "DB", "DF", "MC"}, b \in BOOLEAN}
    \cup {Cause(r, id, b) : r \in {"rdmsr", "wrmsr"}, id \in MsrIds, b \in BOOLEAN}
    \cup {Cause("io", p, b) : p \in Ports, b \in BOOLEAN}
    \cup {StringCause(p, b, u) : p \in Ports, b \in BOOLEAN, u \in StringUses}
    \cup {Cause("vmcall", c, b) : c \in CallIds, b \in BOOLEAN}

(* What the hardware lets exit: an access whose bit is set, an NMI that is *)
(* not blocked, a window that was asked for.  The flag of an exception or  *)
(* an EPT violation says that an IRET out of the NMI handler met it.       *)
MayExit(s, c) ==
    /\ c.reason = "rdmsr" => MsrExits(s, c.what, "r")
    /\ c.reason = "wrmsr" => MsrExits(s, c.what, "w")
    /\ c.reason \in {"io", "ios"} => c.what \in s.io.bits
    /\ c.reason = "nmi" => ~s.inNmi
    /\ c.reason = "nmi window" => s.window /\ ~s.inNmi
    /\ c.reason \in {"exception", "ept"} /\ c.flag => s.inNmi /\ c.what # "DF"
IretFaults(c) == c.reason \in {"exception", "ept"} /\ c.flag

(* What can be in delivery when the exit happens, and what is blocked *)
MayVector(s, c) ==
    IF c.flag \/ (c.reason # "ept" /\ ~(c.reason = "exception" /\ c.what \in {"PF", "GP", "DF"})) THEN {NoEvent}
    ELSE {NoEvent, Irq} \cup Faults \cup (IF s.inNmi THEN {} ELSE {NmiEvent})
MayBlock(s, c, idt) ==
    {b \cup (IF (s.inNmi /\ ~IretFaults(c)) \/ idt = NmiEvent THEN {"nmi"} ELSE {}) :
        b \in IF idt # NoEvent \/ c.reason = "nmi window" THEN {{}} ELSE {{}, {"sti"}, {"movss"}}}

ExitsInit ==
    vx = [pc |-> "setup", cause |-> NoCause, idt |-> NoEvent, was |-> NoEvent, block |-> {},
          window |-> FALSE, nmi |-> FALSE, entry |-> NoEvent, skipped |-> 0, inNmi |-> FALSE,
          msrs |-> MsrGuestSetup, io |-> EmptyIo, calls |-> <<>>, ran |-> "none",
          latest |-> [p \in Ports |-> "open"], left |-> MaxSetups]

(* Before the guest starts: io_vmexit_handler_register (which the power    *)
(* management calls, in builds that have it), _unregister,                 *)
(* io_vmexit_block_port, vmexit_register_unregister_for_efer and           *)
(* vmcall_register.                                                        *)
MaySetup == vx.pc = "setup" /\ vx.left > 0
RegisterPort ==
    /\ MaySetup
    /\ \E p \in Ports :
        vx' = [vx EXCEPT !.io = IoRegister(@, p), !.left = @ - 1,
                         !.latest[p] = IF SlotOf(IoRegister(vx.io, p), p) # {} THEN "port" ELSE @]
UnregisterPort ==
    /\ MaySetup
    /\ \E p \in Ports :
        vx' = [vx EXCEPT !.io = IoUnregister(@, p), !.left = @ - 1,
                         !.latest[p] = IF @ = "blocking" THEN @ ELSE "open"]
BlockPort ==
    /\ MaySetup
    /\ \E p \in Ports :
        vx' = [vx EXCEPT !.io = IoBlockPort(@, p), !.left = @ - 1, !.latest[p] = "blocking"]
RegisterEfer ==
    /\ MaySetup /\ Unrestricted
    /\ \E a \in Accesses :
        \/ vx' = [vx EXCEPT !.msrs = MsrRegister(@, "efer", {a}, "write"), !.left = @ - 1]
        \/ vx' = [vx EXCEPT !.msrs = MsrUnregister(@, "efer", {a}), !.left = @ - 1]
RegisterCall ==
    /\ MaySetup
    /\ \E id \in CallIds : \E h \in {"h1", "h2"} :
        /\ VmcallFits(vx.calls, id, h)
        /\ vx' = [vx EXCEPT !.calls = VmcallRegister(@, id, h), !.left = @ - 1]
Launch == vx.pc = "setup" /\ vx' = [vx EXCEPT !.pc = "guest", !.left = 0]

(* The guest leaves its NMI handler, or exits. *)
Iret == vx.pc = "guest" /\ vx.inNmi /\ vx' = [vx EXCEPT !.inNmi = FALSE]
Exit ==
    /\ vx.pc = "guest"
    /\ \E c \in ExitCauses :
        /\ MayExit(vx, c)
        /\ \E idt \in MayVector(vx, c) : \E b \in MayBlock(vx, c, idt) :
            vx' = [vx EXCEPT !.pc = "exit", !.cause = c, !.idt = idt, !.was = idt, !.block = b,
                             !.skipped = 0, !.ran = "none", !.entry = NoEvent]

(* vmexit_common_handler with vmexit_handler_invoke *)
CommonHandler ==
    /\ vx.pc = "exit"
    /\ vx' = HandlerTable([vx EXCEPT !.pc = "resume"])

(* The end of gcpu_resume: an interrupt or NMI that is still marked as in  *)
(* delivery goes in again, over what the handler injected.                 *)
NoReinjection(s) == s
ReinjectAtResume(s) ==
    IF s.idt \in Interrupts
    THEN [s EXCEPT !.entry = s.idt, !.block = IF s.idt = NmiEvent THEN {} ELSE @ \ {"sti", "movss"}]
    ELSE s
GcpuResumeEvent == vx.pc = "resume" /\ vx' = [ReinjectAtResume(vx) EXCEPT !.pc = "entry"]

(* The hardware's VM entry delivers the event. *)
VmEntry ==
    /\ vx.pc = "entry"
    /\ vx' = [vx EXCEPT !.pc = "guest", !.entry = NoEvent, !.cause = NoCause, !.idt = NoEvent, !.was = NoEvent,
                        !.block = {}, !.skipped = 0, !.ran = "none",
                        !.inNmi = @ \/ vx.entry = NmiEvent \/ "nmi" \in vx.block]

ExitsRest == vx.pc = "reset" /\ UNCHANGED vx

ExitsNext ==
    \/ RegisterPort \/ UnregisterPort \/ BlockPort \/ RegisterEfer \/ RegisterCall \/ Launch
    \/ Iret \/ Exit \/ CommonHandler \/ GcpuResumeEvent \/ VmEntry \/ ExitsRest

ExitsSpec == ExitsInit /\ [][ExitsNext]_vx

-----------------------------------------------------------------------------
ExitsTypeOK ==
    /\ vx.pc \in {"setup", "guest", "exit", "resume", "entry", "reset"}
    /\ vx.cause \in ExitCauses \cup {NoCause}
    /\ {vx.idt, vx.was, vx.entry} \subseteq {NoEvent} \cup Interrupts \cup {Fault(v) : v \in {"PF", "GP", "UD", "DB", "DF", "MC"}}
    /\ vx.block \subseteq {"sti", "movss", "nmi"} /\ vx.skipped \in 0 .. 1
    /\ {vx.window, vx.nmi, vx.inNmi} \subseteq BOOLEAN
    /\ vx.io.slots \in [1 .. IoSlots -> Ports \cup {NoPort}] /\ vx.io.bits \subseteq Ports

(* At the VM entry: an interrupt or NMI whose delivery an EPT violation    *)
(* cut short is delivered; a platform NMI that could not be injected has   *)
(* its window; no NMI enters the handler of another one, even when an IRET *)
(* faulted on its way out; and a skipped instruction raises nothing        *)
(* (FEATURE_CONTROL aside, whose handler faults and reports success,       *)
(* vmexit_msr.c:860).                                                      *)
EventsKept ==
    vx.pc = "entry" =>
        /\ vx.was \in Interrupts /\ vx.cause.reason = "ept" => vx.entry = vx.was
        /\ vx.nmi => vx.window
        /\ vx.entry = NmiEvent => ~vx.inNmi
        /\ vx.inNmi => "nmi" \in vx.block
        /\ vx.skipped > 0 /\ vx.cause.what # "feature" => vx.entry = NoEvent

(* An access runs the handler that the last call on the table left for it: *)
(* a port that was registered exits, one that was unregistered does not,   *)
(* and a blocked port stays blocked.  A string access runs the same        *)
(* handler, or faults as it would on the bare machine and runs none.       *)
HandledAsRegistered ==
    /\ vx.pc # "setup" => \A p \in Ports : (vx.latest[p] # "open") <=> (p \in vx.io.bits)
    /\ vx.pc = "entry" /\ vx.cause.reason = "io" => vx.ran = vx.latest[vx.cause.what]
    /\ vx.pc = "entry" /\ vx.cause.reason = "ios" =>
        vx.ran = IF vx.entry = Fault("GP") THEN "none" ELSE vx.latest[vx.cause.what]
    /\ \A id \in MsrIds : \A a \in Accesses : (vx.msrs.of[id][a] # "null") <=> (<<id, a>> \in vx.msrs.bits)

(* An exit loses no event, runs the handler registered for it, and leaves  *)
(* a switched task as the processor would (vmexit.c, vmexit_io.c,          *)
(* vmexit_msr.c, vmcall.c, guest_cpu_vmenter_event.c,                      *)
(* vmexit_task_switch.c).                                                  *)
ExitsSound == EventsKept /\ HandledAsRegistered /\ TasksResume
=============================================================================
