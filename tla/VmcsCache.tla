------------------------------ MODULE VmcsCache ------------------------------
(***************************************************************************)
(* cpvmm's VMCS object on one CPU (vmx/vmcs_actual.c, utils/cache64.c, the *)
(* read-modify-write of vmx/vmcs.c), with the resume and exit paths that   *)
(* drive it (guest_cpu_switch.c, vmexit.c).  While an exit is handled the  *)
(* fields live in a software cache that is flushed before the guest is     *)
(* resumed; after an EPT violation and after a restore of the initial      *)
(* fields the cache is switched off and the code works on the hardware.    *)
(* An NMI may interrupt the hypervisor between any two steps: its handler   *)
(* cannot touch the cache, so it leaves marks (FS, nmi_window,             *)
(* update_status) and sets the NMI-window bit in the hardware.             *)
(*                                                                         *)
(* Fields: "ctrl" stands for the processor-based controls and its value is *)
(* their NMI-window bit; StateFields are fields that the guest changes;    *)
(* InfoFields are exit information, which software cannot write to the     *)
(* hardware.                                                               *)
(* An NMI commutes with every step that touches neither ctrl nor its       *)
(* marks, so runs of such steps are one action.                            *)
(***************************************************************************)
EXTENDS Naturals

CONSTANTS
    StateFields,    \* fields of the guest's state
    InfoFields,     \* fields of exit information
    FieldValues     \* values of a field

ASSUME VmcsAssumption ==
    /\ "ctrl" \notin StateFields \cup InfoFields
    /\ StateFields \cap InfoFields = {}
    /\ {0, 1} \subseteq FieldValues

VARIABLES
    vcPc,       \* control point
    vcCache,    \* p_vmcs->cache: value and valid/dirty bits of each entry
    vcDirty,    \* CACHE_DIRTY_FLAG
    vcHw,       \* the VMCS in the processor
    vcLaunched, \* LAUNCHED_FLAG
    vcNever,    \* NEVER_ACTIVATED_FLAG
    vcFs,       \* FS # 0: an NMI came since the last exit
    vcWin,      \* nmi_window[cpu]
    vcStatus,   \* update_status
    vcOff,      \* vmcs_sw_shadow_disable[cpu]
    vcVal,      \* the value of ctrl held in a register across steps
    vcOwed      \* history: an NMI was taken here and no NMI-window exit followed

vcVars == <<vcPc, vcCache, vcDirty, vcHw, vcLaunched, vcNever, vcFs, vcWin, vcStatus,
            vcOff, vcVal, vcOwed>>

VcFields == {"ctrl"} \cup StateFields \cup InfoFields
VcReadOnly == InfoFields
EmptyLine == [val |-> 0, valid |-> FALSE, dirty |-> FALSE]

VcInit ==
    /\ vcPc = "boot"
    /\ vcCache = [f \in VcFields |-> EmptyLine] /\ vcDirty = FALSE
    /\ vcHw = [f \in VcFields |-> 0]
    /\ vcLaunched = FALSE /\ vcNever = TRUE
    /\ vcFs = FALSE /\ vcWin = FALSE /\ vcStatus = "finished"
    /\ vcOff = FALSE /\ vcVal = 0 /\ vcOwed = FALSE

(* cache64_write with the cache on: nothing if the entry holds v already. *)
CacheWrite(f, v) ==
    IF vcCache[f].valid /\ vcCache[f].val = v
    THEN UNCHANGED <<vcCache, vcDirty>>
    ELSE /\ vcCache' = [vcCache EXCEPT ![f] = [val |-> v, valid |-> TRUE, dirty |-> TRUE]]
         /\ vcDirty' = TRUE

HwWrite(f, v) ==
    vcHw' = IF f \in VcReadOnly THEN vcHw ELSE [vcHw EXCEPT ![f] = v]

(* vmcs_act_write *)
ActWrite(f, v) ==
    IF vcOff THEN HwWrite(f, v) /\ UNCHANGED <<vcCache, vcDirty>>
             ELSE CacheWrite(f, v) /\ UNCHANGED vcHw

(* vmcs_act_read: the value, and the cache entry it leaves behind. *)
FieldValue(f) ==
    IF ~vcOff /\ vcCache[f].valid THEN vcCache[f].val
    ELSE IF vcNever THEN 0 ELSE vcHw[f]

ActRead(f) ==
    IF vcOff THEN UNCHANGED <<vcCache, vcDirty>> ELSE CacheWrite(f, FieldValue(f))

(* A handler writes a field of the guest's state, or reads any field. *)
FieldWrite(f, v) ==
    /\ vcPc \in {"boot", "host"}
    /\ ActWrite(f, v)
    /\ UNCHANGED <<vcPc, vcLaunched, vcNever, vcFs, vcWin, vcStatus, vcOff, vcVal, vcOwed>>

FieldRead(f) ==
    /\ vcPc \in {"boot", "host"}
    /\ ActRead(f)
    /\ UNCHANGED <<vcPc, vcHw, vcLaunched, vcNever, vcFs, vcWin, vcStatus, vcOff, vcVal, vcOwed>>

(* vmcs_update on the controls reads them, and writes them a step later. *)
UpdateRead ==
    /\ vcPc \in {"host", "window"}
    /\ ActRead("ctrl")
    /\ vcVal' = FieldValue("ctrl")
    /\ vcPc' = IF vcPc = "host" THEN "update" ELSE "clear"
    /\ UNCHANGED <<vcHw, vcLaunched, vcNever, vcFs, vcWin, vcStatus, vcOff, vcOwed>>

(* Another bit of the controls is changed: the window bit is written back. *)
UpdateOther ==
    /\ vcPc = "update"
    /\ ActWrite("ctrl", vcVal)
    /\ vcPc' = "host"
    /\ UNCHANGED <<vcLaunched, vcNever, vcFs, vcWin, vcStatus, vcOff, vcVal, vcOwed>>

(* vmcs_write_nmi_window_bit(TRUE) *)
WindowSet ==
    /\ vcPc = "update"
    /\ ActWrite("ctrl", 1)
    /\ vcWin' = TRUE
    /\ vcPc' = "host"
    /\ UNCHANGED <<vcLaunched, vcNever, vcFs, vcStatus, vcOff, vcVal, vcOwed>>

(* vmcs_write_nmi_window_bit(FALSE), called by the NMI-window exit: the bit  *)
(* is cleared, then nmi_window, and then FS is looked at.                  *)
WindowClear ==
    /\ vcPc = "clear"
    /\ ActWrite("ctrl", 0)
    /\ vcPc' = "unset"
    /\ UNCHANGED <<vcLaunched, vcNever, vcFs, vcWin, vcStatus, vcOff, vcVal, vcOwed>>

WindowUnset ==
    /\ vcPc = "unset"
    /\ vcWin' = FALSE
    /\ vcPc' = "recheck"
    /\ UNCHANGED <<vcCache, vcDirty, vcHw, vcLaunched, vcNever, vcFs, vcStatus, vcOff, vcVal, vcOwed>>

WindowRecheck ==
    /\ vcPc = "recheck"
    /\ vcWin' = (vcWin \/ vcFs)
    /\ vcPc' = "host"
    /\ UNCHANGED <<vcCache, vcDirty, vcHw, vcLaunched, vcNever, vcFs, vcStatus, vcOff, vcVal, vcOwed>>

Requested == vcFs \/ vcWin

(* The fields vmcs_store_initial saved, written back to the hardware *)
InitialFields == [f \in VcFields |-> IF f \in VcReadOnly THEN vcHw[f] ELSE 0]

(* vmcs_restore_initial, from the deadloop handler of an unexpected exit or *)
(* after a failed entry: the fields go straight to the hardware and the    *)
(* cache stays off for the resume.  A window requested before the last exit *)
(* is dropped here (FS is clear by then) until a later resume flushes.     *)
RestoreInitial ==
    /\ vcPc = "host" /\ vcLaunched
    /\ vcOff' = TRUE
    /\ vcHw' = InitialFields
    /\ vcOwed' = (vcOwed /\ vcFs)
    /\ UNCHANGED <<vcPc, vcCache, vcDirty, vcLaunched, vcNever, vcFs, vcWin, vcStatus, vcVal>>

(* vmcs_activate, before the first resume *)
Activate ==
    /\ vcPc = "boot"
    /\ vcNever' = FALSE
    /\ vcPc' = "host"
    /\ UNCHANGED <<vcCache, vcDirty, vcHw, vcLaunched, vcFs, vcWin, vcStatus, vcOff, vcVal, vcOwed>>

(* gcpu_resume flushes only with the cache on. *)
ResumeVmcs ==
    /\ vcPc = "host"
    /\ vcPc' = IF vcOff THEN "flushed" ELSE "flush"
    /\ UNCHANGED <<vcCache, vcDirty, vcHw, vcLaunched, vcNever, vcFs, vcWin, vcStatus, vcOff, vcVal, vcOwed>>

(* vmcs_act_flush_to_cpu: a requested window is set in the cache first *)
FlushWindow ==
    /\ vcPc = "flush"
    /\ IF Requested THEN CacheWrite("ctrl", 1) ELSE UNCHANGED <<vcCache, vcDirty>>
    /\ vcPc' = "dirty"
    /\ UNCHANGED <<vcHw, vcLaunched, vcNever, vcFs, vcWin, vcStatus, vcOff, vcVal, vcOwed>>

(* cache64_flush_dirty: every dirty entry is written, the dirty bits stay.  *)
FlushDirty ==
    /\ vcPc = "dirty"
    /\ vcDirty' = FALSE
    /\ vcHw' = [f \in VcFields |->
                  IF vcDirty /\ vcCache[f].dirty /\ f \notin VcReadOnly \cup {"ctrl"}
                  THEN vcCache[f].val ELSE vcHw[f]]
    /\ vcVal' = vcCache["ctrl"].val
    /\ vcPc' = IF vcDirty /\ vcCache["ctrl"].dirty THEN "begin" ELSE "flushed"
    /\ UNCHANGED <<vcCache, vcLaunched, vcNever, vcFs, vcWin, vcStatus, vcOff, vcOwed>>

(* vmcs_act_flush_nmi_depended_field_to_cpu: start, compute, write, commit *)
FlushBegin ==
    /\ vcPc = "begin"
    /\ vcStatus' = "succeeded"
    /\ vcPc' = "compute"
    /\ UNCHANGED <<vcCache, vcDirty, vcHw, vcLaunched, vcNever, vcFs, vcWin, vcOff, vcVal, vcOwed>>

FlushCompute ==
    /\ vcPc = "compute"
    /\ vcVal' = IF Requested THEN 1 ELSE vcVal
    /\ vcPc' = "put"
    /\ UNCHANGED <<vcCache, vcDirty, vcHw, vcLaunched, vcNever, vcFs, vcWin, vcStatus, vcOff, vcOwed>>

FlushPut ==
    /\ vcPc = "put"
    /\ HwWrite("ctrl", vcVal)
    /\ vcPc' = "commit"
    /\ UNCHANGED <<vcCache, vcDirty, vcLaunched, vcNever, vcFs, vcWin, vcStatus, vcOff, vcVal, vcOwed>>

FlushCommitBlind ==
    /\ vcPc = "commit"
    /\ vcPc' = "flushed"
    /\ vcStatus' = "finished"
    /\ UNCHANGED <<vcCache, vcDirty, vcHw, vcLaunched, vcNever, vcFs, vcWin, vcOff, vcVal, vcOwed>>
FlushCommit ==
    /\ vcPc = "commit"
    /\ vcPc' = IF vcStatus = "succeeded" THEN "flushed" ELSE "begin"
    /\ vcStatus' = IF vcStatus = "succeeded" THEN "finished" ELSE vcStatus
    /\ UNCHANGED <<vcCache, vcDirty, vcHw, vcLaunched, vcNever, vcFs, vcWin, vcOff, vcVal, vcOwed>>

(* gcpu_resume after the flush: a launch skips the last look at the marks *)
Flushed ==
    /\ vcPc = "flushed"
    /\ vcOff' = FALSE
    /\ vcLaunched' = TRUE
    /\ vcPc' = IF vcLaunched THEN "last" ELSE "entry"
    /\ UNCHANGED <<vcCache, vcDirty, vcHw, vcNever, vcFs, vcWin, vcStatus, vcVal, vcOwed>>

(* nmi_window_update_before_vmresume; pending is nmi_is_pending_this() *)
NoLastLook(pending) ==
    /\ vcPc = "last"
    /\ vcPc' = "entry"
    /\ UNCHANGED <<vcCache, vcDirty, vcHw, vcLaunched, vcNever, vcFs, vcWin, vcStatus, vcOff, vcVal, vcOwed>>
LastLook(pending) ==
    /\ vcPc = "last"
    /\ IF vcFs \/ pending
       THEN HwWrite("ctrl", 1) /\ vcWin' = TRUE
       ELSE UNCHANGED <<vcHw, vcWin>>
    /\ vcPc' = "entry"
    /\ UNCHANGED <<vcCache, vcDirty, vcLaunched, vcNever, vcFs, vcStatus, vcOff, vcVal, vcOwed>>

EnterGuest ==
    /\ vcPc = "entry"
    /\ vcPc' = "guest"
    /\ UNCHANGED <<vcCache, vcDirty, vcHw, vcLaunched, vcNever, vcFs, vcWin, vcStatus, vcOff, vcVal, vcOwed>>

(* vmentry_failure_function: restore the initial fields and resume *)
VmEntryFails ==
    /\ vcPc = "entry"
    /\ vcPc' = "host"
    /\ vcOff' = TRUE
    /\ vcHw' = InitialFields
    /\ vcOwed' = (vcOwed /\ vcFs)
    /\ UNCHANGED <<vcCache, vcDirty, vcLaunched, vcNever, vcFs, vcWin, vcStatus, vcVal>>

(* A VM exit reloads FS.  vmexit_common_handler switches the cache off, may *)
(* resume at once after a monitor-trap exit, keeps it off for an EPT        *)
(* violation, and otherwise clears and uses it.                            *)
VmExit(reason, new) ==
    /\ vcPc = "guest"
    /\ reason = "nmi_window" => vcHw["ctrl"] = 1
    /\ vcFs' = FALSE
    /\ vcHw' = [f \in VcFields |-> IF f = "ctrl" THEN vcHw[f] ELSE new[f]]
    /\ vcOff' = (reason \in {"mtf", "ept_violation"})
    /\ IF vcOff' THEN UNCHANGED vcCache ELSE vcCache' = [f \in VcFields |-> EmptyLine]
    /\ vcPc' = CASE reason = "mtf" -> "last"
                 [] reason = "nmi_window" -> "window"
                 [] OTHER -> "host"
    /\ vcOwed' = (vcOwed /\ reason # "nmi_window")
    /\ UNCHANGED <<vcDirty, vcLaunched, vcNever, vcWin, vcStatus, vcVal>>

(* vmcs_nmi_handler: the marks, then the bit in the hardware *)
VcNmi ==
    /\ vcPc \notin {"boot", "guest"}
    /\ vcFs' = TRUE /\ vcWin' = TRUE
    /\ vcStatus' = "failed"
    /\ HwWrite("ctrl", 1)
    /\ vcOwed' = TRUE
    /\ UNCHANGED <<vcPc, vcCache, vcDirty, vcLaunched, vcNever, vcOff, vcVal>>

VcNext ==
    \/ \E f \in StateFields, v \in FieldValues : FieldWrite(f, v)
    \/ \E f \in VcFields : FieldRead(f)
    \/ UpdateRead \/ UpdateOther \/ WindowSet
    \/ WindowClear \/ WindowUnset \/ WindowRecheck
    \/ RestoreInitial \/ Activate \/ ResumeVmcs
    \/ FlushWindow \/ FlushDirty \/ FlushBegin \/ FlushCompute \/ FlushPut \/ FlushCommit
    \/ Flushed
    \/ \E pending \in BOOLEAN : LastLook(pending)
    \/ EnterGuest \/ VmEntryFails
    \/ \E reason \in {"other", "nmi_window", "mtf", "ept_violation"},
          new \in [StateFields \cup InfoFields -> FieldValues] : VmExit(reason, new)
    \/ VcNmi

VcTypeOK ==
    /\ vcPc \in {"boot", "host", "update", "window", "clear", "unset", "recheck", "flush", "dirty",
                 "begin", "compute", "put", "commit", "flushed", "last", "entry", "guest"}
    /\ vcCache \in [VcFields -> [val : FieldValues, valid : BOOLEAN, dirty : BOOLEAN]]
    /\ vcHw \in [VcFields -> FieldValues]
    /\ {vcVal, vcHw["ctrl"], vcCache["ctrl"].val} \subseteq {0, 1}
    /\ vcStatus \in {"succeeded", "failed", "finished"}
    /\ {vcDirty, vcLaunched, vcNever, vcFs, vcWin, vcOff, vcOwed} \subseteq BOOLEAN

(* The fields as a user of the object sees them: through the cache while it *)
(* is on and until it is flushed, in the hardware otherwise.               *)
SeenField(f) ==
    IF ~vcOff /\ vcCache[f].valid
       /\ vcPc \notin {"flushed", "last", "entry", "guest"}
    THEN vcCache[f].val ELSE vcHw[f]

Promise == INSTANCE Vmcs WITH
    VmcsFields <- VcFields,
    ReadOnly <- VcReadOnly,
    VmcsValues <- FieldValues,
    regs <- [f \in VcFields |-> SeenField(f)],
    where <- IF vcPc = "guest" THEN "guest" ELSE "host",
    owed <- vcOwed

VcSpec == VcInit /\ [][VcNext]_vcVars

(* The cached VMCS implements the plain one: every write made while an exit *)
(* is handled, and nothing else but an owed NMI window, is what the guest  *)
(* runs with, and every read returns what the last exit or write left,     *)
(* although the cache is skipped, disabled, flushed in pieces and retried. *)
(* (A step that leaves vcVars alone leaves the plain VMCS alone.)          *)
CacheIsTransparent ==
    Promise!Init /\ [][UNCHANGED vcVars \/ Promise!Next]_(Promise!vmcsVars)
=============================================================================
