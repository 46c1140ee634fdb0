-------------------------------- MODULE Vmcs --------------------------------
(***************************************************************************)
(* What the VMCS object of cpvmm promises its users: one set of fields that *)
(* the hypervisor reads and writes while it handles a VM exit and that the *)
(* guest runs with afterwards, and an NMI window that is open whenever the *)
(* guest runs while an NMI taken inside the hypervisor is still owed.      *)
(* VmcsCache shows that vmx/vmcs_actual.c and utils/cache64.c implement it. *)
(***************************************************************************)
CONSTANTS
    VmcsFields,     \* "ctrl" holds the NMI-window bit; the others are data
    ReadOnly,       \* fields only an exit changes
    VmcsValues      \* values of a field; the window bit is 0 or 1

VARIABLES
    regs,       \* the value of each field, as a vmcs_read would return it
    where,      \* "host" or "guest"
    owed        \* an NMI was taken in the hypervisor and no NMI-window exit followed

vmcsVars == <<regs, where, owed>>

Init ==
    /\ regs = [f \in VmcsFields |-> 0]
    /\ where = "host"
    /\ owed = FALSE

(* vmcs_write *)
Write(f, v) ==
    /\ where = "host" /\ f \notin ReadOnly
    /\ regs' = [regs EXCEPT ![f] = v]
    /\ UNCHANGED <<where, owed>>

(* An NMI in the hypervisor may show in the control field at once. *)
TakeNmi(v) ==
    /\ where = "host"
    /\ owed' = TRUE
    /\ v \in {regs["ctrl"], 1}
    /\ regs' = [regs EXCEPT !["ctrl"] = v]
    /\ UNCHANGED where

(* The guest runs with exactly the fields written, the window added if owed. *)
Enter ==
    /\ where = "host"
    /\ owed => regs["ctrl"] = 1
    /\ where' = "guest"
    /\ UNCHANGED <<regs, owed>>

(* An exit changes what the guest and the processor may change. *)
Exit(new) ==
    /\ where = "guest"
    /\ new["ctrl"] = regs["ctrl"]
    /\ regs' = new
    /\ where' = "host"
    /\ owed' \in {owed, owed /\ regs["ctrl"] = 0}

(* The fields saved at start-up are written back after a failed VM entry. *)
Restore(saved) ==
    /\ where = "host"
    /\ regs' = [f \in VmcsFields |-> IF f \in ReadOnly THEN regs[f] ELSE saved[f]]
    /\ owed' \in {owed, FALSE}
    /\ UNCHANGED where

Next ==
    \/ \E f \in VmcsFields, v \in VmcsValues : Write(f, v)
    \/ \E v \in VmcsValues : TakeNmi(v)
    \/ Enter
    \/ \E new \in [VmcsFields -> VmcsValues] : Exit(new) \/ Restore(new)

Spec == Init /\ [][Next]_vmcsVars
=============================================================================
