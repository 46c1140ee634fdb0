---------------------------- MODULE TaskSwitch -----------------------------
(***************************************************************************)
(* The 32-bit task switch that the monitor performs for the guest, because *)
(* the hardware exits on it (vmexit/vmexit_task_switch.c).                 *)
(*                                                                         *)
(* A task's registers are the pair of the task and the number of           *)
(* instructions it has executed; its LDT is a model value or "null", and   *)
(* its segment selectors are in the GDT or in that LDT.  A copy to or from *)
(* guest memory fails when a page is not mapped, and a descriptor may have *)
(* defects: one step of a switch, chosen by the guest's tables, may fail.  *)
(***************************************************************************)
EXTENDS Integers, FiniteSets

CONSTANTS
    Tasks,       \* the TSS descriptors of the GDT
    FirstTask,   \* the one the guest starts with
    LdtOf,       \* task -> its LDT selector in the TSS
    SegmentsOf,  \* task -> "gdt", "ldt" or "v86": where its segments are
    MaxWork      \* bound: instructions and switches of the guest

ASSUME TaskSwitchAssumption == FirstTask \in Tasks /\ MaxWork \in Nat

VARIABLE ts

Kinds == {"call", "jmp", "iret", "idt"}
Steps == {"none", "descriptor", "save", "read", "clear", "busy", "link", "ldtr", "ss", "segment", "cs", "trap"}
(* What can be wrong with the segment whose loading fails, one case for    *)
(* each way the checks tell apart                                          *)
Defects == {{"null"}, {"unmapped"}, {"absent"}, {"privilege"}, {"limit"}, {"absent", "type"}}
DefectsAt(step) == IF step \in {"ss", "segment", "cs"} THEN Defects ELSE {{}}
NoSwitch == [source |-> "none", software |-> FALSE, new |-> FirstTask, fails |-> "none", defects |-> {}]

(* get_task_info: an INT n through a task gate counts as a call. *)
KindOf(req) == IF req.source = "idt" /\ req.software THEN "call" ELSE req.source

(* gcpu_inject_ts and the others, through gcpu_inject_event *)
Raise(s, e) == [s EXCEPT !.fault = e, !.event = IF s.idt THEN @ ELSE e]
(* A failing copy_from_gva or copy_to_gva, or a descriptor refused, at     *)
(* this step                                                               *)
Fails(s, step) == s.req.fails = step
Then(s, t) == IF s.fault = "none" THEN t ELSE s

(* copy_from_gva of the descriptor, parse_desc *)
FindNewTss(s) == IF Fails(s, "descriptor") THEN Raise(s, "TS") ELSE s

(* gcpu_skip_guest_instruction, copy_vmcs_to_tss32 and copy_to_gva: the    *)
(* instruction is skipped before the state is known to be saved.           *)
SkipSwitchInstruction(s) == IF KindOf(s.req) = "idt" THEN s ELSE [s EXCEPT !.regs.done = @ + 1, !.own[s.tr].done = @ + 1]
SaveOldTss(s) ==
    LET t == SkipSwitchInstruction(s)
    IN  IF Fails(s, "save") THEN Raise(t, "TS")
        ELSE [t EXCEPT !.tss[s.tr] = [@ EXCEPT !.regs = t.regs,
                                               !.nested = IF KindOf(s.req) = "iret" THEN FALSE ELSE t.nested]]

ReadNewTss(s) == IF Fails(s, "read") THEN Raise(s, "TS") ELSE s

NeverClear(s) == s
ClearOldBusy(s) ==
    IF KindOf(s.req) \notin {"jmp", "iret"} THEN s
    ELSE IF Fails(s, "clear") THEN Raise(s, "TS")
    ELSE [s EXCEPT !.busy = @ \ {s.tr}]

SetNewBusy(s) ==
    IF KindOf(s.req) = "iret" THEN s
    ELSE IF Fails(s, "busy") THEN Raise([s EXCEPT !.torn = @ \/ KindOf(s.req) = "jmp"], "TS")
    ELSE [s EXCEPT !.busy = @ \cup {s.req.new}]

SaveOldTr(s) ==
    IF KindOf(s.req) \notin {"call", "idt"} THEN s
    ELSE IF Fails(s, "link") THEN Raise([s EXCEPT !.busy = @ \ {s.req.new}], "TS")
    ELSE [s EXCEPT !.tss[s.req.new].link = s.tr]

(* From "Load new tr" to the TS bit of CR0: registers and flags of the new *)
(* task; NT is set for a nested one.                                       *)
LoadNewTask(s) ==
    [s EXCEPT !.tr = s.req.new, !.regs = s.tss[s.req.new].regs,
              !.nested = KindOf(s.req) \in {"call", "idt"} \/ s.tss[s.req.new].nested,
              !.callers = (IF KindOf(s.req) \in {"call", "idt"} THEN @ \cup {s.tr} ELSE @)
                          \ (IF KindOf(s.req) = "iret" THEN {s.req.new} ELSE {}),
              !.ts = TRUE]

(* force_ring3_ss gives SS the contents of TR before the event, unless the *)
(* new task is in virtual 8086 mode.                                       *)
ForceRing3Ss(s) == IF SegmentsOf[s.req.new] = "v86" THEN s ELSE [s EXCEPT !.segments = "TR"]

(* set_guest_ldtr.  new_ldtr stays uninitialized when the selector is the  *)
(* one already loaded, and a null selector leaves the register alone.      *)
SetGuestLdtr(s) ==
    LET new == LdtOf[s.req.new]
    IN  IF new = s.ldtr THEN [s EXCEPT !.table = "uninitialized"]
        ELSE IF new = "null" THEN [s EXCEPT !.table = "null"]
        ELSE IF Fails(s, "ldtr") THEN Raise(ForceRing3Ss(s), "TS")
        ELSE [s EXCEPT !.ldtr = new, !.table = new]

(* The table that holds the descriptors of the new task *)
DescriptorTable(s) == IF SegmentsOf[s.req.new] = "gdt" THEN "gdt" ELSE s.table

(* The exception for a segment with these defects, in the order in which   *)
(* set_guest_ss, set_guest_cs and set_guest_seg look for them: presence is *)
(* checked before the type for SS and CS, after it for a data segment,     *)
(* whose null selector is loaded.                                          *)
SsVector(d) ==
    CASE d \cap {"null", "unmapped"} # {} -> "TS"
      [] d \cap {"null", "unmapped"} = {} /\ "absent" \in d -> "SS"
      [] "absent" \notin d /\ d \cap {"system", "type", "privilege", "unwritable"} # {} -> "TS"
      [] OTHER -> "none"
CsVector(d) ==
    CASE d \cap {"null", "unmapped"} # {} -> "TS"
      [] d \cap {"null", "unmapped"} = {} /\ "absent" \in d -> "NP"
      [] "absent" \notin d /\ d \cap {"system", "type", "privilege", "unwritable", "limit"} # {} -> "TS"
      [] OTHER -> "none"
SegVector(d) ==
    CASE "null" \in d -> "none"
      [] d \cap {"unmapped", "system", "type"} # {} -> "TS"
      [] d \cap {"unmapped", "system", "type"} = {} /\ "absent" \in d -> "NP"
      [] "absent" \notin d /\ "privilege" \in d -> "TS"
      [] OTHER -> "none"
DefectsOf(s, step) == IF Fails(s, step) THEN s.req.defects ELSE {}

(* set_guest_ss, set_guest_seg (the first segment refused ends the         *)
(* switch), set_guest_cs                                                   *)
SetGuestSs(s) ==
    LET v == SsVector(DefectsOf(s, "ss"))
    IN  IF v = "none" THEN [s EXCEPT !.segments = DescriptorTable(s)] ELSE Raise(ForceRing3Ss(s), v)
SetGuestSeg(s) ==
    LET v == SegVector(DefectsOf(s, "segment")) IN IF v = "none" THEN s ELSE Raise(ForceRing3Ss(s), v)
SetGuestCs(s) ==
    LET v == CsVector(DefectsOf(s, "cs")) IN IF v = "none" THEN s ELSE Raise(s, v)
SetV86Segments(s) == [s EXCEPT !.segments = "v86"]

LoadSegments(s) ==
    IF SegmentsOf[s.req.new] = "v86" THEN SetV86Segments(s)
    ELSE LET ss == SetGuestSs(s)
             seg == Then(ss, SetGuestSeg(ss))
         IN  Then(seg, SetGuestCs(seg))

(* all_done: the local breakpoints are off; the TSS may ask for a trap. *)
DebugTrap(s) == IF Fails(s, "trap") THEN Raise(s, "DB") ELSE s

(* task_switch_for_guest *)
SwitchForGuest(s) ==
    LET found == FindNewTss(s)
        saved == Then(found, SaveOldTss(found))
        read == Then(saved, ReadNewTss(saved))
        cleared == Then(read, ClearOldBusy(read))
        busy == Then(cleared, SetNewBusy(cleared))
        linked == Then(busy, SaveOldTr(busy))
        loaded == Then(linked, LoadNewTask(linked))
        ldtr == Then(loaded, SetGuestLdtr(loaded))
        segments == Then(ldtr, LoadSegments(ldtr))
    IN  Then(segments, DebugTrap(segments))

(* vmexit_task_switch clears the vectoring information of a task gate, so  *)
(* that the faults of the switch can be injected.                          *)
VmexitTaskSwitch(s) ==
    [SwitchForGuest([s EXCEPT !.idt = FALSE]) EXCEPT !.req = NoSwitch, !.table = "none"]

-----------------------------------------------------------------------------
TaskInit ==
    ts = [tr |-> FirstTask, busy |-> {FirstTask}, nested |-> FALSE, ts |-> FALSE, idt |-> FALSE,
          regs |-> [task |-> FirstTask, done |-> 0],
          tss |-> [t \in Tasks |-> [regs |-> [task |-> t, done |-> 0], nested |-> FALSE, link |-> t]],
          ldtr |-> LdtOf[FirstTask], table |-> "none", segments |-> DescriptorTable([req |-> NoSwitch, table |-> LdtOf[FirstTask]]),
          fault |-> "none", event |-> "none", torn |-> FALSE, left |-> MaxWork, req |-> NoSwitch,
          callers |-> {}, own |-> [t \in Tasks |-> [task |-> t, done |-> 0]]]

(* The guest executes; what the hardware checks before the exit is that    *)
(* the new task is available, or busy for an IRET.                         *)
Work ==
    /\ ts.left > 0
    /\ ts' = [ts EXCEPT !.regs.done = @ + 1, !.own[ts.tr].done = @ + 1, !.event = "none", !.fault = "none", !.left = @ - 1]

SwitchTask ==
    /\ ts.left > 0
    /\ \E source \in Kinds, software \in BOOLEAN, new \in Tasks, fails \in Steps : \E defects \in DefectsAt(fails) :
        /\ software => source = "idt"
        /\ IF source = "iret" THEN ts.nested /\ new = ts.tss[ts.tr].link /\ new \in ts.busy
                              ELSE new \notin ts.busy
        /\ ts' = VmexitTaskSwitch(
                    [ts EXCEPT !.req = [source |-> source, software |-> software, new |-> new,
                                         fails |-> fails, defects |-> defects],
                               !.idt = source = "idt", !.fault = "none", !.event = "none", !.left = @ - 1])

TaskRest == ts.left = 0 /\ UNCHANGED ts

TaskNext == Work \/ SwitchTask \/ TaskRest

TaskSpec == TaskInit /\ [][TaskNext]_ts

-----------------------------------------------------------------------------
TaskTypeOK ==
    /\ ts.tr \in Tasks /\ ts.busy \subseteq Tasks /\ ts.callers \subseteq Tasks
    /\ {ts.nested, ts.idt, ts.torn, ts.ts} \subseteq BOOLEAN
    /\ ts.regs \in [task : Tasks, done : 0 .. MaxWork]
    /\ ts.tss \in [Tasks -> [regs : [task : Tasks, done : 0 .. MaxWork], nested : BOOLEAN, link : Tasks]]
    /\ ts.event \in {"none", "TS", "SS", "NP", "DB"}

(* The running task goes on with the registers it was left with, whatever  *)
(* switches failed in between; the busy descriptors are the running task   *)
(* and the tasks that called and were not returned to (a jump that fails   *)
(* between its two writes of the GDT aside), which the hardware's checks   *)
(* rest on; and a failed switch raises its fault.                          *)
TasksResume ==
    /\ ts.regs = ts.own[ts.tr]
    /\ ~ts.torn => ts.busy = {ts.tr} \cup ts.callers
    /\ ts.event = ts.fault
=============================================================================
