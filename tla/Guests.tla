------------------------------- MODULE Guests -------------------------------
(***************************************************************************)
(* Guests, guest CPUs, the scheduler and the event manager of CPVMM:       *)
(* guest/guest.c, guest/guest_cpu/guest_cpu.c, guest/scheduler/scheduler.c,*)
(* guest/guest_control.c, startup/create_guests.c, utils/event_mgr.c and   *)
(* the observers that memory/ept/ept.c registers.                          *)
(*                                                                         *)
(* The boot processor creates the primary guest with one guest CPU for     *)
(* each host CPU, sets up the event manager and the EPT add-on; then every *)
(* host CPU selects its guest CPU and from there on answers its exits: the *)
(* guest changes activity state (INIT, SIPI, HLT), writes CR0, or touches  *)
(* memory the EPT denies.  All lists are built before the other processors *)
(* start (dynamic guests are not built in), so a call is one step.         *)
(***************************************************************************)
EXTENDS Integers, SequencesExt, FiniteSets

CONSTANTS HostCpus,       \* number of host CPUs
          StartStates,    \* activity states the loader may give the first CPUs
          ObserversLimit, \* slots of an event without a limit of its own
          MaxStateChanges \* bound on changes of activity state

ASSUME GuestsAssumption == /\ HostCpus \in Nat \ {0}
                           /\ ObserversLimit \in Nat \ {0}
                           /\ MaxStateChanges \in Nat
                           /\ \A s \in StartStates : Len(s) <= HostCpus

Hosts == 0..HostCpus - 1

ActivityStates == {"Active", "Hlt", "WaitForSipi"}

Observed == {"CR0_WRITE", "EPT_VIOLATION", "ACTIVITY_STATE_CHANGE", "GPM_MODIFICATION"}

NoGcpu == <<>>

VARIABLE gs

GuestsInit ==
  \E s \in StartStates :
    gs = [stage |-> "start", given |-> s,
          guests |-> <<>>,                        \* newest first
          gcpus |-> <<>>,                         \* g_gcpus, newest first
          lists |-> [h \in Hosts |-> <<>>],       \* vcpu_obj_list
          current |-> [h \in Hosts |-> NoGcpu],   \* current_vcpu_obj
          area |-> [h \in Hosts |-> NoGcpu],      \* g_guest_regs_save_area
          active |-> {},                          \* VMCSs current on a CPU
          cpu |-> <<>>,                           \* per guest CPU
          perCpu |-> <<>>,                        \* gcpu_events, when there
          global |-> [e \in Observed |-> <<>>],   \* general_event
          last |-> [event |-> "none", gcpu |-> NoGcpu, calls |-> <<>>],
          changes |-> 0]

Rec(g) == gs.cpu[CHOOSE i \in DOMAIN gs.cpu : gs.cpu[i].id = g]

-----------------------------------------------------------------------------
(* Guests and guest CPUs. *)

guest_register(magic) ==
  [gs EXCEPT !.guests = <<[id |-> Len(@), magic |-> magic, flags |-> {}, count |-> 0]>> \o @,
             !.stage = "cpus"]

guest_handle_by_magic_number(magic) ==
  CHOOSE i \in DOMAIN gs.guests : /\ gs.guests[i].magic = magic
                                  /\ \A j \in 1..i - 1 : gs.guests[j].magic # magic

\* A faulty form: the number is taken after the count has gone up.
AddCpuLate(i) == <<gs.guests[i].id, gs.guests[i].count + 1>>

\* guest_add_cpu: the new guest CPU is numbered by the count of its guest.
guest_add_cpu(i) == <<gs.guests[i].id, gs.guests[i].count>>

\* gcpu_allocate with setup_default_state: no such guest CPU exists yet; it
\* waits for a SIPI and its cached activity state is Active.
gcpu_allocate(g) == [id |-> g, state |-> "WaitForSipi", cached |-> "Active",
                     ready |-> TRUE, host |-> 0, controls |-> "none",
                     eptReady |-> FALSE]

\* gcpu_initialize, for the CPUs the loader describes.
GivenState(g) == IF g[2] < Len(gs.given) THEN gs.given[g[2] + 1] ELSE "WaitForSipi"

\* add_cpu_to_guest: scheduler_register_gcpu puts the new object at the head
\* of the list of all and of the list of its host CPU.
add_cpu_to_guest(i, host) ==
  LET g == guest_add_cpu(i)
      r == [gcpu_allocate(g) EXCEPT !.state = GivenState(g), !.host = host]
  IN  [gs EXCEPT !.guests[i].count = @ + 1,
                 !.gcpus = <<g>> \o @,
                 !.cpu = Append(@, r),
                 !.lists[host] = <<g>> \o @]

RegisterGuest == gs.stage = "start" /\ gs' = guest_register(0)

\* init_single_guest: affinity -1, one guest CPU on each host CPU.
AddCpu == /\ gs.stage = "cpus" /\ gs.guests[1].count < HostCpus
          /\ gs' = add_cpu_to_guest(1, gs.guests[1].count)

\* The rest of initialize_all_guests and the owners vmm_bsp_proc_main picks.
SetOwners ==
  /\ gs.stage = "cpus" /\ gs.guests[1].count = HostCpus
  /\ gs' = [gs EXCEPT !.guests[guest_handle_by_magic_number(0)].flags =
                        @ \cup {"primary", "nmi_owner", "device_owner"},
                      !.stage = "events"]

-----------------------------------------------------------------------------
(* The event manager. *)

event_observers_limit(e) == IF e = "EPT_VIOLATION" THEN 1 ELSE ObserversLimit

\* event_register_internal: the first free slot, if there is one.
Registered(slots, e, call) ==
  IF Len(slots) < event_observers_limit(e) THEN Append(slots, call) ELSE slots

NoObservers(g) == [gcpu |-> g, events |-> [e \in Observed |-> <<>>]]

\* event_manager_initialize: every guest CPU of every guest gets its entry in
\* the table, under a key made of guest and CPU number.
EventManagerInitialize ==
  /\ gs.stage = "events"
  /\ gs' = [gs EXCEPT !.perCpu = [i \in DOMAIN gs.gcpus |-> NoObservers(gs.gcpus[i])],
                      !.stage = "addons"]

\* get_gcpu_observers: 0 when the guest CPU has no entry.
EntryOf(perCpu, g) ==
  LET at == {i \in DOMAIN perCpu : perCpu[i].gcpu = g}
  IN  IF at = {} THEN 0 ELSE CHOOSE i \in at : TRUE

event_gcpu_register(perCpu, e, g, call) ==
  LET at == EntryOf(perCpu, g)
  IN  IF at = 0 THEN perCpu
      ELSE [perCpu EXCEPT ![at].events[e] = Registered(@, e, call)]

\* event_raise: the observers of the guest CPU; when there are none those of
\* the guest, which nothing registers here; when there are none the global.
event_raise(e, g) ==
  LET at  == EntryOf(gs.perCpu, g)
      own == IF at = 0 THEN <<>> ELSE gs.perCpu[at].events[e]
  IN  IF own # <<>> THEN own ELSE gs.global[e]

-----------------------------------------------------------------------------
(* The EPT add-on. *)

ept_register_events(perCpu, g) ==
  event_gcpu_register(event_gcpu_register(perCpu, "CR0_WRITE", g, "ept_cr0_update"),
                      "EPT_VIOLATION", g, "ept_violation_vmexit")

\* A faulty form: the observers are registered at every activation.
InitializeAlways(perCpu, r) == [perCpu |-> ept_register_events(perCpu, r.id), done |-> TRUE]

\* ept_guest_cpu_initialize: the observers are registered the first time.
ept_guest_cpu_initialize(perCpu, r) ==
  IF r.eptReady THEN [perCpu |-> perCpu, done |-> TRUE]
  ELSE [perCpu |-> ept_register_events(perCpu, r.id), done |-> TRUE]

\* ept_gcpu_activity_state_change.
StateChangeSeen(perCpu, r, state) ==
  IF state # "WaitForSipi" THEN ept_guest_cpu_initialize(perCpu, r)
  ELSE [perCpu |-> perCpu, done |-> r.eptReady]

\* guest_control_setup in state BOOT requests the exits of every guest CPU,
\* then applies them; one guest CPU after the other gets its observer of
\* activity changes (ept_add_gcpu), fired at once if the CPU is active already.
InitEptAddon ==
  LET watched[n \in 0..Len(gs.cpu)] ==
        IF n = 0 THEN gs.perCpu
        ELSE event_gcpu_register(watched[n - 1], "ACTIVITY_STATE_CHANGE", gs.cpu[n].id,
                                 "ept_gcpu_activity_state_change")
      fired[n \in 0..Len(gs.cpu)] ==
        IF n = 0 THEN watched[Len(gs.cpu)]
        ELSE StateChangeSeen(fired[n - 1], gs.cpu[n], gs.cpu[n].state).perCpu
  IN  /\ gs.stage = "addons"
      /\ gs' = [gs EXCEPT !.perCpu = fired[Len(gs.cpu)],
                          !.global["GPM_MODIFICATION"] = Registered(@, "GPM_MODIFICATION",
                                                           "ept_end_gpm_modification"),
                          !.cpu = [n \in DOMAIN @ |-> [@[n] EXCEPT !.controls = "applied",
                                     !.eptReady = @ \/ gs.cpu[n].state # "WaitForSipi"]],
                          !.stage = "run"]

-----------------------------------------------------------------------------
(* Host CPUs at work. *)

\* gcpu_swap_in and gcpu_swap_out.
SwapIn(s, h, g) == [s EXCEPT !.current[h] = g, !.area[h] = g, !.active = @ \cup {<<g, h>>}]
SwapOut(s, h) == [s EXCEPT !.active = @ \ {<<s.current[h], h>>}]

\* A faulty form: the newest of all guest CPUs.
NewestOf(h) == Head(gs.gcpus)

FirstOf(h) == Head(gs.lists[h])

\* scheduler_select_next_gcpu: the next of the list, from its head again at
\* the end; the same guest CPU is not swapped.
NextOf(h) == LET list == gs.lists[h]
                 at == CHOOSE i \in DOMAIN list : list[i] = gs.current[h]
             IN  IF at = Len(list) THEN FirstOf(h) ELSE list[at + 1]

Select(s, h) == IF NextOf(h) = s.current[h] THEN s
                ELSE SwapIn(SwapOut(s, h), h, NextOf(h))

\* gcpu_process_activity_state_change, on the way into the guest: the event
\* is raised if the state is not the cached one.
ActivityProcessed(s, g, state) ==
  LET i    == CHOOSE n \in DOMAIN s.cpu : s.cpu[n].id = g
      told == IF state = s.cpu[i].cached THEN <<>> ELSE event_raise("ACTIVITY_STATE_CHANGE", g)
      seen == StateChangeSeen(s.perCpu, s.cpu[i], state)
  IN  [s EXCEPT !.cpu[i].state = state, !.cpu[i].cached = state,
                !.cpu[i].eptReady = IF told = <<>> THEN @ ELSE seen.done,
                !.perCpu = IF told = <<>> THEN @ ELSE seen.perCpu,
                !.last = [event |-> "ACTIVITY_STATE_CHANGE", gcpu |-> g, calls |-> told]]

\* scheduler_select_initial_gcpu, and the first entry into the guest.
scheduler_select_initial_gcpu(h) ==
  /\ gs.stage = "run" /\ gs.current[h] = NoGcpu
  /\ gs.lists[h] # <<>> /\ Rec(FirstOf(h)).ready
  /\ gs' = ActivityProcessed(SwapIn(gs, h, FirstOf(h)), FirstOf(h), Rec(FirstOf(h)).state)

\* An exit that leaves its guest CPU in another activity state: SIPI ends the
\* wait for it, INIT starts it, HLT and an interrupt do the rest.
ActivityExit(h, state) ==
  LET g == gs.current[h]
  IN  /\ g # NoGcpu /\ gs.changes < MaxStateChanges
      /\ state # Rec(g).state /\ (Rec(g).state = "WaitForSipi" => state = "Active")
      /\ gs' = [Select(ActivityProcessed(gs, g, state), h) EXCEPT !.changes = @ + 1]

\* An exit that raises an event and changes nothing here.
EventExit(h, e) ==
  LET g == gs.current[h]
  IN  /\ g # NoGcpu /\ Rec(g).state = "Active"
      /\ gs' = Select([gs EXCEPT !.last = [event |-> e, gcpu |-> g,
                                           calls |-> event_raise(e, g)]], h)

\* scheduler_get_current_gcpu_for_guest, as every GPM modification asks it.
CurrentForGuest(h, id) ==
  LET mine == SelectSeq(gs.lists[h], LAMBDA g : g[1] = id)
  IN  IF mine = <<>> THEN NoGcpu ELSE Head(mine)

GpmModification(h) ==
  LET g == CurrentForGuest(h, gs.guests[1].id)
  IN  /\ gs.current[h] # NoGcpu
      /\ gs' = [gs EXCEPT !.last = [event |-> "GPM_MODIFICATION", gcpu |-> g,
                                    calls |-> event_raise("GPM_MODIFICATION", g)]]

GuestsRest == UNCHANGED gs

GuestsNext == \/ RegisterGuest \/ AddCpu \/ SetOwners
              \/ EventManagerInitialize \/ InitEptAddon
              \/ \E h \in Hosts : \/ scheduler_select_initial_gcpu(h)
                                  \/ \E s \in ActivityStates : ActivityExit(h, s)
                                  \/ \E e \in {"CR0_WRITE", "EPT_VIOLATION"} : EventExit(h, e)
                                  \/ GpmModification(h)
              \/ GuestsRest

-----------------------------------------------------------------------------
\* Every guest CPU is on exactly one host's list and the stages are known.
GuestsTypeOK ==
  /\ gs.stage \in {"start", "cpus", "events", "addons", "run"}
  /\ \A n \in DOMAIN gs.cpu : gs.cpu[n].state \in ActivityStates
  /\ \A g \in ToSet(gs.gcpus) : Cardinality({h \in Hosts : g \in ToSet(gs.lists[h])}) = 1

\* A host CPU runs the guest CPU of its own number, its registers are saved
\* in that guest CPU's area, and no VMCS is current on two processors: what
\* the lists of scheduler.c, the numbers of guest_add_cpu and the pointer
\* gcpu_swap_in sets must add up to.
RunsItsGuestCpu ==
  /\ \A h \in Hosts : gs.current[h] # NoGcpu =>
       /\ gs.current[h] = <<0, h>> /\ gs.area[h] = gs.current[h]
       /\ Rec(gs.current[h]).host = h /\ Rec(gs.current[h]).controls = "applied"
       /\ <<gs.current[h], h>> \in gs.active
  /\ \A a, b \in gs.active : a[1] = b[1] => a = b

\* Whatever activity states a guest CPU has gone through, a CR0 write or an
\* EPT violation of it reaches the EPT add-on once, and a change of the guest's
\* memory map reaches the global observer once: ept.c registers for each guest
\* CPU exactly once, before the CPU first executes (ept.c:872-875), and no
\* registration is lost because the event manager was not ready for it.
ObserversOnce ==
  /\ gs.last.event = "CR0_WRITE" => gs.last.calls = <<"ept_cr0_update">>
  /\ gs.last.event = "EPT_VIOLATION" => gs.last.calls = <<"ept_violation_vmexit">>
  /\ gs.last.event = "GPM_MODIFICATION" => gs.last.calls = <<"ept_end_gpm_modification">>
  /\ gs.last.event = "ACTIVITY_STATE_CHANGE" => Len(gs.last.calls) <= 1
=============================================================================
