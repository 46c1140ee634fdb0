------------------------------ MODULE LocalApic ------------------------------
(***************************************************************************)
(* The local APICs: how the loader wakes the application processors        *)
(* (bootstrap_ap_procs_init.c), and how the monitor sends interprocessor   *)
(* interrupts through registers it shares with the guest                   *)
(* (host/hw/local_apic.c), which may turn the APIC to its other mode and   *)
(* move it (vmexit_msr.c).                                                 *)
(*                                                                         *)
(* In xAPIC mode an interrupt is sent by two writes, the destination first *)
(* and the command second, and the command register shows whether the last *)
(* one is delivered.  In x2APIC mode one write does both.  A guest that    *)
(* has written the destination may be interrupted by the monitor, which    *)
(* then sends an interrupt of its own through the same registers.          *)
(***************************************************************************)
EXTENDS Integers, Sequences, FiniteSets

CONSTANTS LaCpus,          \* the processors, 0 the boot processor
          ApicIdOf,        \* their APIC identifiers
          BasePages        \* pages the guest may move an APIC to

ASSUME ApicIdOf \in [LaCpus -> 0..255]

VARIABLE la

NoIpi == [dst |-> {}, kind |-> "none"]

Ipi(dst, kind) == [dst |-> dst, kind |-> kind]

\* The processors with this identifier.
Addressed(id) == {c \in LaCpus : ApicIdOf[c] = id}

LaInit ==
    la = [apic |-> [c \in LaCpus |-> [mode |-> "x", page |-> 0]],
          high |-> [c \in LaCpus |-> 0], pending |-> [c \in LaCpus |-> NoIpi],
          data |-> [c \in LaCpus |-> [mode |-> "off", page |-> 0, id |-> 0]],
          at |-> [c \in LaCpus |-> IF c = 0 THEN "wake" ELSE "reset"], woken |-> 0,
          asked |-> [c \in LaCpus |-> NoIpi], half |-> [c \in LaCpus |-> {}],
          saved |-> [c \in LaCpus |-> 0], astray |-> {}]

---------------------------------------------------------------------------
(* The hardware. *)

\* A write of the command register.  One that is still being delivered is lost.
IcrCommand(s, c, ipi) ==
    [s EXCEPT !.pending[c] = ipi,
              !.astray = @ \cup (IF s.pending[c] = NoIpi THEN {} ELSE {s.pending[c]})
                            \cup (IF ipi = s.asked[c] THEN {} ELSE {ipi})]

\* An INIT makes a processor wait for a SIPI, which starts it.
Receives(at, kind) ==
    CASE kind = "init" -> "init"
      [] kind = "sipi" /\ at = "init" -> "start"
      [] OTHER -> at

Deliver(c) ==
    /\ la.pending[c] # NoIpi
    /\ la' = [la EXCEPT !.pending[c] = NoIpi, !.asked[c] = NoIpi,
                        !.at = [d \in LaCpus |-> IF d \in la.pending[c].dst
                                                 THEN Receives(@[d], la.pending[c].kind)
                                                 ELSE @[d]]]

IcrIdle(c) == la.pending[c] = NoIpi

---------------------------------------------------------------------------
(* The loader. *)

\* send_broadcast_init_sipi: an INIT and two SIPIs to all but the sender.
WakeSequence == <<"init", "sipi", "sipi">>

\* A faulty form: the command is written without waiting for the last one.
SendToAllUnchecked ==
    /\ la.at[0] = "wake" /\ la.woken < Len(WakeSequence)
    /\ LET ipi == Ipi(LaCpus \ {0}, WakeSequence[la.woken + 1])
       IN la' = IcrCommand([la EXCEPT !.high[0] = 0, !.asked[0] = ipi, !.woken = @ + 1], 0, ipi)

SendToAll ==
    /\ la.at[0] = "wake" /\ la.woken < Len(WakeSequence)
    /\ IcrIdle(0)
    /\ LET ipi == Ipi(LaCpus \ {0}, WakeSequence[la.woken + 1])
       IN la' = IcrCommand([la EXCEPT !.high[0] = 0, !.asked[0] = ipi, !.woken = @ + 1], 0, ipi)

LoaderDone ==
    /\ la.at[0] = "wake" /\ la.woken = Len(WakeSequence)
    /\ IcrIdle(0)
    /\ la' = [la EXCEPT !.at[0] = "start"]

---------------------------------------------------------------------------
(* The monitor's view of the APIC of the processor that runs. *)

\* A faulty form: the mode is discovered once, at the start.
KeepsMode(s, c) ==
    [s EXCEPT !.data[c].page = s.apic[c].page,
              !.data[c].mode = IF @ = "off" THEN s.apic[c].mode ELSE @]

\* The mode is read back from the base register and selects how the registers
\* are reached; the page is mapped unless they are reached as MSRs.
SetupChanged(s, c) ==
    [s EXCEPT !.data[c].page = s.apic[c].page, !.data[c].mode = s.apic[c].mode]

\* A register access of the monitor arrives only in the mode the APIC is in.
Reaches(s, c) ==
    /\ s.data[c].mode = s.apic[c].mode
    /\ s.data[c].mode = "x" => s.data[c].page = s.apic[c].page

CurrentId(s, c) == IF Reaches(s, c) THEN ApicIdOf[c] ELSE 0

UpdateCpuId(s, c) == [s EXCEPT !.data[c].id = CurrentId(s, c)]

LocalApicCpuInit(c) ==
    /\ la.at[c] = "start"
    /\ la' = [UpdateCpuId(SetupChanged(la, c), c) EXCEPT !.at[c] = "guest"]

---------------------------------------------------------------------------
(* The guest. *)

\* The destination, then the command, which a guest writes when the register
\* shows that the last one is delivered.
GuestWritesHigh(c, d) ==
    /\ la.at[c] = "guest" /\ la.apic[c].mode = "x"
    /\ la.half[c] = {}
    /\ la' = [la EXCEPT !.high[c] = ApicIdOf[d], !.half[c] = {d}]

GuestWritesLow(c) ==
    /\ la.at[c] = "guest" /\ la.apic[c].mode = "x"
    /\ la.half[c] # {}
    /\ IcrIdle(c)
    /\ la' = IcrCommand([la EXCEPT !.asked[c] = Ipi(la.half[c], "fixed"), !.half[c] = {}],
                     c, Ipi(Addressed(la.high[c]), "fixed"))

GuestWritesX2(c, d) ==
    /\ la.at[c] = "guest" /\ la.apic[c].mode = "x2"
    /\ IcrIdle(c)
    /\ la' = IcrCommand([la EXCEPT !.asked[c] = Ipi({d}, "fixed")], c, Ipi({d}, "fixed"))

\* validate_APIC_BASE_change: the reserved bits stay, a disabled APIC is refused,
\* and the x2APIC mode is left only by a reset.
ValidBaseChange(s, c, new) ==
    /\ ~new.reserved
    /\ new.mode # "off"
    /\ s.data[c].mode = "x2" => new.mode = "x2"

\* The write takes effect and the monitor's view follows; one that is not valid
\* faults in the guest and changes nothing.  The guest does not reconfigure its
\* APIC between the two writes of an interrupt.
GuestWritesBase(c) ==
    \E new \in [mode : {"x", "x2", "off"}, page : BasePages, reserved : BOOLEAN] :
        /\ la.at[c] = "guest" /\ IcrIdle(c) /\ la.half[c] = {}
        /\ ValidBaseChange(la, c, new)
        /\ la' = SetupChanged([la EXCEPT !.apic[c] = [mode |-> new.mode, page |-> new.page]], c)

---------------------------------------------------------------------------
(* The monitor sends an interrupt after a VM exit. *)

\* local_apic_ipi_verify_params.
VerifyParams(short, kind, vector, level, trigger) ==
    /\ short \in {"self", "all"} => kind \notin {"lowest", "nmi", "init", "smi", "sipi"}
    /\ trigger = "level" => kind \notin {"smi", "sipi"}
    /\ kind \in {"smi", "init"} => vector = 0
    /\ kind = "init" /\ level = "deassert" /\ trigger = "level" => short = "all"
    /\ level = "deassert" => kind = "init" /\ trigger = "level"

\* The interrupts of ipc_hw_signal_nmi and ipc_hw_signal_sipi.
VectorOf(kind) == IF kind = "nmi" THEN 0 ELSE 255

SendIpi(c, d, kind) ==
    /\ la.at[c] = "guest" /\ la.data[d].mode # "off"
    /\ VerifyParams("none", kind, VectorOf(kind), "assert", "edge")
    /\ la' = [la EXCEPT !.at[c] = kind, !.saved[c] = d]

IpiKinds == {"nmi", "sipi"}

\* The destination is the identifier the other processor has recorded.
Written(s, c) == Ipi(Addressed(s.data[s.saved[c]].id), s.at[c])

WantedIpi(s, c) == Ipi({s.saved[c]}, s.at[c])

\* A faulty form: the command is written while the guest's is being delivered.
IcrWrittenAtOnce(c) ==
    /\ la.at[c] \in IpiKinds
    /\ LET s == [la EXCEPT !.asked[c] = WantedIpi(la, c)]
       IN la' = [IcrCommand(s, c, Written(la, c)) EXCEPT
                    !.saved[c] = la.high[c],
                    !.high[c] = IF la.data[c].mode = "x" THEN la.data[la.saved[c]].id ELSE @,
                    !.at[c] = "sent"]

\* local_apic_send_ipi: when the last interrupt is delivered (the monitor polls
\* for it in xAPIC mode, the hardware holds the write in x2APIC mode) the
\* destination is saved and replaced, and the command written.  A write that does not reach the
\* APIC sends nothing.
IcrWritten(c) ==
    /\ la.at[c] \in IpiKinds
    /\ IcrIdle(c)
    /\ LET s == [la EXCEPT !.asked[c] = WantedIpi(la, c)]
           t == IF Reaches(la, c) THEN IcrCommand(s, c, Written(la, c))
                                  ELSE [s EXCEPT !.astray = @ \cup {WantedIpi(la, c)}]
       IN la' = [t EXCEPT !.saved[c] = la.high[c],
                          !.high[c] = IF la.data[c].mode = "x" THEN la.data[la.saved[c]].id ELSE @,
                          !.at[c] = "sent"]

\* A faulty form: the monitor's destination stays in the register.
SendEndsUnrestored(c) ==
    /\ la.at[c] = "sent"
    /\ la.data[c].mode = "x" => IcrIdle(c)
    /\ la' = [la EXCEPT !.at[c] = "guest", !.saved[c] = 0]

\* The destination register is given back as it was found.
SendEnds(c) ==
    /\ la.at[c] = "sent"
    /\ la.data[c].mode = "x" => IcrIdle(c)
    /\ la' = [la EXCEPT !.at[c] = "guest", !.saved[c] = 0,
                        !.high[c] = IF la.data[c].mode = "x" THEN la.saved[c] ELSE @]

---------------------------------------------------------------------------

LaNext ==
    \/ SendToAll \/ LoaderDone
    \/ \E c \in LaCpus :
           \/ Deliver(c) \/ LocalApicCpuInit(c)
           \/ \E d \in LaCpus : GuestWritesHigh(c, d) \/ GuestWritesX2(c, d)
           \/ \E d \in LaCpus \ {c}, kind \in IpiKinds : SendIpi(c, d, kind)
           \/ GuestWritesLow(c) \/ GuestWritesBase(c)
           \/ IcrWritten(c) \/ SendEnds(c)

LaTypeOK ==
    /\ la.apic \in [LaCpus -> [mode : {"x", "x2"}, page : BasePages \cup {0}]]
    /\ \A c \in LaCpus :
           /\ la.at[c] \in {"wake", "reset", "init", "start", "guest", "sent"} \cup IpiKinds
           /\ la.half[c] \subseteq LaCpus
           /\ la.data[c].mode \in {"x", "x2", "off"}

\* Every interrupt, of the loader, of the guest or of the monitor, goes to the
\* processors it was meant for and none is lost, although guest and monitor use
\* the same registers: local_apic_send_ipi waits before it writes, addresses the
\* processor by the identifier that one recorded, and leaves the destination
\* register as the guest had it.  The monitor's record of the APIC's mode and
\* page is the hardware's after every change the guest makes.
IpisArrive ==
    /\ la.astray = {}
    /\ \A c \in LaCpus : la.data[c].mode # "off" => Reaches(la, c) /\ la.data[c].id = ApicIdOf[c]
    /\ la.at[0] = "guest" => \A c \in LaCpus : la.at[c] \notin {"reset", "init"}
================================================================================
