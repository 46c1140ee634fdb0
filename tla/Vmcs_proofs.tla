---------------------------- MODULE Vmcs_proofs ----------------------------
(***************************************************************************)
(* The VMCS object of cpvmm, for any fields and any values: with its cache *)
(* and the NMIs that interrupt its flush (VmcsCache), it is to its users   *)
(* and to the guest the plain VMCS of Vmcs.                                *)
(*                                                                         *)
(* The argument: an entry of the cache that is valid is dirty, so the      *)
(* flush writes it (LineInv); what a flush has passed or may skip agrees   *)
(* with the hardware (CopyInv); and an NMI that is owed has left a mark    *)
(* (MarkInv) that every way to the guest turns into the hardware's window  *)
(* bit (WindowInv).                                                        *)
(***************************************************************************)
EXTENDS VmcsCache, TLAPS

Cached == {"boot", "host", "update", "window", "clear", "unset", "recheck", "flush", "dirty"}
Flushing == {"begin", "compute", "put", "commit"}
Late == {"flushed", "last", "entry", "guest"}

\* An entry that is valid is dirty, and known to be until it is flushed.
LineInv ==
    \A f \in VcFields :
        /\ vcCache[f].valid <=> vcCache[f].dirty
        /\ vcPc \in Cached /\ ~vcOff /\ vcCache[f].valid => vcDirty

\* Exit information in the cache is what the hardware has, and so is the
\* guest's state once it is flushed.
CopyInv ==
    /\ vcPc \notin Late /\ ~vcOff =>
         \A f \in InfoFields : vcCache[f].valid => vcCache[f].val = vcHw[f]
    /\ vcPc \in Flushing =>
         /\ vcCache["ctrl"].valid
         /\ \A f \in StateFields : vcCache[f].valid => vcCache[f].val = vcHw[f]

\* When the cache may be off, and what was never activated is zero.
OffInv ==
    /\ vcOff => vcLaunched /\ vcPc \in {"host", "update", "flushed", "last", "entry", "guest"}
    /\ vcPc \in {"last", "entry", "guest"} => vcLaunched
    /\ vcNever <=> vcPc = "boot"
    /\ vcPc = "boot" => \A f \in VcFields : vcHw[f] = 0

\* An owed NMI has left a mark: nmi_window, except where it was just reset,
\* and FS since the exit that opened the window.
MarkInv ==
    vcOwed =>
        /\ vcPc # "boot"
        /\ vcPc # "recheck" => vcWin
        /\ vcPc \in {"window", "clear", "unset", "recheck"} => vcFs

\* On every way to the guest the marks reach the hardware's window bit.
WindowInv ==
    vcOwed =>
        /\ vcPc = "dirty" => vcCache["ctrl"].valid \/ vcHw["ctrl"] = 1
        /\ vcPc = "put" /\ vcStatus = "succeeded" => vcVal = 1
        /\ vcPc = "commit" /\ vcStatus = "succeeded" => vcHw["ctrl"] = 1
        /\ vcPc = "flushed" /\ (~vcFs \/ ~vcLaunched) => vcHw["ctrl"] = 1
        /\ vcPc = "last" /\ ~vcFs => vcHw["ctrl"] = 1
        /\ vcPc \in {"entry", "guest"} => vcHw["ctrl"] = 1
        /\ vcPc \in {"host", "update"} /\ vcOff /\ ~vcFs => vcHw["ctrl"] = 1
        /\ vcPc = "update" /\ vcOff /\ ~vcFs => vcVal = 1

VcInv == VcTypeOK /\ LineInv /\ CopyInv /\ OffInv /\ MarkInv /\ WindowInv

USE VmcsAssumption DEF VcFields, VcReadOnly, Cached, Flushing, Late, HwWrite

(* The entry of a field after a write of v through the cache *)
Holds(f, v) ==
    /\ vcCache' \in [VcFields -> [val : FieldValues, valid : BOOLEAN, dirty : BOOLEAN]]
    /\ vcCache'["ctrl"].val \in {0, 1}
    /\ vcCache'[f].val = v /\ vcCache'[f].valid
    /\ \A g \in VcFields : vcCache'[g].valid <=> vcCache'[g].dirty
    /\ \A g \in VcFields : g # f => vcCache'[g] = vcCache[g]
    /\ vcDirty' \in BOOLEAN /\ (vcPc \in Cached /\ ~vcOff => vcDirty')

\* A write through the cache leaves its entry valid and dirty, and the others
\* alone.
LEMMA CacheWritten ==
  ASSUME VcTypeOK, LineInv, NEW f \in VcFields, NEW v \in FieldValues,
         f = "ctrl" => v \in {0, 1}, CacheWrite(f, v)
  PROVE  Holds(f, v)
  <1>1. CASE vcCache[f].valid /\ vcCache[f].val = v
    BY <1>1 DEF VcTypeOK, LineInv, CacheWrite, Holds
  <1>2. CASE ~(vcCache[f].valid /\ vcCache[f].val = v)
    <2> DEFINE line == [val |-> v, valid |-> TRUE, dirty |-> TRUE]
    <2>1. vcCache' = [vcCache EXCEPT ![f] = line] /\ vcDirty' = TRUE
      BY <1>2 DEF CacheWrite
    <2>2. line \in [val : FieldValues, valid : BOOLEAN, dirty : BOOLEAN]
          /\ line.val = v /\ line.valid = TRUE /\ line.dirty = TRUE
      OBVIOUS
    <2> HIDE DEF line
    <2>3. vcCache'[f] = line /\ \A g \in VcFields : g # f => vcCache'[g] = vcCache[g]
      BY <2>1 DEF VcTypeOK
    <2> QED BY <2>1, <2>2, <2>3 DEF VcTypeOK, LineInv, Holds
  <1> QED BY <1>1, <1>2

\* What a read returns is a value of the field.
LEMMA ReadTyped ==
  ASSUME VcInv, NEW f \in VcFields
  PROVE  FieldValue(f) \in FieldValues /\ (f = "ctrl" => FieldValue(f) \in {0, 1})
  BY DEF VcInv, VcTypeOK, FieldValue

\* The steps of the hypervisor that go through the cache.
LEMMA CacheSteps ==
  ASSUME VcInv,
         \/ \E f \in StateFields, v \in FieldValues : FieldWrite(f, v)
         \/ \E f \in VcFields : FieldRead(f)
         \/ UpdateRead \/ UpdateOther \/ WindowSet \/ WindowClear \/ FlushWindow
  PROVE  VcInv'
  <1> USE DEF VcInv, VcTypeOK, LineInv, CopyInv, OffInv, MarkInv, WindowInv
  <1>1. ASSUME NEW f \in StateFields, NEW v \in FieldValues, FieldWrite(f, v) PROVE VcInv'
    <2>1. CASE vcOff
      BY <1>1, <2>1, Zenon DEF FieldWrite, ActWrite
    <2>2. CASE ~vcOff
      <3>1. f \in VcFields /\ f # "ctrl" /\ CacheWrite(f, v)
        BY <1>1, <2>2 DEF FieldWrite, ActWrite
      <3>2. Holds(f, v)
        BY <3>1, CacheWritten, Zenon
      <3> QED BY <1>1, <2>2, <3>1, <3>2, Zenon DEF FieldWrite, ActWrite, Holds
    <2> QED BY <2>1, <2>2
  <1>2. ASSUME NEW f \in VcFields, FieldRead(f) PROVE VcInv'
    <2>1. CASE vcOff
      BY <1>2, <2>1 DEF FieldRead, ActRead
    <2>2. CASE ~vcOff
      <3>1. CacheWrite(f, FieldValue(f))
        BY <1>2, <2>2 DEF FieldRead, ActRead
      <3>2. Holds(f, FieldValue(f))
        BY <3>1, CacheWritten, ReadTyped
      <3> QED BY <1>2, <2>2, <3>2, Zenon DEF FieldRead, FieldValue, Holds
    <2> QED BY <2>1, <2>2
  <1>3. CASE UpdateRead
    <2>1. CASE vcOff
      BY <1>3, <2>1 DEF UpdateRead, ActRead, FieldValue
    <2>2. CASE ~vcOff
      <3>1. CacheWrite("ctrl", FieldValue("ctrl"))
        BY <1>3, <2>2 DEF UpdateRead, ActRead
      <3>2. Holds("ctrl", FieldValue("ctrl")) /\ FieldValue("ctrl") \in {0, 1}
        BY <3>1, CacheWritten, ReadTyped
      <3> QED BY <1>3, <2>2, <3>2, Zenon DEF UpdateRead, Holds
    <2> QED BY <2>1, <2>2
  <1>4. CASE UpdateOther
    <2>1. CASE vcOff
      BY <1>4, <2>1, Zenon DEF UpdateOther, ActWrite
    <2>2. CASE ~vcOff
      <3>1. CacheWrite("ctrl", vcVal)
        BY <1>4, <2>2 DEF UpdateOther, ActWrite
      <3>2. Holds("ctrl", vcVal)
        BY <3>1, CacheWritten
      <3> QED BY <1>4, <2>2, <3>2, Zenon DEF UpdateOther, ActWrite, Holds
    <2> QED BY <2>1, <2>2
  <1>5. CASE WindowSet
    <2>1. CASE vcOff
      BY <1>5, <2>1, Zenon DEF WindowSet, ActWrite
    <2>2. CASE ~vcOff
      <3>1. CacheWrite("ctrl", 1)
        BY <1>5, <2>2 DEF WindowSet, ActWrite
      <3>2. Holds("ctrl", 1)
        BY <3>1, CacheWritten
      <3> QED BY <1>5, <2>2, <3>2, Zenon DEF WindowSet, ActWrite, Holds
    <2> QED BY <2>1, <2>2
  <1>6. CASE WindowClear
    <2>1. ~vcOff /\ CacheWrite("ctrl", 0)
      BY <1>6 DEF WindowClear, ActWrite
    <2>2. Holds("ctrl", 0)
      BY <2>1, CacheWritten
    <2> QED BY <1>6, <2>1, <2>2, Zenon DEF WindowClear, ActWrite, Holds
  <1>7. CASE FlushWindow
    <2>1. CASE ~Requested
      BY <1>7, <2>1 DEF FlushWindow, Requested
    <2>2. CASE Requested
      <3>1. ~vcOff /\ CacheWrite("ctrl", 1)
        BY <1>7, <2>2 DEF FlushWindow
      <3>2. Holds("ctrl", 1)
        BY <3>1, CacheWritten
      <3> QED BY <1>7, <2>2, <3>1, <3>2, Zenon DEF FlushWindow, Holds
    <2> QED BY <2>1, <2>2
  <1> QED BY <1>1, <1>2, <1>3, <1>4, <1>5, <1>6, <1>7

\* The other steps of the hypervisor, and the NMI.
LEMMA DirectSteps ==
  ASSUME VcInv,
         \/ WindowUnset \/ WindowRecheck \/ RestoreInitial \/ Activate \/ ResumeVmcs
         \/ FlushDirty \/ FlushBegin \/ FlushCompute \/ FlushPut \/ FlushCommit \/ Flushed
         \/ \E pending \in BOOLEAN : LastLook(pending)
         \/ EnterGuest \/ VmEntryFails \/ VcNmi
  PROVE  VcInv'
  <1> USE DEF VcInv, VcTypeOK, LineInv, CopyInv, OffInv, MarkInv, WindowInv
  <1>1. CASE WindowUnset
    BY <1>1, Zenon DEF WindowUnset
  <1>2. CASE WindowRecheck
    BY <1>2 DEF WindowRecheck
  <1>3. CASE RestoreInitial
    BY <1>3 DEF RestoreInitial, InitialFields
  <1>4. CASE VmEntryFails
    BY <1>4 DEF VmEntryFails, InitialFields
  <1>5. CASE Activate
    BY <1>5, Zenon DEF Activate
  <1>6. CASE ResumeVmcs
    BY <1>6 DEF ResumeVmcs
  <1>7. CASE EnterGuest
    BY <1>7 DEF EnterGuest
  <1>8. CASE FlushDirty
    BY <1>8, Zenon DEF FlushDirty
  <1>9. CASE FlushBegin
    BY <1>9 DEF FlushBegin
  <1>10. CASE FlushCompute
    BY <1>10 DEF FlushCompute, Requested
  <1>11. CASE FlushPut
    BY <1>11 DEF FlushPut
  <1>12. CASE FlushCommit
    BY <1>12 DEF FlushCommit
  <1>13. CASE Flushed
    BY <1>13, Zenon DEF Flushed
  <1>14. CASE VcNmi
    BY <1>14 DEF VcNmi
  <1>15. ASSUME NEW pending \in BOOLEAN, LastLook(pending) PROVE VcInv'
    BY <1>15, Zenon DEF LastLook
  <1> QED BY <1>1, <1>2, <1>3, <1>4, <1>5, <1>6, <1>7, <1>8,
             <1>9, <1>10, <1>11, <1>12, <1>13, <1>14, <1>15, Zenon

\* An exit gives the fields new values, empties the cache or switches it off.
LEMMA ExitStep ==
  ASSUME VcInv, NEW reason \in {"other", "nmi_window", "mtf", "ept_violation"},
         NEW new \in [StateFields \cup InfoFields -> FieldValues], VmExit(reason, new)
  PROVE  VcInv'
  <1> USE DEF VcInv, VcTypeOK, LineInv, CopyInv, OffInv, MarkInv, WindowInv
  <1>1. vcHw' \in [VcFields -> FieldValues] /\ vcHw'["ctrl"] = vcHw["ctrl"]
    BY DEF VmExit
  <1>2. CASE vcOff'
    BY <1>1, <1>2, Zenon DEF VmExit
  <1>3. CASE ~vcOff'
    <2>1. vcCache' = [f \in VcFields |-> EmptyLine]
      BY <1>3 DEF VmExit
    <2>2. /\ vcCache' \in [VcFields -> [val : FieldValues, valid : BOOLEAN, dirty : BOOLEAN]]
          /\ vcCache'["ctrl"].val = 0
          /\ \A f \in VcFields : ~vcCache'[f].valid /\ ~vcCache'[f].dirty
      BY <2>1 DEF EmptyLine
    <2>3. reason \in {"other", "nmi_window"}
      BY <1>3, Zenon DEF VmExit
    <2>4. vcPc = "guest" /\ vcPc' = IF reason = "nmi_window" THEN "window" ELSE "host"
      BY <2>3 DEF VmExit
    <2>5. vcOwed' = (vcOwed /\ reason # "nmi_window") /\ vcOff' \in BOOLEAN /\ vcFs' = FALSE
      BY DEF VmExit
    <2>6. UNCHANGED <<vcDirty, vcLaunched, vcNever, vcWin, vcStatus, vcVal>>
      BY DEF VmExit
    <2>7. VcTypeOK'
      BY <1>1, <2>2, <2>4, <2>5, <2>6, Zenon
    <2>8. LineInv' /\ CopyInv' /\ OffInv'
      BY <1>3, <2>2, <2>4, <2>6, Zenon
    <2>9. MarkInv' /\ WindowInv'
      BY <1>3, <2>4, <2>5, <2>6
    <2> QED BY <2>7, <2>8, <2>9
  <1> QED BY <1>2, <1>3

\* The conditions on lines, copies and marks are kept by every step.
LEMMA VcInductive == VcInit /\ [][VcNext]_vcVars => []VcInv
  <1>1. VcInit => VcInv
    <2> SUFFICES ASSUME VcInit PROVE VcInv
      OBVIOUS
    <2>1. VcTypeOK
      BY Zenon DEF VcInit, EmptyLine, VcTypeOK
    <2>2. LineInv /\ CopyInv
      BY DEF VcInit, EmptyLine, LineInv, CopyInv
    <2>3. OffInv /\ MarkInv /\ WindowInv
      BY DEF VcInit, OffInv, MarkInv, WindowInv
    <2> QED BY <2>1, <2>2, <2>3 DEF VcInv
  <1>2. VcInv /\ [VcNext]_vcVars => VcInv'
    <2> SUFFICES ASSUME VcInv, [VcNext]_vcVars PROVE VcInv'
      OBVIOUS
    <2>1. CASE UNCHANGED vcVars
      BY <2>1 DEF vcVars, VcInv, VcTypeOK, LineInv, CopyInv, OffInv, MarkInv, WindowInv
    <2>2. CASE VcNext
      BY <2>2, CacheSteps, DirectSteps, ExitStep, Zenon DEF VcNext
    <2> QED BY <2>1, <2>2
  <1> QED BY <1>1, <1>2, PTL

\* A step that no user of the object sees.
LEMMA AsStutter ==
  ASSUME \A f \in VcFields : SeenField(f)' = SeenField(f),
         vcPc' = "guest" <=> vcPc = "guest", vcOwed' = vcOwed
  PROVE  UNCHANGED Promise!vmcsVars
  <1>1. [f \in VcFields |-> SeenField(f)]' = [f \in VcFields |-> SeenField(f)]
    BY Zenon
  <1> QED BY <1>1 DEF Promise!vmcsVars

\* A step that changes one field software may write is a write of it.
LEMMA AsWrite ==
  ASSUME NEW g \in VcFields \ InfoFields, NEW v \in FieldValues,
         vcPc # "guest", vcPc' # "guest", vcOwed' = vcOwed,
         SeenField(g)' = v,
         \A f \in VcFields : f # g => SeenField(f)' = SeenField(f)
  PROVE  Promise!Next
  <1> DEFINE seen == [f \in VcFields |-> SeenField(f)]
  <1>1. seen' = [seen EXCEPT ![g] = v]
    BY Zenon
  <1>2. Promise!Write(g, v)
    BY <1>1 DEF Promise!Write
  <1> QED BY <1>2 DEF Promise!Next

\* Writes and reads through the cache are writes of the plain VMCS, or unseen.
LEMMA CacheStepsImplement ==
  ASSUME VcInv,
         \/ \E f \in StateFields, v \in FieldValues : FieldWrite(f, v)
         \/ \E f \in VcFields : FieldRead(f)
         \/ UpdateRead \/ UpdateOther \/ WindowSet \/ WindowClear \/ FlushWindow
  PROVE  Promise!Next \/ UNCHANGED Promise!vmcsVars
  <1> USE DEF VcInv, VcTypeOK
  <1>1. ASSUME NEW f \in StateFields, NEW v \in FieldValues, FieldWrite(f, v)
        PROVE  Promise!Next
    <2>1. f \in VcFields \ InfoFields /\ f # "ctrl"
      OBVIOUS
    <2>2. SeenField(f)' = v /\ \A g \in VcFields : g # f => SeenField(g)' = SeenField(g)
      <3>1. CASE vcOff
        BY <1>1, <2>1, <3>1 DEF FieldWrite, ActWrite, SeenField
      <3>2. CASE ~vcOff
        <4>1. Holds(f, v)
          BY <1>1, <2>1, <3>2, CacheWritten DEF FieldWrite, ActWrite
        <4> QED BY <1>1, <2>1, <3>2, <4>1 DEF FieldWrite, ActWrite, SeenField, Holds
      <3> QED BY <3>1, <3>2
    <2> QED BY <1>1, <2>1, <2>2, AsWrite DEF FieldWrite
  <1>2. ASSUME NEW f \in VcFields, FieldRead(f) PROVE UNCHANGED Promise!vmcsVars
    <2>1. \A g \in VcFields : SeenField(g)' = SeenField(g)
      <3>1. CASE vcOff
        BY <1>2, <3>1 DEF FieldRead, ActRead, SeenField
      <3>2. CASE ~vcOff
        <4>1. Holds(f, FieldValue(f))
          BY <1>2, <3>2, CacheWritten, ReadTyped DEF FieldRead, ActRead
        <4> QED BY <1>2, <3>2, <4>1 DEF FieldRead, FieldValue, SeenField, Holds, OffInv
      <3> QED BY <3>1, <3>2, Zenon
    <2> QED BY <1>2, <2>1, AsStutter DEF FieldRead
  <1>3. ASSUME UpdateRead PROVE UNCHANGED Promise!vmcsVars
    <2>1. \A g \in VcFields : SeenField(g)' = SeenField(g)
      <3>1. CASE vcOff
        BY <1>3, <3>1 DEF UpdateRead, ActRead, SeenField
      <3>2. CASE ~vcOff
        <4>1. Holds("ctrl", FieldValue("ctrl"))
          BY <1>3, <3>2, CacheWritten, ReadTyped DEF UpdateRead, ActRead
        <4> QED BY <1>3, <3>2, <4>1 DEF UpdateRead, FieldValue, SeenField, Holds, OffInv
      <3> QED BY <3>1, <3>2, Zenon
    <2> QED BY <1>3, <2>1, AsStutter DEF UpdateRead
  <1>4. ASSUME UpdateOther \/ WindowSet \/ WindowClear PROVE Promise!Next
    <2>1. PICK v \in {0, 1} : ActWrite("ctrl", v)
      BY <1>4 DEF UpdateOther, WindowSet, WindowClear
    <2>2. vcPc' \in {"host", "unset"} /\ vcPc \in {"update", "clear"}
          /\ vcOff' = vcOff /\ vcOwed' = vcOwed
      BY <1>4 DEF UpdateOther, WindowSet, WindowClear
    <2>3. SeenField("ctrl")' = v /\ \A g \in VcFields : g # "ctrl" => SeenField(g)' = SeenField(g)
      <3>1. CASE vcOff
        BY <2>1, <2>2, <3>1 DEF ActWrite, SeenField
      <3>2. CASE ~vcOff
        <4>1. Holds("ctrl", v) /\ vcHw' = vcHw
          BY <2>1, <3>2, CacheWritten DEF ActWrite
        <4> QED BY <2>2, <3>2, <4>1 DEF SeenField, Holds
      <3> QED BY <3>1, <3>2
    <2>4. "ctrl" \in VcFields \ InfoFields /\ v \in FieldValues
      OBVIOUS
    <2> QED BY <2>2, <2>3, <2>4, AsWrite
  <1>5. ASSUME FlushWindow PROVE Promise!Next \/ UNCHANGED Promise!vmcsVars
    <2>1. vcPc = "flush" /\ vcPc' = "dirty" /\ vcOff' = vcOff /\ vcOwed' = vcOwed
          /\ vcHw' = vcHw /\ ~vcOff
      BY <1>5 DEF FlushWindow, OffInv
    <2>2. CASE ~Requested
      <3>1. \A g \in VcFields : SeenField(g)' = SeenField(g)
        BY <1>5, <2>1, <2>2 DEF FlushWindow, SeenField
      <3> QED BY <2>1, <3>1, AsStutter
    <2>3. CASE Requested
      <3>1. Holds("ctrl", 1)
        BY <1>5, <2>3, CacheWritten DEF FlushWindow
      <3>2. SeenField("ctrl")' = 1 /\ \A g \in VcFields : g # "ctrl" => SeenField(g)' = SeenField(g)
        BY <2>1, <3>1 DEF SeenField, Holds
      <3>3. "ctrl" \in VcFields \ InfoFields /\ 1 \in FieldValues
        OBVIOUS
      <3> QED BY <2>1, <3>2, <3>3, AsWrite
    <2> QED BY <2>2, <2>3
  <1> QED BY <1>1, <1>2, <1>3, <1>4, <1>5

\* The flush is unseen but for the window bit, and the way into the guest is
\* open only with the bit set where an NMI is owed.
LEMMA DirectStepsImplement ==
  ASSUME VcInv, VcInv',
         \/ WindowUnset \/ WindowRecheck \/ RestoreInitial \/ Activate \/ ResumeVmcs
         \/ FlushDirty \/ FlushBegin \/ FlushCompute \/ FlushPut \/ FlushCommit \/ Flushed
         \/ \E pending \in BOOLEAN : LastLook(pending)
         \/ EnterGuest \/ VmEntryFails \/ VcNmi
  PROVE  Promise!Next \/ UNCHANGED Promise!vmcsVars
  <1> DEFINE seen == [f \in VcFields |-> SeenField(f)]
  <1>0. "ctrl" \in VcFields \ InfoFields /\ \A f \in VcFields : SeenField(f) \in FieldValues
        /\ vcHw'["ctrl"] \in FieldValues /\ SeenField("ctrl")' \in FieldValues
    BY DEF VcInv, VcTypeOK, SeenField
  <1>1. ASSUME WindowUnset \/ WindowRecheck \/ Activate \/ ResumeVmcs
               \/ FlushBegin \/ FlushCompute \/ Flushed
        PROVE  UNCHANGED Promise!vmcsVars
    <2>1. vcCache' = vcCache /\ vcHw' = vcHw /\ vcOwed' = vcOwed
          /\ vcPc # "guest" /\ vcPc' # "guest"
      BY <1>1 DEF WindowUnset, WindowRecheck, Activate, ResumeVmcs, FlushBegin, FlushCompute,
                  Flushed
    <2>2. \/ vcPc \in Late /\ vcPc' \in Late
          \/ vcOff /\ vcPc' \in Late
          \/ vcPc \notin Late /\ vcPc' \notin Late /\ vcOff' = vcOff
      <3>1. CASE WindowUnset
        BY <3>1 DEF WindowUnset
      <3>2. CASE WindowRecheck
        BY <3>2 DEF WindowRecheck
      <3>3. CASE Activate
        BY <3>3 DEF Activate
      <3>4. CASE ResumeVmcs
        <4>1. CASE vcOff
          BY <3>4, <4>1 DEF ResumeVmcs
        <4>2. CASE ~vcOff
          BY <3>4, <4>2 DEF ResumeVmcs
        <4> QED BY <4>1, <4>2
      <3>5. CASE FlushBegin
        BY <3>5 DEF FlushBegin
      <3>6. CASE FlushCompute
        BY <3>6 DEF FlushCompute
      <3>7. CASE Flushed
        <4>1. vcPc = "flushed" /\ vcPc' \in {"last", "entry"}
          BY <3>7 DEF Flushed
        <4> QED BY <4>1
      <3> QED BY <1>1, <3>1, <3>2, <3>3, <3>4, <3>5, <3>6, <3>7
    <2>3. \A f \in VcFields : SeenField(f)' = SeenField(f)
      BY <2>1, <2>2 DEF SeenField
    <2> QED BY <2>1, <2>3, AsStutter
  <1>2. ASSUME FlushDirty PROVE UNCHANGED Promise!vmcsVars
    <2>1. ~vcOff /\ vcOff' = vcOff /\ vcCache' = vcCache /\ vcOwed' = vcOwed /\ vcPc = "dirty"
      BY <1>2 DEF FlushDirty, VcInv, OffInv
    <2>2. \A f \in VcFields : vcCache[f].valid => vcDirty /\ vcCache[f].dirty
      BY <2>1 DEF VcInv, LineInv
    <2>3. \A f \in VcFields : vcHw'[f] = IF vcCache[f].valid /\ f \in StateFields
                                         THEN vcCache[f].val ELSE vcHw[f]
      BY <1>2, <2>2 DEF FlushDirty, VcInv, LineInv
    <2>4. vcPc' = IF vcCache["ctrl"].valid THEN "begin" ELSE "flushed"
      BY <1>2, <2>2 DEF FlushDirty, VcInv, LineInv
    <2>5. \A f \in InfoFields : vcCache[f].valid => vcCache[f].val = vcHw[f]
      BY <2>1 DEF VcInv, CopyInv
    <2>6. \A f \in VcFields : SeenField(f)' = SeenField(f)
      BY <2>1, <2>3, <2>4, <2>5, Zenon DEF SeenField
    <2> QED BY <2>1, <2>4, <2>6, AsStutter
  <1>3. ASSUME FlushPut PROVE UNCHANGED Promise!vmcsVars
    <2>1. ~vcOff /\ vcCache["ctrl"].valid
      BY <1>3 DEF FlushPut, VcInv, OffInv, CopyInv
    <2>2. \A f \in VcFields : SeenField(f)' = SeenField(f)
      BY <1>3, <2>1 DEF FlushPut, SeenField, VcInv, VcTypeOK
    <2> QED BY <1>3, <2>2, AsStutter DEF FlushPut
  <1>4. ASSUME FlushCommit PROVE Promise!Next
    <2>1. ~vcOff /\ \A f \in VcFields : f # "ctrl" /\ vcCache[f].valid => vcCache[f].val = vcHw[f]
      BY <1>4 DEF FlushCommit, VcInv, OffInv, CopyInv
    <2>2. \A f \in VcFields : f # "ctrl" => SeenField(f)' = SeenField(f)
      BY <1>4, <2>1 DEF FlushCommit, SeenField
    <2> QED BY <1>0, <1>4, <2>2, AsWrite DEF FlushCommit
  <1>5. ASSUME NEW pending \in BOOLEAN, LastLook(pending) PROVE Promise!Next
    <2>1. \A f \in VcFields : f # "ctrl" => SeenField(f)' = SeenField(f)
      BY <1>5 DEF LastLook, SeenField, VcInv, VcTypeOK
    <2> QED BY <1>0, <1>5, <2>1, AsWrite DEF LastLook
  <1>6. ASSUME VcNmi PROVE Promise!Next
    <2>1. SeenField("ctrl")' \in {SeenField("ctrl"), 1}
      BY <1>6 DEF VcNmi, SeenField, VcInv, VcTypeOK
    <2>2. \A f \in VcFields : f # "ctrl" => SeenField(f)' = SeenField(f)
      BY <1>6 DEF VcNmi, SeenField, VcInv, VcTypeOK
    <2>3. seen' = [seen EXCEPT !["ctrl"] = SeenField("ctrl")']
      BY <2>2, Zenon
    <2>4. vcPc # "guest" /\ vcPc' # "guest" /\ vcOwed' = TRUE
      BY <1>6 DEF VcNmi
    <2>5. \E v \in FieldValues : v = SeenField("ctrl")'
      BY <1>0
    <2>6. PICK v \in FieldValues : v = SeenField("ctrl")'
      BY <2>5
    <2>7. Promise!TakeNmi(v)
      BY <2>1, <2>3, <2>4, <2>6 DEF Promise!TakeNmi
    <2> QED BY <2>7 DEF Promise!Next
  <1>7. ASSUME EnterGuest PROVE Promise!Next
    <2>1. \A f \in VcFields : SeenField(f)' = SeenField(f) /\ SeenField(f) = vcHw[f]
      BY <1>7 DEF EnterGuest, SeenField
    <2>2. seen' = seen
      BY <2>1, Zenon
    <2>3. vcOwed => seen["ctrl"] = 1
      BY <1>7, <2>1 DEF EnterGuest, VcInv, WindowInv
    <2>4. vcPc # "guest" /\ vcPc' = "guest" /\ vcOwed' = vcOwed
      BY <1>7 DEF EnterGuest
    <2>5. Promise!Enter
      BY <2>2, <2>3, <2>4 DEF Promise!Enter
    <2> QED BY <2>5 DEF Promise!Next
  <1>8. ASSUME RestoreInitial \/ VmEntryFails PROVE Promise!Next
    <2> DEFINE zero == [f \in VcFields |-> 0]
    <2>1. vcOff' = TRUE /\ vcHw' = InitialFields /\ vcPc # "guest" /\ vcPc' # "guest"
          /\ vcOwed' = (vcOwed /\ vcFs)
      BY <1>8 DEF RestoreInitial, VmEntryFails
    <2>2. \A f \in VcFields : SeenField(f)' = IF f \in InfoFields THEN vcHw[f] ELSE 0
      BY <2>1 DEF SeenField, InitialFields
    <2>3. \A f \in InfoFields : SeenField(f) = vcHw[f]
      BY <1>8, Zenon DEF RestoreInitial, VmEntryFails, SeenField, VcInv, CopyInv
    <2>4. seen' = [f \in VcFields |-> IF f \in InfoFields THEN seen[f] ELSE zero[f]]
      BY <2>2, <2>3, Zenon
    <2>5. vcOwed' = vcOwed \/ vcOwed' = FALSE
      BY <2>1 DEF VcInv, VcTypeOK
    <2>6. Promise!Restore(zero) /\ zero \in [VcFields -> FieldValues]
      BY <2>1, <2>4, <2>5, Zenon DEF Promise!Restore
    <2> HIDE DEF zero
    <2> QED BY <2>6 DEF Promise!Next
  <1> QED BY <1>1, <1>2, <1>3, <1>4, <1>5, <1>6, <1>7, <1>8

\* An exit is an exit: whether the cache is emptied or switched off, the
\* fields are read from the hardware.
LEMMA ExitImplements ==
  ASSUME VcInv, VcInv', NEW reason \in {"other", "nmi_window", "mtf", "ept_violation"},
         NEW new \in [StateFields \cup InfoFields -> FieldValues], VmExit(reason, new)
  PROVE  Promise!Next
  <1> DEFINE seen == [f \in VcFields |-> SeenField(f)]
             fields == [f \in VcFields |-> IF f = "ctrl" THEN vcHw[f] ELSE new[f]]
  <1>1. vcHw' = fields /\ fields \in [VcFields -> FieldValues] /\ vcPc = "guest" /\ vcPc' # "guest"
    BY DEF VmExit, VcInv, VcTypeOK
  <1>2. \A f \in VcFields : SeenField(f)' = vcHw'[f]
    <2>1. CASE vcOff'
      BY <2>1 DEF SeenField
    <2>2. CASE ~vcOff'
      <3>1. vcCache' = [f \in VcFields |-> EmptyLine]
        BY <2>2 DEF VmExit
      <3> QED BY <3>1 DEF SeenField, EmptyLine
    <2> QED BY <2>1, <2>2, Zenon
  <1>3. seen' = fields
    BY <1>1, <1>2
  <1>4. seen["ctrl"] = vcHw["ctrl"] /\ fields["ctrl"] = vcHw["ctrl"]
    BY <1>1 DEF SeenField
  <1>5. vcOwed' = vcOwed \/ vcOwed' = (vcOwed /\ seen["ctrl"] = 0)
    <2>1. CASE reason # "nmi_window"
      BY <2>1 DEF VmExit, VcInv, VcTypeOK
    <2>2. CASE reason = "nmi_window"
      <3>1. seen["ctrl"] = 1 /\ vcOwed' = FALSE
        BY <1>4, <2>2, Zenon DEF VmExit
      <3>2. seen["ctrl"] # 0
        BY <3>1
      <3>3. vcOwed' <=> (vcOwed /\ seen["ctrl"] = 0)
        BY <3>1, <3>2
      <3> QED BY <3>1, <3>2, Zenon
    <2> QED BY <2>1, <2>2
  <1> HIDE DEF fields
  <1>6. Promise!Exit(fields)
    BY <1>1, <1>3, <1>4, <1>5 DEF Promise!Exit
  <1> QED BY <1>1, <1>6 DEF Promise!Next

\* Where the invariant holds before and after, a step of the object is a step
\* of what vmcs.h promises, or is not seen.
LEMMA VcStepImplements ==
  VcInv /\ VcInv' /\ [VcNext]_vcVars => [Promise!Next]_(Promise!vmcsVars)
  <1>1. ASSUME UNCHANGED vcVars PROVE UNCHANGED Promise!vmcsVars
    BY <1>1 DEF vcVars, Promise!vmcsVars, SeenField
  <1>2. ASSUME VcInv, VcInv', VcNext PROVE Promise!Next \/ UNCHANGED Promise!vmcsVars
    BY <1>2, CacheStepsImplement, DirectStepsImplement, ExitImplements, Zenon DEF VcNext
  <1> QED BY <1>1, <1>2

\* cpvmm's VMCS object (vmcs_actual.c over cache64.c), for any fields and
\* values: through every interleaving with NMIs, the fields its users write
\* are what the guest runs with and what later reads return, and the guest
\* never runs without the NMI window while an NMI is owed.
THEOREM CacheImplementsVmcs == VcSpec => Promise!Spec
  <1>1. VcInit => Promise!Init
    BY DEF VcInit, EmptyLine, Promise!Init, SeenField
  <1> QED BY <1>1, VcStepImplements, VcInductive, PTL DEF VcSpec, Promise!Spec

\* The same, in the form the model checker evaluates beside the other parts
\* of the hypervisor.
THEOREM CacheImplements == VcSpec => CacheIsTransparent
  <1>1. [Promise!Next]_(Promise!vmcsVars)
        => [UNCHANGED vcVars \/ Promise!Next]_(Promise!vmcsVars)
    OBVIOUS
  <1> QED BY <1>1, CacheImplementsVmcs, PTL DEF CacheIsTransparent, Promise!Spec
=============================================================================
