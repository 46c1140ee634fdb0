--------------------------- MODULE Startup_proofs ---------------------------
(***************************************************************************)
(* The start of the monitor, for any number of processors: what one of     *)
(* them uses was initialized before.                                       *)
(*                                                                         *)
(* The argument: no processor goes on before they were counted (CountInv); *)
(* how far the boot processor is says what is initialized and whether the  *)
(* others are released (BspInv); each processor is on the stack made for   *)
(* it and at its own place of the program (PlaceInv), which says what it   *)
(* has done for itself (HwInv); and the count of launched processors is    *)
(* exact (LaunchInv).                                                      *)
(***************************************************************************)
EXTENDS Startup, FiniteSetTheorems, TLAPS

\* z is x followed by y.
IsJoin(z, x, y) ==
  /\ Len(z) = Len(x) + Len(y)
  /\ \A i \in 1..Len(x) : z[i] = x[i]
  /\ \A i \in 1..Len(y) : z[i + Len(x)] = y[i]

\* A concatenation is that.
LEMMA Joined ==
  ASSUME NEW P, NEW x \in Seq(P), NEW y \in Seq(P)
  PROVE  x \o y \in Seq(P) /\ IsJoin(x \o y, x, y)
  BY DEF IsJoin

\* The boot processor's program, part by part: seventeen initializations, the
\* release of the other processors and six parts of the launch.
LEMMA BspParts ==
  /\ Len(BspProgram) = 24
  /\ \A i \in 1..17 : BspProgram[i] = BspInitialization[i]
  /\ BspProgram[18] = Part("release", {})
  /\ \A i \in 1..6 : BspProgram[i + 18] = BspLaunch[i]
  <1> DEFINE Release == Part("release", {})
             r == <<Release>>
  <1> HIDE DEF Release
  <1> DEFINE I == {StackInitialize, HeapInitialize, StartupCopies, DescriptorTables, LoadTables, HostMemory,
                   InstallMemory, VmxCapabilities, ControlRegisters, Managers, HostCpuInit, CreateGuests,
                   Events, IpcEngine, Addons, FreeCopies, VmxonRegions}
             L == {HostVmcsRegions, VmxOn, IpcActive, WaitForAll, LaunchEvent, ResumeGuest, Release}
             P == I \cup L
  <1>0. I \subseteq P /\ L \subseteq P
    OBVIOUS
  <1> HIDE DEF P
  <1>1. BspInitialization \in Seq(P) /\ Len(BspInitialization) = 17
    BY <1>0 DEF BspInitialization
  <1>2. BspLaunch \in Seq(P) /\ Len(BspLaunch) = 6
    BY <1>0 DEF BspLaunch
  <1>3. r \in Seq(P) /\ Len(r) = 1 /\ r[1] = Release
    BY <1>0
  <1> HIDE DEF r
  <1> DEFINE b == BspInitialization \o r
  <1>4. b \in Seq(P) /\ Len(b) = 18 /\ b[18] = Release /\ \A i \in 1..17 : b[i] = BspInitialization[i]
    <2>1. b \in Seq(P) /\ IsJoin(b, BspInitialization, r)
      BY <1>1, <1>3, Joined
    <2> HIDE DEF b
    <2> QED BY <1>1, <1>3, <2>1 DEF IsJoin
  <1>5. BspProgram = b \o BspLaunch
    BY DEF BspProgram, r, Release
  <1> HIDE DEF b
  <1>6. IsJoin(BspProgram, b, BspLaunch)
    BY <1>2, <1>4, <1>5, Joined
  <1> QED BY <1>2, <1>4, <1>6 DEF Release, IsJoin

\* What each of them does.
LEMMA BspDoes ==
  /\ BspProgram[1].does = "stacks" /\ BspProgram[2].does = "heap" /\ BspProgram[3].does = "copies"
  /\ BspProgram[4].does = "tables" /\ BspProgram[5].does = "load" /\ BspProgram[6].does = "memory"
  /\ BspProgram[7].does = "cr3" /\ BspProgram[8].does = "vmx" /\ BspProgram[9].does = "compliant"
  /\ BspProgram[10].does = "managers" /\ BspProgram[11].does = "host" /\ BspProgram[12].does = "guests"
  /\ BspProgram[13].does = "events" /\ BspProgram[14].does = "ipc" /\ BspProgram[15].does = "addons"
  /\ BspProgram[16].does = "freed" /\ BspProgram[17].does = "regions" /\ BspProgram[18].does = "release"
  /\ BspProgram[19].does = "vmcs" /\ BspProgram[20].does = "vmxon" /\ BspProgram[21].does = "active"
  /\ BspProgram[22].does = "wait" /\ BspProgram[23].does = "event" /\ BspProgram[24].does = "guest"
  <1>1. \A i \in 1..17 : BspProgram[i] = BspInitialization[i]
    BY BspParts
  <1>2. /\ BspProgram[19] = BspLaunch[1] /\ BspProgram[20] = BspLaunch[2] /\ BspProgram[21] = BspLaunch[3]
        /\ BspProgram[22] = BspLaunch[4] /\ BspProgram[23] = BspLaunch[5] /\ BspProgram[24] = BspLaunch[6]
    BY BspParts
  <1>3. BspProgram[18].does = "release"
    BY BspParts DEF Part
  <1>4. /\ BspProgram[19].does = "vmcs" /\ BspProgram[20].does = "vmxon" /\ BspProgram[21].does = "active"
        /\ BspProgram[22].does = "wait" /\ BspProgram[23].does = "event" /\ BspProgram[24].does = "guest"
    BY <1>2 DEF BspLaunch, HostVmcsRegions, VmxOn, IpcActive, WaitForAll, LaunchEvent, ResumeGuest, Part
  <1>5. /\ BspProgram[1].does = "stacks" /\ BspProgram[2].does = "heap" /\ BspProgram[3].does = "copies"
        /\ BspProgram[4].does = "tables" /\ BspProgram[5].does = "load" /\ BspProgram[6].does = "memory"
        /\ BspProgram[7].does = "cr3" /\ BspProgram[8].does = "vmx" /\ BspProgram[9].does = "compliant"
    BY <1>1 DEF BspInitialization, StackInitialize, HeapInitialize, StartupCopies, DescriptorTables, LoadTables, HostMemory,
      InstallMemory, VmxCapabilities, ControlRegisters, Part
  <1>6. /\ BspProgram[10].does = "managers" /\ BspProgram[11].does = "host" /\ BspProgram[12].does = "guests"
        /\ BspProgram[13].does = "events" /\ BspProgram[14].does = "ipc" /\ BspProgram[15].does = "addons"
        /\ BspProgram[16].does = "freed" /\ BspProgram[17].does = "regions"
    BY <1>1 DEF BspInitialization, Managers, HostCpuInit, CreateGuests,
      Events, IpcEngine, Addons, FreeCopies, VmxonRegions, Part
  <1> QED BY <1>3, <1>4, <1>5, <1>6

\* What the parts of the other processors do.
LEMMA ApDoes ==
  /\ Len(ApProgram) = 10
  /\ ApProgram[1].does = "load" /\ ApProgram[2].does = "cr3" /\ ApProgram[3].does = "compliant"
  /\ ApProgram[4].does = "host" /\ ApProgram[5].does = "vmcs" /\ ApProgram[6].does = "vmxon"
  /\ ApProgram[7].does = "active" /\ ApProgram[8].does = "count" /\ ApProgram[9].does = "event"
  /\ ApProgram[10].does = "guest"
  <1>1. Len(ApProgram) = 10
    BY DEF ApProgram
  <1>2. /\ ApProgram[1].does = "load" /\ ApProgram[2].does = "cr3" /\ ApProgram[3].does = "compliant"
        /\ ApProgram[4].does = "host" /\ ApProgram[5].does = "vmcs" /\ ApProgram[6].does = "vmxon"
        /\ ApProgram[7].does = "active" /\ ApProgram[8].does = "count" /\ ApProgram[9].does = "event"
        /\ ApProgram[10].does = "guest"
    BY DEF ApProgram, LoadTables, InstallMemory, ControlRegisters, HostCpuInit, HostVmcsRegions, VmxOn,
      IpcActive, CountMe, LaunchEvent, ResumeGuest, Part
  <1> QED BY <1>1, <1>2

\* The part with number b of the boot processor's program, a of the others'.
Nth(c, k, b, a) == k = (IF c = 0 THEN b ELSE a)

\* Where the parts that leave something behind stand in the programs.
LEMMA Positions ==
  ASSUME NEW c \in SuCpus, NEW k \in 1..Len(Program(c))
  PROVE  LET p == Program(c)[k].does
         IN /\ k \in Nat /\ Len(Program(c)) = (IF c = 0 THEN 24 ELSE 10)
            /\ p = "stacks" <=> c = 0 /\ k = 1
            /\ p = "heap" <=> c = 0 /\ k = 2
            /\ p = "copies" <=> c = 0 /\ k = 3
            /\ p = "vmx" <=> c = 0 /\ k = 8
            /\ p = "freed" <=> c = 0 /\ k = 16
            /\ p = "regions" <=> c = 0 /\ k = 17
            /\ p = "release" <=> c = 0 /\ k = 18
            /\ p = "wait" <=> c = 0 /\ k = 22
            /\ p = "count" <=> c # 0 /\ k = 8
            /\ p = "load" <=> Nth(c, k, 5, 1)
            /\ p = "cr3" <=> Nth(c, k, 7, 2)
            /\ p = "compliant" <=> Nth(c, k, 9, 3)
            /\ p = "vmcs" <=> Nth(c, k, 19, 5)
            /\ p = "vmxon" <=> Nth(c, k, 20, 6)
            /\ p = "active" <=> Nth(c, k, 21, 7)
            /\ p = "guest" <=> Nth(c, k, 24, 10)
  <1>1. CASE c = 0
    <2>1. Program(c) = BspProgram /\ k \in 1..24 /\ Len(Program(c)) = 24
      BY <1>1, BspParts, Zenon DEF Program
    <2> DEFINE p == Program(c)[k].does
    <2>10. k \in 1..24 /\ p = BspProgram[k].does
      BY <2>1
    <2> HIDE DEF p
    <2>2. /\ k = 1 => p = "stacks"
          /\ k = 2 => p = "heap"
          /\ k = 3 => p = "copies"
          /\ k = 4 => p = "tables"
          /\ k = 5 => p = "load"
          /\ k = 6 => p = "memory"
      BY <2>10, BspDoes, Zenon
    <2>3. /\ k = 7 => p = "cr3"
          /\ k = 8 => p = "vmx"
          /\ k = 9 => p = "compliant"
          /\ k = 10 => p = "managers"
          /\ k = 11 => p = "host"
          /\ k = 12 => p = "guests"
      BY <2>10, BspDoes
    <2>4. /\ k = 13 => p = "events"
          /\ k = 14 => p = "ipc"
          /\ k = 15 => p = "addons"
          /\ k = 16 => p = "freed"
          /\ k = 17 => p = "regions"
          /\ k = 18 => p = "release"
      BY <2>10, BspDoes
    <2>5. /\ k = 19 => p = "vmcs"
          /\ k = 20 => p = "vmxon"
          /\ k = 21 => p = "active"
          /\ k = 22 => p = "wait"
          /\ k = 23 => p = "event"
          /\ k = 24 => p = "guest"
      BY <2>10, BspDoes
    <2>6. CASE k \in 1..6
      BY <1>1, <2>1, <2>2, <2>6 DEF Nth, p
    <2>7. CASE k \in 7..12
      <3>1. /\ p = "vmx" <=> k = 8
            /\ p = "cr3" <=> k = 7
            /\ p = "compliant" <=> k = 9
            /\ p \notin {"stacks", "heap", "copies", "freed", "regions", "release", "wait", "count", "load", "vmcs",
                         "vmxon", "active", "guest"}
        BY <2>3, <2>7
      <3> QED BY <1>1, <2>1, <2>7, <3>1 DEF Nth, p
    <2>8. CASE k \in 13..18
      <3>1. /\ p = "freed" <=> k = 16
            /\ p = "regions" <=> k = 17
            /\ p = "release" <=> k = 18
            /\ p \notin {"stacks", "heap", "copies", "vmx", "wait", "count", "load", "cr3", "compliant", "vmcs",
                         "vmxon", "active", "guest"}
        BY <2>4, <2>8
      <3> QED BY <1>1, <2>1, <2>8, <3>1 DEF Nth, p
    <2>9. CASE k \in 19..24
      <3>1. /\ p = "wait" <=> k = 22
            /\ p = "vmcs" <=> k = 19
            /\ p = "vmxon" <=> k = 20
            /\ p = "active" <=> k = 21
            /\ p = "guest" <=> k = 24
            /\ p \notin {"stacks", "heap", "copies", "vmx", "freed", "regions", "release", "count", "load", "cr3",
                         "compliant"}
        BY <2>5, <2>9
      <3> QED BY <1>1, <2>1, <2>9, <3>1 DEF Nth, p
    <2> QED BY <2>1, <2>6, <2>7, <2>8, <2>9
  <1>2. CASE c # 0
    <2>1. Program(c) = ApProgram /\ k \in 1..10 /\ Len(Program(c)) = 10
      BY <1>2, ApDoes, Zenon DEF Program
    <2> QED BY <1>2, <2>1, ApDoes DEF Nth
  <1> QED BY <1>1, <1>2

\* What the boot processor's k-th part uses was left behind by an earlier part,
\* and is still there; what the other processors use is left by the parts before
\* the release.
LEMMA BspUses ==
  ASSUME NEW k \in 1..24, NEW u \in BspProgram[k].uses
  PROVE  \E i \in 1..17 : i < k /\ BspProgram[i].does = u /\ (i = 3 => k <= 16)
  <1>1. CASE k \in 1..17
    <2>1. BspProgram[k] = BspInitialization[k]
      BY <1>1, BspParts
    <2>2. \/ k = 2 /\ u = "stacks"
          \/ k = 3 /\ u = "heap"
          \/ k = 4 /\ u \in {"heap", "stacks"}
          \/ k = 5 /\ u = "tables"
          \/ k = 6 /\ u \in {"heap", "stacks", "tables", "copies"}
          \/ k = 7 /\ u = "memory"
          \/ k = 8 /\ u = "memory"
          \/ k = 9 /\ u = "vmx"
          \/ k = 10 /\ u \in {"heap", "vmx"}
          \/ k = 11 /\ u \in {"managers", "vmx"}
          \/ k = 12 /\ u \in {"managers", "memory", "copies"}
          \/ k = 13 /\ u = "guests"
          \/ k = 14 /\ u = "guests"
          \/ k = 15 /\ u \in {"guests", "events", "copies"}
          \/ k = 16 /\ u = "copies"
          \/ k = 17 /\ u \in {"vmx", "managers", "memory"}
      BY <1>1, <2>1 DEF BspInitialization, StackInitialize, HeapInitialize, StartupCopies, DescriptorTables,
         LoadTables, HostMemory, InstallMemory, VmxCapabilities, ControlRegisters, Managers, HostCpuInit,
         CreateGuests, Events, IpcEngine, Addons, FreeCopies, VmxonRegions, Part
    <2> QED BY <2>2, BspDoes
  <1>2. CASE k = 18
    BY <1>2, BspParts DEF Part
  <1>3. CASE k \in 19..24
    <2>1. k - 18 \in 1..6 /\ k = (k - 18) + 18
      BY <1>3
    <2>2. BspProgram[k] = BspLaunch[k - 18]
      BY <2>1, BspParts
    <2>3. u \in {"managers", "guests", "memory", "regions", "ipc", "events", "addons"}
      BY <2>1, <2>2 DEF BspLaunch, HostVmcsRegions, VmxOn, IpcActive, WaitForAll, LaunchEvent, ResumeGuest, Part
    <2> QED BY <1>3, <2>3, BspDoes
  <1> QED BY <1>1, <1>2, <1>3

\* What the other processors use comes from an initialization other than the
\* copies, which are freed.
LEMMA ApUses ==
  ASSUME NEW k \in 1..10, NEW u \in ApProgram[k].uses
  PROVE  \E i \in 1..17 : BspProgram[i].does = u /\ i # 3
  <1>1. u \in {"tables", "memory", "vmx", "managers", "guests", "regions", "ipc", "events", "addons"}
    BY DEF ApProgram, LoadTables, InstallMemory, ControlRegisters, HostCpuInit, HostVmcsRegions, VmxOn,
      IpcActive, CountMe, LaunchEvent, ResumeGuest, Part
  <1> QED BY <1>1, BspDoes

\* The pages of one processor's block.
Block(stacks, c) == (stacks.base + stacks.per * c)..(stacks.base + stacks.per * c + stacks.per - 1)

\* Multiplication keeps the order.
LEMMA Scaled ==
  ASSUME NEW p \in Nat, NEW x \in Nat, NEW y \in Nat, x <= y
  PROVE  p * x <= p * y /\ p * x \in Nat /\ p * (x + 1) = p * x + p
  <1>1. PICK z \in Nat : y = x + z
    <2>1. y - x \in Nat /\ y = x + (y - x)
      OBVIOUS
    <2> QED BY <2>1
  <1>2. p * z \in Nat /\ p * x \in Nat
    OBVIOUS
  <1>3. p * y = p * x + p * z
    BY <1>1
  <1> QED BY <1>2, <1>3

\* The stack and the exception stacks of a processor lie in its block, apart from
\* each other; the blocks lie between image and heap, apart from each other.
LEMMA Blocks ==
  ASSUME NEW num \in Nat, NEW c \in 0..(num - 1)
  PROVE  LET s == StacksFor(num)
             own == (StackPointer(s, c) - StackSize)..(StackPointer(s, c) - 1)
             exc == {ExceptionStack(s, c, n) : n \in 0..(ExtraStacks - 1)}
         IN /\ own \cup exc \subseteq Block(s, c)
            /\ own \cap exc = {}
            /\ Cardinality(exc) = ExtraStacks
            /\ Block(s, c) \subseteq ImageSize..(StacksEnd(s) - 1)
            /\ \A d \in 0..(num - 1) : d # c => Block(s, c) \cap Block(s, d) = {}
  <1> DEFINE s == StacksFor(num)
             p == StackSize + 6
             B == ImageSize + p * c
             own == (StackPointer(s, c) - StackSize)..(StackPointer(s, c) - 1)
             exc == {ExceptionStack(s, c, n) : n \in 0..(ExtraStacks - 1)}
  <1>1. s.base = ImageSize /\ s.per = p /\ s.max = num /\ p \in Nat /\ ImageSize \in Nat /\ StackSize \in Nat
    BY SuAssumption DEF StacksFor, ExtraStacks
  <1>2. p * c \in Nat /\ p * (c + 1) = p * c + p
    BY <1>1, Scaled
  <1>3. StackPointer(s, c) = B + p - 1
    BY <1>1, <1>2 DEF StackPointer
  <1>4. Block(s, c) = B..(B + p - 1) /\ B \in Nat
    BY <1>1, <1>2 DEF Block
  <1>5. exc = {B, B + 1, B + 2, B + 3, B + 4, B + p - 1}
    <2>1. \A n \in 0..5 : ExceptionStack(s, c, n) = IF n = 5 THEN B + p - 1 ELSE B + n
      BY <1>1, <1>3 DEF ExceptionStack, ExtraStacks
    <2>2. 0..(ExtraStacks - 1) = {0, 1, 2, 3, 4, 5}
      BY DEF ExtraStacks
    <2>3. exc = {ExceptionStack(s, c, n) : n \in {0, 1, 2, 3, 4, 5}}
      BY <2>2
    <2>4. /\ ExceptionStack(s, c, 0) = B /\ ExceptionStack(s, c, 1) = B + 1 /\ ExceptionStack(s, c, 2) = B + 2
          /\ ExceptionStack(s, c, 3) = B + 3 /\ ExceptionStack(s, c, 4) = B + 4 /\ ExceptionStack(s, c, 5) = B + p - 1
      BY <1>4, <2>1
    <2> HIDE DEF exc
    <2> QED BY <2>3, <2>4
  <1>6. own = (B + 5)..(B + p - 2)
    BY <1>1, <1>3, <1>4
  <1> HIDE DEF exc, own, B
  <1>7. own \cup exc \subseteq Block(s, c) /\ own \cap exc = {}
    BY <1>1, <1>4, <1>5, <1>6
  <1>8. Cardinality(exc) = ExtraStacks
    <2> DEFINE low == B..(B + 4)
    <2>1. IsFiniteSet(low) /\ Cardinality(low) = 5
      <3>1. B \in Int /\ B + 4 \in Int /\ ~(B > B + 4) /\ (B + 4) - B + 1 = 5
        BY <1>4
      <3>2. /\ IsFiniteSet(low)
            /\ Cardinality(low) = IF B > B + 4 THEN 0 ELSE (B + 4) - B + 1
        BY <3>1, FS_Interval, Zenon
      <3> QED BY <3>1, <3>2
    <2>2. exc = low \cup {B + p - 1} /\ B + p - 1 \notin low
      BY <1>1, <1>4, <1>5
    <2> HIDE DEF low
    <2>3. Cardinality(low \cup {B + p - 1}) = Cardinality(low) + 1
      BY <2>1, <2>2, FS_AddElement
    <2> QED BY <2>1, <2>2, <2>3 DEF ExtraStacks
  <1>9. Block(s, c) \subseteq ImageSize..(StacksEnd(s) - 1)
    <2>1. p * (c + 1) <= p * num /\ p * num \in Nat /\ p * num = num * p
      BY <1>1, Scaled
    <2>2. StacksEnd(s) = ImageSize + p * num
      BY <1>1, <2>1 DEF StacksEnd
    <2> QED BY <1>1, <1>2, <1>4, <2>1, <2>2 DEF B
  <1>10. ASSUME NEW d \in 0..(num - 1), d # c PROVE Block(s, c) \cap Block(s, d) = {}
    <2>1. p * d \in Nat /\ p * (d + 1) = p * d + p
      BY <1>1, Scaled
    <2>2. c < d => p * (c + 1) <= p * d
      BY <1>1, Scaled
    <2>3. d < c => p * (d + 1) <= p * c
      BY <1>1, Scaled
    <2>4. c < d \/ d < c
      BY <1>10
    <2>5. Block(s, d) = (ImageSize + p * d)..(ImageSize + p * d + p - 1)
      BY <1>1 DEF Block
    <2> QED BY <1>1, <1>2, <1>4, <2>1, <2>2, <2>3, <2>4, <2>5 DEF B
  <1> QED BY <1>7, <1>8, <1>9, <1>10 DEF own, exc

\* The number of parts; whether c is past part b of the boot processor, or a of
\* the others.
Last(c) == IF c = 0 THEN 24 ELSE 10
AtMost(c, b, a) == su.step[c] <= (IF c = 0 THEN b ELSE a)
Past(c, b, a) == ~AtMost(c, b, a)
\* Types of the state.
Bits == {"PE", "PG", "NE", "TS", "MP", "CD", "PAE", "OSFXSR", "VMXE"}
CpuStates == {"wake", "timeout", "accept", "off", "spin", "vmm_main", "released", "run", "guest", "trapped"}
Registers == [id : {NoId} \cup SuCpus, cr0 : SUBSET Bits, cr3 : {"loader", "monitor"}, cr4 : SUBSET Bits,
              optIn : {"open", "on"}, vmx : BOOLEAN, sp : Int]
Fixed == [one : SUBSET Bits, zero : SUBSET Bits]
BspNames == {BspProgram[i].does : i \in 1..24}

SuRecords ==
  [at : [SuCpus -> CpuStates], step : [SuCpus -> Nat], present : SUBSET Aps, enumerated : BOOLEAN,
   ready : Nat, counted : Nat, num : Nat, done : SUBSET BspNames, released : BOOLEAN, launched : Nat,
   active : SUBSET SuCpus, running : BOOLEAN, stacks : [base : Nat, per : Nat, max : Nat], heap : Nat,
   fixed : [cr0 : Fixed, cr4 : Fixed], hw : [SuCpus -> Registers], region : [SuCpus -> Nat],
   hostState : [SuCpus -> [cr0 : SUBSET Bits, cr3 : {"loader", "monitor"}, cr4 : SUBSET Bits,
                           tr : {NoId} \cup SuCpus, rsp : Int]]]

\* No processor has gone on before they were counted.
CountInv ==
  /\ su.num \in 1..(Cardinality(Aps) + 1)
  /\ su.at[0] \in {"wake", "timeout", "accept", "vmm_main", "run", "guest"}
  /\ su.at[0] \in {"wake", "timeout"} =>
       /\ ~su.enumerated
       /\ \A c \in Aps : su.at[c] \in {"off", "spin"}
       /\ \A c \in SuCpus : su.hw[c].sp = NullPage

\* How far the boot processor is says what was left behind so far, the order and
\* the release.
Bsp == su.step[0]
BspInv ==
  /\ \A i \in 1..24 : i < Bsp /\ (i = 3 => Bsp <= 16) => BspProgram[i].does \in su.done
  /\ "heap" \in su.done => Bsp > 2
  /\ su.released <=> Bsp > 18
  /\ Bsp > 1 => su.stacks = StacksFor(su.num)
  /\ Bsp \in 3..17 => su.heap = StacksEnd(StacksFor(su.num))
  /\ Bsp > 8 => su.fixed = FillVmxCapabilities
  /\ Bsp > 17 => \A c \in SuCpus : c < su.num => su.region[c] = StacksEnd(StacksFor(su.num)) + c
  /\ su.running => Bsp > 22

\* The stack made for c with the number of processors that were counted; which
\* processors are on theirs, and where each is in its program.
Own(c) == StackPointer(StacksFor(su.num), c)
PlaceInv(c) ==
  /\ su.step[c] \in 1..Last(c)
  /\ su.at[c] \in {"released", "run", "guest"} => c < su.num /\ su.hw[c].sp = Own(c)
  /\ su.hw[c].sp \in {NullPage, Own(c)}
  /\ su.at[c] = "trapped" => c >= su.num
  /\ su.at[c] \notin {"run", "guest"} => su.step[c] = 1
  /\ su.at[c] \in {"run", "guest"} /\ c # 0 => su.released
  /\ su.at[c] = "guest" => su.step[c] = Last(c)
\* What a processor has done for itself so far.
HwInv(c) ==
  /\ {"PE", "PG"} \subseteq su.hw[c].cr0
  /\ Past(c, 5, 1) => su.hw[c].id = c
  /\ Past(c, 7, 2) => su.hw[c].cr3 = "monitor"
  /\ Past(c, 9, 3) => "NE" \in su.hw[c].cr0 /\ "VMXE" \in su.hw[c].cr4
  /\ Past(c, 19, 5) => /\ su.hostState[c].rsp = su.hw[c].sp /\ su.hostState[c].tr = c
                       /\ su.hostState[c].cr3 = "monitor"
                       /\ "VMXE" \in su.hostState[c].cr4 /\ "NE" \in su.hostState[c].cr0
  /\ su.hw[c].vmx <=> Past(c, 20, 6)
  /\ Past(c, 21, 7) => c \in su.active
\* The count of the launched processors is exact, and the guest runs only when all
\* that were counted are.
LaunchInv ==
  /\ su.launched = Cardinality({c \in Aps : su.step[c] > 8})
  /\ su.running => \A c \in Aps : c < su.num => su.step[c] > 8
\* The inductive invariant.
SuInvar == CountInv /\ BspInv /\ (\A c \in SuCpus : PlaceInv(c) /\ HwInv(c)) /\ LaunchInv

\* The processors are numbered without gaps, the boot processor is 0.
LEMMA CpuNumbers ==
  /\ Cardinality(Aps) \in Nat /\ SuCpus \subseteq Nat /\ 0 \in SuCpus /\ 0 \notin Aps
  /\ \A c \in SuCpus : c # 0 <=> c \in Aps
  /\ \A c \in Nat : c <= Cardinality(Aps) => c \in SuCpus
  <1> DEFINE N == Cardinality(Aps)
  <1>1. N \in Nat
    BY SuAssumption, FS_CardinalityType
  <1>2. Aps = 1..N
    BY SuAssumption
  <1> HIDE DEF N
  <1> QED BY <1>1, <1>2 DEF SuCpus, N

\* What one part of the program leaves behind, field by field.
Advance(c) == IF su.step[c] < Last(c) THEN su.step[c] + 1 ELSE su.step[c]

CommonStep(c, p) ==
  /\ su'.at = IF p = "guest" THEN [su.at EXCEPT ![c] = "guest"] ELSE su.at
  /\ su'.step = [su.step EXCEPT ![c] = Advance(c)]
  /\ su'.done = (IF c = 0 THEN su.done \cup {p} ELSE su.done) \ (IF p = "freed" THEN {"copies"} ELSE {})
  /\ su'.present = su.present /\ su'.enumerated = su.enumerated /\ su'.ready = su.ready
  /\ su'.counted = su.counted /\ su'.num = su.num
  /\ su'.released = (su.released \/ p = "release")
  /\ su'.launched = IF p = "count" THEN su.launched + 1 ELSE su.launched
  /\ su'.active = IF p = "active" THEN su.active \cup {c} ELSE su.active
  /\ su'.running = (su.running \/ p = "wait")

MemoryStep(p) ==
  /\ su'.stacks = IF p = "stacks" THEN StacksFor(su.num) ELSE su.stacks
  /\ su'.heap = IF p = "heap" THEN StacksEnd(su.stacks)
                ELSE IF p = "regions" THEN su.heap + su.num ELSE su.heap
  /\ su'.fixed = IF p = "vmx" THEN FillVmxCapabilities ELSE su.fixed
  /\ su'.region = IF p = "regions" THEN [d \in SuCpus |-> IF d < su.num THEN su.heap + d ELSE NullPage]
                  ELSE su.region

CpuStep(c, p) ==
  LET h == su.hw[c]
      g == su'.hw[c]
  IN /\ \A d \in SuCpus : d # c => su'.hw[d] = su.hw[d] /\ su'.hostState[d] = su.hostState[d]
     /\ g.id = IF p = "load" THEN c ELSE h.id
     /\ g.cr3 = IF p = "cr3" THEN "monitor" ELSE h.cr3
     /\ g.cr0 = IF p = "compliant" THEN MakeCompliant(h.cr0, su.fixed.cr0) ELSE h.cr0
     /\ p = "compliant" => g.cr4 = MakeCompliant(h.cr4, su.fixed.cr4)
     /\ p # "compliant" => h.cr4 \subseteq g.cr4
     /\ g.sp = h.sp
     /\ g.vmx = (h.vmx \/ p = "vmxon")
     /\ su'.hostState[c] = IF p = "vmcs" THEN HostState(su, c) ELSE su.hostState[c]

Steps(c, p) == su' \in SuRecords /\ CommonStep(c, p) /\ MemoryStep(p) /\ CpuStep(c, p)

\* The parts that leave nothing in the processor that runs them.
Plain(p) == p \notin {"load", "cr3", "compliant", "regions", "vmcs", "vmxon"}

\* A part that changes nothing of its own changes no processor.
LEMMA CpuAlone ==
  ASSUME su \in SuRecords, NEW c \in SuCpus, NEW p, Plain(p),
         su'.hw = su.hw, su'.hostState = su.hostState
  PROVE  CpuStep(c, p)
  <1>1. su.hw[c].vmx \in BOOLEAN
    BY DEF SuRecords, Registers
  <1> QED BY <1>1 DEF CpuStep, Plain

\* Those parts, one by one.
LEMMA PlainParts ==
  ASSUME su \in SuRecords, NEW c \in SuCpus, RunPart(c), Len(Program(c)) = Last(c),
         NEW p, c = 0 => p \in BspNames, p = Current(c).does, Plain(p)
  PROVE  Steps(c, p)
  <1> DEFINE part == Current(c)
             next == [su EXCEPT !.step[c] = IF @ < Len(Program(c)) THEN @ + 1 ELSE @,
                           !.done = IF c = 0 THEN @ \cup {part.does} ELSE @]
             step == [su.step EXCEPT ![c] = Advance(c)]
             done == IF c = 0 THEN su.done \cup {p} ELSE su.done
  <1>1. next = [su EXCEPT !.step = step, !.done = done]
    BY DEF SuRecords, Advance
  <1>2. su' = Effect(next, c, part)
    BY DEF RunPart
  <1>3. step \in [SuCpus -> Nat] /\ done \in SUBSET BspNames
    BY DEF SuRecords, Advance
  <1> HIDE DEF step, done
  <1>4. CASE p = "stacks"
    <2>1. su' = [next EXCEPT !.stacks = StacksFor(next.num)]
      BY <1>2, <1>4 DEF Effect
    <2> HIDE DEF next
    <2>2. su' = [su EXCEPT !.step = step, !.done = done, !.stacks = StacksFor(su.num)]
      BY <1>1, <2>1 DEF SuRecords
    <2>3. StacksFor(su.num) \in [base : Nat, per : Nat, max : Nat]
      BY SuAssumption DEF SuRecords, StacksFor, ExtraStacks
    <2>4. su' \in SuRecords
      BY <1>3, <2>2, <2>3, Zenon DEF SuRecords
    <2>5. CommonStep(c, p)
      BY <1>4, <2>2 DEF CommonStep, SuRecords, step, done
    <2>6. MemoryStep(p)
      BY <1>4, <2>2 DEF MemoryStep, SuRecords
    <2>7. CpuStep(c, p)
      BY <2>2, CpuAlone DEF SuRecords
    <2> QED BY <2>4, <2>5, <2>6, <2>7 DEF Steps
  <1>5. CASE p = "heap"
    <2>1. su' = [next EXCEPT !.heap = StacksEnd(next.stacks)]
      BY <1>2, <1>5 DEF Effect
    <2> HIDE DEF next
    <2>2. su' = [su EXCEPT !.step = step, !.done = done, !.heap = StacksEnd(su.stacks)]
      BY <1>1, <2>1 DEF SuRecords
    <2>3. StacksEnd(su.stacks) \in Nat
      <3>1. su.stacks.base \in Nat /\ su.stacks.max \in Nat /\ su.stacks.per \in Nat
        BY DEF SuRecords
      <3>2. su.stacks.max * su.stacks.per \in Nat
        BY <3>1
      <3> QED BY <3>1, <3>2 DEF StacksEnd
    <2>4. su' \in SuRecords
      BY <1>3, <2>2, <2>3, Zenon DEF SuRecords
    <2>5. CommonStep(c, p)
      BY <1>5, <2>2 DEF CommonStep, SuRecords, step, done
    <2>6. MemoryStep(p)
      BY <1>5, <2>2 DEF MemoryStep, SuRecords
    <2>7. CpuStep(c, p)
      BY <2>2, CpuAlone DEF SuRecords
    <2> QED BY <2>4, <2>5, <2>6, <2>7 DEF Steps
  <1>6. CASE p = "freed"
    <2>1. su' = [next EXCEPT !.done = next.done \ {"copies"}]
      BY <1>2, <1>6 DEF Effect
    <2> HIDE DEF next
    <2>2. su' = [su EXCEPT !.step = step, !.done = done \ {"copies"}]
      BY <1>1, <2>1, Zenon DEF SuRecords
    <2>4. su' \in SuRecords
      BY <1>3, <2>2, Zenon DEF SuRecords
    <2>5. CommonStep(c, p)
      BY <1>6, <2>2 DEF CommonStep, SuRecords, step, done
    <2>6. MemoryStep(p)
      BY <1>6, <2>2 DEF MemoryStep, SuRecords
    <2>7. CpuStep(c, p)
      BY <2>2, CpuAlone DEF SuRecords
    <2> QED BY <2>4, <2>5, <2>6, <2>7 DEF Steps
  <1>7. CASE p = "vmx"
    <2>1. su' = [next EXCEPT !.fixed = FillVmxCapabilities]
      BY <1>2, <1>7 DEF Effect
    <2> HIDE DEF next
    <2>2. su' = [su EXCEPT !.step = step, !.done = done, !.fixed = FillVmxCapabilities]
      BY <1>1, <2>1 DEF SuRecords
    <2>3. FillVmxCapabilities \in [cr0 : Fixed, cr4 : Fixed]
      BY Zenon DEF SuRecords, FillVmxCapabilities, Fixed, FixedBits, HardwareCr0, HardwareCr4, Bits
    <2>4. su' \in SuRecords
      BY <1>3, <2>2, <2>3, Zenon DEF SuRecords
    <2>5. CommonStep(c, p)
      BY <1>7, <2>2 DEF CommonStep, SuRecords, step, done
    <2>6. MemoryStep(p)
      BY <1>7, <2>2 DEF MemoryStep, SuRecords
    <2>7. CpuStep(c, p)
      BY <2>2, CpuAlone DEF SuRecords
    <2> QED BY <2>4, <2>5, <2>6, <2>7 DEF Steps
  <1>8. CASE p = "release"
    <2>1. su' = [next EXCEPT !.released = TRUE]
      BY <1>2, <1>8 DEF Effect
    <2> HIDE DEF next
    <2>2. su' = [su EXCEPT !.step = step, !.done = done, !.released = TRUE]
      BY <1>1, <2>1 DEF SuRecords
    <2>4. su' \in SuRecords
      BY <1>3, <2>2, Zenon DEF SuRecords
    <2>5. CommonStep(c, p)
      BY <1>8, <2>2, Zenon DEF CommonStep, SuRecords, step, done
    <2>6. MemoryStep(p)
      BY <1>8, <2>2 DEF MemoryStep, SuRecords
    <2>7. CpuStep(c, p)
      BY <2>2, CpuAlone DEF SuRecords
    <2> QED BY <2>4, <2>5, <2>6, <2>7 DEF Steps
  <1>9. CASE p = "active"
    <2>1. su' = [next EXCEPT !.active = next.active \cup {c}]
      BY <1>2, <1>9 DEF Effect
    <2> HIDE DEF next
    <2>2. su' = [su EXCEPT !.step = step, !.done = done, !.active = su.active \cup {c}]
      BY <1>1, <2>1 DEF SuRecords
    <2>4. su' \in SuRecords
      BY <1>3, <2>2, Zenon DEF SuRecords
    <2>5. CommonStep(c, p)
      BY <1>9, <2>2 DEF CommonStep, SuRecords, step, done
    <2>6. MemoryStep(p)
      BY <1>9, <2>2 DEF MemoryStep, SuRecords
    <2>7. CpuStep(c, p)
      BY <2>2, CpuAlone DEF SuRecords
    <2> QED BY <2>4, <2>5, <2>6, <2>7 DEF Steps
  <1>10. CASE p = "count"
    <2>1. su' = [next EXCEPT !.launched = next.launched + 1]
      BY <1>2, <1>10 DEF Effect
    <2> HIDE DEF next
    <2>2. su' = [su EXCEPT !.step = step, !.done = done, !.launched = su.launched + 1]
      BY <1>1, <2>1 DEF SuRecords
    <2>3. su.launched + 1 \in Nat
      BY DEF SuRecords
    <2>4. su' \in SuRecords
      BY <1>3, <2>2, <2>3, Zenon DEF SuRecords
    <2>5. CommonStep(c, p)
      BY <1>10, <2>2 DEF CommonStep, SuRecords, step, done
    <2>6. MemoryStep(p)
      BY <1>10, <2>2 DEF MemoryStep, SuRecords
    <2>7. CpuStep(c, p)
      BY <2>2, CpuAlone DEF SuRecords
    <2> QED BY <2>4, <2>5, <2>6, <2>7 DEF Steps
  <1>11. CASE p = "wait"
    <2>1. su' = [next EXCEPT !.running = TRUE]
      BY <1>2, <1>11 DEF Effect
    <2> HIDE DEF next
    <2>2. su' = [su EXCEPT !.step = step, !.done = done, !.running = TRUE]
      BY <1>1, <2>1 DEF SuRecords
    <2>4. su' \in SuRecords
      BY <1>3, <2>2, Zenon DEF SuRecords
    <2>5. CommonStep(c, p)
      BY <1>11, <2>2, Zenon DEF CommonStep, SuRecords, step, done
    <2>6. MemoryStep(p)
      BY <1>11, <2>2 DEF MemoryStep, SuRecords
    <2>7. CpuStep(c, p)
      BY <2>2, CpuAlone DEF SuRecords
    <2> QED BY <2>4, <2>5, <2>6, <2>7 DEF Steps
  <1>12. CASE p = "guest"
    <2>1. su' = [next EXCEPT !.at[c] = "guest"]
      BY <1>2, <1>12 DEF Effect
    <2> HIDE DEF next
    <2>2. su' = [su EXCEPT !.step = step, !.done = done, !.at = [su.at EXCEPT ![c] = "guest"]]
      BY <1>1, <2>1 DEF SuRecords
    <2>3. [su.at EXCEPT ![c] = "guest"] \in [SuCpus -> CpuStates]
      BY DEF SuRecords, CpuStates
    <2>4. su' \in SuRecords
      BY <1>3, <2>2, <2>3, Zenon DEF SuRecords
    <2>5. CommonStep(c, p)
      BY <1>12, <2>2 DEF CommonStep, SuRecords, step, done
    <2>6. MemoryStep(p)
      BY <1>12, <2>2 DEF MemoryStep, SuRecords
    <2>7. CpuStep(c, p)
      BY <2>2, CpuAlone DEF SuRecords
    <2> QED BY <2>4, <2>5, <2>6, <2>7 DEF Steps
  <1>13. CASE p \notin {"stacks", "heap", "freed", "vmx", "release", "active", "count", "wait", "guest"}
    <2>1. su' = next
      BY <1>2, <1>13 DEF Effect, Plain
    <2> HIDE DEF next
    <2>2. su' = [su EXCEPT !.step = step, !.done = done]
      BY <1>1, <2>1 DEF SuRecords
    <2>4. su' \in SuRecords
      BY <1>3, <2>2, Zenon DEF SuRecords
    <2>5. CommonStep(c, p)
      BY <1>13, <2>2 DEF CommonStep, SuRecords, step, done
    <2>6. MemoryStep(p)
      BY <1>13, <2>2 DEF MemoryStep, SuRecords, Plain
    <2>7. CpuStep(c, p)
      BY <2>2, CpuAlone DEF SuRecords
    <2> QED BY <2>4, <2>5, <2>6, <2>7 DEF Steps
  <1> QED BY <1>4, <1>5, <1>6, <1>7, <1>8, <1>9, <1>10, <1>11, <1>12, <1>13

\* What VMXON checks, before the processor sets itself up for it.
VmxonReady(c) ==
  /\ su.hw[c].id = c /\ {"PE", "PG", "NE"} \subseteq su.hw[c].cr0
  /\ su.region[c] # NullPage
  /\ \A d \in SuCpus : d # c /\ su.hw[d].vmx => su.hw[d].id = d /\ su.region[d] # su.region[c]
  /\ ~su.hw[c].vmx

\* The parts that change the processor or its VMXON region, one by one.
LEMMA CpuParts ==
  ASSUME su \in SuRecords, NEW c \in SuCpus, RunPart(c), Len(Program(c)) = Last(c),
         NEW p, c = 0 => p \in BspNames, p = Current(c).does, ~Plain(p),
         p = "vmcs" => su.hw[c].id = c,
         p = "vmxon" => VmxonReady(c)
  PROVE  Steps(c, p)
  <1> DEFINE part == Current(c)
             next == [su EXCEPT !.step[c] = IF @ < Len(Program(c)) THEN @ + 1 ELSE @,
                           !.done = IF c = 0 THEN @ \cup {part.does} ELSE @]
             step == [su.step EXCEPT ![c] = Advance(c)]
             done == IF c = 0 THEN su.done \cup {p} ELSE su.done
  <1>1. next = [su EXCEPT !.step = step, !.done = done]
    BY DEF SuRecords, Advance
  <1>2. su' = Effect(next, c, part)
    BY DEF RunPart
  <1>3. step \in [SuCpus -> Nat] /\ done \in SUBSET BspNames
    BY DEF SuRecords, Advance
  <1> HIDE DEF step, done
  <1>0. su.hw \in [SuCpus -> Registers] /\ su.hw[c] \in Registers /\ su.hw[c].vmx \in BOOLEAN
    BY DEF SuRecords, Registers
  <1>10. ASSUME NEW h \in Registers, su' = [su EXCEPT !.step = step, !.done = done, !.hw = [su.hw EXCEPT ![c] = h]],
                p \in {"load", "cr3", "compliant", "vmxon"}
         PROVE  /\ su' \in SuRecords /\ CommonStep(c, p) /\ MemoryStep(p) /\ su'.hostState = su.hostState
                /\ su'.hw[c] = h /\ \A d \in SuCpus : d # c => su'.hw[d] = su.hw[d]
    <2>1. [su.hw EXCEPT ![c] = h] \in [SuCpus -> Registers]
      BY <1>0
    <2>2. su' \in SuRecords
      BY <1>3, <1>10, <2>1, Zenon DEF SuRecords
    <2>3. CommonStep(c, p)
      BY <1>10 DEF CommonStep, SuRecords, step, done
    <2>4. MemoryStep(p)
      BY <1>10 DEF MemoryStep, SuRecords
    <2>5. su'.hw = [su.hw EXCEPT ![c] = h] /\ su'.hostState = su.hostState
      BY <1>10 DEF SuRecords
    <2> QED BY <1>0, <2>2, <2>3, <2>4, <2>5
  <1>4. CASE p = "load"
    <2> DEFINE h == [su.hw[c] EXCEPT !.id = c]
    <2>1. su' = [next EXCEPT !.hw[c].id = c]
      BY <1>2, <1>4 DEF Effect
    <2> HIDE DEF next
    <2>2. su' = [su EXCEPT !.step = step, !.done = done, !.hw = [su.hw EXCEPT ![c] = h]]
      BY <1>0, <1>1, <2>1 DEF SuRecords
    <2>3. h \in Registers
      BY <1>0 DEF Registers
    <2>4. /\ h.id = c /\ h.cr3 = su.hw[c].cr3 /\ h.cr0 = su.hw[c].cr0 /\ h.cr4 = su.hw[c].cr4
          /\ h.sp = su.hw[c].sp /\ h.vmx = su.hw[c].vmx
      BY <1>0 DEF Registers
    <2> HIDE DEF h
    <2>20. /\ su' \in SuRecords /\ CommonStep(c, p) /\ MemoryStep(p) /\ su'.hostState = su.hostState
           /\ su'.hw[c] = h /\ \A d \in SuCpus : d # c => su'.hw[d] = su.hw[d]
      BY <1>4, <1>10, <2>2, <2>3, Zenon
    <2>21. CpuStep(c, p)
      BY <1>0, <1>4, <2>4, <2>20 DEF CpuStep
    <2> QED BY <2>20, <2>21 DEF Steps
  <1>5. CASE p = "cr3"
    <2> DEFINE h == [su.hw[c] EXCEPT !.cr3 = "monitor"]
    <2>1. su' = [next EXCEPT !.hw[c].cr3 = "monitor"]
      BY <1>2, <1>5 DEF Effect
    <2> HIDE DEF next
    <2>2. su' = [su EXCEPT !.step = step, !.done = done, !.hw = [su.hw EXCEPT ![c] = h]]
      BY <1>0, <1>1, <2>1 DEF SuRecords
    <2>3. h \in Registers
      BY <1>0 DEF Registers
    <2>4. /\ h.id = su.hw[c].id /\ h.cr3 = "monitor" /\ h.cr0 = su.hw[c].cr0 /\ h.cr4 = su.hw[c].cr4
          /\ h.sp = su.hw[c].sp /\ h.vmx = su.hw[c].vmx
      BY <1>0 DEF Registers
    <2> HIDE DEF h
    <2>20. /\ su' \in SuRecords /\ CommonStep(c, p) /\ MemoryStep(p) /\ su'.hostState = su.hostState
           /\ su'.hw[c] = h /\ \A d \in SuCpus : d # c => su'.hw[d] = su.hw[d]
      BY <1>5, <1>10, <2>2, <2>3, Zenon
    <2>21. CpuStep(c, p)
      BY <1>0, <1>5, <2>4, <2>20 DEF CpuStep
    <2> QED BY <2>20, <2>21 DEF Steps
  <1>6. CASE p = "compliant"
    <2> DEFINE x == MakeCompliant(su.hw[c].cr0, su.fixed.cr0)
               y == MakeCompliant(su.hw[c].cr4, su.fixed.cr4)
               h == [su.hw[c] EXCEPT !.cr0 = x, !.cr4 = y]
    <2>1. su' = [next EXCEPT !.hw[c].cr0 = MakeCompliant(@, next.fixed.cr0), !.hw[c].cr4 = MakeCompliant(@, next.fixed.cr4)]
      BY <1>2, <1>6 DEF Effect
    <2> HIDE DEF next
    <2>2. su' = [su EXCEPT !.step = step, !.done = done, !.hw = [su.hw EXCEPT ![c] = h]]
      <3> DEFINE f == [su.hw EXCEPT ![c] = [su.hw[c] EXCEPT !.cr0 = x]]
                 e == [f EXCEPT ![c].cr4 = y]
      <3>1. f[c].cr4 = su.hw[c].cr4
        BY <1>0 DEF Registers
      <3>2. next.hw = su.hw /\ next.fixed = su.fixed
        BY <1>1 DEF SuRecords
      <3>3. [next.hw EXCEPT ![c].cr0 = MakeCompliant(@, next.fixed.cr0)] = f
        BY <3>2
      <3> HIDE DEF f, x, y
      <3>4. su' = [su EXCEPT !.step = step, !.done = done, !.hw = e]
        BY <1>1, <2>1, <3>1, <3>2, <3>3, Zenon DEF SuRecords, y
      <3>5. e = [su.hw EXCEPT ![c] = h]
        BY <1>0, Zenon DEF f, Registers
      <3> QED BY <3>4, <3>5, Zenon
    <2>3. x \in SUBSET Bits /\ y \in SUBSET Bits
      BY <1>0 DEF MakeCompliant, SuRecords, Fixed, Registers
    <2> HIDE DEF x, y
    <2>4. h \in Registers
      BY <1>0, <2>3, Zenon DEF Registers
    <2>5. /\ h.id = su.hw[c].id /\ h.cr3 = su.hw[c].cr3 /\ h.cr0 = x /\ h.cr4 = y
          /\ h.sp = su.hw[c].sp /\ h.vmx = su.hw[c].vmx
      BY <1>0 DEF Registers
    <2> HIDE DEF h
    <2>20. /\ su' \in SuRecords /\ CommonStep(c, p) /\ MemoryStep(p) /\ su'.hostState = su.hostState
           /\ su'.hw[c] = h /\ \A d \in SuCpus : d # c => su'.hw[d] = su.hw[d]
      BY <1>6, <1>10, <2>2, <2>4, Zenon
    <2>21. CpuStep(c, p)
      BY <1>0, <1>6, <2>5, <2>20 DEF CpuStep, x, y
    <2> QED BY <2>20, <2>21 DEF Steps
  <1>7. CASE p = "vmxon"
    <2> DEFINE h == [su.hw[c] EXCEPT !.cr4 = @ \cup {"VMXE"}, !.optIn = "on"]
               g == [h EXCEPT !.vmx = TRUE]
               t == VmxonSetUp(next, c)
    <2>1. su' = VmcsHwVmxOn(next, c)
      BY <1>2, <1>7 DEF Effect
    <2> HIDE DEF next
    <2>2. t = [su EXCEPT !.step = step, !.done = done, !.hw = [su.hw EXCEPT ![c] = h]]
      <3> DEFINE f == [su.hw EXCEPT ![c] = [su.hw[c] EXCEPT !.cr4 = @ \cup {"VMXE"}]]
                 o == su.hw[c].optIn
                 e == [f EXCEPT ![c].optIn = IF o = "open" THEN "on" ELSE o]
      <3>1. f[c].optIn = o /\ o \in {"open", "on"}
        BY <1>0 DEF Registers
      <3>2. next.hw = su.hw
        BY <1>1 DEF SuRecords
      <3>3. [next.hw EXCEPT ![c].cr4 = @ \cup {"VMXE"}] = f
        BY <3>2
      <3> HIDE DEF f
      <3>4. t = [su EXCEPT !.step = step, !.done = done, !.hw = e]
        BY <1>1, <3>1, <3>2, <3>3, Zenon DEF SuRecords, VmxonSetUp
      <3>5. e = [su.hw EXCEPT ![c] = h]
        BY <1>0, <3>1, Zenon DEF f, Registers
      <3> QED BY <3>4, <3>5, Zenon
    <2>3. h \in Registers /\ h.vmx = su.hw[c].vmx /\ h.id = c /\ h.cr0 = su.hw[c].cr0 /\ "VMXE" \in h.cr4 /\ h.optIn = "on"
      BY <1>0, <1>7, Zenon DEF Registers, Bits, VmxonReady
    <2> HIDE DEF t
    <2>4. t.hw = [su.hw EXCEPT ![c] = h] /\ t.region = su.region
      BY <2>2 DEF SuRecords
    <2>5. t.hw[c] = h /\ \A d \in SuCpus : d # c => t.hw[d] = su.hw[d]
      BY <1>0, <2>4
    <2> HIDE DEF h
    <2>6. VmxonAccepted(t, c)
      BY <1>7, <2>3, <2>4, <2>5 DEF VmxonAccepted, VmxonReady
    <2>7. su' = [t EXCEPT !.hw[c].vmx = TRUE]
      BY <2>1, <2>6 DEF VmcsHwVmxOn, t
    <2>8. su' = [su EXCEPT !.step = step, !.done = done, !.hw = [su.hw EXCEPT ![c] = g]]
      BY <1>0, <2>2, <2>7, Zenon DEF SuRecords
    <2>9. g \in Registers
      BY <2>3, Zenon DEF Registers
    <2>10. /\ g.id = su.hw[c].id /\ g.cr3 = su.hw[c].cr3 /\ g.cr0 = su.hw[c].cr0 /\ su.hw[c].cr4 \subseteq g.cr4
           /\ g.sp = su.hw[c].sp /\ g.vmx
      BY <1>0, <2>3 DEF Registers, h
    <2> HIDE DEF g
    <2>11. g.vmx = TRUE
      BY <2>9, <2>10 DEF Registers
    <2>20. /\ su' \in SuRecords /\ CommonStep(c, p) /\ MemoryStep(p) /\ su'.hostState = su.hostState
           /\ su'.hw[c] = g /\ \A d \in SuCpus : d # c => su'.hw[d] = su.hw[d]
      BY <1>7, <1>10, <2>8, <2>9, Zenon
    <2>21. CpuStep(c, p)
      BY <1>0, <1>7, <2>10, <2>11, <2>20, Zenon DEF CpuStep
    <2> QED BY <2>20, <2>21 DEF Steps
  <1>8. CASE p = "regions"
    <2> DEFINE r == [d \in SuCpus |-> IF d < su.num THEN su.heap + d ELSE NullPage]
    <2>1. su' = AllocateVmxonRegions(next)
      BY <1>2, <1>8 DEF Effect
    <2> HIDE DEF next
    <2>2. su' = [su EXCEPT !.step = step, !.done = done, !.region = r, !.heap = su.heap + su.num]
      BY <1>1, <2>1 DEF SuRecords, AllocateVmxonRegions
    <2>3. su.heap \in Nat /\ su.num \in Nat /\ SuCpus \subseteq Nat
      <3>1. su.heap \in Nat /\ su.num \in Nat
        BY DEF SuRecords
      <3>2. SuCpus \subseteq Nat
        BY CpuNumbers
      <3> QED BY <3>1, <3>2
    <2>4. r \in [SuCpus -> Nat] /\ su.heap + su.num \in Nat
      BY <2>3 DEF NullPage
    <2> HIDE DEF r
    <2>5. su' \in SuRecords
      BY <1>3, <2>2, <2>4, Zenon DEF SuRecords
    <2>6. CommonStep(c, p)
      BY <1>8, <2>2 DEF CommonStep, SuRecords, step, done
    <2>7. MemoryStep(p)
      BY <1>8, <2>2 DEF MemoryStep, SuRecords, r
    <2>8. su'.hw = su.hw /\ su'.hostState = su.hostState
      BY <2>2 DEF SuRecords
    <2>9. CpuStep(c, p)
      BY <1>0, <1>8, <2>8 DEF CpuStep
    <2> QED BY <2>5, <2>6, <2>7, <2>9 DEF Steps
  <1>9. CASE p = "vmcs"
    <2> DEFINE x == HostState(su, c)
               r == [su.hostState EXCEPT ![c] = x]
    <2>1. su' = [next EXCEPT !.hostState[next.hw[c].id] = HostState(next, c)]
      BY <1>2, <1>9 DEF Effect
    <2> HIDE DEF next
    <2>2. next.hw = su.hw /\ next.fixed = su.fixed /\ next.stacks = su.stacks /\ next.hostState = su.hostState
      BY <1>1 DEF SuRecords
    <2>3. HostState(next, c) = x /\ next.hw[c].id = c
      BY <1>9, <2>2 DEF HostState
    <2> HIDE DEF x
    <2>4. su' = [su EXCEPT !.step = step, !.done = done, !.hostState = r]
      BY <1>1, <2>1, <2>2, <2>3, Zenon DEF SuRecords
    <2>5. r \in [SuCpus -> [cr0 : SUBSET Bits, cr3 : {"loader", "monitor"}, cr4 : SUBSET Bits,
                             tr : {NoId} \cup SuCpus, rsp : Int]]
      <3>1. MakeCompliant(su.hw[c].cr0, su.fixed.cr0) \in SUBSET Bits
        BY <1>0 DEF MakeCompliant, SuRecords, Fixed, Registers
      <3>2. MakeCompliant(su.hw[c].cr4, su.fixed.cr4) \in SUBSET Bits
        BY <1>0 DEF MakeCompliant, SuRecords, Fixed, Registers
      <3>3. c \in Int /\ su.stacks.base \in Int /\ su.stacks.per \in Int
        BY SuAssumption DEF SuRecords, SuCpus
      <3>4. StackPointer(su.stacks, c) \in Int
        BY <3>3 DEF StackPointer
      <3>5. su.hw[c].cr3 \in {"loader", "monitor"} /\ su.hw[c].id = c
        BY <1>0, <1>9 DEF Registers
      <3>6. x \in [cr0 : SUBSET Bits, cr3 : {"loader", "monitor"}, cr4 : SUBSET Bits,
                    tr : {NoId} \cup SuCpus, rsp : Int]
        BY <3>1, <3>2, <3>4, <3>5 DEF x, HostState
      <3> QED BY <3>6 DEF SuRecords
    <2>6. su'.hw = su.hw /\ su'.hostState = r
      BY <2>4 DEF SuRecords
    <2>7. r[c] = x /\ \A d \in SuCpus : d # c => r[d] = su.hostState[d]
      BY DEF SuRecords
    <2> HIDE DEF r
    <2>8. su' \in SuRecords
      BY <1>3, <2>4, <2>5, Zenon DEF SuRecords
    <2>9. CommonStep(c, p)
      BY <1>9, <2>4 DEF CommonStep, SuRecords, step, done
    <2>10. MemoryStep(p)
      BY <1>9, <2>4 DEF MemoryStep, SuRecords
    <2>11. CpuStep(c, p)
      BY <1>0, <1>9, <2>6, <2>7 DEF CpuStep, x
    <2> QED BY <2>8, <2>9, <2>10, <2>11 DEF Steps
  <1> QED BY <1>4, <1>5, <1>6, <1>7, <1>8, <1>9 DEF Plain

\* A processor that runs its program.
LEMMA Running ==
  ASSUME su \in SuRecords, SuInvar, NEW c \in SuCpus, su.at[c] = "run"
  PROVE  /\ su.step[c] \in 1..Last(c) /\ Len(Program(c)) = Last(c) /\ c < su.num
         /\ c # 0 => Bsp > 18
         /\ 0 \in SuCpus /\ Bsp \in 1..24
  <1>1. PlaceInv(c) /\ BspInv /\ PlaceInv(0) /\ 0 \in SuCpus
    BY CpuNumbers DEF SuInvar
  <1>2. /\ su.step[c] \in 1..Last(c) /\ c < su.num /\ (c # 0 => su.released)
        /\ su.step[0] \in 1..Last(0)
    BY <1>1 DEF PlaceInv
  <1>3. Len(Program(c)) = Last(c)
    BY BspParts, ApDoes, Zenon DEF Program, Last
  <1> QED BY <1>1, <1>2, <1>3 DEF BspInv, Bsp, Last

\* The heap does not start at page zero.
LEMMA StacksEndLarge ==
  ASSUME NEW num \in Nat, num >= 1
  PROVE  StacksEnd(StacksFor(num)) \in Nat /\ StacksEnd(StacksFor(num)) > 0
  <1> DEFINE p == StackSize + 6
  <1>1. StacksEnd(StacksFor(num)) = ImageSize + num * p /\ ImageSize \in Nat /\ p \in Nat /\ p > 0
    BY SuAssumption DEF StacksEnd, StacksFor, ExtraStacks
  <1>2. p * 1 <= p * num /\ p * num = num * p /\ p * num \in Nat
    BY <1>1, Scaled
  <1> QED BY <1>1, <1>2

\* When a processor gets to VMXON all that the instruction demands is there.
LEMMA ReadyForVmxon ==
  ASSUME su \in SuRecords, SuInvar, NEW c \in SuCpus, su.at[c] = "run", Nth(c, su.step[c], 20, 6)
  PROVE  VmxonReady(c)
  <1> DEFINE E == StacksEnd(StacksFor(su.num))
  <1>1. /\ Bsp > 17 /\ c < su.num
    <2>1. c < su.num /\ (c # 0 => Bsp > 18) /\ Bsp \in 1..24
      BY Running, Zenon
    <2> QED BY <2>1 DEF Nth, Bsp
  <1>2. su.num \in Nat /\ su.num >= 1 /\ \A d \in SuCpus : d \in Nat
    BY CpuNumbers DEF SuInvar, CountInv
  <1>3. E \in Nat /\ E > 0
    BY <1>2, StacksEndLarge
  <1>4. \A d \in SuCpus : d < su.num => su.region[d] = E + d
    BY <1>1 DEF SuInvar, BspInv
  <1>5. /\ su.hw[c].id = c /\ {"PE", "PG", "NE"} \subseteq su.hw[c].cr0 /\ ~su.hw[c].vmx
    BY DEF SuInvar, HwInv, Past, AtMost, Nth
  <1>6. ASSUME NEW d \in SuCpus, d # c, su.hw[d].vmx PROVE su.hw[d].id = d /\ d < su.num
    <2>1. Past(d, 20, 6)
      BY <1>6 DEF SuInvar, HwInv
    <2>2. su.step[d] \in Nat
      BY DEF SuRecords
    <2>3. Past(d, 5, 1) /\ su.step[d] # 1
      BY <2>1, <2>2 DEF Past, AtMost
    <2>4. su.at[d] \in {"run", "guest"} /\ su.hw[d].id = d
      BY <2>3 DEF SuInvar, PlaceInv, HwInv
    <2> QED BY <2>4 DEF SuInvar, PlaceInv
  <1> HIDE DEF E
  <1>7. su.region[c] # NullPage
    BY <1>1, <1>2, <1>3, <1>4 DEF NullPage
  <1>8. \A d \in SuCpus : d # c /\ su.hw[d].vmx => su.hw[d].id = d /\ su.region[d] # su.region[c]
    BY <1>1, <1>2, <1>3, <1>4, <1>6
  <1> QED BY <1>5, <1>7, <1>8 DEF VmxonReady

\* Any part of a program.
LEMMA PartSteps ==
  ASSUME su \in SuRecords, SuInvar, NEW c \in SuCpus, RunPart(c)
  PROVE  Steps(c, Current(c).does)
  <1> DEFINE p == Current(c).does
             k == su.step[c]
  <1>1. su.at[c] = "run"
    BY DEF RunPart
  <1>2. k \in 1..Last(c) /\ Len(Program(c)) = Last(c)
    BY <1>1, Running
  <1>3. c = 0 => p \in BspNames
    BY <1>2 DEF Current, Program, Last, BspNames
  <1>4. (p = "vmcs" <=> Nth(c, k, 19, 5)) /\ (p = "vmxon" <=> Nth(c, k, 20, 6))
    BY <1>2, Positions DEF Current
  <1>5. p = "vmcs" => su.hw[c].id = c
    BY <1>4 DEF SuInvar, HwInv, Past, AtMost, Nth
  <1>6. p = "vmxon" => VmxonReady(c)
    BY <1>1, <1>4, ReadyForVmxon
  <1> HIDE DEF p
  <1>7. CASE Plain(p)
    BY <1>2, <1>3, <1>7, PlainParts DEF p
  <1>8. CASE ~Plain(p)
    BY <1>2, <1>3, <1>5, <1>6, <1>8, CpuParts DEF p
  <1> QED BY <1>7, <1>8 DEF p

\* The positions of the parts, for the part that runs.
Placed(c, k, p) ==
  /\ p = "stacks" <=> c = 0 /\ k = 1
  /\ p = "heap" <=> c = 0 /\ k = 2
  /\ p = "copies" <=> c = 0 /\ k = 3
  /\ p = "vmx" <=> c = 0 /\ k = 8
  /\ p = "freed" <=> c = 0 /\ k = 16
  /\ p = "regions" <=> c = 0 /\ k = 17
  /\ p = "release" <=> c = 0 /\ k = 18
  /\ p = "wait" <=> c = 0 /\ k = 22
  /\ p = "count" <=> c # 0 /\ k = 8
  /\ p = "load" <=> Nth(c, k, 5, 1)
  /\ p = "cr3" <=> Nth(c, k, 7, 2)
  /\ p = "compliant" <=> Nth(c, k, 9, 3)
  /\ p = "vmcs" <=> Nth(c, k, 19, 5)
  /\ p = "vmxon" <=> Nth(c, k, 20, 6)
  /\ p = "active" <=> Nth(c, k, 21, 7)
  /\ p = "guest" <=> Nth(c, k, 24, 10)

\* A step of a running processor.
PartRun(c, k, p) ==
  /\ su \in SuRecords /\ SuInvar /\ c \in SuCpus /\ su.at[c] = "run"
  /\ k = su.step[c] /\ k \in 1..Last(c) /\ c < su.num /\ (c # 0 => Bsp > 18) /\ Bsp \in 1..24
  /\ p = Program(c)[k].does /\ Placed(c, k, p)
  /\ su' \in SuRecords /\ CommonStep(c, p) /\ MemoryStep(p) /\ CpuStep(c, p)
  /\ p = "wait" => su.launched = su.num - 1

\* Any part, with the place it has in the program.
LEMMA PartRuns ==
  ASSUME su \in SuRecords, SuInvar, NEW c \in SuCpus, RunPart(c)
  PROVE  PartRun(c, su.step[c], Current(c).does)
  <1> DEFINE p == Current(c).does
             k == su.step[c]
  <1>1. su.at[c] = "run" /\ (p = "wait" => su.launched = su.num - 1)
    BY DEF RunPart
  <1>2. /\ k \in 1..Last(c) /\ Len(Program(c)) = Last(c) /\ c < su.num
        /\ (c # 0 => Bsp > 18) /\ Bsp \in 1..24
    BY <1>1, Running, Zenon
  <1>3. Placed(c, k, p)
    BY <1>2, Positions, Zenon DEF Placed, Current
  <1>4. Steps(c, p)
    BY PartSteps
  <1>5. p = Program(c)[k].does
    BY DEF Current
  <1> HIDE DEF p, k
  <1>6. k = su.step[c]
    BY DEF k
  <1> QED BY <1>1, <1>2, <1>3, <1>4, <1>5, <1>6 DEF PartRun, Steps, p, k

\* A part moves only the processor that runs it, on its own stack.
LEMMA PartPlaces ==
  ASSUME NEW c, NEW k, NEW p, PartRun(c, k, p), NEW d \in SuCpus
  PROVE  PlaceInv(d)'
  <1>1. /\ PlaceInv(d) /\ su.at[c] = "run" /\ k = su.step[c] /\ k \in 1..Last(c) /\ c \in SuCpus
        /\ (p = "guest" <=> Nth(c, k, 24, 10))
    BY DEF PartRun, SuInvar, Placed
  <1>2. su'.at = IF p = "guest" THEN [su.at EXCEPT ![c] = "guest"] ELSE su.at
    BY DEF PartRun, CommonStep
  <1>3. su'.step = [su.step EXCEPT ![c] = Advance(c)] /\ su'.num = su.num
    BY DEF PartRun, CommonStep
  <1>4. su'.released = su.released \/ su'.released
    BY DEF PartRun, CommonStep, SuRecords
  <1>5. su'.hw[d].sp = su.hw[d].sp
    BY DEF PartRun, CpuStep
  <1>6. su.at \in [SuCpus -> CpuStates] /\ su.step \in [SuCpus -> Nat]
    BY DEF PartRun, SuRecords
  <1>7. CASE d # c
    <2>1. su'.at[d] = su.at[d] /\ su'.step[d] = su.step[d]
      BY <1>2, <1>3, <1>6, <1>7
    <2>2. su.released => su'.released
      BY Zenon DEF PartRun, CommonStep
    <2> QED BY <1>1, <1>3, <1>5, <2>1, <2>2 DEF PlaceInv, Own, Last
  <1>8. CASE d = c
    <2>1. su'.step[c] = Advance(c) /\ su'.at[c] = IF p = "guest" THEN "guest" ELSE "run"
      BY <1>1, <1>2, <1>3, <1>6
    <2>2. Advance(c) \in 1..Last(c) /\ (p = "guest" => Advance(c) = Last(c))
      BY <1>1 DEF Advance, Last, Nth
    <2>3. su.released => su'.released
      BY Zenon DEF PartRun, CommonStep
    <2>4. c < su.num /\ su.hw[c].sp = Own(c) /\ (c # 0 => su.released)
      BY <1>1, <1>8 DEF PlaceInv
    <2> QED BY <1>3, <1>5, <1>8, <2>1, <2>2, <2>3, <2>4 DEF PlaceInv, Own, Last
  <1> QED BY <1>7, <1>8

\* A part changes only the registers and the host state of the processor that
\* runs it.
LEMMA PartHw ==
  ASSUME NEW c, NEW k, NEW p, PartRun(c, k, p), NEW d \in SuCpus
  PROVE  HwInv(d)'
  <1>1. /\ HwInv(d) /\ HwInv(c) /\ k = su.step[c] /\ k \in 1..Last(c) /\ c \in SuCpus
    BY DEF PartRun, SuInvar
  <1>2. su'.step = [su.step EXCEPT ![c] = Advance(c)] /\ su'.active = IF p = "active" THEN su.active \cup {c} ELSE su.active
    BY DEF PartRun, CommonStep
  <1>3. su.step \in [SuCpus -> Nat]
    BY DEF PartRun, SuRecords
  <1>4. CASE d # c
    <2>1. su'.hw[d] = su.hw[d] /\ su'.hostState[d] = su.hostState[d] /\ su'.step[d] = su.step[d]
      BY <1>2, <1>3, <1>4 DEF PartRun, CpuStep
    <2>2. d \in su.active => d \in su'.active
      BY <1>2
    <2> QED BY <1>1, <2>1, <2>2 DEF HwInv, Past, AtMost
  <1>5. CASE d = c
    <2> DEFINE h == su.hw[c]
               g == su'.hw[c]
               x == su.hostState[c]
               y == su'.hostState[c]
    <2>1. su'.step[c] = Advance(c) /\ (k < Last(c) => Advance(c) = k + 1) /\ (k = Last(c) => Advance(c) = k)
      BY <1>1, <1>2, <1>3 DEF Advance
    <2>2. \A b, a \in Nat : b < 24 /\ a < 10 => (Past(c, b, a)' <=> Past(c, b, a) \/ Nth(c, k, b, a))
      BY <1>1, <2>1 DEF Past, AtMost, Nth, Last
    <2>3. /\ Past(c, 5, 1)' <=> Past(c, 5, 1) \/ p = "load"
          /\ Past(c, 7, 2)' <=> Past(c, 7, 2) \/ p = "cr3"
          /\ Past(c, 9, 3)' <=> Past(c, 9, 3) \/ p = "compliant"
          /\ Past(c, 19, 5)' <=> Past(c, 19, 5) \/ p = "vmcs"
          /\ Past(c, 20, 6)' <=> Past(c, 20, 6) \/ p = "vmxon"
          /\ Past(c, 21, 7)' <=> Past(c, 21, 7) \/ p = "active"
      BY <2>2 DEF PartRun, Placed
    <2>4. su.fixed = FillVmxCapabilities \/ p \notin {"compliant", "vmcs"}
      <3>1. p \in {"compliant", "vmcs"} => Bsp > 8
        BY <1>1 DEF PartRun, Placed, Nth, Bsp
      <3> QED BY <3>1 DEF PartRun, SuInvar, BspInv
    <2>5. \A s : /\ MakeCompliant(s, FillVmxCapabilities.cr0) = (s \cap {"PE", "PG", "NE", "TS", "MP", "CD"}) \cup {"NE"}
                  /\ MakeCompliant(s, FillVmxCapabilities.cr4) = (s \cap {"PAE", "OSFXSR", "VMXE"}) \cup {"VMXE"}
      BY DEF MakeCompliant, FillVmxCapabilities, FixedBits, HardwareCr0, HardwareCr4
    <2>6. /\ g.id = IF p = "load" THEN c ELSE h.id
          /\ g.cr3 = IF p = "cr3" THEN "monitor" ELSE h.cr3
          /\ g.cr0 = IF p = "compliant" THEN MakeCompliant(h.cr0, su.fixed.cr0) ELSE h.cr0
          /\ p = "compliant" => g.cr4 = MakeCompliant(h.cr4, su.fixed.cr4)
          /\ p # "compliant" => h.cr4 \subseteq g.cr4
          /\ g.sp = h.sp
          /\ g.vmx = (h.vmx \/ p = "vmxon")
          /\ y = IF p = "vmcs" THEN HostState(su, c) ELSE x
      BY DEF PartRun, CpuStep
    <2>7. /\ {"PE", "PG"} \subseteq h.cr0
          /\ Past(c, 5, 1) => h.id = c
          /\ Past(c, 7, 2) => h.cr3 = "monitor"
          /\ Past(c, 9, 3) => "NE" \in h.cr0 /\ "VMXE" \in h.cr4
          /\ Past(c, 19, 5) => /\ x.rsp = h.sp /\ x.tr = c /\ x.cr3 = "monitor"
                               /\ "VMXE" \in x.cr4 /\ "NE" \in x.cr0
          /\ h.vmx <=> Past(c, 20, 6)
          /\ Past(c, 21, 7) => c \in su.active
      BY <1>1 DEF HwInv
    <2>8. p = "vmcs" => /\ y.rsp = h.sp /\ y.tr = c /\ y.cr3 = "monitor"
                        /\ "VMXE" \in y.cr4 /\ "NE" \in y.cr0
      <3> SUFFICES ASSUME p = "vmcs"
                   PROVE  /\ y.rsp = h.sp /\ y.tr = c /\ y.cr3 = "monitor"
                          /\ "VMXE" \in y.cr4 /\ "NE" \in y.cr0
        OBVIOUS
      <3>1. Past(c, 5, 1) /\ Past(c, 7, 2) /\ Bsp > 1
        BY <1>1 DEF PartRun, Placed, Nth, Past, AtMost, Bsp
      <3>2. h.id = c /\ h.cr3 = "monitor" /\ su.stacks = StacksFor(su.num) /\ h.sp = Own(c)
        BY <2>7, <3>1 DEF PartRun, SuInvar, BspInv, PlaceInv
      <3>3. y = HostState(su, c) /\ su.fixed = FillVmxCapabilities
        BY <2>4, <2>6
      <3> HIDE DEF y, h
      <3>4. y.rsp = Own(c) /\ y.tr = c /\ y.cr3 = "monitor"
        BY <3>2, <3>3 DEF HostState, Own, h
      <3>5. "VMXE" \in y.cr4 /\ "NE" \in y.cr0
        BY <2>5, <3>3 DEF HostState
      <3> QED BY <3>2, <3>4, <3>5
    <2>9. p = "compliant" => {"PE", "PG", "NE"} \subseteq g.cr0 /\ "VMXE" \in g.cr4
      BY <2>4, <2>5, <2>6, <2>7
    <2>10. p = "active" => c \in su'.active
      BY <1>2
    <2>11. c \in su.active => c \in su'.active
      BY <1>2
    <2> HIDE DEF h, g, x, y
    <2>12. /\ {"PE", "PG"} \subseteq g.cr0
           /\ Past(c, 5, 1)' => g.id = c
           /\ Past(c, 7, 2)' => g.cr3 = "monitor"
           /\ Past(c, 9, 3)' => "NE" \in g.cr0 /\ "VMXE" \in g.cr4
      BY <2>3, <2>6, <2>7, <2>9
    <2>13. /\ Past(c, 19, 5)' => /\ y.rsp = g.sp /\ y.tr = c /\ y.cr3 = "monitor"
                                 /\ "VMXE" \in y.cr4 /\ "NE" \in y.cr0
      BY <2>3, <2>6, <2>7, <2>8
    <2>14. g.vmx <=> Past(c, 20, 6)'
      BY <2>3, <2>6, <2>7, Zenon
    <2>15. Past(c, 21, 7)' => c \in su'.active
      BY <2>3, <2>7, <2>10, <2>11
    <2> QED BY <1>5, <2>12, <2>13, <2>14, <2>15 DEF HwInv, g, y
  <1> QED BY <1>4, <1>5

\* The boot processor leaves behind what its program says, in that order, and the
\* others leave all of it alone.
LEMMA PartBsp ==
  ASSUME NEW c, NEW k, NEW p, PartRun(c, k, p)
  PROVE  BspInv'
  <1>1. /\ BspInv /\ k = su.step[c] /\ k \in 1..Last(c) /\ c \in SuCpus /\ Bsp \in 1..24
        /\ su.step \in [SuCpus -> Nat] /\ 0 \in SuCpus
    BY CpuNumbers DEF PartRun, SuInvar, SuRecords
  <1>2. /\ su'.step = [su.step EXCEPT ![c] = Advance(c)] /\ su'.num = su.num
        /\ su'.done = (IF c = 0 THEN su.done \cup {p} ELSE su.done) \ (IF p = "freed" THEN {"copies"} ELSE {})
        /\ su'.released = (su.released \/ p = "release")
        /\ su'.running = (su.running \/ p = "wait")
    BY DEF PartRun, CommonStep
  <1>3. /\ su'.stacks = IF p = "stacks" THEN StacksFor(su.num) ELSE su.stacks
        /\ su'.heap = IF p = "heap" THEN StacksEnd(su.stacks)
                      ELSE IF p = "regions" THEN su.heap + su.num ELSE su.heap
        /\ su'.fixed = IF p = "vmx" THEN FillVmxCapabilities ELSE su.fixed
        /\ su'.region = IF p = "regions" THEN [d \in SuCpus |-> IF d < su.num THEN su.heap + d ELSE NullPage]
                        ELSE su.region
    BY DEF PartRun, MemoryStep
  <1>4. /\ p = "stacks" <=> c = 0 /\ k = 1
        /\ p = "heap" <=> c = 0 /\ k = 2
        /\ p = "vmx" <=> c = 0 /\ k = 8
        /\ p = "freed" <=> c = 0 /\ k = 16
        /\ p = "regions" <=> c = 0 /\ k = 17
        /\ p = "release" <=> c = 0 /\ k = 18
        /\ p = "wait" <=> c = 0 /\ k = 22
    BY DEF PartRun, Placed
  <1>5. CASE c # 0
    <2>1. Bsp' = Bsp /\ su'.done = su.done /\ su'.released = su.released /\ su'.running = su.running
      <3>1. su.released \in BOOLEAN /\ su.running \in BOOLEAN
        BY DEF PartRun, SuRecords
      <3> QED BY <1>1, <1>2, <1>4, <1>5, <3>1 DEF Bsp
    <2>2. su'.stacks = su.stacks /\ su'.heap = su.heap /\ su'.fixed = su.fixed /\ su'.region = su.region
      BY <1>3, <1>4, <1>5
    <2> QED BY <1>1, <1>2, <2>1, <2>2 DEF BspInv
  <1>6. CASE c = 0
    <2>1. k = Bsp /\ k \in 1..24 /\ Bsp' = IF k < 24 THEN k + 1 ELSE k
      BY <1>1, <1>2, <1>6 DEF Bsp, Advance, Last
    <2>2. p = BspProgram[k].does
      BY <1>6 DEF PartRun, Program
    <2>3. \A i \in 1..24 : BspProgram[i].does = "copies" <=> i = 3
      <3> SUFFICES ASSUME NEW i \in 1..24 PROVE BspProgram[i].does = "copies" <=> i = 3
        OBVIOUS
      <3>1. 0 \in SuCpus /\ Program(0) = BspProgram /\ i \in 1..Len(Program(0))
        BY <1>1, BspParts, Zenon DEF Program
      <3>2. Program(0)[i].does = "copies" <=> 0 = 0 /\ i = 3
        BY <3>1, Positions
      <3> QED BY <3>1, <3>2
    <2>4. ASSUME NEW i \in 1..24, i < Bsp', i = 3 => Bsp' <= 16 PROVE BspProgram[i].does \in su'.done
      <3>1. su'.done = (su.done \cup {p}) \ (IF k = 16 THEN {"copies"} ELSE {})
        BY <1>2, <1>4, <1>6
      <3>2. BspProgram[i].does \in su.done \cup {p}
        <4>1. CASE i = k
          BY <2>2, <4>1
        <4>2. CASE i < k
          <5>1. i = 3 => Bsp <= 16
            BY <2>1, <2>4
          <5> QED BY <1>1, <2>1, <4>2, <5>1 DEF BspInv
        <4> QED BY <2>1, <2>4, <4>1, <4>2
      <3>3. k = 16 => i # 3
        BY <2>1, <2>4
      <3> QED BY <2>3, <3>1, <3>2, <3>3
    <2>5. "heap" \in su'.done => Bsp' > 2
      <3>1. "heap" \in su'.done => "heap" \in su.done \/ p = "heap"
        BY <1>2
      <3> QED BY <1>1, <1>4, <1>6, <2>1, <3>1 DEF BspInv
    <2>6. su'.released <=> Bsp' > 18
      <3>1. (su'.released <=> su.released \/ p = "release") /\ (su.released <=> Bsp > 18)
        BY <1>1, <1>2, Zenon DEF BspInv
      <3>2. p = "release" <=> k = 18
        BY <1>4, <1>6
      <3>3. Bsp' > 18 <=> Bsp > 18 \/ k = 18
        BY <2>1
      <3> QED BY <3>1, <3>2, <3>3
    <2>7. Bsp' > 1 => su'.stacks = StacksFor(su.num)
      BY <1>1, <1>3, <1>4, <1>6, <2>1 DEF BspInv
    <2>8. Bsp' \in 3..17 => su'.heap = StacksEnd(StacksFor(su.num))
      <3>1. CASE k = 2
        BY <1>1, <1>3, <1>4, <1>6, <2>1, <3>1 DEF BspInv
      <3>2. CASE k # 2
        <4>1. Bsp' \in 3..17 => Bsp \in 3..17 /\ k # 17
          BY <2>1, <3>2
        <4> QED BY <1>1, <1>3, <1>4, <2>1, <3>2, <4>1 DEF BspInv
      <3> QED BY <3>1, <3>2
    <2>9. Bsp' > 8 => su'.fixed = FillVmxCapabilities
      BY <1>1, <1>3, <1>4, <1>6, <2>1 DEF BspInv
    <2>10. Bsp' > 17 => \A d \in SuCpus : d < su.num => su'.region[d] = StacksEnd(StacksFor(su.num)) + d
      <3>1. CASE k = 17
        BY <1>1, <1>3, <1>4, <1>6, <2>1, <3>1 DEF BspInv
      <3>2. CASE k # 17
        <4>1. Bsp' > 17 => Bsp > 17
          BY <2>1, <3>2
        <4> QED BY <1>1, <1>3, <1>4, <3>2, <4>1 DEF BspInv
      <3> QED BY <3>1, <3>2
    <2>11. su'.running => Bsp' > 22
      <3>1. (su'.running => su.running \/ p = "wait") /\ (su.running => Bsp > 22)
        BY <1>1, <1>2, Zenon DEF BspInv
      <3>2. p = "wait" => k = 22
        BY <1>4, <1>6
      <3> QED BY <2>1, <3>1, <3>2
    <2> QED BY <1>2, <2>4, <2>5, <2>6, <2>7, <2>8, <2>9, <2>10, <2>11 DEF BspInv
  <1> QED BY <1>5, <1>6

\* The processors that were counted as launched.
LaunchedCpus == {c \in Aps : su.step[c] > 8}

\* The boot processor stops waiting only when the launched processors are as many
\* as were counted, and then they are those below that number.
LEMMA PartLaunch ==
  ASSUME NEW c, NEW k, NEW p, PartRun(c, k, p)
  PROVE  LaunchInv'
  <1>1. /\ LaunchInv /\ k = su.step[c] /\ k \in 1..Last(c) /\ c \in SuCpus
        /\ su.step \in [SuCpus -> Nat] /\ Aps \subseteq SuCpus /\ IsFiniteSet(Aps)
        /\ (p = "count" <=> c # 0 /\ k = 8)
    BY SuAssumption, Zenon DEF PartRun, SuInvar, SuRecords, SuCpus, Placed
  <1>2. /\ su'.step = [su.step EXCEPT ![c] = Advance(c)] /\ su'.num = su.num
        /\ su'.launched = IF p = "count" THEN su.launched + 1 ELSE su.launched
        /\ su'.running = (su.running \/ p = "wait")
    BY DEF PartRun, CommonStep
  <1>3. Advance(c) \in Nat /\ (k < Last(c) => Advance(c) = k + 1) /\ (k = Last(c) => Advance(c) = k)
    BY <1>1 DEF Advance
  <1>4. IsFiniteSet(LaunchedCpus)
    BY <1>1, FS_Subset DEF LaunchedCpus
  <1>5. su'.launched = Cardinality(LaunchedCpus')
    <2>1. CASE p = "count"
      <3>1. c \in Aps /\ k = 8 /\ Advance(c) = 9
        BY <1>1, <1>3, <2>1, CpuNumbers DEF Last
      <3>4. \A d \in Aps : d # c => su'.step[d] = su.step[d]
        BY <1>1, <1>2
      <3>5. su'.step[c] = 9 /\ su.step[c] = 8
        BY <1>1, <1>2, <3>1
      <3>2. LaunchedCpus' = LaunchedCpus \cup {c} /\ c \notin LaunchedCpus
        BY <3>1, <3>4, <3>5 DEF LaunchedCpus
      <3>3. Cardinality(LaunchedCpus \cup {c}) = Cardinality(LaunchedCpus) + 1
        BY <1>4, <3>2, FS_AddElement
      <3> QED BY <1>1, <1>2, <2>1, <3>2, <3>3, Zenon DEF LaunchInv, LaunchedCpus
    <2>2. CASE p # "count"
      <3>1. \A d \in Aps : su'.step[d] > 8 <=> su.step[d] > 8
        <4>1. \A d \in Aps : d # c => su'.step[d] = su.step[d]
          BY <1>1, <1>2
        <4>2. c \in Aps => k # 8 /\ su'.step[c] = Advance(c) /\ Last(c) = 10
          BY <1>1, <1>2, <2>2, CpuNumbers DEF Last
        <4>3. c \in Aps => (su'.step[c] > 8 <=> k > 8)
          BY <1>1, <1>3, <4>2
        <4> QED BY <1>1, <4>1, <4>3
      <3>2. LaunchedCpus' = LaunchedCpus
        BY <3>1 DEF LaunchedCpus
      <3> QED BY <1>1, <1>2, <2>2, <3>2 DEF LaunchInv, LaunchedCpus
    <2> QED BY <2>1, <2>2
  <1>6. ASSUME su'.running, NEW d \in Aps, d < su.num PROVE su'.step[d] > 8
    <2>1. su.step[d] > 8
      <3>1. CASE su.running
        BY <1>1, <1>6, <3>1 DEF LaunchInv
      <3>2. CASE p = "wait"
        <4> DEFINE n == su.num - 1
        <4>1. su.launched = n /\ su.num \in 1..(Cardinality(Aps) + 1)
          BY <3>2 DEF PartRun, SuInvar, CountInv
        <4>2. Cardinality(LaunchedCpus) = n /\ n \in Nat
          BY <1>1, <4>1, CpuNumbers DEF LaunchInv, LaunchedCpus
        <4>3. ASSUME NEW e \in LaunchedCpus PROVE e \in 1..n
          <5>1. e \in Aps /\ e \in SuCpus /\ su.step[e] # 1 /\ PlaceInv(e)
            BY <1>1 DEF LaunchedCpus, PartRun, SuInvar
          <5>2. e < su.num
            BY <5>1 DEF PlaceInv
          <5>3. e \in Nat /\ e # 0
            BY <5>1, CpuNumbers
          <5> QED BY <4>1, <5>2, <5>3, CpuNumbers
        <4>4. IsFiniteSet(1..n) /\ Cardinality(1..n) = n
          <5>1. 1 \in Int /\ n \in Int
            BY <4>2
          <5>2. IsFiniteSet(1..n) /\ Cardinality(1..n) = IF 1 > n THEN 0 ELSE n - 1 + 1
            BY <5>1, FS_Interval, Zenon
          <5> QED BY <4>2, <5>2
        <4> HIDE DEF n
        <4>5. LaunchedCpus \in SUBSET (1..n)
          BY <4>3
        <4>6. 1..n = LaunchedCpus
          BY <4>2, <4>4, <4>5, FS_Subset, Zenon
        <4>7. d \in 1..n
          <5>1. d \in SuCpus /\ d # 0
            BY <1>1, CpuNumbers
          <5>3. d \in Nat
            BY <5>1, CpuNumbers
          <5>4. su.num \in Nat
            BY <4>1, CpuNumbers
          <5> QED BY <1>6, <5>1, <5>3, <5>4 DEF n
        <4> QED BY <4>6, <4>7 DEF LaunchedCpus
      <3> QED BY <1>2, <1>6, <3>1, <3>2, Zenon
    <2>2. d # c => su'.step[d] = su.step[d]
      BY <1>1, <1>2
    <2>3. d = c => su'.step[d] >= su.step[d]
      BY <1>1, <1>2, <1>3 DEF Advance
    <2> QED BY <1>1, <1>2, <1>3, <2>1, <2>2, <2>3
  <1> QED BY <1>2, <1>5, <1>6 DEF LaunchInv, LaunchedCpus

\* A part runs only when the processors were counted.
LEMMA PartCount ==
  ASSUME NEW c, NEW k, NEW p, PartRun(c, k, p)
  PROVE  CountInv'
  <1>1. /\ CountInv /\ c \in SuCpus /\ 0 \in SuCpus /\ su.at[c] = "run" /\ su.at \in [SuCpus -> CpuStates]
    BY CpuNumbers DEF PartRun, SuInvar, SuRecords
  <1>2. /\ su'.num = su.num /\ su'.at = IF p = "guest" THEN [su.at EXCEPT ![c] = "guest"] ELSE su.at
    BY DEF PartRun, CommonStep
  <1>3. su.at[0] \notin {"wake", "timeout"}
    BY <1>1, CpuNumbers DEF CountInv
  <1>4. su'.at[0] \in {su.at[0], "guest"}
    BY <1>1, <1>2
  <1> QED BY <1>1, <1>2, <1>3, <1>4 DEF CountInv

\* What the steps that are no part of a program leave alone.
Keeps ==
  /\ su \in SuRecords /\ su' \in SuRecords /\ SuInvar
  /\ su'.step = su.step /\ su'.done = su.done /\ su'.released = su.released
  /\ su'.launched = su.launched /\ su'.active = su.active /\ su'.running = su.running
  /\ su'.stacks = su.stacks /\ su'.heap = su.heap /\ su'.fixed = su.fixed
  /\ su'.region = su.region /\ su'.hostState = su.hostState

\* Processor c goes on to s, and its registers become h.
Moves(c, s, h) ==
  /\ Keeps /\ c \in SuCpus /\ su'.num = su.num
  /\ su'.at = [su.at EXCEPT ![c] = s] /\ su'.hw = [su.hw EXCEPT ![c] = h]

\* It is enough to look at the processor that moves.
LEMMA Moved ==
  ASSUME NEW c, NEW s, NEW h, Moves(c, s, h), PlaceInv(c)', HwInv(c)', CountInv'
  PROVE  SuInvar'
  <1>1. BspInv'
    BY DEF Moves, Keeps, SuInvar, BspInv, Bsp
  <1>2. LaunchInv'
    BY DEF Moves, Keeps, SuInvar, LaunchInv
  <1>3. ASSUME NEW d \in SuCpus PROVE PlaceInv(d)' /\ HwInv(d)'
    <2>1. CASE d = c
      BY <2>1
    <2>2. CASE d # c
      <3>1. su.at \in [SuCpus -> CpuStates] /\ su.hw \in [SuCpus -> Registers]
        BY DEF Moves, Keeps, SuRecords
      <3>2. su'.at[d] = su.at[d] /\ su'.hw[d] = su.hw[d]
        BY <2>2, <3>1 DEF Moves
      <3>3. su'.step = su.step /\ su'.released = su.released /\ su'.active = su.active /\ su'.num = su.num
            /\ su'.hostState = su.hostState
        BY DEF Moves, Keeps
      <3>4. PlaceInv(d) /\ HwInv(d)
        BY DEF Moves, Keeps, SuInvar
      <3>5. PlaceInv(d)'
        BY <3>2, <3>3, <3>4 DEF PlaceInv, Own
      <3>6. HwInv(d)'
        BY <3>2, <3>3, <3>4 DEF HwInv, Past, AtMost
      <3> QED BY <3>5, <3>6
    <2> QED BY <2>1, <2>2
  <1> QED BY <1>1, <1>2, <1>3 DEF SuInvar

\* The steps that change nothing but where a processor is.
LEMMA Goes ==
  ASSUME su \in SuRecords, SuInvar, NEW c \in SuCpus, NEW s \in CpuStates,
         NEW pr \in SUBSET Aps, NEW e \in BOOLEAN, NEW r \in Nat,
         su' = [su EXCEPT !.at = [su.at EXCEPT ![c] = s], !.present = pr, !.enumerated = e, !.ready = r]
  PROVE  Moves(c, s, su.hw[c]) /\ su'.enumerated = e
  <1> DEFINE at == [su.at EXCEPT ![c] = s]
  <1>1. at \in [SuCpus -> CpuStates]
    BY DEF SuRecords
  <1>2. su' = [su EXCEPT !.at = at, !.present = pr, !.enumerated = e, !.ready = r]
    OBVIOUS
  <1>3. su'.at = at
    BY <1>2 DEF SuRecords
  <1> HIDE DEF at
  <1>4. su' \in SuRecords
    <2> DEFINE x == [su EXCEPT !.at = at]
               y == [x EXCEPT !.present = pr]
               z == [y EXCEPT !.enumerated = e]
    <2>1. x \in SuRecords
      BY <1>1 DEF SuRecords
    <2> HIDE DEF x
    <2>2. y \in SuRecords
      BY <2>1, Zenon DEF SuRecords
    <2> HIDE DEF y
    <2>3. z \in SuRecords
      BY <2>2, Zenon DEF SuRecords
    <2> HIDE DEF z
    <2>4. [z EXCEPT !.ready = r] \in SuRecords
      BY <2>3, Zenon DEF SuRecords
    <2>5. su' = [z EXCEPT !.ready = r]
      BY <1>2, Zenon DEF x, y, z
    <2> QED BY <2>4, <2>5, Zenon
  <1>5. /\ su'.step = su.step /\ su'.done = su.done /\ su'.released = su.released
        /\ su'.launched = su.launched /\ su'.active = su.active /\ su'.running = su.running
        /\ su'.stacks = su.stacks /\ su'.heap = su.heap /\ su'.fixed = su.fixed
        /\ su'.region = su.region /\ su'.hostState = su.hostState /\ su'.num = su.num
        /\ su'.hw = su.hw /\ su'.enumerated = e
    BY <1>2 DEF SuRecords
  <1>6. su.hw \in [SuCpus -> Registers]
    BY DEF SuRecords
  <1>7. su'.hw = [su.hw EXCEPT ![c] = su.hw[c]]
    BY <1>5, <1>6
  <1> QED BY <1>3, <1>4, <1>5, <1>7 DEF Moves, Keeps, at

\* One that is not yet counted as running is at the beginning of its program.
LEMMA GoesOn ==
  ASSUME NEW c, NEW s, Moves(c, s, su.hw[c]),
         s \in {"timeout", "vmm_main", "spin"} \/ (s = "run" /\ su.at[c] = "released" /\ su.released),
         su.at[c] \notin {"run", "guest"}, CountInv'
  PROVE  SuInvar'
  <1>1. /\ PlaceInv(c) /\ HwInv(c) /\ c \in SuCpus /\ su.at \in [SuCpus -> CpuStates]
        /\ su.hw \in [SuCpus -> Registers]
    BY DEF Moves, Keeps, SuInvar, SuRecords
  <1>2. su'.at[c] = s /\ su'.hw[c] = su.hw[c]
    BY <1>1 DEF Moves
  <1>3. su'.step = su.step /\ su'.released = su.released /\ su'.active = su.active /\ su'.num = su.num
        /\ su'.hostState = su.hostState
    BY DEF Moves, Keeps
  <1>4. PlaceInv(c)'
    BY <1>1, <1>2, <1>3 DEF PlaceInv, Own
  <1>5. HwInv(c)'
    BY <1>1, <1>2, <1>3 DEF HwInv, Past, AtMost
  <1> QED BY <1>4, <1>5, Moved

\* A processor that goes on when they were counted, or appears before.
LEMMA CountKept ==
  ASSUME NEW c, NEW s, NEW h, Moves(c, s, h), su'.enumerated = su.enumerated,
         c = 0 => s \in {"vmm_main", "run"},
         c # 0 /\ su.at[0] \in {"wake", "timeout"} => s \in {"off", "spin"} /\ h.sp = NullPage
  PROVE  CountInv'
  <1>1. /\ CountInv /\ c \in SuCpus /\ su.at \in [SuCpus -> CpuStates] /\ su.hw \in [SuCpus -> Registers]
        /\ 0 \in SuCpus /\ su'.num = su.num /\ Aps \subseteq SuCpus
    BY CpuNumbers DEF Moves, Keeps, SuInvar, SuRecords, SuCpus
  <1>2. su'.at[c] = s /\ su'.hw[c] = h /\ \A d \in SuCpus : d # c => su'.at[d] = su.at[d] /\ su'.hw[d] = su.hw[d]
    BY <1>1 DEF Moves
  <1>3. CASE c = 0
    BY <1>1, <1>2, <1>3 DEF CountInv
  <1>4. CASE c # 0
    <2>1. su'.at[0] = su.at[0]
      BY <1>1, <1>2, <1>4
    <2>2. ASSUME su.at[0] \in {"wake", "timeout"} PROVE \A d \in Aps : su'.at[d] \in {"off", "spin"}
      BY <1>1, <1>2, <1>4, <2>2 DEF CountInv
    <2>3. ASSUME su.at[0] \in {"wake", "timeout"} PROVE \A d \in SuCpus : su'.hw[d].sp = NullPage
      BY <1>1, <1>2, <1>4, <2>3 DEF CountInv
    <2> QED BY <1>1, <2>1, <2>2, <2>3 DEF CountInv
  <1> QED BY <1>3, <1>4

\* The boot processor wakes the others,
LEMMA WakeApsKeeps ==
  ASSUME su \in SuRecords, SuInvar, WakeAps
  PROVE  su' \in SuRecords /\ SuInvar'
  <1>1. su.at[0] = "wake" /\ 0 \in SuCpus /\ CountInv /\ Aps \subseteq SuCpus
    BY CpuNumbers DEF WakeAps, SuInvar, SuCpus
  <1>2. su' = [su EXCEPT !.at = [su.at EXCEPT ![0] = "timeout"], !.present = {}, !.enumerated = FALSE, !.ready = 0]
    BY DEF WakeAps
  <1>3. Moves(0, "timeout", su.hw[0]) /\ su'.enumerated = FALSE
    <2>1. {} \in SUBSET Aps /\ FALSE \in BOOLEAN /\ 0 \in Nat /\ "timeout" \in CpuStates
      BY DEF CpuStates
    <2> QED BY <1>1, <1>2, <2>1, Goes, Zenon
  <1>4. su.at \in [SuCpus -> CpuStates] /\ su'.num = su.num /\ su.hw \in [SuCpus -> Registers]
    BY <1>3 DEF Moves, SuRecords
  <1>5. su'.at[0] = "timeout" /\ (\A d \in SuCpus : d # 0 => su'.at[d] = su.at[d])
        /\ (\A d \in SuCpus : su'.hw[d] = su.hw[d])
    BY <1>1, <1>3, <1>4 DEF Moves
  <1>6. CountInv'
    BY <1>1, <1>3, <1>4, <1>5, CpuNumbers DEF CountInv
  <1>7. SuInvar'
    BY <1>1, <1>3, <1>6, GoesOn
  <1> QED BY <1>3, <1>7 DEF Moves, Keeps

\* finds all of those it counted,
LEMMA ApsAcceptedKeeps ==
  ASSUME su \in SuRecords, SuInvar, ApsAccepted
  PROVE  su' \in SuRecords /\ SuInvar'
  <1>1. su.at[0] = "accept" /\ 0 \in SuCpus
    BY CpuNumbers DEF ApsAccepted
  <1>2. su' = [su EXCEPT !.at = [su.at EXCEPT ![0] = "vmm_main"], !.present = su.present,
                         !.enumerated = su.enumerated, !.ready = su.ready]
    BY Zenon DEF ApsAccepted, SuRecords
  <1>3. Moves(0, "vmm_main", su.hw[0]) /\ su'.enumerated = su.enumerated
    <2>1. su.present \in SUBSET Aps /\ su.enumerated \in BOOLEAN /\ su.ready \in Nat /\ "vmm_main" \in CpuStates
      BY DEF CpuStates, SuRecords
    <2> QED BY <1>1, <1>2, <2>1, Goes, Zenon
  <1>4. CountInv'
    BY <1>3, CountKept
  <1>5. SuInvar'
    BY <1>1, <1>3, <1>4, GoesOn
  <1> QED BY <1>3, <1>5 DEF Moves, Keeps

\* one of them appears,
LEMMA ApAppearsKeeps ==
  ASSUME su \in SuRecords, SuInvar, NEW c \in SuCpus, c # 0, ApAppears(c)
  PROVE  su' \in SuRecords /\ SuInvar'
  <1>1. su.at[c] = "off" /\ c \in Aps /\ CountInv
    BY CpuNumbers DEF ApAppears, SuInvar
  <1>2. su' = [su EXCEPT !.at = [su.at EXCEPT ![c] = "spin"], !.present = su.present \cup {c},
                         !.enumerated = su.enumerated, !.ready = su.ready]
    BY Zenon DEF ApAppears, SuRecords
  <1>3. Moves(c, "spin", su.hw[c]) /\ su'.enumerated = su.enumerated
    <2>1. su.present \cup {c} \in SUBSET Aps /\ su.enumerated \in BOOLEAN /\ su.ready \in Nat /\ "spin" \in CpuStates
      BY <1>1 DEF CpuStates, SuRecords
    <2> QED BY <1>1, <1>2, <2>1, Goes, Zenon
  <1>4. su.at[0] \in {"wake", "timeout"} => su.hw[c].sp = NullPage
    BY <1>1 DEF CountInv
  <1>5. CountInv'
    BY <1>3, <1>4, CountKept
  <1>6. SuInvar'
    BY <1>1, <1>3, <1>5, GoesOn
  <1> QED BY <1>3, <1>6 DEF Moves, Keeps

\* is let through,
LEMMA ApPassesKeeps ==
  ASSUME su \in SuRecords, SuInvar, NEW c \in SuCpus, c # 0, ApPasses(c)
  PROVE  su' \in SuRecords /\ SuInvar'
  <1>1. su.at[c] = "spin" /\ su.enumerated /\ CountInv
    BY DEF ApPasses, SuInvar
  <1>2. su' = [su EXCEPT !.at = [su.at EXCEPT ![c] = "vmm_main"], !.present = su.present,
                         !.enumerated = su.enumerated, !.ready = su.ready + 1]
    BY Zenon DEF ApPasses, SuRecords
  <1>3. Moves(c, "vmm_main", su.hw[c]) /\ su'.enumerated = su.enumerated
    <2>1. su.present \in SUBSET Aps /\ su.enumerated \in BOOLEAN /\ su.ready + 1 \in Nat /\ "vmm_main" \in CpuStates
      BY DEF CpuStates, SuRecords
    <2> QED BY <1>1, <1>2, <2>1, Goes, Zenon
  <1>4. su.at[0] \notin {"wake", "timeout"}
    BY <1>1 DEF CountInv
  <1>5. CountInv'
    BY <1>3, <1>4, CountKept
  <1>6. SuInvar'
    BY <1>1, <1>3, <1>5, GoesOn
  <1> QED BY <1>3, <1>6 DEF Moves, Keeps

\* and is released.
LEMMA ApReleasedKeeps ==
  ASSUME su \in SuRecords, SuInvar, NEW c \in SuCpus, c # 0, ApReleased(c)
  PROVE  su' \in SuRecords /\ SuInvar'
  <1>1. su.at[c] = "released" /\ su.released /\ CountInv /\ c \in Aps
    BY CpuNumbers DEF ApReleased, SuInvar
  <1>2. su' = [su EXCEPT !.at = [su.at EXCEPT ![c] = "run"], !.present = su.present,
                         !.enumerated = su.enumerated, !.ready = su.ready]
    BY Zenon DEF ApReleased, SuRecords
  <1>3. Moves(c, "run", su.hw[c]) /\ su'.enumerated = su.enumerated
    <2>1. su.present \in SUBSET Aps /\ su.enumerated \in BOOLEAN /\ su.ready \in Nat /\ "run" \in CpuStates
      BY DEF CpuStates, SuRecords
    <2> QED BY <1>1, <1>2, <2>1, Goes, Zenon
  <1>4. su.at[0] \notin {"wake", "timeout"}
    BY <1>1 DEF CountInv
  <1>5. CountInv'
    BY <1>3, <1>4, CountKept
  <1>6. SuInvar'
    BY <1>1, <1>3, <1>5, GoesOn
  <1> QED BY <1>3, <1>6 DEF Moves, Keeps

\* An address of a stack is a number.
LEMMA StackPointerType ==
  ASSUME NEW n \in Nat, NEW c \in Nat
  PROVE  StackPointer(StacksFor(n), c) \in Int
  <1> DEFINE p == StackSize + 6
  <1>1. StackPointer(StacksFor(n), c) = ImageSize + p * (c + 1) - 1 /\ ImageSize \in Nat /\ p \in Nat
    BY SuAssumption DEF StackPointer, StacksFor, ExtraStacks
  <1>2. p * (c + 1) \in Nat
    BY <1>1
  <1> HIDE DEF p
  <1> QED BY <1>1, <1>2

\* A processor without a stack stops; another one moves to its own.
LEMMA VmmMainKeeps ==
  ASSUME su \in SuRecords, SuInvar, NEW c \in SuCpus, VmmMain(c)
  PROVE  su' \in SuRecords /\ SuInvar'
  <1>1. /\ su.at[c] = "vmm_main" /\ CountInv /\ PlaceInv(c) /\ HwInv(c) /\ (c # 0 => c \in Aps)
        /\ su.at \in [SuCpus -> CpuStates] /\ su.hw \in [SuCpus -> Registers] /\ su.num \in Nat /\ c \in Nat
    BY CpuNumbers DEF VmmMain, SuInvar, SuRecords
  <1>2. c # 0 => su.at[0] \notin {"wake", "timeout"}
    BY <1>1 DEF CountInv
  <1>3. su.step[c] = 1
    BY <1>1 DEF PlaceInv
  <1>4. CASE c >= su.num
    <2>1. su' = [su EXCEPT !.at = [su.at EXCEPT ![c] = "trapped"], !.present = su.present,
                           !.enumerated = su.enumerated, !.ready = su.ready]
      BY <1>4, Zenon DEF VmmMain, SuRecords
    <2>2. Moves(c, "trapped", su.hw[c]) /\ su'.enumerated = su.enumerated
      <3>1. su.present \in SUBSET Aps /\ su.enumerated \in BOOLEAN /\ su.ready \in Nat /\ "trapped" \in CpuStates
        BY DEF CpuStates, SuRecords
      <3> QED BY <2>1, <3>1, Goes, Zenon
    <2>3. c # 0
      BY <1>1, <1>4, CpuNumbers DEF CountInv
    <2>4. CountInv'
      BY <1>2, <2>2, <2>3, CountKept
    <2>5. su'.at[c] = "trapped" /\ su'.hw[c] = su.hw[c]
      BY <1>1, <2>2 DEF Moves
    <2>6. su'.step = su.step /\ su'.released = su.released /\ su'.active = su.active /\ su'.num = su.num
          /\ su'.hostState = su.hostState
      BY <2>2 DEF Moves, Keeps
    <2>7. PlaceInv(c)'
      BY <1>1, <1>3, <1>4, <2>5, <2>6 DEF PlaceInv, Own
    <2>8. HwInv(c)'
      BY <1>1, <2>5, <2>6 DEF HwInv, Past, AtMost
    <2>9. SuInvar'
      BY <2>2, <2>4, <2>7, <2>8, Moved
    <2> QED BY <2>2, <2>9 DEF Moves, Keeps
  <1>5. CASE ~(c >= su.num)
    <2> DEFINE s == IF c = 0 THEN "run" ELSE "released"
               h == [su.hw[c] EXCEPT !.cr4 = @ \cup {"OSFXSR"}, !.sp = Own(c)]
               at == [su.at EXCEPT ![c] = s]
               hw == [su.hw EXCEPT ![c] = h]
    <2>1. su' = [su EXCEPT !.at = at, !.hw = hw]
      <3> DEFINE x == su.hw[c].cr4 \cup {"OSFXSR"}
                 sp == StackPointer(StacksFor(su.num), c)
                 f == [su.hw EXCEPT ![c] = [su.hw[c] EXCEPT !.cr4 = x]]
                 e == [f EXCEPT ![c].sp = sp]
      <3>1. su' = [su EXCEPT !.at[c] = s, !.hw[c].cr4 = @ \cup {"OSFXSR"}, !.hw[c].sp = sp]
        BY <1>5 DEF VmmMain
      <3>2. [su.hw EXCEPT ![c].cr4 = @ \cup {"OSFXSR"}] = f
        BY <1>1
      <3> HIDE DEF f, sp, s
      <3>3. su' = [su EXCEPT !.at = at, !.hw = e]
        BY <3>1, <3>2, Zenon DEF SuRecords
      <3>4. e = hw
        BY <1>1, Zenon DEF Registers, f, sp, Own
      <3> QED BY <3>3, <3>4, Zenon
    <2>14. Own(c) \in Int /\ "OSFXSR" \in Bits
      BY <1>1, StackPointerType DEF Own, Bits
    <2>2. h \in Registers
      <3> DEFINE g == su.hw[c]
                 x == g.cr4 \cup {"OSFXSR"}
                 o == Own(c)
      <3>1. g \in Registers
        BY <1>1
      <3>2. x \in SUBSET Bits /\ o \in Int
        BY <2>14, <3>1 DEF Registers
      <3>3. h = [g EXCEPT !.cr4 = x, !.sp = o]
        OBVIOUS
      <3> HIDE DEF g, x, o
      <3> QED BY <3>1, <3>2, <3>3, Zenon DEF Registers
    <2>3. h.sp = Own(c) /\ h.cr0 = su.hw[c].cr0 /\ h.vmx = su.hw[c].vmx
      BY <1>1 DEF Registers
    <2>4. at \in [SuCpus -> CpuStates]
      BY <1>1 DEF CpuStates
    <2> HIDE DEF h
    <2>5. hw \in [SuCpus -> Registers]
      BY <1>1, <2>2
    <2> HIDE DEF at, hw, s
    <2>6. su' \in SuRecords
      BY <2>1, <2>4, <2>5, Zenon DEF SuRecords
    <2>7. /\ su'.step = su.step /\ su'.done = su.done /\ su'.released = su.released
          /\ su'.launched = su.launched /\ su'.active = su.active /\ su'.running = su.running
          /\ su'.stacks = su.stacks /\ su'.heap = su.heap /\ su'.fixed = su.fixed
          /\ su'.region = su.region /\ su'.hostState = su.hostState /\ su'.num = su.num
          /\ su'.at = at /\ su'.hw = hw /\ su'.enumerated = su.enumerated
      BY <2>1 DEF SuRecords
    <2>8. Moves(c, s, h)
      BY <2>6, <2>7 DEF Moves, Keeps, at, hw
    <2>9. CountInv'
      BY <1>2, <2>7, <2>8, CountKept DEF s
    <2>10. su'.at[c] = s /\ su'.hw[c] = h
      BY <1>1, <2>7 DEF at, hw
    <2>11. PlaceInv(c)'
      BY <1>1, <1>3, <1>5, <2>3, <2>7, <2>10 DEF PlaceInv, Own, s
    <2>12. HwInv(c)'
      BY <1>1, <1>3, <2>3, <2>7, <2>10 DEF HwInv, Past, AtMost
    <2>13. SuInvar'
      BY <2>8, <2>9, <2>11, <2>12, Moved
    <2> QED BY <2>6, <2>13
  <1> QED BY <1>4, <1>5

\* The boot processor counts the others: none of them has gone on before.
LEMMA EnumerateApsKeeps ==
  ASSUME su \in SuRecords, SuInvar, EnumerateAps
  PROVE  su' \in SuRecords /\ SuInvar'
  <1> DEFINE n == Cardinality(su.present)
             s == IF n > 0 THEN "accept" ELSE "vmm_main"
             at == [su.at EXCEPT ![0] = s]
             en == n > 0
             m == n + 1
  <1>1. /\ su.at[0] = "timeout" /\ 0 \in SuCpus /\ Aps \subseteq SuCpus /\ SuCpus = {0} \cup Aps
        /\ su.at \in [SuCpus -> CpuStates] /\ su.present \subseteq Aps
    BY CpuNumbers DEF EnumerateAps, SuRecords, SuCpus
  <1>2. /\ \A c \in Aps : su.at[c] \in {"off", "spin"}
        /\ \A c \in SuCpus : su.hw[c].sp = NullPage
    BY <1>1, Zenon DEF SuInvar, CountInv
  <1>3. n \in Nat /\ n <= Cardinality(Aps)
    BY <1>1, SuAssumption, FS_Subset, FS_CardinalityType
  <1>4. su' = [su EXCEPT !.counted = n, !.num = m, !.enumerated = en, !.at = at]
    BY DEF EnumerateAps
  <1>5. at \in [SuCpus -> CpuStates] /\ en \in BOOLEAN /\ m \in Nat /\ m \in 1..(Cardinality(Aps) + 1)
    BY <1>1, <1>3, CpuNumbers DEF CpuStates
  <1>6. at[0] \in {"accept", "vmm_main"} /\ \A c \in Aps : at[c] = su.at[c]
    BY <1>1, CpuNumbers
  <1> HIDE DEF n, at, en, m
  <1>7. su' \in SuRecords
    <2> DEFINE x == [su EXCEPT !.counted = n]
               y == [x EXCEPT !.num = m]
               z == [y EXCEPT !.enumerated = en]
    <2>1. x \in SuRecords
      BY <1>3, Zenon DEF SuRecords
    <2> HIDE DEF x
    <2>2. y \in SuRecords
      BY <1>5, <2>1, Zenon DEF SuRecords
    <2> HIDE DEF y
    <2>3. z \in SuRecords
      BY <1>5, <2>2, Zenon DEF SuRecords
    <2> HIDE DEF z
    <2>4. [z EXCEPT !.at = at] \in SuRecords
      BY <1>5, <2>3, Zenon DEF SuRecords
    <2>5. su' = [z EXCEPT !.at = at]
      BY <1>4, Zenon DEF x, y, z
    <2> QED BY <2>4, <2>5
  <1>8. /\ su'.step = su.step /\ su'.done = su.done /\ su'.released = su.released
        /\ su'.launched = su.launched /\ su'.active = su.active /\ su'.running = su.running
        /\ su'.hostState = su.hostState /\ su'.hw = su.hw /\ su'.at = at /\ su'.num = m
    BY <1>4 DEF SuRecords
  <1>9. su.step[0] = 1 /\ \A c \in SuCpus : su.step[c] = 1
    BY <1>1, <1>2 DEF SuInvar, PlaceInv
  <1>10. CountInv'
    BY <1>5, <1>6, <1>8 DEF CountInv
  <1>11. BspInv'
    <2>1. Bsp = 1 /\ Bsp' = 1
      BY <1>8, <1>9 DEF Bsp
    <2>2. "heap" \notin su.done /\ ~su.released /\ ~su.running
      BY <2>1 DEF SuInvar, BspInv
    <2> QED BY <1>8, <2>1, <2>2 DEF BspInv
  <1>12. LaunchInv'
    <2>1. ~su.running
      BY <1>9 DEF SuInvar, BspInv, Bsp
    <2> QED BY <1>8, <2>1 DEF SuInvar, LaunchInv
  <1>13. ASSUME NEW c \in SuCpus PROVE PlaceInv(c)' /\ HwInv(c)'
    <2>1. HwInv(c)'
      BY <1>8 DEF SuInvar, HwInv, Past, AtMost
    <2>2. su'.at[c] \in {"accept", "vmm_main", "off", "spin"}
      BY <1>1, <1>2, <1>6, <1>8
    <2>3. su'.step[c] = 1 /\ su'.hw[c].sp = NullPage /\ 1 \in 1..Last(c)
      BY <1>2, <1>8, <1>9 DEF Last
    <2> QED BY <2>1, <2>2, <2>3 DEF PlaceInv
  <1> QED BY <1>7, <1>10, <1>11, <1>12, <1>13 DEF SuInvar

\* The invariant holds when the loader is done,
LEMMA StartupStarts ==
  ASSUME SuInit
  PROVE  su \in SuRecords /\ SuInvar
  <1> DEFINE at == [c \in SuCpus |-> IF c = 0 THEN "wake" ELSE "off"]
             step == [c \in SuCpus |-> 1]
             fixed == [cr0 |-> NoFixedBits, cr4 |-> NoFixedBits]
             hw == [c \in SuCpus |-> HardwareAt(c)]
             region == [c \in SuCpus |-> NullPage]
             host == [c \in SuCpus |-> NoHostState]
  <1>1. su = [at |-> at, step |-> step,
              present |-> {}, enumerated |-> FALSE, ready |-> 0, counted |-> 0, num |-> 1,
              done |-> {}, released |-> FALSE, launched |-> 0, active |-> {}, running |-> FALSE,
              stacks |-> StacksFor(0), heap |-> NullPage, fixed |-> fixed,
              hw |-> hw, region |-> region, hostState |-> host]
    BY DEF SuInit
  <1>2. at \in [SuCpus -> CpuStates] /\ step \in [SuCpus -> Nat] /\ region \in [SuCpus -> Nat]
    BY DEF CpuStates, NullPage
  <1>3. fixed \in [cr0 : Fixed, cr4 : Fixed]
    BY DEF NoFixedBits, Fixed
  <1>4. ASSUME NEW c \in SuCpus PROVE HardwareAt(c) \in Registers
    BY DEF HardwareAt, Registers, NoId, NullPage, Bits
  <1>5. hw \in [SuCpus -> Registers]
    BY <1>4
  <1>6. NoHostState \in [cr0 : SUBSET Bits, cr3 : {"loader", "monitor"}, cr4 : SUBSET Bits,
                         tr : {NoId} \cup SuCpus, rsp : Int]
    BY DEF NoHostState, NullPage
  <1>7. StacksFor(0) \in [base : Nat, per : Nat, max : Nat]
    BY SuAssumption DEF StacksFor, ExtraStacks
  <1>8. host \in [SuCpus -> [cr0 : SUBSET Bits, cr3 : {"loader", "monitor"}, cr4 : SUBSET Bits,
                             tr : {NoId} \cup SuCpus, rsp : Int]]
    BY <1>6
  <1>9. /\ \A c \in SuCpus : at[c] \in {"wake", "off"} /\ step[c] = 1
        /\ at[0] = "wake" /\ \A c \in Aps : at[c] = "off"
        /\ \A c \in SuCpus : hw[c].sp = NullPage /\ hw[c].cr0 = {"PE", "PG"} /\ hw[c].vmx = FALSE
        /\ step[0] = 1 /\ \A c \in Aps : step[c] = 1
    BY CpuNumbers DEF SuCpus, HardwareAt
  <1> HIDE DEF at, step, fixed, hw, region, host
  <1>10. NullPage \in Nat
    BY DEF NullPage
  <1>11. su \in SuRecords
    BY <1>1, <1>2, <1>3, <1>5, <1>7, <1>8, <1>10 DEF SuRecords
  <1>12. /\ su.at = at /\ su.step = step /\ su.hw = hw /\ su.enumerated = FALSE /\ su.num = 1
         /\ su.done = {} /\ su.released = FALSE /\ su.running = FALSE /\ su.launched = 0
    BY <1>1
  <1>17. 1 \in 1..(Cardinality(Aps) + 1)
    BY CpuNumbers
  <1>13. CountInv
    BY <1>9, <1>12, <1>17 DEF CountInv
  <1>14. BspInv
    BY <1>9, <1>12 DEF BspInv, Bsp
  <1>15. ASSUME NEW c \in SuCpus PROVE PlaceInv(c) /\ HwInv(c)
    <2>1. PlaceInv(c)
      BY <1>9, <1>12 DEF PlaceInv, Last
    <2>2. HwInv(c)
      BY <1>9, <1>12 DEF HwInv, Past, AtMost
    <2> QED BY <2>1, <2>2
  <1>16. LaunchInv
    <2>1. {c \in Aps : su.step[c] > 8} = {}
      BY <1>9, <1>12
    <2> QED BY <1>12, <2>1, FS_EmptySet DEF LaunchInv
  <1> QED BY <1>11, <1>13, <1>14, <1>15, <1>16 DEF SuInvar

\* and every step keeps it.
LEMMA StartupKeeps ==
  ASSUME su \in SuRecords, SuInvar, [SuNext]_startupVars
  PROVE  su' \in SuRecords /\ SuInvar'
  <1>1. CASE SuRest \/ UNCHANGED startupVars
    <2>1. su' = su
      BY <1>1 DEF SuRest, startupVars
    <2>2. CountInv' /\ BspInv' /\ LaunchInv'
      <3>1. CountInv /\ BspInv /\ LaunchInv
        BY DEF SuInvar
      <3>2. CountInv'
        BY <2>1, <3>1, Zenon DEF CountInv
      <3>3. BspInv'
        BY <2>1, <3>1, Zenon DEF BspInv, Bsp
      <3>4. LaunchInv'
        BY <2>1, <3>1, Zenon DEF LaunchInv
      <3> QED BY <3>2, <3>3, <3>4
    <2>3. ASSUME NEW c \in SuCpus PROVE PlaceInv(c)' /\ HwInv(c)'
      <3>1. PlaceInv(c) /\ HwInv(c)
        BY DEF SuInvar
      <3>2. PlaceInv(c)'
        BY <2>1, <3>1, Zenon DEF PlaceInv, Own
      <3>3. HwInv(c)'
        BY <2>1, <3>1, Zenon DEF HwInv, Past, AtMost
      <3> QED BY <3>2, <3>3
    <2> QED BY <2>1, <2>2, <2>3 DEF SuInvar
  <1>2. ASSUME NEW c \in SuCpus, CpuComesUp(c) PROVE su' \in SuRecords /\ SuInvar'
    <2>1. CASE RunPart(c)
      <3>1. PartRun(c, su.step[c], Current(c).does)
        BY <2>1, PartRuns
      <3>2. CountInv' /\ BspInv' /\ LaunchInv'
        BY <3>1, PartCount, PartBsp, PartLaunch
      <3>3. \A d \in SuCpus : PlaceInv(d)' /\ HwInv(d)'
        BY <3>1, PartPlaces, PartHw
      <3>4. su' \in SuRecords
        BY <3>1 DEF PartRun
      <3> QED BY <3>2, <3>3, <3>4 DEF SuInvar
    <2> QED BY <1>2, <2>1, WakeApsKeeps, EnumerateApsKeeps, ApsAcceptedKeeps, ApAppearsKeeps, ApPassesKeeps,
               ApReleasedKeeps, VmmMainKeeps DEF CpuComesUp
  <1> QED BY <1>1, <1>2 DEF SuNext

\* It says that parts are initialized before they are used,
LEMMA UsesFollow ==
  ASSUME su \in SuRecords, SuInvar
  PROVE  UsesOnlyInitialized
  <1>0. 0 \in SuCpus /\ SuCpus \subseteq Nat /\ (\A c \in SuCpus : c # 0 => c \in Aps)
        /\ su.step \in [SuCpus -> Nat]
    BY CpuNumbers DEF SuRecords
  <1>1. ASSUME NEW c \in SuCpus, su.at[c] = "run", NEW u \in Current(c).uses PROVE u \in su.done
    <2>1. su.step[c] \in 1..Last(c) /\ (c # 0 => Bsp > 18)
      BY <1>1, Running
    <2>2. CASE c = 0
      <3>1. Bsp \in 1..24 /\ u \in BspProgram[Bsp].uses
        BY <1>1, <2>1, <2>2 DEF Current, Program, Bsp, Last
      <3>2. PICK i \in 1..24 : i < Bsp /\ u = BspProgram[i].does /\ (i = 3 => Bsp <= 16)
        BY <3>1, BspUses
      <3> QED BY <3>2 DEF SuInvar, BspInv
    <2>3. CASE c # 0
      <3>1. su.step[c] \in 1..10 /\ u \in ApProgram[su.step[c]].uses
        BY <1>1, <2>1, <2>3 DEF Current, Program, Last
      <3>2. PICK i \in 1..17 : u = BspProgram[i].does /\ i # 3
        BY <3>1, ApUses
      <3>3. Bsp > 18 /\ Bsp \in Nat
        BY <1>0, <2>1, <2>3 DEF Bsp
      <3>4. i \in 1..24 /\ i < Bsp
        BY <3>2, <3>3
      <3> QED BY <3>2, <3>4 DEF SuInvar, BspInv
    <2> QED BY <2>2, <2>3
  <1>2. ASSUME su.running, NEW c \in SuCpus, c < su.num PROVE c \in su.active /\ su.hw[c].vmx
    <2>1. Bsp > 22 /\ (c # 0 => su.step[c] > 8) /\ HwInv(c)
      BY <1>0, <1>2 DEF SuInvar, BspInv, LaunchInv
    <2>2. Past(c, 20, 6) /\ Past(c, 21, 7)
      <3>1. CASE c = 0
        BY <1>0, <2>1, <3>1 DEF Past, AtMost, Bsp
      <3>2. CASE c # 0
        BY <1>0, <2>1, <3>2 DEF Past, AtMost
      <3> QED BY <3>1, <3>2
    <2> QED BY <2>1, <2>2 DEF HwInv
  <1> QED BY <1>1, <1>2 DEF UsesOnlyInitialized

\* that the stacks keep apart,
LEMMA StacksFollow ==
  ASSUME su \in SuRecords, SuInvar
  PROVE  StacksApart
  <1> SUFFICES ASSUME "heap" \in su.done, NEW c \in 0..(su.num - 1)
               PROVE  /\ Cardinality(ExceptionPages(c)) = ExtraStacks
                      /\ OwnStackPages(c) \cap ExceptionPages(c) = {}
                      /\ OwnStackPages(c) \cup ExceptionPages(c) \subseteq ImageSize..(StacksEnd(su.stacks) - 1)
                      /\ \A d \in 0..(su.num - 1) : d # c =>
                             (OwnStackPages(c) \cup ExceptionPages(c))
                                 \cap (OwnStackPages(d) \cup ExceptionPages(d)) = {}
                      /\ su.hw[c].sp \in {NullPage, StackPointer(su.stacks, c)}
    BY DEF StacksApart
  <1> DEFINE s == StacksFor(su.num)
  <1>1. su.stacks = s /\ su.num \in Nat /\ su.num <= Cardinality(Aps) + 1
    <2>1. Bsp > 2 /\ Bsp \in Nat
      BY CpuNumbers DEF SuInvar, BspInv, SuRecords, Bsp
    <2>2. su.stacks = s
      BY <2>1 DEF SuInvar, BspInv
    <2>3. su.num \in Nat /\ su.num <= Cardinality(Aps) + 1
      BY CpuNumbers DEF SuInvar, CountInv
    <2> QED BY <2>2, <2>3
  <1>2. c \in SuCpus
    <2>1. c \in Nat /\ c <= Cardinality(Aps)
      BY <1>1, CpuNumbers
    <2> QED BY <2>1, CpuNumbers
  <1>3. su.hw[c].sp \in {NullPage, StackPointer(su.stacks, c)}
    BY <1>1, <1>2 DEF SuInvar, PlaceInv, Own
  <1>4. ASSUME NEW d \in 0..(su.num - 1)
        PROVE  /\ OwnStackPages(d) \cup ExceptionPages(d) \subseteq Block(s, d)
               /\ OwnStackPages(d) \cap ExceptionPages(d) = {}
               /\ Cardinality(ExceptionPages(d)) = ExtraStacks
               /\ Block(s, d) \subseteq ImageSize..(StacksEnd(s) - 1)
               /\ \A e \in 0..(su.num - 1) : e # d => Block(s, d) \cap Block(s, e) = {}
    <2> DEFINE n == su.num
    <2>1. n \in Nat /\ d \in 0..(n - 1)
      BY <1>1
    <2>2. OwnStackPages(d) = (StackPointer(s, d) - StackSize)..(StackPointer(s, d) - 1)
      BY <1>1 DEF OwnStackPages
    <2>3. ExceptionPages(d) = {ExceptionStack(s, d, i) : i \in 0..(ExtraStacks - 1)}
      BY <1>1 DEF ExceptionPages
    <2> DEFINE own == (StackPointer(StacksFor(n), d) - StackSize)..(StackPointer(StacksFor(n), d) - 1)
               exc == {ExceptionStack(StacksFor(n), d, i) : i \in 0..(ExtraStacks - 1)}
    <2> HIDE DEF n
    <2>4. /\ own \cup exc \subseteq Block(StacksFor(n), d) /\ own \cap exc = {}
          /\ Cardinality(exc) = ExtraStacks
          /\ Block(StacksFor(n), d) \subseteq ImageSize..(StacksEnd(StacksFor(n)) - 1)
          /\ \A e \in 0..(n - 1) : e # d => Block(StacksFor(n), d) \cap Block(StacksFor(n), e) = {}
      BY <2>1, Blocks, Zenon
    <2>5. OwnStackPages(d) = own /\ ExceptionPages(d) = exc /\ s = StacksFor(n) /\ n = su.num
      BY <2>2, <2>3 DEF n
    <2> HIDE DEF own, exc, s
    <2> QED BY <2>4, <2>5
  <1> HIDE DEF s
  <1>5. ASSUME NEW d \in 0..(su.num - 1), d # c
        PROVE  (OwnStackPages(c) \cup ExceptionPages(c)) \cap (OwnStackPages(d) \cup ExceptionPages(d)) = {}
    <2>1. OwnStackPages(c) \cup ExceptionPages(c) \subseteq Block(s, c) /\ OwnStackPages(d) \cup ExceptionPages(d) \subseteq Block(s, d)
      BY <1>4
    <2>2. Block(s, c) \cap Block(s, d) = {}
      BY <1>4, <1>5
    <2> QED BY <2>1, <2>2
  <1>6. OwnStackPages(c) \cup ExceptionPages(c) \subseteq ImageSize..(StacksEnd(su.stacks) - 1)
    BY <1>1, <1>4
  <1> QED BY <1>3, <1>4, <1>5, <1>6

\* and that every exit comes back to the right processor.
LEMMA ReturnsFollow ==
  ASSUME su \in SuRecords, SuInvar
  PROVE  ReturnsToItself
  <1>1. \A c \in SuCpus : su.at[c] = "trapped" => c >= su.num
    BY DEF SuInvar, PlaceInv
  <1>2. ASSUME NEW c \in SuCpus, su.at[c] = "guest"
        PROVE  /\ su.hw[c].vmx /\ su.hostState[c].rsp = su.hw[c].sp /\ su.hostState[c].tr = c
               /\ su.hostState[c].cr3 = "monitor"
               /\ "VMXE" \in su.hostState[c].cr4 /\ "NE" \in su.hostState[c].cr0
               /\ \A d \in SuCpus : d # c /\ su.hw[d].vmx => su.region[d] # su.region[c]
    <2>1. su.step[c] = Last(c) /\ HwInv(c) /\ PlaceInv(c) /\ c < su.num /\ (c # 0 => su.released)
      BY <1>2 DEF SuInvar, PlaceInv
    <2>2. Past(c, 19, 5) /\ Past(c, 20, 6)
      BY <2>1 DEF Past, AtMost, Last
    <2>3. Bsp > 17
      <3>1. su.released => Bsp > 18 /\ Bsp \in Nat
        BY CpuNumbers DEF SuInvar, BspInv, SuRecords, Bsp
      <3>2. c = 0 => Bsp = 24
        BY <2>1 DEF Bsp, Last
      <3> QED BY <2>1, <3>1, <3>2
    <2>4. ASSUME NEW d \in SuCpus, d # c, su.hw[d].vmx PROVE su.region[d] # su.region[c]
      <3>1. Past(d, 20, 6) /\ PlaceInv(d)
        BY <2>4 DEF SuInvar, HwInv
      <3>2. su.step[d] # 1
        BY <3>1 DEF Past, AtMost
      <3>3. d < su.num
        BY <3>1, <3>2 DEF PlaceInv
      <3> DEFINE e == StacksEnd(StacksFor(su.num))
      <3>4. su.region[d] = e + d /\ su.region[c] = e + c
        BY <2>1, <2>3, <3>3 DEF SuInvar, BspInv
      <3>5. e \in Nat
        <4>1. su.num \in Nat /\ su.num >= 1
          BY CpuNumbers DEF SuInvar, CountInv
        <4> QED BY <4>1, StacksEndLarge
      <3>6. c \in Nat /\ d \in Nat
        BY CpuNumbers
      <3> HIDE DEF e
      <3>7. e + d # e + c
        BY <2>4, <3>5, <3>6
      <3> QED BY <3>4, <3>7, Zenon
    <2> QED BY <2>1, <2>2, <2>4 DEF HwInv
  <1> QED BY <1>1, <1>2 DEF ReturnsToItself

(***************************************************************************)
(* For any number of processors, any of them late or never there, and any  *)
(* sizes of the image and the stacks: a processor uses a part of the       *)
(* monitor only when vmm_bsp_proc_main has initialized it, runs on a stack *)
(* that no other processor's touches, turns VMX on in a region of its own, *)
(* and leaves the guest for its own stack and identity; the guest first    *)
(* runs when every counted processor is launched.                          *)
(***************************************************************************)
THEOREM PartsAreInitializedBeforeUse == SuSpec => []InitializedBeforeUse
  <1> DEFINE I == su \in SuRecords /\ SuInvar
  <1>1. SuInit => I
    BY StartupStarts
  <1>2. I /\ [SuNext]_startupVars => I'
    BY StartupKeeps
  <1>3. I => InitializedBeforeUse
    BY UsesFollow, StacksFollow, ReturnsFollow DEF InitializedBeforeUse
  <1> QED BY <1>1, <1>2, <1>3, PTL DEF SuSpec
=============================================================================
