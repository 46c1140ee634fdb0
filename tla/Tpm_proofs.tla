---------------------------- MODULE Tpm_proofs -----------------------------
(***************************************************************************)
(* The TPM 2.0 library. TpmHandles, for any number of slots and runs: the  *)
(* programs of the key protocol leave no handle behind, and no program     *)
(* runs out of slots by itself. Tpm2Session, for any number of calls and   *)
(* nonces: client and TPM are in step exactly until the first call fails,  *)
(* and a read that verifies returns the acknowledged value.                *)
(*                                                                         *)
(* The argument for the handles has two parts. The programs as they are    *)
(* written: at every step, the variables that may hold a handle are        *)
(* flushed when a program of the protocol stops there, and a handle is     *)
(* received when at most two others are held (ProgramSound). Then the TPM  *)
(* beside them: what a run loaded is in those variables (HandlesInv).      *)
(***************************************************************************)
EXTENDS TpmHandles, Tpm2Session, WellFoundedInduction, TLAPS

-----------------------------------------------------------------------------
Commands ==
    [returns : {"nothing", "flush", "transient", "session"}, var : Variables \cup {""},
     needs : SUBSET Variables, goOn : BOOLEAN, cleanup : SUBSET (Variables \cup {"done"})]
Programs == Protocol \cup Tests
Cleaned(p, c) == IF c.cleanup = {"done"} THEN p.done ELSE c.cleanup

\* At most two variables.
AtMostTwo(a) == \E u, v \in Variables : a \subseteq {u, v}

\* A step of a program, when the variables that may hold a handle are in a
\* before it and in b after it: handles are kept, flushed, or received in a
\* variable that holds none, when at most two variables hold one; a program
\* of the protocol that stops there flushes all of a.
StepSound(p, c, a, b) ==
    /\ c \in Commands
    /\ c.cleanup = {"done"} \/ c.cleanup \in SUBSET Variables
    /\ c.returns = "nothing" => a \subseteq b
    /\ c.returns = "flush" => c.var \in Variables /\ a \ {c.var} \subseteq b /\ c.needs = {}
    /\ c.returns \in {"transient", "session"} =>
         /\ c.var \in Variables /\ c.var \notin a /\ a \cup {c.var} \subseteq b /\ ~c.goOn
         /\ c.returns = "session" <=> c.var = "session"
    /\ c.returns = "transient" => AtMostTwo(a)
    /\ p \in Protocol /\ ~c.goOn => a \subseteq Cleaned(p, c)

\* L: the variables that may hold a handle before each step and at the end.
ProgramSound(p, L) ==
    /\ Len(p.steps) \in Nat /\ p.done \in SUBSET Variables
    /\ L \in [1..(Len(p.steps) + 1) -> SUBSET Variables]
    /\ \A i \in 1..Len(p.steps) : StepSound(p, p.steps[i], L[i], L[i + 1])
    /\ p \in Protocol => L[Len(p.steps) + 1] \subseteq p.done

\* The commands, one lemma for each form.
LEMMA UsesSound ==
  ASSUME NEW p, NEW needs \in SUBSET Variables, NEW a, p \in Protocol => a \subseteq p.done
  PROVE  StepSound(p, Uses(needs), a, a)
  <1> DEFINE c == Uses(needs)
             no == FALSE
  <1>1. c = [returns |-> "nothing", var |-> "", needs |-> needs, goOn |-> no, cleanup |-> {"done"}]
    BY DEF Uses, Command
  <1>2. no \in BOOLEAN /\ ~no /\ {"done"} \in SUBSET (Variables \cup {"done"})
    OBVIOUS
  <1> HIDE DEF c, no
  <1>3. c \in Commands /\ c.returns = "nothing" /\ c.cleanup = {"done"}
    BY <1>1, <1>2, Zenon DEF Commands
  <1> QED BY <1>3 DEF StepSound, Cleaned, c

\* A command that returns a handle.
LEMMA TakesSound ==
  ASSUME NEW p, NEW needs \in SUBSET Variables, NEW kind \in {"transient", "session"},
         NEW var \in Variables, NEW a, NEW b, AtMostTwo(a), var \notin a, a \cup {var} \subseteq b,
         kind = "session" <=> var = "session", p \in Protocol => a \subseteq p.done
  PROVE  StepSound(p, Command(kind, var, needs), a, b)
  <1> DEFINE c == Command(kind, var, needs)
             no == FALSE
  <1>1. c = [returns |-> kind, var |-> var, needs |-> needs, goOn |-> no, cleanup |-> {"done"}]
    BY DEF Command
  <1>2. no \in BOOLEAN /\ ~no /\ {"done"} \in SUBSET (Variables \cup {"done"})
    OBVIOUS
  <1> HIDE DEF c, no
  <1>3. c \in Commands /\ c.returns = kind /\ c.var = var /\ c.goOn = no /\ c.cleanup = {"done"}
    BY <1>1, <1>2, Zenon DEF Commands
  <1> QED BY <1>2, <1>3 DEF StepSound, Cleaned, c

\* A flush.
LEMMA FlushSound ==
  ASSUME NEW p, NEW var \in Variables, NEW a, NEW b, a \ {var} \subseteq b,
         p \in Protocol => a \subseteq p.done
  PROVE  StepSound(p, FlushContext(var), a, b)
  <1> DEFINE c == FlushContext(var)
             no == FALSE
  <1>1. c = [returns |-> "flush", var |-> var, needs |-> {}, goOn |-> no, cleanup |-> {"done"}]
    BY DEF FlushContext, Command
  <1>2. no \in BOOLEAN /\ ~no /\ {"done"} \in SUBSET (Variables \cup {"done"})
    OBVIOUS
  <1> HIDE DEF c, no
  <1>3. c \in Commands /\ c.returns = "flush" /\ c.var = var /\ c.needs = {} /\ c.cleanup = {"done"}
    BY <1>1, <1>2, Zenon DEF Commands
  <1> QED BY <1>3 DEF StepSound, Cleaned, c

\* A command whose failure is ignored.
LEMMA IgnoredSound ==
  ASSUME NEW p, NEW q, NEW c, NEW a, NEW b, StepSound(q, c, a, b), c.returns \in {"nothing", "flush"}
  PROVE  StepSound(p, Ignored(c), a, b)
  <1> DEFINE yes == TRUE
             d == [c EXCEPT !.goOn = yes]
  <1>1. yes \in BOOLEAN /\ yes /\ c \in Commands
    BY DEF StepSound
  <1> HIDE DEF yes
  <1>2. /\ d \in Commands /\ d.returns = c.returns /\ d.var = c.var /\ d.needs = c.needs
        /\ d.goOn = yes /\ d.cleanup = c.cleanup
    BY <1>1, Zenon DEF Commands
  <1> HIDE DEF d
  <1>3. StepSound(p, d, a, b)
    BY <1>1, <1>2 DEF StepSound
  <1> QED BY <1>3 DEF Ignored, d, yes

\* A command whose failure flushes what is listed.
LEMMA OtherwiseSound ==
  ASSUME NEW p, NEW q, NEW c, NEW a, NEW b, StepSound(q, c, a, b),
         NEW vs \in SUBSET Variables, p \in Protocol => a \subseteq vs
  PROVE  StepSound(p, Otherwise(c, vs), a, b)
  <1> DEFINE d == [c EXCEPT !.cleanup = vs]
  <1>1. c \in Commands /\ "done" \notin Variables
    BY DEF StepSound, Variables
  <1>2. /\ d \in Commands /\ d.returns = c.returns /\ d.var = c.var /\ d.goOn = c.goOn
        /\ d.cleanup = vs /\ d.needs = c.needs
    BY <1>1, Zenon DEF Commands
  <1>3. vs # {"done"}
    BY <1>1
  <1> HIDE DEF d
  <1>4. StepSound(p, d, a, b)
    BY <1>2, <1>3 DEF StepSound, Cleaned
  <1> QED BY <1>4 DEF Otherwise, d

\* The programs of the protocol flush these variables only.
LEMMA ProtocolDone == \A p \in Protocol : p.done \subseteq {"root", "seal", "quote", "ek"}
  BY DEF Protocol, CreateAndSaveHierarchy, RestoreHierarchy, EndorsementKey,
         GenerateProgramKeyRequest, GetProgramKeyCert


\* Some value is not a program of the protocol.
LEMMA Outside == [done |-> {"load"}] \notin Protocol
  BY ProtocolDone

\* A command without a handle of its own, whose failure is ignored.
LEMMA IgnoredUses ==
  ASSUME NEW p, NEW needs \in SUBSET Variables, NEW a
  PROVE  StepSound(p, Ignored(Uses(needs)), a, a)
  <1> DEFINE q == [done |-> {"load"}]
  <1>1. StepSound(q, Uses(needs), a, a)
    BY Outside, UsesSound
  <1>2. Uses(needs).returns = "nothing"
    BY DEF Uses, Command
  <1> HIDE DEF q
  <1> QED BY <1>1, <1>2, IgnoredSound

\* A flush whose failure is ignored.
LEMMA IgnoredFlush ==
  ASSUME NEW p, NEW var \in Variables, NEW a, NEW b, a \ {var} \subseteq b
  PROVE  StepSound(p, Ignored(FlushContext(var)), a, b)
  <1> DEFINE q == [done |-> {"load"}]
  <1>1. StepSound(q, FlushContext(var), a, b)
    BY Outside, FlushSound
  <1>2. FlushContext(var).returns = "flush"
    BY DEF FlushContext, Command
  <1> HIDE DEF q
  <1> QED BY <1>1, <1>2, IgnoredSound

\* A command without a handle of its own, whose failure flushes what is listed.
LEMMA OtherwiseUses ==
  ASSUME NEW p, NEW needs \in SUBSET Variables, NEW a, NEW vs \in SUBSET Variables,
         p \in Protocol => a \subseteq vs
  PROVE  StepSound(p, Otherwise(Uses(needs), vs), a, a)
  <1> DEFINE q == [done |-> {"load"}]
  <1>1. StepSound(q, Uses(needs), a, a)
    BY Outside, UsesSound
  <1> HIDE DEF q
  <1> QED BY <1>1, OtherwiseSound

\* Sets of at most two variables.
LEMMA Few ==
  /\ AtMostTwo({})
  /\ \A v \in Variables : AtMostTwo({v})
  /\ \A u, v \in Variables : AtMostTwo({u, v})
  BY DEF AtMostTwo, Variables

\* The variables, one by one, and small sets of them.
LEMMA SomeVariables ==
  /\ {} \in SUBSET Variables
  /\ \A u \in Variables : {u} \in SUBSET Variables
  /\ \A u, v \in Variables : {u, v} \in SUBSET Variables
  /\ \A u, v, w \in Variables : {u, v, w} \in SUBSET Variables
  /\ "root" \in Variables /\ "seal" \in Variables /\ "quote" \in Variables /\ "ek" \in Variables
  /\ "parent" \in Variables /\ "active" \in Variables /\ "handle" \in Variables
  /\ "load" \in Variables /\ "session" \in Variables
  BY DEF Variables

----------------------------------------------------------------------------
\* The programs, with the variables that may hold a handle before each step.
LEMMA RestoreHierarchySound == \E L : ProgramSound(RestoreHierarchy, L)
  <1> DEFINE p == RestoreHierarchy
             a == {"root"}
             b == {"root", "seal"}
             d == {"root", "seal", "quote"}
             L == <<{}, {}, a, a, b, b, d>>
  <1>1. /\ Len(p.steps) = 6 /\ p.done = {"root", "seal", "quote"} /\ p.steps[1] = ReadNv
        /\ p.steps[2] = LoadContext("root") /\ p.steps[3] = ReadNv
        /\ p.steps[4] = LoadContext("seal") /\ p.steps[5] = ReadNv
        /\ p.steps[6] = LoadContext("quote")
    BY DEF RestoreHierarchy
  <1> HIDE DEF p
  <1>4. /\ StepSound(p, ReadNv, {}, {}) /\ StepSound(p, LoadContext("root"), {}, a)
        /\ StepSound(p, ReadNv, a, a) /\ StepSound(p, LoadContext("seal"), a, b)
        /\ StepSound(p, ReadNv, b, b) /\ StepSound(p, LoadContext("quote"), b, d)
    BY <1>1, SomeVariables, Few, TakesSound, UsesSound, Zenon
       DEF LoadContext, ReadNv
  <1>5. \A i \in 1..6 : StepSound(p, p.steps[i], L[i], L[i + 1])
    <2>1. /\ StepSound(p, p.steps[1], L[1], L[2]) /\ StepSound(p, p.steps[2], L[2], L[3])
          /\ StepSound(p, p.steps[3], L[3], L[4]) /\ StepSound(p, p.steps[4], L[4], L[5])
          /\ StepSound(p, p.steps[5], L[5], L[6]) /\ StepSound(p, p.steps[6], L[6], L[7])
      BY <1>1, <1>4
    <2>2. \A i \in 1..6 : i = 1 \/ i = 2 \/ i = 3 \/ i = 4 \/ i = 5 \/ i = 6
      OBVIOUS
    <2> HIDE DEF L
    <2> QED BY <2>1, <2>2
  <1>6. ProgramSound(p, L)
    BY <1>1, <1>5, SomeVariables DEF ProgramSound, Variables
  <1> QED BY <1>6 DEF p

\* The handles of EndorsementKey.
LEMMA EndorsementKeySound == \E L : ProgramSound(EndorsementKey, L)
  <1> DEFINE p == EndorsementKey
             a == {"ek"}
             L == <<{}, a, a, {}, {}>>
  <1>1. /\ Len(p.steps) = 4 /\ p.done = {} /\ p.steps[1] = CreatePrimary("ek")
        /\ p.steps[2] = Otherwise(ReadPublic("ek"), {"ek"})
        /\ p.steps[3] = Ignored(FlushContext("ek")) /\ p.steps[4] = HostStep
    BY DEF EndorsementKey
  <1> HIDE DEF p
  <1>4. /\ StepSound(p, CreatePrimary("ek"), {}, a)
        /\ StepSound(p, Otherwise(ReadPublic("ek"), {"ek"}), a, a)
        /\ StepSound(p, Ignored(FlushContext("ek")), a, {}) /\ StepSound(p, HostStep, {}, {})
    BY <1>1, SomeVariables, Few, IgnoredFlush, OtherwiseUses, TakesSound, UsesSound, Zenon
       DEF CreatePrimary, HostStep, ReadPublic
  <1>5. \A i \in 1..4 : StepSound(p, p.steps[i], L[i], L[i + 1])
    BY <1>1, <1>4
  <1>6. ProgramSound(p, L)
    BY <1>1, <1>5, SomeVariables DEF ProgramSound, Variables
  <1> QED BY <1>6 DEF p

\* The handles of GenerateProgramKeyRequest.
LEMMA GenerateProgramKeyRequestSound == \E L : ProgramSound(GenerateProgramKeyRequest, L)
  <1> DEFINE p == GenerateProgramKeyRequest
             a == {"ek"}
             b == {"root"}
             d == {"root", "seal"}
             e == {"root", "seal", "quote"}
             L == <<{}, a, a, {}, {}, {}, b, b, d, d, e, e, e, e, e>>
  <1>1. /\ Len(p.steps) = 14 /\ p.done = {"root", "seal", "quote", "ek"}
        /\ p.steps[1] = CreatePrimary("ek") /\ p.steps[2] = ReadPublic("ek")
        /\ p.steps[3] = Ignored(FlushContext("ek")) /\ p.steps[4] = HostStep
        /\ p.steps[5] = ReadNv /\ p.steps[6] = LoadContext("root") /\ p.steps[7] = ReadNv
        /\ p.steps[8] = LoadContext("seal") /\ p.steps[9] = ReadNv
        /\ p.steps[10] = LoadContext("quote") /\ p.steps[11] = HostStep
        /\ p.steps[12] = ReadPublic("quote") /\ p.steps[13] = Quote("quote")
        /\ p.steps[14] = HostStep
    BY DEF GenerateProgramKeyRequest
  <1> HIDE DEF p
  <1>4. /\ StepSound(p, CreatePrimary("ek"), {}, a) /\ StepSound(p, ReadPublic("ek"), a, a)
        /\ StepSound(p, Ignored(FlushContext("ek")), a, {}) /\ StepSound(p, HostStep, {}, {})
        /\ StepSound(p, ReadNv, {}, {}) /\ StepSound(p, LoadContext("root"), {}, b)
        /\ StepSound(p, ReadNv, b, b) /\ StepSound(p, LoadContext("seal"), b, d)
        /\ StepSound(p, ReadNv, d, d) /\ StepSound(p, LoadContext("quote"), d, e)
        /\ StepSound(p, HostStep, e, e) /\ StepSound(p, ReadPublic("quote"), e, e)
        /\ StepSound(p, Quote("quote"), e, e)
    BY <1>1, SomeVariables, Few, IgnoredFlush, TakesSound, UsesSound
       DEF CreatePrimary, HostStep, LoadContext, Quote, ReadNv, ReadPublic
  <1>5. \A i \in 1..14 : StepSound(p, p.steps[i], L[i], L[i + 1])
    <2>1. /\ StepSound(p, p.steps[1], L[1], L[2]) /\ StepSound(p, p.steps[2], L[2], L[3])
          /\ StepSound(p, p.steps[3], L[3], L[4]) /\ StepSound(p, p.steps[4], L[4], L[5])
          /\ StepSound(p, p.steps[5], L[5], L[6]) /\ StepSound(p, p.steps[6], L[6], L[7])
          /\ StepSound(p, p.steps[7], L[7], L[8]) /\ StepSound(p, p.steps[8], L[8], L[9])
          /\ StepSound(p, p.steps[9], L[9], L[10]) /\ StepSound(p, p.steps[10], L[10], L[11])
          /\ StepSound(p, p.steps[11], L[11], L[12]) /\ StepSound(p, p.steps[12], L[12], L[13])
          /\ StepSound(p, p.steps[13], L[13], L[14]) /\ StepSound(p, p.steps[14], L[14], L[15])
      BY <1>1, <1>4
    <2>2. \A i \in 1..14 : i = 1 \/ i = 2 \/ i = 3 \/ i = 4 \/ i = 5 \/ i = 6 \/ i = 7 \/ i = 8 \/ i = 9 \/ i = 10 \/ i = 11 \/ i = 12 \/ i = 13 \/ i = 14
      OBVIOUS
    <2> HIDE DEF L
    <2> QED BY <2>1, <2>2
  <1>6. ProgramSound(p, L)
    BY <1>1, <1>5, SomeVariables DEF ProgramSound, Variables
  <1> QED BY <1>6 DEF p

\* The handles of GetProgramKeyCert.
LEMMA GetProgramKeyCertSound == \E L : ProgramSound(GetProgramKeyCert, L)
  <1> DEFINE p == GetProgramKeyCert
             a == {"ek"}
             b == {"ek", "root"}
             d == {"ek", "root", "quote"}
             L == <<{}, a, a, b, b, d, d, d, d>>
  <1>1. /\ Len(p.steps) = 8 /\ p.done = {"root", "seal", "quote", "ek"}
        /\ p.steps[1] = CreatePrimary("ek") /\ p.steps[2] = ReadNv
        /\ p.steps[3] = LoadContext("root") /\ p.steps[4] = ReadNv
        /\ p.steps[5] = LoadContext("quote") /\ p.steps[6] = HostStep
        /\ p.steps[7] = ActivateCredential("quote", "ek") /\ p.steps[8] = HostStep
    BY DEF GetProgramKeyCert
  <1> HIDE DEF p
  <1>4. /\ StepSound(p, CreatePrimary("ek"), {}, a) /\ StepSound(p, ReadNv, a, a)
        /\ StepSound(p, LoadContext("root"), a, b) /\ StepSound(p, ReadNv, b, b)
        /\ StepSound(p, LoadContext("quote"), b, d) /\ StepSound(p, HostStep, d, d)
        /\ StepSound(p, ActivateCredential("quote", "ek"), d, d)
    BY <1>1, SomeVariables, Few, TakesSound, UsesSound, Zenon
       DEF ActivateCredential, CreatePrimary, HostStep, LoadContext, ReadNv
  <1>5. \A i \in 1..8 : StepSound(p, p.steps[i], L[i], L[i + 1])
    <2>1. /\ StepSound(p, p.steps[1], L[1], L[2]) /\ StepSound(p, p.steps[2], L[2], L[3])
          /\ StepSound(p, p.steps[3], L[3], L[4]) /\ StepSound(p, p.steps[4], L[4], L[5])
          /\ StepSound(p, p.steps[5], L[5], L[6]) /\ StepSound(p, p.steps[6], L[6], L[7])
          /\ StepSound(p, p.steps[7], L[7], L[8]) /\ StepSound(p, p.steps[8], L[8], L[9])
      BY <1>1, <1>4
    <2>2. \A i \in 1..8 : i = 1 \/ i = 2 \/ i = 3 \/ i = 4 \/ i = 5 \/ i = 6 \/ i = 7 \/ i = 8
      OBVIOUS
    <2> HIDE DEF L
    <2> QED BY <2>1, <2>2
  <1>6. ProgramSound(p, L)
    BY <1>1, <1>5, SomeVariables DEF ProgramSound, Variables
  <1> QED BY <1>6 DEF p

\* The handles of EndorsementCombinedTest.
LEMMA EndorsementCombinedTestSound == \E L : ProgramSound(EndorsementCombinedTest, L)
  <1> DEFINE p == EndorsementCombinedTest
             a == {"ek"}
             b == {"ek", "parent"}
             d == {"ek", "parent", "active"}
             L == <<{}, a, a, b, b, d, d, d, d>>
  <1>1. /\ Len(p.steps) = 8 /\ p.done = {"active", "parent", "ek"}
        /\ p.steps[1] = CreatePrimary("ek") /\ p.steps[2] = Otherwise(ReadPublic("ek"), {})
        /\ p.steps[3] = Otherwise(CreatePrimary("parent"), {})
        /\ p.steps[4] = Otherwise(CreateKey("parent"), {})
        /\ p.steps[5] = Otherwise(Load("parent", "active"), {"ek", "parent"})
        /\ p.steps[6] = Otherwise(ReadPublic("active"), {})
        /\ p.steps[7] = TpmMakeCredential("ek") /\ p.steps[8] = ActivateCredential("active", "ek")
    BY DEF EndorsementCombinedTest
  <1>2. p \notin Protocol
    BY <1>1, ProtocolDone
  <1> HIDE DEF p
  <1>3. /\ StepSound(p, CreatePrimary("parent"), a, b)
        /\ StepSound(p, Load("parent", "active"), b, d)
    BY <1>1, <1>2, SomeVariables, Few, TakesSound, Zenon
       DEF CreatePrimary, Load
  <1>4. /\ StepSound(p, CreatePrimary("ek"), {}, a)
        /\ StepSound(p, Otherwise(ReadPublic("ek"), {}), a, a)
        /\ StepSound(p, Otherwise(CreatePrimary("parent"), {}), a, b)
        /\ StepSound(p, Otherwise(CreateKey("parent"), {}), b, b)
        /\ StepSound(p, Otherwise(Load("parent", "active"), {"ek", "parent"}), b, d)
        /\ StepSound(p, Otherwise(ReadPublic("active"), {}), d, d)
        /\ StepSound(p, TpmMakeCredential("ek"), d, d)
        /\ StepSound(p, ActivateCredential("active", "ek"), d, d)
    BY <1>1, <1>2, <1>3, SomeVariables, Few, OtherwiseSound, OtherwiseUses, TakesSound, UsesSound, Zenon
       DEF ActivateCredential, CreateKey, CreatePrimary, Load, ReadPublic, TpmMakeCredential
  <1>5. \A i \in 1..8 : StepSound(p, p.steps[i], L[i], L[i + 1])
    <2>1. /\ StepSound(p, p.steps[1], L[1], L[2]) /\ StepSound(p, p.steps[2], L[2], L[3])
          /\ StepSound(p, p.steps[3], L[3], L[4]) /\ StepSound(p, p.steps[4], L[4], L[5])
          /\ StepSound(p, p.steps[5], L[5], L[6]) /\ StepSound(p, p.steps[6], L[6], L[7])
          /\ StepSound(p, p.steps[7], L[7], L[8]) /\ StepSound(p, p.steps[8], L[8], L[9])
      BY <1>1, <1>4
    <2>2. \A i \in 1..8 : i = 1 \/ i = 2 \/ i = 3 \/ i = 4 \/ i = 5 \/ i = 6 \/ i = 7 \/ i = 8
      OBVIOUS
    <2> HIDE DEF L
    <2> QED BY <2>1, <2>2
  <1>6. ProgramSound(p, L)
    BY <1>1, <1>5, SomeVariables DEF ProgramSound, Variables
  <1> QED BY <1>6 DEF p

\* The handles of ContextCombinedTest.
LEMMA ContextCombinedTestSound == \E L : ProgramSound(ContextCombinedTest, L)
  <1> DEFINE p == ContextCombinedTest
             a == {"handle"}
             L == <<{}, a, a, {}, a>>
  <1>1. /\ Len(p.steps) = 4 /\ p.done = {"handle"} /\ p.steps[1] = CreatePrimary("handle")
        /\ p.steps[2] = Otherwise(SaveContext("handle"), {})
        /\ p.steps[3] = Otherwise(FlushContext("handle"), {})
        /\ p.steps[4] = Otherwise(LoadContext("handle"), {})
    BY DEF ContextCombinedTest
  <1>2. p \notin Protocol
    BY <1>1, ProtocolDone
  <1> HIDE DEF p
  <1>3. /\ StepSound(p, FlushContext("handle"), a, {})
        /\ StepSound(p, LoadContext("handle"), {}, a)
    BY <1>1, <1>2, SomeVariables, Few, TakesSound, FlushSound
       DEF CreatePrimary, LoadContext
  <1>4. /\ StepSound(p, CreatePrimary("handle"), {}, a)
        /\ StepSound(p, Otherwise(SaveContext("handle"), {}), a, a)
        /\ StepSound(p, Otherwise(FlushContext("handle"), {}), a, {})
        /\ StepSound(p, Otherwise(LoadContext("handle"), {}), {}, a)
    BY <1>1, <1>2, <1>3, SomeVariables, Few, FlushSound, OtherwiseSound, OtherwiseUses, TakesSound
       DEF CreatePrimary, LoadContext, SaveContext
  <1>5. \A i \in 1..4 : StepSound(p, p.steps[i], L[i], L[i + 1])
    BY <1>1, <1>4
  <1>6. ProgramSound(p, L)
    BY <1>1, <1>5, SomeVariables DEF ProgramSound, Variables
  <1> QED BY <1>6 DEF p

\* The handles of NvCombinedTest.
LEMMA NvCombinedTestSound == \E L : ProgramSound(NvCombinedTest, L)
  <1> DEFINE p == NvCombinedTest
             L == <<{}, {}, {}, {}, {}, {}, {}, {}, {}, {}, {}, {}>>
  <1>1. /\ Len(p.steps) = 11 /\ p.done = {} /\ p.steps[1] = Ignored(UndefineSpace)
        /\ p.steps[2] = DefineSpace /\ p.steps[3] = WriteNv /\ p.steps[4] = ReadNv
        /\ p.steps[5] = Ignored(UndefineSpace) /\ p.steps[6] = DefineSpace
        /\ p.steps[7] = Ignored(IncrementNv) /\ p.steps[8] = Ignored(ReadNv)
        /\ p.steps[9] = Ignored(IncrementNv) /\ p.steps[10] = Ignored(ReadNv)
        /\ p.steps[11] = Ignored(UndefineSpace)
    BY DEF NvCombinedTest
  <1> HIDE DEF p
  <1>4. /\ StepSound(p, Ignored(UndefineSpace), {}, {}) /\ StepSound(p, DefineSpace, {}, {})
        /\ StepSound(p, WriteNv, {}, {}) /\ StepSound(p, ReadNv, {}, {})
        /\ StepSound(p, Ignored(IncrementNv), {}, {}) /\ StepSound(p, Ignored(ReadNv), {}, {})
    BY <1>1, SomeVariables, Few, IgnoredUses, UsesSound
       DEF DefineSpace, IncrementNv, ReadNv, UndefineSpace, WriteNv
  <1>5. \A i \in 1..11 : StepSound(p, p.steps[i], L[i], L[i + 1])
    <2>1. /\ StepSound(p, p.steps[1], L[1], L[2]) /\ StepSound(p, p.steps[2], L[2], L[3])
          /\ StepSound(p, p.steps[3], L[3], L[4]) /\ StepSound(p, p.steps[4], L[4], L[5])
          /\ StepSound(p, p.steps[5], L[5], L[6]) /\ StepSound(p, p.steps[6], L[6], L[7])
          /\ StepSound(p, p.steps[7], L[7], L[8]) /\ StepSound(p, p.steps[8], L[8], L[9])
          /\ StepSound(p, p.steps[9], L[9], L[10]) /\ StepSound(p, p.steps[10], L[10], L[11])
          /\ StepSound(p, p.steps[11], L[11], L[12])
      BY <1>1, <1>4
    <2>2. \A i \in 1..11 : i = 1 \/ i = 2 \/ i = 3 \/ i = 4 \/ i = 5 \/ i = 6 \/ i = 7 \/ i = 8 \/ i = 9 \/ i = 10 \/ i = 11
      OBVIOUS
    <2> HIDE DEF L
    <2> QED BY <2>1, <2>2
  <1>6. ProgramSound(p, L)
    BY <1>1, <1>5, SomeVariables DEF ProgramSound, Variables
  <1> QED BY <1>6 DEF p

\* The handles of KeyCombinedTest.
LEMMA KeyCombinedTestSound == \E L : ProgramSound(KeyCombinedTest, L)
  <1> DEFINE p == KeyCombinedTest
             a == {"parent"}
             b == {"parent", "load"}
             L == <<{}, a, a, b, b, b, b, b>>
  <1>1. /\ Len(p.steps) = 7 /\ p.done = {"load", "parent"} /\ p.steps[1] = CreatePrimary("parent")
        /\ p.steps[2] = Otherwise(CreateKey("parent"), {})
        /\ p.steps[3] = Otherwise(Load("parent", "load"), {"parent"})
        /\ p.steps[4] = Certify("load") /\ p.steps[5] = Ignored(Uses({}))
        /\ p.steps[6] = Ignored(EvictControl("load")) /\ p.steps[7] = Ignored(Uses({}))
    BY DEF KeyCombinedTest
  <1>2. p \notin Protocol
    BY <1>1, ProtocolDone
  <1> HIDE DEF p
  <1>3. /\ StepSound(p, Load("parent", "load"), a, b)
    BY <1>1, <1>2, SomeVariables, Few, TakesSound, Zenon
       DEF CreatePrimary, Load
  <1>4. /\ StepSound(p, CreatePrimary("parent"), {}, a)
        /\ StepSound(p, Otherwise(CreateKey("parent"), {}), a, a)
        /\ StepSound(p, Otherwise(Load("parent", "load"), {"parent"}), a, b)
        /\ StepSound(p, Certify("load"), b, b) /\ StepSound(p, Ignored(Uses({})), b, b)
        /\ StepSound(p, Ignored(EvictControl("load")), b, b)
    BY <1>1, <1>2, <1>3, SomeVariables, Few, IgnoredUses, OtherwiseSound, OtherwiseUses, TakesSound, UsesSound, Zenon
       DEF Certify, CreateKey, CreatePrimary, EvictControl, Load
  <1>5. \A i \in 1..7 : StepSound(p, p.steps[i], L[i], L[i + 1])
    <2>1. /\ StepSound(p, p.steps[1], L[1], L[2]) /\ StepSound(p, p.steps[2], L[2], L[3])
          /\ StepSound(p, p.steps[3], L[3], L[4]) /\ StepSound(p, p.steps[4], L[4], L[5])
          /\ StepSound(p, p.steps[5], L[5], L[6]) /\ StepSound(p, p.steps[6], L[6], L[7])
          /\ StepSound(p, p.steps[7], L[7], L[8])
      BY <1>1, <1>4
    <2>2. \A i \in 1..7 : i = 1 \/ i = 2 \/ i = 3 \/ i = 4 \/ i = 5 \/ i = 6 \/ i = 7
      OBVIOUS
    <2> HIDE DEF L
    <2> QED BY <2>1, <2>2
  <1>6. ProgramSound(p, L)
    BY <1>1, <1>5, SomeVariables DEF ProgramSound, Variables
  <1> QED BY <1>6 DEF p

\* The handles of SealCombinedTest.
LEMMA SealCombinedTestSound == \E L : ProgramSound(SealCombinedTest, L)
  <1> DEFINE p == SealCombinedTest
             a == {"parent"}
             b == {"parent", "session"}
             d == {"parent", "session", "load"}
             L == <<{}, a, b, b, b, b, b, b, d, d>>
  <1>1. /\ Len(p.steps) = 9 /\ p.done = {"session", "load"}
        /\ p.steps[1] = CreatePrimary("parent")
        /\ p.steps[2] = Otherwise(StartAuthSession("session"), {})
        /\ p.steps[3] = Otherwise(PolicyGetDigest("session"), {"session"})
        /\ p.steps[4] = Otherwise(PolicyPassword("session"), {"session"})
        /\ p.steps[5] = Otherwise(PolicyPcr("session"), {"session"})
        /\ p.steps[6] = Otherwise(PolicyGetDigest("session"), {})
        /\ p.steps[7] = Otherwise(CreateSealed("parent"), {"session"})
        /\ p.steps[8] = Otherwise(Load("parent", "load"), {"session"})
        /\ p.steps[9] = Unseal("load", "session")
    BY DEF SealCombinedTest
  <1>2. p \notin Protocol
    BY <1>1, ProtocolDone
  <1> HIDE DEF p
  <1>3. /\ StepSound(p, StartAuthSession("session"), a, b)
        /\ StepSound(p, Load("parent", "load"), b, d)
    BY <1>1, <1>2, SomeVariables, Few, TakesSound, Zenon
       DEF CreatePrimary, Load, StartAuthSession
  <1>4. /\ StepSound(p, CreatePrimary("parent"), {}, a)
        /\ StepSound(p, Otherwise(StartAuthSession("session"), {}), a, b)
        /\ StepSound(p, Otherwise(PolicyGetDigest("session"), {"session"}), b, b)
        /\ StepSound(p, Otherwise(PolicyPassword("session"), {"session"}), b, b)
        /\ StepSound(p, Otherwise(PolicyPcr("session"), {"session"}), b, b)
        /\ StepSound(p, Otherwise(PolicyGetDigest("session"), {}), b, b)
        /\ StepSound(p, Otherwise(CreateSealed("parent"), {"session"}), b, b)
        /\ StepSound(p, Otherwise(Load("parent", "load"), {"session"}), b, d)
        /\ StepSound(p, Unseal("load", "session"), d, d)
    BY <1>1, <1>2, <1>3, SomeVariables, Few, OtherwiseSound, OtherwiseUses, TakesSound, UsesSound
       DEF CreatePrimary, CreateSealed, Load, PolicyGetDigest, PolicyPassword, PolicyPcr, StartAuthSession, Unseal
  <1>5. \A i \in 1..9 : StepSound(p, p.steps[i], L[i], L[i + 1])
    <2>1. /\ StepSound(p, p.steps[1], L[1], L[2]) /\ StepSound(p, p.steps[2], L[2], L[3])
          /\ StepSound(p, p.steps[3], L[3], L[4]) /\ StepSound(p, p.steps[4], L[4], L[5])
          /\ StepSound(p, p.steps[5], L[5], L[6]) /\ StepSound(p, p.steps[6], L[6], L[7])
          /\ StepSound(p, p.steps[7], L[7], L[8]) /\ StepSound(p, p.steps[8], L[8], L[9])
          /\ StepSound(p, p.steps[9], L[9], L[10])
      BY <1>1, <1>4
    <2>2. \A i \in 1..9 : i = 1 \/ i = 2 \/ i = 3 \/ i = 4 \/ i = 5 \/ i = 6 \/ i = 7 \/ i = 8 \/ i = 9
      OBVIOUS
    <2> HIDE DEF L
    <2> QED BY <2>1, <2>2
  <1>6. ProgramSound(p, L)
    <2>1. L \in [1..10 -> SUBSET Variables]
      BY SomeVariables
    <2>2. p.done \in SUBSET Variables
      BY <1>1, SomeVariables
    <2> HIDE DEF L
    <2> QED BY <1>1, <1>2, <1>5, <2>1, <2>2 DEF ProgramSound
  <1> QED BY <1>6 DEF p

\* The handles of QuoteCombinedTest.
LEMMA QuoteCombinedTestSound == \E L : ProgramSound(QuoteCombinedTest, L)
  <1> DEFINE p == QuoteCombinedTest
             a == {"parent"}
             b == {"parent", "load"}
             L == <<{}, a, a, a, b, b>>
  <1>1. /\ Len(p.steps) = 5 /\ p.done = {"load", "parent"} /\ p.steps[1] = CreatePrimary("parent")
        /\ p.steps[2] = Ignored(PcrEvent) /\ p.steps[3] = Otherwise(CreateKey("parent"), {})
        /\ p.steps[4] = Otherwise(Load("parent", "load"), {}) /\ p.steps[5] = Quote("load")
    BY DEF QuoteCombinedTest
  <1>2. p \notin Protocol
    BY <1>1, ProtocolDone
  <1> HIDE DEF p
  <1>3. /\ StepSound(p, Load("parent", "load"), a, b)
    BY <1>1, <1>2, SomeVariables, Few, TakesSound, Zenon
       DEF CreatePrimary, Load
  <1>4. /\ StepSound(p, CreatePrimary("parent"), {}, a) /\ StepSound(p, Ignored(PcrEvent), a, a)
        /\ StepSound(p, Otherwise(CreateKey("parent"), {}), a, a)
        /\ StepSound(p, Otherwise(Load("parent", "load"), {}), a, b)
        /\ StepSound(p, Quote("load"), b, b)
    BY <1>1, <1>2, <1>3, SomeVariables, Few, IgnoredUses, OtherwiseSound, OtherwiseUses, TakesSound, UsesSound, Zenon
       DEF CreateKey, CreatePrimary, Load, PcrEvent, Quote
  <1>5. \A i \in 1..5 : StepSound(p, p.steps[i], L[i], L[i + 1])
    <2>1. /\ StepSound(p, p.steps[1], L[1], L[2]) /\ StepSound(p, p.steps[2], L[2], L[3])
          /\ StepSound(p, p.steps[3], L[3], L[4]) /\ StepSound(p, p.steps[4], L[4], L[5])
          /\ StepSound(p, p.steps[5], L[5], L[6])
      BY <1>1, <1>4
    <2>2. \A i \in 1..5 : i = 1 \/ i = 2 \/ i = 3 \/ i = 4 \/ i = 5
      OBVIOUS
    <2> HIDE DEF L
    <2> QED BY <2>1, <2>2
  <1>6. ProgramSound(p, L)
    BY <1>1, <1>5, SomeVariables DEF ProgramSound, Variables
  <1> QED BY <1>6 DEF p

\* The handles of NvCombinedSessionTest.
LEMMA NvCombinedSessionTestSound == \E L : ProgramSound(NvCombinedSessionTest, L)
  <1> DEFINE p == NvCombinedSessionTest
             a == {"ek"}
             b == {"ek", "session"}
             L == <<{}, {}, {}, {}, a, a, b, b, b>>
  <1>1. /\ Len(p.steps) = 8 /\ p.done = {"session", "ek"} /\ p.steps[1] = Ignored(UndefineSpace)
        /\ p.steps[2] = DefineSpace /\ p.steps[3] = IncrementNv
        /\ p.steps[4] = CreatePrimary("ek") /\ p.steps[5] = Otherwise(ReadPublic("ek"), {})
        /\ p.steps[6] = StartAuthSession("session") /\ p.steps[7] = SessionIncrementNv("session")
        /\ p.steps[8] = SessionReadNv("session")
    BY DEF NvCombinedSessionTest
  <1>2. p \notin Protocol
    BY <1>1, ProtocolDone
  <1> HIDE DEF p
  <1>4. /\ StepSound(p, Ignored(UndefineSpace), {}, {}) /\ StepSound(p, DefineSpace, {}, {})
        /\ StepSound(p, IncrementNv, {}, {}) /\ StepSound(p, CreatePrimary("ek"), {}, a)
        /\ StepSound(p, Otherwise(ReadPublic("ek"), {}), a, a)
        /\ StepSound(p, StartAuthSession("session"), a, b)
        /\ StepSound(p, SessionIncrementNv("session"), b, b)
        /\ StepSound(p, SessionReadNv("session"), b, b)
    BY <1>1, <1>2, SomeVariables, Few, IgnoredUses, OtherwiseUses, TakesSound, UsesSound
       DEF CreatePrimary, DefineSpace, IncrementNv, ReadPublic, SessionIncrementNv, SessionReadNv, StartAuthSession, UndefineSpace
  <1>5. \A i \in 1..8 : StepSound(p, p.steps[i], L[i], L[i + 1])
    <2>1. /\ StepSound(p, p.steps[1], L[1], L[2]) /\ StepSound(p, p.steps[2], L[2], L[3])
          /\ StepSound(p, p.steps[3], L[3], L[4]) /\ StepSound(p, p.steps[4], L[4], L[5])
          /\ StepSound(p, p.steps[5], L[5], L[6]) /\ StepSound(p, p.steps[6], L[6], L[7])
          /\ StepSound(p, p.steps[7], L[7], L[8]) /\ StepSound(p, p.steps[8], L[8], L[9])
      BY <1>1, <1>4
    <2>2. \A i \in 1..8 : i = 1 \/ i = 2 \/ i = 3 \/ i = 4 \/ i = 5 \/ i = 6 \/ i = 7 \/ i = 8
      OBVIOUS
    <2> HIDE DEF L
    <2> QED BY <2>1, <2>2
  <1>6. ProgramSound(p, L)
    BY <1>1, <1>5, SomeVariables DEF ProgramSound, Variables
  <1> QED BY <1>6 DEF p

\* The steps of two sequences, one after the other.
LEMMA Joined ==
  ASSUME NEW s \in Seq(Commands), NEW t \in Seq(Commands)
  PROVE  /\ s \o t \in Seq(Commands) /\ Len(s \o t) = Len(s) + Len(t)
         /\ \A i \in 1..Len(s) : (s \o t)[i] = s[i]
         /\ \A i \in 1..Len(t) : (s \o t)[Len(s) + i] = t[i]
  OBVIOUS

\* Once all three handles are held, the slots are written without another.
LEMMA SaveSlotSound ==
  ASSUME NEW p, NEW v \in Variables, NEW a, p \in Protocol => a \subseteq p.done
  PROVE  /\ SaveSlot(v) \in Seq(Commands) /\ Len(SaveSlot(v)) = 4
         /\ \A i \in 1..4 : StepSound(p, SaveSlot(v)[i], a, a)
  <1>1. /\ StepSound(p, SaveContext(v), a, a) /\ StepSound(p, Ignored(UndefineSpace), a, a)
        /\ StepSound(p, DefineSpace, a, a) /\ StepSound(p, WriteNv, a, a)
    BY SomeVariables, UsesSound, IgnoredUses, Zenon DEF SaveContext, UndefineSpace, DefineSpace, WriteNv
  <1>2. /\ SaveContext(v) \in Commands /\ Ignored(UndefineSpace) \in Commands
        /\ DefineSpace \in Commands /\ WriteNv \in Commands
    BY <1>1 DEF StepSound
  <1> QED BY <1>1, <1>2 DEF SaveSlot

\* The handles of CreateAndSaveHierarchy.
LEMMA CreateAndSaveHierarchySound == \E L : ProgramSound(CreateAndSaveHierarchy, L)
  <1> DEFINE p == CreateAndSaveHierarchy
             a == {"root"}
             b == {"root", "seal"}
             d == {"root", "seal", "quote"}
             L == [i \in 1..18 |-> IF i = 1 THEN {} ELSE IF i <= 3 THEN a ELSE IF i <= 5 THEN b ELSE d]
             s1 == <<CreatePrimary("root"), CreateKey("root"), Load("root", "seal"),
                     CreateKey("root"), Load("root", "quote")>>
             s2 == SaveSlot("root")
             s3 == SaveSlot("seal")
             s4 == SaveSlot("quote")
             t2 == s1 \o s2
             t3 == t2 \o s3
             t4 == t3 \o s4
  <1>1. p.done = {"root", "seal", "quote"} /\ p.steps = t4
    BY DEF CreateAndSaveHierarchy
  <1> HIDE DEF p
  <1>2. /\ StepSound(p, CreatePrimary("root"), {}, a) /\ StepSound(p, CreateKey("root"), a, a)
        /\ StepSound(p, Load("root", "seal"), a, b) /\ StepSound(p, CreateKey("root"), b, b)
        /\ StepSound(p, Load("root", "quote"), b, d)
    BY <1>1, SomeVariables, Few, TakesSound, UsesSound, Zenon DEF CreatePrimary, CreateKey, Load
  <1>3. s1 \in Seq(Commands) /\ Len(s1) = 5
    <2>1. /\ CreatePrimary("root") \in Commands /\ CreateKey("root") \in Commands
          /\ Load("root", "seal") \in Commands /\ Load("root", "quote") \in Commands
      BY <1>2 DEF StepSound
    <2> QED BY <2>1
  <1>4. \A i \in 1..5 : StepSound(p, s1[i], L[i], L[i + 1])
    <2>1. /\ StepSound(p, s1[1], L[1], L[2]) /\ StepSound(p, s1[2], L[2], L[3])
          /\ StepSound(p, s1[3], L[3], L[4]) /\ StepSound(p, s1[4], L[4], L[5])
          /\ StepSound(p, s1[5], L[5], L[6])
      BY <1>2
    <2> HIDE DEF s1, L
    <2> QED BY <2>1
  <1>5. \A i \in 6..18 : L[i] = d
    OBVIOUS
  <1>6. L \in [1..18 -> SUBSET Variables]
    <2>1. {} \in SUBSET Variables /\ a \in SUBSET Variables /\ b \in SUBSET Variables /\ d \in SUBSET Variables
      BY SomeVariables
    <2> HIDE DEF a, b, d
    <2> QED BY <2>1
  <1> HIDE DEF s1, L
  <1>7. /\ s2 \in Seq(Commands) /\ Len(s2) = 4 /\ \A i \in 1..4 : StepSound(p, s2[i], d, d)
        /\ s3 \in Seq(Commands) /\ Len(s3) = 4 /\ \A i \in 1..4 : StepSound(p, s3[i], d, d)
        /\ s4 \in Seq(Commands) /\ Len(s4) = 4 /\ \A i \in 1..4 : StepSound(p, s4[i], d, d)
    BY <1>1, SomeVariables, SaveSlotSound, Zenon
  <1> HIDE DEF s2, s3, s4
  <1>8. /\ t2 \in Seq(Commands) /\ Len(t2) = 9 /\ \A i \in 1..5 : t2[i] = s1[i]
        /\ \A i \in 1..4 : t2[5 + i] = s2[i]
    <2>1. /\ t2 \in Seq(Commands) /\ Len(t2) = Len(s1) + Len(s2)
          /\ \A i \in 1..Len(s1) : t2[i] = s1[i]
          /\ \A i \in 1..Len(s2) : t2[Len(s1) + i] = s2[i]
      BY <1>3, <1>7, Joined, Zenon
    <2> HIDE DEF t2
    <2> QED BY <1>3, <1>7, <2>1
  <1> HIDE DEF t2
  <1>9. /\ t3 \in Seq(Commands) /\ Len(t3) = 13 /\ \A i \in 1..9 : t3[i] = t2[i]
        /\ \A i \in 1..4 : t3[9 + i] = s3[i]
    <2>1. /\ t3 \in Seq(Commands) /\ Len(t3) = Len(t2) + Len(s3)
          /\ \A i \in 1..Len(t2) : t3[i] = t2[i]
          /\ \A i \in 1..Len(s3) : t3[Len(t2) + i] = s3[i]
      BY <1>7, <1>8, Joined, Zenon
    <2> HIDE DEF t3
    <2> QED BY <1>7, <1>8, <2>1
  <1> HIDE DEF t3
  <1>10. /\ t4 \in Seq(Commands) /\ Len(t4) = 17 /\ \A i \in 1..13 : t4[i] = t3[i]
         /\ \A i \in 1..4 : t4[13 + i] = s4[i]
    <2>1. /\ t4 \in Seq(Commands) /\ Len(t4) = Len(t3) + Len(s4)
          /\ \A i \in 1..Len(t3) : t4[i] = t3[i]
          /\ \A i \in 1..Len(s4) : t4[Len(t3) + i] = s4[i]
      BY <1>7, <1>9, Joined, Zenon
    <2> HIDE DEF t4
    <2> QED BY <1>7, <1>9, <2>1
  <1> HIDE DEF t4
  <1>11. \A i \in 1..17 : StepSound(p, t4[i], L[i], L[i + 1])
    <2> SUFFICES ASSUME NEW i \in 1..17 PROVE StepSound(p, t4[i], L[i], L[i + 1])
      OBVIOUS
    <2>1. CASE i \in 1..5
      <3>1. t4[i] = s1[i]
        <4>1. t4[i] = t3[i]
          BY <1>10, <2>1
        <4>2. t3[i] = t2[i]
          BY <1>9, <2>1
        <4>3. t2[i] = s1[i]
          BY <1>8, <2>1
        <4> QED BY <4>1, <4>2, <4>3
      <3> QED BY <1>4, <2>1, <3>1
    <2>2. CASE i \in 6..9
      <3>1. i - 5 \in 1..4 /\ i = 5 + (i - 5) /\ i \in 1..9 /\ i \in 1..13
        BY <2>2
      <3>2. t4[i] = s2[i - 5]
        <4>1. t4[i] = t3[i]
          BY <1>10, <3>1
        <4>2. t3[i] = t2[i]
          BY <1>9, <3>1
        <4>3. t2[5 + (i - 5)] = s2[i - 5]
          BY <1>8, <3>1
        <4> QED BY <3>1, <4>1, <4>2, <4>3
      <3>3. L[i] = d /\ L[i + 1] = d
        BY <1>5, <2>2
      <3>4. StepSound(p, s2[i - 5], d, d)
        BY <1>7, <3>1
      <3> QED BY <3>2, <3>3, <3>4, Zenon
    <2>3. CASE i \in 10..13
      <3>1. i - 9 \in 1..4 /\ i = 9 + (i - 9) /\ i \in 1..13
        BY <2>3
      <3>2. t4[i] = s3[i - 9]
        <4>1. t4[i] = t3[i]
          BY <1>10, <3>1
        <4>2. t3[9 + (i - 9)] = s3[i - 9]
          BY <1>9, <3>1
        <4> QED BY <3>1, <4>1, <4>2
      <3>3. L[i] = d /\ L[i + 1] = d
        BY <1>5, <2>3
      <3>4. StepSound(p, s3[i - 9], d, d)
        BY <1>7, <3>1
      <3> QED BY <3>2, <3>3, <3>4, Zenon
    <2>4. CASE i \in 14..17
      <3>1. i - 13 \in 1..4 /\ i = 13 + (i - 13)
        BY <2>4
      <3>2. t4[i] = s4[i - 13]
        <4>1. t4[13 + (i - 13)] = s4[i - 13]
          BY <1>10, <3>1
        <4> QED BY <3>1, <4>1
      <3>3. L[i] = d /\ L[i + 1] = d
        BY <1>5, <2>4
      <3>4. StepSound(p, s4[i - 13], d, d)
        BY <1>7, <3>1
      <3> QED BY <3>2, <3>3, <3>4, Zenon
    <2> QED BY <2>1, <2>2, <2>3, <2>4
  <1>12. ProgramSound(p, L)
    <2>1. p.done \in SUBSET Variables /\ L[18] \subseteq p.done
      BY <1>1, <1>5, SomeVariables
    <2> QED BY <1>1, <1>6, <1>10, <1>11, <2>1 DEF ProgramSound
  <1> QED BY <1>12 DEF p

\* The variables that may hold a handle before step i of p.
Live(p) == CHOOSE L : ProgramSound(p, L)

\* Every program is sound for its live variables.
LEMMA ProgramsSound == \A p \in Programs : ProgramSound(p, Live(p))
  <1>1. \A p \in Programs : \E L : ProgramSound(p, L)
    BY CreateAndSaveHierarchySound, RestoreHierarchySound, EndorsementKeySound,
       GenerateProgramKeyRequestSound, GetProgramKeyCertSound, EndorsementCombinedTestSound,
       ContextCombinedTestSound, NvCombinedTestSound, KeyCombinedTestSound, SealCombinedTestSound,
       QuoteCombinedTestSound, NvCombinedSessionTestSound DEF Programs, Protocol, Tests
  <1> QED BY <1>1 DEF Live


----------------------------------------------------------------------------
LoadedHandles == [handle : Handles, from : {"run", "test", "lost"}]
Vars == [Variables -> Handles \cup {NoHandle}]
Runs == [at : {"step", "leaving"}, program : Programs, pc : Nat, var : Vars, flush : SUBSET Variables]

\* Only the variable "session" holds a session.
KindsApart(var) == \A v \in Variables : var[v] # NoHandle => (var[v][1] = "session" <=> v = "session")

\* Every handle of the run that goes on is held by one of these variables.
HeldIn(ls, var, vs) == \A l \in ls : l.from = "run" => \E v \in vs : var[v] = l.handle

\* Between runs nothing is left of a run; during a run what it loaded is in
\* the variables that may hold a handle, and once a program of the protocol
\* leaves, in those it still flushes.
HandlesInv ==
    /\ loaded \in SUBSET LoadedHandles
    /\ run = HandlesIdle \/ run \in Runs
    /\ run = HandlesIdle => \A l \in loaded : l.from # "run"
    /\ run \in Runs => KindsApart(run.var)
    /\ run \in Runs /\ run.at = "step" =>
         /\ run.pc \in 1..(Len(run.program.steps) + 1)
         /\ HeldIn(loaded, run.var, Live(run.program)[run.pc])
    /\ run \in Runs /\ run.at = "leaving" /\ run.program \in Protocol =>
         HeldIn(loaded, run.var, run.flush)

\* A run is not the idle state.
LEMMA NotIdle == \A r \in Runs : r # HandlesIdle /\ r.at # "idle" /\ HandlesIdle.at = "idle"
  BY DEF Runs, HandlesIdle

\* The empty handle is no slot of the TPM.
LEMMA NotAHandle == \A h \in Handles : h # NoHandle /\ h[1] \in {"transient", "session"}
  BY DEF Handles, NoHandle

\* A nonempty set of natural numbers has a least element.
LEMMA LeastNumber ==
  ASSUME NEW S \in SUBSET Nat, S # {}
  PROVE  \E n \in S : \A m \in S : n <= m
  <1> DEFINE Below == {ss \in Nat \X Nat : ss[1] < ss[2]}
  <1>1. IsWellFoundedOn(Below, Nat)
    BY NatLessThanWellFounded DEF OpToRel
  <1>2. PICK n \in S : \A m \in S : ~(<<m, n>> \in Below)
    BY <1>1, WFMin, Zenon
  <1>3. \A m \in S : n \in Nat /\ m \in Nat /\ ~(m < n)
    BY <1>2, Zenon
  <1>4. \A m \in S : n <= m
    BY <1>3
  <1> QED BY <1>4

\* The handle that the TPM gives is one of its slots.
LEMMA NewHandleType ==
  ASSUME NEW kind \in {"transient", "session"}, FreeHandles(kind) # {}
  PROVE  NewHandle(kind) \in Handles /\ NewHandle(kind)[1] = kind
  <1> DEFINE F == FreeHandles(kind)
             n == CHOOSE m \in F : \A o \in F : m <= o
  <1>1. F \in SUBSET Nat /\ F \subseteq 1..Room(kind)
    BY HandlesAssumption DEF FreeHandles, Room
  <1>2. NewHandle(kind) = <<kind, n>>
    BY DEF NewHandle
  <1> HIDE DEF F
  <1>3. n \in F
    <2>1. \E m \in F : \A o \in F : m <= o
      BY <1>1, LeastNumber DEF F
    <2> QED BY <2>1
  <1>4. n \in 1..Room(kind)
    BY <1>1, <1>3, Zenon
  <1> HIDE DEF n
  <1> QED BY <1>2, <1>4 DEF Room, Handles

\* The program goes on with its next step.
LEMMA GoesOn ==
  ASSUME HandlesInv, run \in Runs, run.at = "step", run.pc \in 1..Len(run.program.steps),
         NEW var \in Vars, KindsApart(var),
         run' = [run EXCEPT !.pc = @ + 1, !.var = var],
         loaded' \in SUBSET LoadedHandles,
         HeldIn(loaded', var, Live(run.program)[run.pc + 1])
  PROVE  HandlesInv'
  <1> DEFINE n == run.pc + 1
             x == [run EXCEPT !.pc = n, !.var = var]
  <1>1. run' = x /\ n \in Nat
    BY DEF Runs
  <1>2. ProgramSound(run.program, Live(run.program))
    BY ProgramsSound DEF Runs
  <1>3. n \in 1..(Len(run.program.steps) + 1)
    BY <1>2 DEF ProgramSound
  <1> HIDE DEF n
  <1>4. x \in Runs /\ x.at = "step" /\ x.program = run.program /\ x.pc = n /\ x.var = var
    BY <1>1, Zenon DEF Runs
  <1> HIDE DEF x
  <1>5. HeldIn(loaded', var, Live(run.program)[n])
    BY DEF n
  <1> QED BY <1>1, <1>3, <1>4, <1>5, NotIdle DEF HandlesInv

\* The program is on its way out, or flushes its next variable.
LEMMA Leaves ==
  ASSUME HandlesInv, run \in Runs, NEW vs \in SUBSET Variables,
         run' = [run EXCEPT !.at = "leaving", !.flush = vs],
         loaded' \in SUBSET LoadedHandles,
         run.program \in Protocol => HeldIn(loaded', run.var, vs)
  PROVE  HandlesInv'
  <1> DEFINE x == [run EXCEPT !.at = "leaving", !.flush = vs]
  <1>1. x \in Runs /\ x.at = "leaving" /\ x.program = run.program /\ x.var = run.var /\ x.flush = vs
    BY Zenon DEF Runs
  <1>2. run' = x
    OBVIOUS
  <1> HIDE DEF x
  <1> QED BY <1>1, <1>2, NotIdle DEF HandlesInv

\* What is known of a step that is about to be taken.
LEMMA AtStep ==
  ASSUME HandlesInv, ProgramRuns
  PROVE  /\ run \in Runs /\ run.at = "step" /\ run.pc \in 1..Len(run.program.steps)
         /\ run.program \in Programs /\ run.var \in Vars /\ run.program.done \in SUBSET Variables
         /\ StepSound(run.program, CurrentStep, Live(run.program)[run.pc], Live(run.program)[run.pc + 1])
         /\ Live(run.program)[run.pc] \in SUBSET Variables
         /\ HeldIn(loaded, run.var, Live(run.program)[run.pc])
         /\ loaded \in SUBSET LoadedHandles /\ KindsApart(run.var)
  <1>1. run \in Runs /\ run.at = "step"
    BY DEF HandlesInv, ProgramRuns, HandlesIdle
  <1>2. /\ run.pc \in 1..(Len(run.program.steps) + 1) /\ HeldIn(loaded, run.var, Live(run.program)[run.pc])
        /\ loaded \in SUBSET LoadedHandles /\ KindsApart(run.var)
    BY <1>1 DEF HandlesInv
  <1>3. run.program \in Programs /\ run.var \in Vars
    BY <1>1 DEF Runs
  <1>4. ProgramSound(run.program, Live(run.program))
    BY <1>3, ProgramsSound
  <1>5. Len(run.program.steps) \in Nat /\ run.program.done \in SUBSET Variables
    BY <1>4 DEF ProgramSound
  <1>6. run.pc \in 1..Len(run.program.steps)
    BY <1>2, <1>5 DEF ProgramRuns
  <1>7. /\ StepSound(run.program, CurrentStep, Live(run.program)[run.pc], Live(run.program)[run.pc + 1])
        /\ Live(run.program)[run.pc] \in SUBSET Variables
    BY <1>2, <1>4, <1>5, <1>6 DEF ProgramSound, CurrentStep
  <1> QED BY <1>1, <1>2, <1>3, <1>5, <1>6, <1>7

\* After a failed command.
LEMMA FailureInv ==
  ASSUME HandlesInv, ProgramRuns, run' = AfterFailure(CurrentStep),
         loaded' \in SUBSET LoadedHandles,
         \A l \in loaded' : l.from = "run" =>
             /\ l \in loaded
             /\ CurrentStep.returns = "flush" => l.handle # run.var[CurrentStep.var]
  PROVE  HandlesInv'
  <1> DEFINE c == CurrentStep
             p == run.program
             a == Live(p)[run.pc]
             b == Live(p)[run.pc + 1]
  <1>1. /\ run \in Runs /\ run.at = "step" /\ run.pc \in 1..Len(p.steps) /\ run.var \in Vars
        /\ p.done \in SUBSET Variables /\ StepSound(p, c, a, b) /\ a \in SUBSET Variables
        /\ HeldIn(loaded, run.var, a) /\ KindsApart(run.var) /\ loaded \in SUBSET LoadedHandles
    BY AtStep
  <1>2. c \in Commands
    BY <1>1 DEF StepSound
  <1>3. \A l \in loaded' : l.from = "run" => l \in loaded /\ (c.returns = "flush" => l.handle # run.var[c.var])
    OBVIOUS
  <1>4. run' = AfterFailure(c)
    OBVIOUS
  <1> HIDE DEF c, a, b
  <1>5. CASE ~c.goOn
    <2> DEFINE vs == {v \in Cleaned(p, c) : run.var[v] # NoHandle}
               us == {v \in IF c.cleanup = {"done"} THEN run.program.done ELSE c.cleanup : run.var[v] # NoHandle}
    <2>1. run' = [run EXCEPT !.at = "leaving", !.flush = us]
      BY <1>4, <1>5 DEF AfterFailure
    <2>2. us = vs
      BY DEF Cleaned
    <2>3. vs \in SUBSET Variables
      BY <1>1 DEF StepSound, Cleaned
    <2>4. p \in Protocol => HeldIn(loaded', run.var, vs)
      <3> SUFFICES ASSUME p \in Protocol, NEW l \in loaded', l.from = "run"
                   PROVE  \E v \in vs : run.var[v] = l.handle
        BY DEF HeldIn
      <3>1. PICK v \in a : run.var[v] = l.handle
        BY <1>1, <1>3 DEF HeldIn
      <3>2. l.handle # NoHandle
        BY NotAHandle DEF LoadedHandles
      <3>3. v \in Cleaned(p, c)
        BY <1>1, <1>5, <3>1 DEF StepSound
      <3> QED BY <3>1, <3>2, <3>3
    <2> HIDE DEF us, vs, p
    <2>5. run' = [run EXCEPT !.at = "leaving", !.flush = vs]
      BY <2>1, <2>2
    <2> QED BY <1>1, <2>3, <2>4, <2>5, Leaves, Zenon DEF p
  <1>6. CASE c.goOn
    <2> DEFINE var == IF c.returns = "flush" THEN [run.var EXCEPT ![c.var] = NoHandle] ELSE run.var
    <2>1. run' = [run EXCEPT !.pc = @ + 1, !.var = var]
      BY <1>4, <1>6 DEF AfterFailure
    <2>2. c.returns \in {"nothing", "flush"}
      BY <1>1, <1>2, <1>6, Zenon DEF StepSound, Commands
    <2>3. var \in Vars /\ KindsApart(var)
      BY <1>1, <2>2 DEF Vars, KindsApart, StepSound
    <2>4. HeldIn(loaded', var, b)
      <3> SUFFICES ASSUME NEW l \in loaded', l.from = "run"
                   PROVE  \E v \in b : var[v] = l.handle
        BY DEF HeldIn
      <3>1. PICK v \in a : run.var[v] = l.handle
        BY <1>1, <1>3 DEF HeldIn
      <3>2. CASE c.returns = "nothing"
        BY <1>1, <3>1, <3>2 DEF StepSound
      <3>3. CASE c.returns = "flush"
        <4>1. v # c.var /\ v \in Variables
          BY <1>1, <1>3, <3>1, <3>3
        <4>2. v \in b /\ var[v] = run.var[v]
          BY <1>1, <3>1, <3>3, <4>1 DEF StepSound, Vars
        <4> QED BY <3>1, <4>2
      <3> QED BY <2>2, <3>2, <3>3
    <2> HIDE DEF var
    <2>5. HeldIn(loaded', var, Live(run.program)[run.pc + 1])
      BY <2>4 DEF b
    <2> QED BY <1>1, <2>1, <2>3, <2>5, GoesOn, Zenon
  <1>7. c.goOn \in BOOLEAN
    BY <1>2, Zenon DEF Commands
  <1> QED BY <1>5, <1>6, <1>7


----------------------------------------------------------------------------
\* The handles after a command was executed whose answer is lost, or after a
\* flush: nothing of the run is loaded that was not loaded before, and what is
\* flushed is gone.
LEMMA ExecutedLost ==
  ASSUME HandlesInv, ProgramRuns, Executable(CurrentStep), loaded' = Executed(CurrentStep, "lost")
  PROVE  /\ loaded' \in SUBSET LoadedHandles
         /\ \A l \in loaded' : l.from = "run" =>
             /\ l \in loaded
             /\ CurrentStep.returns = "flush" => l.handle # run.var[CurrentStep.var]
  <1> DEFINE c == CurrentStep
  <1>1. c \in Commands /\ loaded \in SUBSET LoadedHandles
    BY AtStep DEF StepSound
  <1>2. Executable(c) /\ loaded' = Executed(c, "lost")
    OBVIOUS
  <1> HIDE DEF c
  <1>3. CASE c.returns = "nothing"
    BY <1>1, <1>2, <1>3 DEF Executed, c
  <1>4. CASE c.returns = "flush"
    <2>1. loaded' = Without(run.var[c.var])
      BY <1>2, <1>4 DEF Executed
    <2> QED BY <1>1, <2>1 DEF Without, c
  <1>5. CASE c.returns \in {"transient", "session"}
    <2> DEFINE h == NewHandle(c.returns)
               new == [handle |-> h, from |-> "lost"]
    <2>1. loaded' = loaded \cup {new}
      BY <1>2, <1>5 DEF Executed
    <2>2. h \in Handles
      BY <1>2, <1>5, NewHandleType DEF Executable
    <2> HIDE DEF h
    <2>3. new \in LoadedHandles /\ new.from # "run"
      BY <2>2 DEF LoadedHandles
    <2> HIDE DEF new
    <2>4. c.returns # "flush"
      BY <1>5
    <2> QED BY <1>1, <2>1, <2>3, <2>4 DEF c
  <1> QED BY <1>1, <1>3, <1>4, <1>5, Zenon DEF Commands

\* The handle of a flush that was not sent is no longer the run's.
LEMMA AbandonedSound ==
  ASSUME loaded \in SUBSET LoadedHandles, NEW h
  PROVE  /\ Abandoned(h) \in SUBSET LoadedHandles
         /\ \A l \in Abandoned(h) : l.from = "run" => l \in loaded /\ l.handle # h
  <1>1. \A l \in LoadedHandles : [l EXCEPT !.from = "lost"] \in LoadedHandles
                                 /\ [l EXCEPT !.from = "lost"].from = "lost"
    BY DEF LoadedHandles
  <1> QED BY <1>1, Zenon DEF Abandoned

\* StartProgram keeps the invariant.
LEMMA StartProgramInv ==
  ASSUME HandlesInv, NEW p \in Protocol \cup Tests, StartProgram(p)
  PROVE  HandlesInv'
  <1> DEFINE x == [at |-> "step", program |-> p, pc |-> 1, var |-> NoVariables, flush |-> {}]
  <1>1. NoVariables \in Vars /\ KindsApart(NoVariables)
    BY DEF NoVariables, Vars, KindsApart
  <1>2. x \in Runs /\ x.at = "step" /\ x.program = p /\ x.pc = 1 /\ x.var = NoVariables
    BY <1>1 DEF Runs, Programs
  <1>3. run' = x /\ loaded' = loaded
    BY DEF StartProgram
  <1> HIDE DEF x
  <1>4. loaded \in SUBSET LoadedHandles /\ \A l \in loaded : l.from # "run"
    BY DEF HandlesInv, StartProgram
  <1>5. 1 \in 1..(Len(p.steps) + 1)
    BY ProgramsSound DEF Programs, ProgramSound
  <1>6. HeldIn(loaded, NoVariables, Live(p)[1])
    BY <1>4 DEF HeldIn
  <1> QED BY <1>1, <1>2, <1>3, <1>4, <1>5, <1>6, NotIdle DEF HandlesInv

\* CommandSucceeds keeps the invariant.
LEMMA CommandSucceedsInv ==
  ASSUME HandlesInv, CommandSucceeds
  PROVE  HandlesInv'
  <1> DEFINE c == CurrentStep
             p == run.program
             a == Live(p)[run.pc]
             b == Live(p)[run.pc + 1]
             h == IF c.returns = "flush" THEN NoHandle ELSE NewHandle(c.returns)
             var == IF c.returns = "nothing" THEN run.var ELSE [run.var EXCEPT ![c.var] = h]
  <1>1. /\ run \in Runs /\ run.at = "step" /\ run.pc \in 1..Len(p.steps) /\ run.var \in Vars
        /\ StepSound(p, c, a, b) /\ a \in SUBSET Variables /\ loaded \in SUBSET LoadedHandles
        /\ HeldIn(loaded, run.var, a) /\ KindsApart(run.var)
    BY AtStep DEF CommandSucceeds
  <1>2. Executable(c) /\ loaded' = Executed(c, "run") /\ run' = [run EXCEPT !.pc = @ + 1, !.var = var]
    BY DEF CommandSucceeds
  <1>3. SUFFICES var \in Vars /\ KindsApart(var) /\ loaded' \in SUBSET LoadedHandles /\ HeldIn(loaded', var, b)
    <2> HIDE DEF var
    <2>1. HeldIn(loaded', var, Live(run.program)[run.pc + 1])
      BY <1>3
    <2> QED BY <1>1, <1>2, <1>3, <2>1, GoesOn, Zenon
  <1>4. c \in Commands
    BY <1>1 DEF StepSound
  <1> HIDE DEF c, a, b
  <1>5. CASE c.returns = "nothing"
    <2>1. var = run.var /\ loaded' = loaded /\ a \subseteq b
      BY <1>1, <1>2, <1>5 DEF Executed, StepSound
    <2> HIDE DEF var
    <2> QED BY <1>1, <2>1 DEF HeldIn
  <1>6. CASE c.returns = "flush"
    <2>1. /\ var = [run.var EXCEPT ![c.var] = NoHandle] /\ loaded' = Without(run.var[c.var])
          /\ c.var \in Variables /\ a \ {c.var} \subseteq b
      BY <1>1, <1>2, <1>6 DEF Executed, StepSound
    <2> HIDE DEF var
    <2>2. var \in Vars /\ \A v \in Variables : var[v] = IF v = c.var THEN NoHandle ELSE run.var[v]
      BY <1>1, <2>1 DEF Vars
    <2>3. KindsApart(var) /\ loaded' \in SUBSET LoadedHandles
      BY <1>1, <2>1, <2>2 DEF KindsApart, Without
    <2>4. HeldIn(loaded', var, b)
      BY <1>1, <2>1, <2>2 DEF HeldIn, Without
    <2> QED BY <2>2, <2>3, <2>4
  <1>7. CASE c.returns \in {"transient", "session"}
    <2> DEFINE new == [handle |-> h, from |-> "run"]
    <2>0. h = NewHandle(c.returns)
      BY <1>7
    <2>1. /\ var = [run.var EXCEPT ![c.var] = h] /\ loaded' = loaded \cup {new}
          /\ c.var \in Variables /\ c.var \notin a /\ a \cup {c.var} \subseteq b
          /\ c.returns = "session" <=> c.var = "session"
      BY <1>1, <1>2, <1>7 DEF Executed, StepSound
    <2>2. h \in Handles /\ h[1] = c.returns
      BY <1>2, <1>7, <2>0, NewHandleType DEF Executable
    <2> HIDE DEF var, h
    <2>3. new \in LoadedHandles /\ new.handle = h
      BY <2>2 DEF LoadedHandles
    <2> HIDE DEF new
    <2>4. var \in Vars /\ \A v \in Variables : var[v] = IF v = c.var THEN h ELSE run.var[v]
      BY <1>1, <2>1, <2>2 DEF Vars
    <2>5. KindsApart(var)
      BY <1>1, <1>7, <2>1, <2>2, <2>4 DEF KindsApart
    <2>6. HeldIn(loaded', var, b)
      <3>1. \A v \in a : v \in b /\ var[v] = run.var[v]
        BY <1>1, <2>1, <2>4
      <3>2. c.var \in b /\ var[c.var] = h
        BY <2>1, <2>4
      <3> QED BY <1>1, <2>1, <2>3, <3>1, <3>2 DEF HeldIn
    <2> QED BY <1>1, <2>1, <2>3, <2>4, <2>5, <2>6
  <1> QED BY <1>4, <1>5, <1>6, <1>7, Zenon DEF Commands

\* CommandRejected keeps the invariant.
LEMMA CommandRejectedInv ==
  ASSUME HandlesInv, CommandRejected
  PROVE  HandlesInv'
  <1>1. ProgramRuns /\ run' = AfterFailure(CurrentStep) /\ loaded' = loaded
    BY DEF CommandRejected
  <1>2. loaded \in SUBSET LoadedHandles
    BY DEF HandlesInv
  <1>3. CurrentStep.returns = "flush" => \A l \in loaded : l.handle # run.var[CurrentStep.var]
    <2>1. CurrentStep.returns = "flush" => CurrentStep.needs = {}
      BY <1>1, AtStep DEF StepSound
    <2> QED BY <2>1 DEF CommandRejected, Executable, Present
  <1> QED BY <1>1, <1>2, <1>3, FailureInv

\* FlushNotSent keeps the invariant.
LEMMA FlushNotSentInv ==
  ASSUME HandlesInv, FlushNotSent
  PROVE  HandlesInv'
  <1>1. ProgramRuns /\ run' = AfterFailure(CurrentStep) /\ loaded' = Abandoned(run.var[CurrentStep.var])
    BY DEF FlushNotSent
  <1>2. loaded \in SUBSET LoadedHandles
    BY DEF HandlesInv
  <1>3. /\ loaded' \in SUBSET LoadedHandles
        /\ \A l \in loaded' : l.from = "run" => l \in loaded /\ l.handle # run.var[CurrentStep.var]
    BY <1>1, <1>2, AbandonedSound
  <1> QED BY <1>1, <1>3, FailureInv

\* AnswerLost keeps the invariant.
LEMMA AnswerLostInv ==
  ASSUME HandlesInv, AnswerLost
  PROVE  HandlesInv'
  BY ExecutedLost, FailureInv DEF AnswerLost

\* ProgramEnds keeps the invariant.
LEMMA ProgramEndsInv ==
  ASSUME HandlesInv, ProgramEnds
  PROVE  HandlesInv'
  <1> DEFINE p == run.program
             vs == {v \in p.done : run.var[v] # NoHandle}
  <1>1. run \in Runs
    BY DEF HandlesInv, ProgramEnds, HandlesIdle
  <1>2. /\ run.pc \in 1..(Len(p.steps) + 1) /\ HeldIn(loaded, run.var, Live(p)[run.pc])
        /\ loaded \in SUBSET LoadedHandles
    BY <1>1 DEF HandlesInv, ProgramEnds
  <1>3. ProgramSound(p, Live(p))
    BY <1>1, ProgramsSound DEF Runs
  <1>4. run.pc = Len(p.steps) + 1
    BY <1>2, <1>3 DEF ProgramEnds, ProgramSound
  <1>5. vs \in SUBSET Variables /\ (p \in Protocol => Live(p)[run.pc] \subseteq p.done)
    BY <1>3, <1>4 DEF ProgramSound
  <1>6. p \in Protocol => HeldIn(loaded, run.var, vs)
    BY <1>2, <1>5, NotAHandle DEF HeldIn, LoadedHandles
  <1>7. run' = [run EXCEPT !.at = "leaving", !.flush = vs] /\ loaded' = loaded
    BY DEF ProgramEnds
  <1>8. p \in Protocol => HeldIn(loaded', run.var, vs)
    BY <1>6, <1>7
  <1> HIDE DEF vs
  <1> QED BY <1>1, <1>2, <1>5, <1>7, <1>8, Leaves, Zenon

\* FlushOnExit keeps the invariant.
LEMMA FlushOnExitInv ==
  ASSUME HandlesInv, NEW v \in Variables, run # HandlesIdle, v \in run.flush, FlushOnExit(v)
  PROVE  HandlesInv'
  <1> DEFINE vs == run.flush \ {v}
  <1>1. /\ run \in Runs /\ run.at = "leaving" /\ loaded \in SUBSET LoadedHandles
        /\ run.program \in Protocol => HeldIn(loaded, run.var, run.flush)
    BY DEF HandlesInv, FlushOnExit
  <1>2. vs \in SUBSET Variables /\ run' = [run EXCEPT !.at = "leaving", !.flush = vs]
    BY <1>1, Zenon DEF FlushOnExit, Runs
  <1>3. /\ loaded' \in SUBSET LoadedHandles
        /\ \A l \in loaded' : l.from = "run" => l \in loaded /\ l.handle # run.var[v]
    BY <1>1, AbandonedSound DEF FlushOnExit, Without
  <1>4. run.program \in Protocol => HeldIn(loaded', run.var, vs)
    BY <1>1, <1>3 DEF HeldIn
  <1> HIDE DEF vs
  <1> QED BY <1>1, <1>2, <1>3, <1>4, Leaves, Zenon

\* CloseTpm keeps the invariant.
LEMMA CloseTpmInv ==
  ASSUME HandlesInv, CloseTpm
  PROVE  HandlesInv'
  <1>1. /\ run \in Runs /\ run.at = "leaving" /\ loaded \in SUBSET LoadedHandles
        /\ run.program \in Protocol => HeldIn(loaded, run.var, {})
    BY DEF HandlesInv, CloseTpm, HandlesIdle
  <1>2. \A l \in loaded : Leftover(l, run.program) \in LoadedHandles
                          /\ Leftover(l, run.program).from # "run"
    <2>1. \A l \in LoadedHandles : /\ [l EXCEPT !.from = "test"] \in LoadedHandles
                                   /\ [l EXCEPT !.from = "test"].from = "test"
      BY DEF LoadedHandles
    <2> QED BY <1>1, <2>1 DEF Leftover, HeldIn
  <1>3. loaded' \in SUBSET LoadedHandles /\ (\A l \in loaded' : l.from # "run") /\ run' = HandlesIdle
    BY <1>2 DEF CloseTpm
  <1> QED BY <1>3, NotIdle DEF HandlesInv

\* Flushall keeps the invariant.
LEMMA FlushallInv ==
  ASSUME HandlesInv, Flushall
  PROVE  HandlesInv'
  <1>1. loaded' \subseteq loaded /\ run' = run /\ run = HandlesIdle
    BY DEF Flushall
  <1>2. loaded' \in SUBSET LoadedHandles /\ \A l \in loaded' : l.from # "run"
    BY <1>1 DEF HandlesInv
  <1> QED BY <1>1, <1>2, NotIdle DEF HandlesInv


\* Every step keeps the invariant.
LEMMA HandlesStep ==
  ASSUME HandlesInv, [HandlesNext]_handleVars
  PROVE  HandlesInv'
  <1>1. CASE \E p \in Protocol \cup Tests : StartProgram(p)
    BY <1>1, StartProgramInv
  <1>2. CASE \E v \in Variables : run # HandlesIdle /\ v \in run.flush /\ FlushOnExit(v)
    BY <1>2, FlushOnExitInv
  <1>3. CASE UNCHANGED handleVars
    BY <1>3 DEF HandlesInv, handleVars, HeldIn
  <1> QED
    BY <1>1, <1>2, <1>3, CommandSucceedsInv, CommandRejectedInv, FlushNotSentInv, AnswerLostInv,
       ProgramEndsInv, CloseTpmInv, FlushallInv DEF HandlesNext, HandlesRest

\* A run alone never fills the slots: it holds at most two objects when it asks
\* for another, and no session when it asks for one.
LEMMA RunLeavesRoom ==
  ASSUME HandlesInv, ProgramRuns, CurrentStep.returns \in {"transient", "session"},
         FreeHandles(CurrentStep.returns) = {}, \A l \in loaded : l.from = "run"
  PROVE  FALSE
  <1> DEFINE c == CurrentStep
             a == Live(run.program)[run.pc]
             b == Live(run.program)[run.pc + 1]
             kind == c.returns
  <1>1. /\ run.var \in Vars /\ StepSound(run.program, c, a, b) /\ a \in SUBSET Variables
        /\ HeldIn(loaded, run.var, a) /\ KindsApart(run.var)
    BY AtStep
  <1>2. kind \in {"transient", "session"} /\ FreeHandles(kind) = {}
    OBVIOUS
  <1> HIDE DEF c, a, b, kind
  <1>3. \A n \in 1..Room(kind) : \E v \in a : run.var[v] = <<kind, n>>
    BY <1>1, <1>2 DEF FreeHandles, HeldIn
  <1>4. CASE kind = "session"
    <2>1. 1 \in 1..Room(kind)
      BY <1>4, HandlesAssumption DEF Room
    <2>2. PICK v \in a : run.var[v] = <<kind, 1>>
      BY <1>3, <2>1
    <2>3. run.var[v] # NoHandle /\ run.var[v][1] = "session"
      BY <1>4, <2>2 DEF NoHandle
    <2>4. v = "session"
      BY <1>1, <2>3 DEF KindsApart
    <2> QED BY <1>1, <1>4, <2>4 DEF StepSound, kind
  <1>5. CASE kind = "transient"
    <2>1. 1 \in 1..Room(kind) /\ 2 \in 1..Room(kind) /\ 3 \in 1..Room(kind)
      BY <1>5, HandlesAssumption DEF Room
    <2>2. PICK u, w \in Variables : a \subseteq {u, w}
      BY <1>1, <1>5 DEF StepSound, AtMostTwo, kind
    <2>3. /\ \E v \in {u, w} : run.var[v] = <<kind, 1>>
          /\ \E v \in {u, w} : run.var[v] = <<kind, 2>>
          /\ \E v \in {u, w} : run.var[v] = <<kind, 3>>
      BY <1>3, <2>1, <2>2
    <2>4. <<kind, 1>> # <<kind, 2>> /\ <<kind, 1>> # <<kind, 3>> /\ <<kind, 2>> # <<kind, 3>>
      OBVIOUS
    <2> QED BY <2>3, <2>4
  <1> QED BY <1>2, <1>4, <1>5

\* Whichever command of src/src/tpm2 fails, is not sent or loses its answer,
\* the key protocol's programs leave no handle in the TPM, and a program that
\* starts on an empty TPM finds room for every handle it asks for, in every
\* TPM with three transient slots and one session slot or more.
THEOREM HandlesAreReturned == HandlesSpec => []HandlesReturned
  <1>1. HandlesInit => HandlesInv
    <2> SUFFICES ASSUME HandlesInit PROVE HandlesInv
      OBVIOUS
    <2> QED BY NotIdle DEF HandlesInit, HandlesInv
  <1>2. HandlesInv /\ [HandlesNext]_handleVars => HandlesInv'
    BY HandlesStep
  <1>3. HandlesInv => HandlesReturned
    <2> SUFFICES ASSUME HandlesInv PROVE HandlesReturned
      OBVIOUS
    <2>1. run = HandlesIdle => \A l \in loaded : l.from \in {"test", "lost"}
      BY DEF HandlesInv, LoadedHandles
    <2> QED BY <2>1, RunLeavesRoom DEF HandlesReturned
  <1> QED BY <1>1, <1>2, <1>3, PTL DEF HandlesSpec

-----------------------------------------------------------------------------
\* The session that protects the commands on an NV index (Tpm2Session).
Keys == {<<>>} \cup (Nat \X Nat)

ClientStates ==
    [old : Nat, new : Nat, key : Keys, pc : {"closed", "idle", "sent", "flushed"},
     cmd : NvCommands \cup {"none"}, calls : Nat]

\* The TPM's record, with the types of all its fields but the messages.
TpmTypes ==
    tpmSide \in [open : BOOLEAN, nonce : Nat, key : Keys, drawn : Nat,
                 inbox : {tpmSide.inbox}, outbox : {tpmSide.outbox},
                 nv : [exists : BOOLEAN, written : BOOLEAN, value : Nat]]

Logs == [start : Nat, acked : Nat, failed : BOOLEAN, seen : SUBSET (Nat \X Nat)]

SessionTypes == client \in ClientStates /\ TpmTypes /\ log \in Logs

\* No nonce is newer than the last one drawn, and an index that does not
\* exist counts from 0.
NonceInv ==
    /\ tpmSide.nonce <= tpmSide.drawn /\ client.new <= tpmSide.drawn
    /\ ~tpmSide.nv.exists => tpmSide.nv.value = 0

\* Between two calls nothing is under way.
IdleInv ==
    client.pc = "idle" =>
        /\ tpmSide.inbox = NoMessage /\ tpmSide.outbox = NoMessage
        /\ log.failed <=> client.new # tpmSide.nonce
        /\ ~log.failed => tpmSide.nv.value = log.start + log.acked

\* A command under way carries the client's newest nonce, which the TPM does
\* not have; the one before it is the TPM's if no call has failed.
CommandInv ==
    client.pc = "sent" /\ tpmSide.inbox # NoMessage =>
        /\ tpmSide.outbox = NoMessage
        /\ tpmSide.inbox = [cmd |-> client.cmd, nonce |-> client.new,
               hmac |-> CalculateSessionHmac(client.key, "command", client.cmd,
                            NamesOf(client.cmd), 0, client.new, client.old)]
        /\ log.failed <=> client.old # tpmSide.nonce
        /\ ~log.failed => tpmSide.nv.value = log.start + log.acked

\* An answer under way is to a call of a session in step, and carries the
\* TPM's newest nonce and the result of the command.
AnswerInv ==
    client.pc = "sent" /\ tpmSide.inbox = NoMessage =>
        /\ tpmSide.outbox # NoMessage
        /\ tpmSide.outbox.ok =>
             LET r == tpmSide.outbox IN
             /\ ~log.failed /\ r.parms \in Nat
             /\ r.nonce = tpmSide.nonce
             /\ r.hmac = CalculateSessionHmac(client.key, "response", client.cmd, "none",
                                              r.parms, r.nonce, client.new)
             /\ tpmSide.nv.value =
                  log.start + log.acked + (IF client.cmd = "increment" THEN 1 ELSE 0)
             /\ client.cmd = "read" => r.parms = tpmSide.nv.value

StepInv ==
    /\ client.pc \in {"idle", "sent"} => client.key = tpmSide.key
    /\ client.pc = "sent" => client.cmd \in NvCommands /\ client.new # tpmSide.nonce
    /\ client.pc = "closed" =>
         /\ tpmSide.inbox = NoMessage /\ tpmSide.outbox = NoMessage
         /\ ~log.failed /\ log.acked = 0
    /\ client.pc = "flushed" => tpmSide.inbox = NoMessage
    /\ \A s \in log.seen : s[1] = s[2]

SessionInv ==
    SessionTypes /\ NonceInv /\ IdleInv /\ CommandInv /\ AnswerInv /\ StepInv

-----------------------------------------------------------------------------
USE DEF NvCommands, NoNonce

\* Before the session is opened.
LEMMA InitSession == SessionInit => SessionInv
  <1> SUFFICES ASSUME SessionInit PROVE SessionInv
    OBVIOUS
  <1>1. SessionTypes
    BY DEF SessionInit, SessionTypes, ClientStates, Keys, TpmTypes, Logs, NoIndex
  <1> QED BY <1>1 DEF SessionInit, SessionInv, NonceInv, IdleInv, CommandInv, AnswerInv,
                      StepInv, NoIndex

\* The first exchange leaves both sides with the TPM's nonce, or the program
\* without a session.
LEMMA StartSession ==
  ASSUME SessionInv, StartProtectedAuthSession
  PROVE  SessionInv'
  <1> DEFINE mine == tpmSide.drawn + 1
             theirs == tpmSide.drawn + 2
  <1>1. client \in ClientStates /\ TpmTypes /\ log \in Logs /\ tpmSide.drawn \in Nat
    BY DEF SessionInv, SessionTypes, TpmTypes
  <1>2. tpmSide' = [tpmSide EXCEPT !.open = TRUE, !.nonce = theirs,
                                   !.key = <<theirs, mine>>, !.drawn = theirs]
        /\ log' = [log EXCEPT !.start = tpmSide.nv.value]
    BY DEF StartProtectedAuthSession
  <1>3. \/ client' = [client EXCEPT !.old = mine, !.new = theirs, !.pc = "idle",
                                    !.key = <<theirs, mine>>]
        \/ client' = [client EXCEPT !.old = mine, !.pc = "flushed"]
    BY <1>1 DEF StartProtectedAuthSession, CalculateSessionKey, ClientStates
  <1>4. SessionTypes'
    <2>1. <<theirs, mine>> \in Keys /\ mine \in Nat /\ theirs \in Nat
      BY <1>1 DEF Keys
    <2> HIDE DEF mine, theirs, NvCommands
    <2>2. client' \in ClientStates
      BY <1>1, <1>3, <2>1, Zenon DEF ClientStates
    <2>3. TpmTypes'
      BY <1>1, <1>2, <2>1, Zenon DEF TpmTypes
    <2>4. log' \in Logs
      BY <1>1, <1>2 DEF TpmTypes, Logs
    <2> QED BY <2>2, <2>3, <2>4 DEF SessionTypes
  <1>5. client.pc = "closed" /\ tpmSide.inbox = NoMessage /\ tpmSide.outbox = NoMessage
        /\ ~log.failed /\ log.acked = 0 /\ client.new <= tpmSide.drawn
        /\ (~tpmSide.nv.exists => tpmSide.nv.value = 0)
        /\ \A s \in log.seen : s[1] = s[2]
    BY DEF StartProtectedAuthSession, SessionInv, StepInv, NonceInv
  <1>6. /\ tpmSide'.nonce = theirs /\ tpmSide'.drawn = theirs /\ tpmSide'.nv = tpmSide.nv
        /\ tpmSide'.inbox = NoMessage /\ tpmSide'.outbox = NoMessage
        /\ tpmSide'.key = <<theirs, mine>>
        /\ log'.start = tpmSide.nv.value /\ ~log'.failed /\ log'.acked = 0
        /\ log'.seen = log.seen
    BY <1>1, <1>2, <1>5 DEF TpmTypes, Logs
  <1>7. \/ client'.pc = "idle" /\ client'.new = theirs /\ client'.key = <<theirs, mine>>
        \/ client'.pc = "flushed" /\ client'.new = client.new
    BY <1>1, <1>3, Zenon DEF ClientStates
  <1>8. NonceInv'
    BY <1>1, <1>5, <1>6, <1>7 DEF NonceInv, ClientStates
  <1>9. IdleInv'
    BY <1>1, <1>6, <1>7 DEF IdleInv, TpmTypes
  <1>10. CommandInv' /\ AnswerInv'
    BY <1>7 DEF CommandInv, AnswerInv
  <1>11. StepInv'
    BY <1>5, <1>6, <1>7 DEF StepInv
  <1> QED BY <1>4, <1>8, <1>9, <1>10, <1>11 DEF SessionInv

\* A command takes a nonce nobody has; if it is not sent, the client is out
\* of step from here on.
LEMMA IssueSession ==
  ASSUME SessionInv, NEW cmd \in NvCommands, IssueCommand(cmd)
  PROVE  SessionInv'
  <1> DEFINE mine == tpmSide.drawn + 1
  <1>1. client \in ClientStates /\ TpmTypes /\ log \in Logs
    BY DEF SessionInv, SessionTypes
  <1>2. client.pc = "idle" /\ tpmSide.inbox = NoMessage /\ tpmSide.outbox = NoMessage
        /\ (log.failed <=> client.new # tpmSide.nonce) /\ client.key = tpmSide.key
        /\ (~log.failed => tpmSide.nv.value = log.start + log.acked)
        /\ tpmSide.nonce <= tpmSide.drawn /\ client.new <= tpmSide.drawn
        /\ (~tpmSide.nv.exists => tpmSide.nv.value = 0)
        /\ \A s \in log.seen : s[1] = s[2]
    BY DEF IssueCommand, SessionInv, IdleInv, StepInv, NonceInv
  <1>3. mine \in Nat /\ mine # tpmSide.nonce /\ mine # client.new /\ tpmSide.drawn <= mine
    BY <1>1, <1>2 DEF TpmTypes, ClientStates
  <1>4. client.calls + 1 \in Nat /\ client.new \in Nat
    BY <1>1 DEF ClientStates
  <1>5. CASE /\ client' = [RollNonces(client, mine) EXCEPT
                             !.pc = "sent", !.cmd = cmd, !.calls = @ + 1]
             /\ tpmSide' = [tpmSide EXCEPT !.inbox = CalculateandSetProtectedAuth(cmd),
                                           !.drawn = @ + 1]
             /\ UNCHANGED log
    <2> DEFINE m == [cmd |-> cmd, nonce |-> mine,
                     hmac |-> CalculateSessionHmac(client.key, "command", cmd,
                                                   NamesOf(cmd), 0, mine, client.new)]
    <2>1. client' = [client EXCEPT !.old = client.new, !.new = mine, !.pc = "sent",
                                   !.cmd = cmd, !.calls = client.calls + 1]
      BY <1>1, <1>5 DEF RollNonces, ClientStates
    <2>2. tpmSide' = [tpmSide EXCEPT !.inbox = m, !.drawn = mine]
      BY <1>1, <1>5 DEF RollNonces, ClientStates, CalculateandSetProtectedAuth, TpmTypes
    <2>3. m # NoMessage
      BY DEF NoMessage
    <2>4. m = [cmd |-> cmd, nonce |-> mine,
               hmac |-> CalculateSessionHmac(client.key, "command", cmd,
                                             NamesOf(cmd), 0, mine, client.new)]
      OBVIOUS
    <2> HIDE DEF mine, m
    <2>5. client' \in ClientStates
      BY <1>1, <1>3, <1>4, <2>1, Zenon DEF ClientStates
    <2>6. TpmTypes'
      BY <1>1, <1>3, <2>2, Zenon DEF TpmTypes
    <2>7. /\ client'.pc = "sent" /\ client'.cmd = cmd /\ client'.old = client.new
          /\ client'.new = mine /\ client'.key = client.key
      BY <1>1, <2>1 DEF ClientStates
    <2>8. /\ tpmSide'.inbox = m /\ tpmSide'.outbox = NoMessage /\ tpmSide'.drawn = mine
          /\ tpmSide'.nonce = tpmSide.nonce /\ tpmSide'.key = tpmSide.key
          /\ tpmSide'.nv = tpmSide.nv
      BY <1>1, <1>2, <2>2 DEF TpmTypes
    <2>9. SessionTypes' /\ log' = log
      BY <1>1, <1>5, <2>5, <2>6 DEF SessionTypes
    <2>10. NonceInv'
      <3>1. tpmSide.nonce <= mine
        BY <1>1, <1>2, <1>3 DEF TpmTypes
      <3> QED BY <1>2, <1>3, <2>7, <2>8, <3>1 DEF NonceInv
    <2>11. IdleInv' /\ AnswerInv'
      BY <2>3, <2>7, <2>8 DEF IdleInv, AnswerInv
    <2>12. CommandInv'
      BY <1>2, <2>4, <2>7, <2>8, <2>9 DEF CommandInv
    <2>13. StepInv'
      BY <1>2, <1>3, <2>7, <2>8, <2>9 DEF StepInv
    <2> QED BY <2>9, <2>10, <2>11, <2>12, <2>13 DEF SessionInv
  <1>6. CASE /\ client' = [RollNonces(client, mine) EXCEPT !.calls = @ + 1]
             /\ tpmSide' = [tpmSide EXCEPT !.drawn = @ + 1]
             /\ log' = [log EXCEPT !.failed = TRUE]
    <2>1. client' = [client EXCEPT !.old = client.new, !.new = mine,
                                   !.calls = client.calls + 1]
      BY <1>1, <1>6 DEF RollNonces, ClientStates
    <2>2. tpmSide' = [tpmSide EXCEPT !.drawn = mine]
      BY <1>6
    <2> HIDE DEF mine
    <2>3. client' \in ClientStates
      BY <1>1, <1>3, <1>4, <2>1, Zenon DEF ClientStates
    <2>4. TpmTypes'
      BY <1>1, <1>3, <2>2 DEF TpmTypes
    <2>5. client'.pc = "idle" /\ client'.new = mine /\ client'.key = client.key
      BY <1>1, <1>2, <2>1 DEF ClientStates
    <2>6. /\ tpmSide'.inbox = NoMessage /\ tpmSide'.outbox = NoMessage
          /\ tpmSide'.drawn = mine /\ tpmSide'.nonce = tpmSide.nonce
          /\ tpmSide'.key = tpmSide.key /\ tpmSide'.nv = tpmSide.nv
      BY <1>1, <1>2, <2>2 DEF TpmTypes
    <2>7. log' \in Logs /\ log'.failed /\ log'.seen = log.seen
      BY <1>1, <1>6, Zenon DEF Logs
    <2>8. NonceInv'
      <3>1. tpmSide.nonce <= mine
        BY <1>1, <1>2, <1>3 DEF TpmTypes
      <3> QED BY <1>2, <1>3, <2>5, <2>6, <3>1 DEF NonceInv
    <2>9. IdleInv' /\ AnswerInv' /\ CommandInv' /\ StepInv'
      BY <1>2, <1>3, <2>5, <2>6, <2>7, Zenon DEF IdleInv, AnswerInv, CommandInv, StepInv
    <2> QED BY <2>3, <2>4, <2>7, <2>8, <2>9 DEF SessionInv, SessionTypes
  <1> QED BY <1>5, <1>6 DEF IssueCommand

\* The TPM executes a command only in a session in step, and rejects every
\* other one without moving its nonce.
LEMMA ExecuteSession ==
  ASSUME SessionInv, TpmExecutes
  PROVE  SessionInv'
  <1> DEFINE m == tpmSide.inbox
             mine == tpmSide.drawn + 1
             result == IF m.cmd = "read" THEN tpmSide.nv.value ELSE 0
             answer == [cmd |-> m.cmd, ok |-> TRUE, nonce |-> mine, parms |-> result,
                        hmac |-> CalculateSessionHmac(tpmSide.key, "response", m.cmd,
                                                      "none", result, mine, m.nonce)]
  <1>1. client \in ClientStates /\ TpmTypes /\ log \in Logs
    BY DEF SessionInv, SessionTypes
  <1>2. client.pc = "sent" /\ tpmSide.inbox # NoMessage
    BY <1>1 DEF TpmExecutes, SessionInv, IdleInv, StepInv, ClientStates
  <1>3. /\ client.cmd \in NvCommands /\ client.new # tpmSide.nonce
        /\ client.key = tpmSide.key /\ tpmSide.outbox = NoMessage
        /\ m = [cmd |-> client.cmd, nonce |-> client.new,
                hmac |-> CalculateSessionHmac(client.key, "command", client.cmd,
                             NamesOf(client.cmd), 0, client.new, client.old)]
        /\ log.failed <=> client.old # tpmSide.nonce
        /\ ~log.failed => tpmSide.nv.value = log.start + log.acked
        /\ tpmSide.nonce <= tpmSide.drawn /\ client.new <= tpmSide.drawn
        /\ ~tpmSide.nv.exists => tpmSide.nv.value = 0
        /\ \A s \in log.seen : s[1] = s[2]
    BY <1>2 DEF SessionInv, StepInv, CommandInv, NonceInv
  <1>4. UNCHANGED <<client, log>>
    BY DEF TpmExecutes
  <1>5. mine \in Nat /\ client.new # mine /\ client.new <= mine /\ tpmSide.nv.value \in Nat
    BY <1>1, <1>3 DEF TpmTypes, ClientStates
  <1>6. m.cmd = client.cmd /\ m.nonce = client.new
    BY <1>3
  <1>7. CASE /\ TpmAccepts(m)
             /\ tpmSide' = [tpmSide EXCEPT
                  !.inbox = NoMessage, !.nonce = mine, !.drawn = mine,
                  !.nv = TpmEffect(m.cmd), !.outbox = answer]
    <2>1. ~log.failed /\ tpmSide.nv.value = log.start + log.acked
      <3>1. m.hmac.older = client.old
        BY <1>3 DEF CalculateSessionHmac
      <3>2. m.hmac.older = tpmSide.nonce
        BY <1>7 DEF TpmAccepts, CalculateSessionHmac
      <3> QED BY <1>3, <3>1, <3>2
    <2>2. /\ answer # NoMessage /\ answer.ok /\ answer.nonce = mine
          /\ answer.parms = result /\ result \in Nat
          /\ client.cmd = "read" => result = tpmSide.nv.value
          /\ answer.hmac = CalculateSessionHmac(client.key, "response", client.cmd, "none",
                                                result, mine, client.new)
      BY <1>3, <1>5, <1>6, Zenon DEF NoMessage
    <2>3. /\ TpmEffect(client.cmd) \in [exists : BOOLEAN, written : BOOLEAN, value : Nat]
          /\ ~TpmEffect(client.cmd).exists => TpmEffect(client.cmd).value = 0
          /\ TpmEffect(client.cmd).value =
               tpmSide.nv.value + (IF client.cmd = "increment" THEN 1 ELSE 0)
      <3>0. tpmSide.nv \in [exists : BOOLEAN, written : BOOLEAN, value : Nat]
        BY <1>1 DEF TpmTypes
      <3>1. CASE client.cmd = "define"
        <4>1. ~tpmSide.nv.exists
          BY <1>6, <1>7, <3>1 DEF TpmAccepts
        <4> QED BY <1>3, <3>1, <4>1 DEF TpmEffect
      <3>2. CASE client.cmd = "increment"
        <4>1. tpmSide.nv.exists
          BY <1>6, <1>7, <3>2 DEF TpmAccepts
        <4>2. TpmEffect(client.cmd) =
                [tpmSide.nv EXCEPT !.written = TRUE, !.value = @ + 1]
          BY <3>2 DEF TpmEffect
        <4>3. tpmSide.nv.value + 1 \in Nat
          BY <3>0
        <4>4. TpmEffect(client.cmd) \in [exists : BOOLEAN, written : BOOLEAN, value : Nat]
          BY <3>0, <4>2, <4>3, Zenon
        <4>5. TpmEffect(client.cmd).exists = tpmSide.nv.exists
              /\ TpmEffect(client.cmd).value = tpmSide.nv.value + 1
          BY <3>0, <4>2
        <4> QED BY <3>2, <4>1, <4>4, <4>5, Zenon
      <3>3. CASE client.cmd = "read"
        BY <1>3, <3>0, <3>3 DEF TpmEffect
      <3> QED BY <1>3, <3>1, <3>2, <3>3
    <2> DEFINE nv1 == TpmEffect(client.cmd)
    <2>4. tpmSide' = [tpmSide EXCEPT !.inbox = NoMessage, !.nonce = mine, !.drawn = mine,
                                     !.nv = nv1, !.outbox = answer]
      BY <1>6, <1>7
    <2> HIDE DEF mine, result, answer, nv1
    <2>5. TpmTypes'
      BY <1>1, <1>5, <2>3, <2>4, Zenon DEF TpmTypes, nv1
    <2>6. /\ tpmSide'.inbox = NoMessage /\ tpmSide'.outbox = answer
          /\ tpmSide'.nonce = mine /\ tpmSide'.drawn = mine
          /\ tpmSide'.key = tpmSide.key /\ tpmSide'.nv = nv1
      BY <1>1, <2>4 DEF TpmTypes
    <2>7. NonceInv'
      BY <1>4, <1>5, <2>3, <2>6 DEF NonceInv, nv1
    <2>8. IdleInv' /\ CommandInv'
      BY <1>2, <1>4, <2>6 DEF IdleInv, CommandInv
    <2>9. AnswerInv'
      <3>1. nv1.value = log.start + log.acked + (IF client.cmd = "increment" THEN 1 ELSE 0)
        BY <2>1, <2>3 DEF nv1
      <3>2. client.cmd = "read" => result = nv1.value
        BY <1>5, <2>2, <2>3 DEF nv1
      <3> QED BY <1>4, <2>1, <2>2, <2>6, <3>1, <3>2 DEF AnswerInv
    <2>10. StepInv'
      BY <1>2, <1>3, <1>4, <1>5, <2>6 DEF StepInv
    <2> QED BY <1>1, <1>4, <2>5, <2>7, <2>8, <2>9, <2>10 DEF SessionInv, SessionTypes
  <1>8. CASE tpmSide' = [tpmSide EXCEPT !.inbox = NoMessage,
                                        !.outbox = [cmd |-> m.cmd, ok |-> FALSE]]
    <2>1. TpmTypes'
      BY <1>1, <1>8, Zenon DEF TpmTypes
    <2>2. /\ tpmSide'.inbox = NoMessage /\ tpmSide'.outbox = [cmd |-> m.cmd, ok |-> FALSE]
          /\ tpmSide'.nonce = tpmSide.nonce /\ tpmSide'.drawn = tpmSide.drawn
          /\ tpmSide'.key = tpmSide.key /\ tpmSide'.nv = tpmSide.nv
      BY <1>1, <1>8 DEF TpmTypes
    <2>3. ~tpmSide'.outbox.ok /\ tpmSide'.outbox # NoMessage
      <3>1. tpmSide'.outbox.ok = FALSE /\ tpmSide'.outbox.cmd = m.cmd
        BY <2>2
      <3>2. NoMessage.cmd = "none" /\ m.cmd # "none"
        BY <1>3, <1>6 DEF NoMessage
      <3> QED BY <3>1, <3>2
    <2>4. NonceInv'
      BY <1>3, <1>4, <2>2 DEF NonceInv
    <2>5. IdleInv' /\ CommandInv' /\ AnswerInv' /\ StepInv'
      BY <1>2, <1>3, <1>4, <2>2, <2>3 DEF IdleInv, CommandInv, AnswerInv, StepInv
    <2> QED BY <1>1, <1>4, <2>1, <2>4, <2>5 DEF SessionInv, SessionTypes
  <1> QED BY <1>7, <1>8 DEF TpmExecutes

\* An answer that verifies brings the client to the TPM's nonce and counter;
\* a call that fails leaves it with a nonce of its own.
LEMMA ReturnSession ==
  ASSUME SessionInv, CommandReturns
  PROVE  SessionInv'
  <1> DEFINE r == tpmSide.outbox
  <1>1. client \in ClientStates /\ TpmTypes /\ log \in Logs
    BY DEF SessionInv, SessionTypes
  <1>2. client.pc = "sent" /\ tpmSide.outbox # NoMessage
        /\ tpmSide' = [tpmSide EXCEPT !.outbox = NoMessage]
    BY DEF CommandReturns
  <1>3. tpmSide.inbox = NoMessage
    BY <1>2 DEF SessionInv, CommandInv
  <1>4. /\ client.cmd \in NvCommands /\ client.new # tpmSide.nonce
        /\ client.key = tpmSide.key
        /\ tpmSide.nonce <= tpmSide.drawn /\ client.new <= tpmSide.drawn
        /\ ~tpmSide.nv.exists => tpmSide.nv.value = 0
        /\ \A s \in log.seen : s[1] = s[2]
    BY <1>2 DEF SessionInv, StepInv, NonceInv
  <1>5. TpmTypes'
    BY <1>1, <1>2 DEF TpmTypes
  <1>6. /\ tpmSide'.inbox = NoMessage /\ tpmSide'.outbox = NoMessage
        /\ tpmSide'.nonce = tpmSide.nonce /\ tpmSide'.drawn = tpmSide.drawn
        /\ tpmSide'.key = tpmSide.key /\ tpmSide'.nv = tpmSide.nv
    BY <1>1, <1>2, <1>3 DEF TpmTypes
  <1>7. CASE tpmSide.outbox.ok /\ GetandVerifyProtectedAuth(tpmSide.outbox)
    <2>1. /\ ~log.failed /\ r.parms \in Nat /\ r.nonce = tpmSide.nonce
          /\ r.hmac = CalculateSessionHmac(client.key, "response", client.cmd, "none",
                                           r.parms, r.nonce, client.new)
          /\ tpmSide.nv.value =
               log.start + log.acked + (IF client.cmd = "increment" THEN 1 ELSE 0)
          /\ client.cmd = "read" => r.parms = tpmSide.nv.value
      BY <1>2, <1>3, <1>7 DEF SessionInv, AnswerInv
    <2>2. tpmSide.nonce \in Nat
      BY <1>1 DEF TpmTypes
    <2>3. client' = [client EXCEPT !.old = client.new, !.new = tpmSide.nonce,
                                   !.pc = "idle", !.cmd = "none"]
      BY <1>1, <1>7, <2>1 DEF GetandVerifyProtectedAuth, RollNonces, Returned, ClientStates
    <2>4. log' = [log EXCEPT
              !.acked = IF client.cmd = "increment" THEN log.acked + 1 ELSE log.acked,
              !.seen = IF client.cmd = "read"
                       THEN log.seen \cup {<<r.parms, log.start + log.acked>>}
                       ELSE log.seen]
      <3>1. LET rolled == RollNonces(client, r.nonce) IN
              rolled.key = client.key /\ rolled.new = r.nonce /\ rolled.old = client.new
        BY <1>1 DEF RollNonces, ClientStates
      <3> QED BY <1>7, <2>1, <3>1 DEF GetandVerifyProtectedAuth
    <2>5. client' \in ClientStates /\ client'.pc = "idle" /\ client'.new = tpmSide.nonce
          /\ client'.key = client.key
      BY <1>1, <2>2, <2>3, Zenon DEF ClientStates
    <2>6. log.start \in Nat /\ log.acked \in Nat /\ log.acked + 1 \in Nat
          /\ log.start + log.acked \in Nat
      BY <1>1 DEF Logs
    <2>7. <<r.parms, log.start + log.acked>> \in Nat \X Nat
      BY <2>1, <2>6
    <2>8. log' \in Logs
      BY <1>1, <2>4, <2>6, <2>7, Zenon DEF Logs
    <2>9. /\ log'.start = log.start /\ ~log'.failed
          /\ log'.acked = IF client.cmd = "increment" THEN log.acked + 1 ELSE log.acked
          /\ log'.seen = IF client.cmd = "read"
                         THEN log.seen \cup {<<r.parms, log.start + log.acked>>}
                         ELSE log.seen
      BY <1>1, <2>1, <2>4 DEF Logs
    <2>10. tpmSide.nv.value = log'.start + log'.acked
      BY <2>1, <2>6, <2>9
    <2>11. \A s \in log'.seen : s[1] = s[2]
      <3>1. client.cmd = "read" => r.parms = log.start + log.acked
        BY <2>1, <2>6
      <3> QED BY <1>4, <2>9, <3>1
    <2>12. NonceInv'
      BY <1>4, <1>6, <2>5 DEF NonceInv
    <2>13. IdleInv'
      BY <1>6, <2>5, <2>9, <2>10 DEF IdleInv
    <2>14. CommandInv' /\ AnswerInv' /\ StepInv'
      BY <1>4, <1>6, <2>5, <2>11 DEF CommandInv, AnswerInv, StepInv
    <2> QED BY <1>5, <2>5, <2>8, <2>12, <2>13, <2>14 DEF SessionInv, SessionTypes
  <1>8. CASE CallFails
    <2>1. client' = [client EXCEPT !.pc = "idle", !.cmd = "none"]
          /\ log' = [log EXCEPT !.failed = TRUE]
      BY <1>8 DEF CallFails, Returned
    <2>2. client' \in ClientStates /\ client'.pc = "idle" /\ client'.new = client.new
          /\ client'.key = client.key
      BY <1>1, <2>1, Zenon DEF ClientStates
    <2>3. log' \in Logs /\ log'.failed /\ log'.seen = log.seen
      BY <1>1, <2>1, Zenon DEF Logs
    <2>4. NonceInv'
      BY <1>4, <1>6, <2>2 DEF NonceInv
    <2>5. IdleInv' /\ CommandInv' /\ AnswerInv' /\ StepInv'
      BY <1>4, <1>6, <2>2, <2>3 DEF IdleInv, CommandInv, AnswerInv, StepInv
    <2> QED BY <1>5, <2>2, <2>3, <2>4, <2>5 DEF SessionInv, SessionTypes
  <1> QED BY <1>7, <1>8 DEF CommandReturns

\* Flushing the session sends nothing.
LEMMA FlushedSession ==
  ASSUME SessionInv, FlushSession
  PROVE  SessionInv'
  <1>1. client \in ClientStates /\ TpmTypes /\ log \in Logs
    BY DEF SessionInv, SessionTypes
  <1>2. client.pc = "idle" /\ tpmSide.inbox = NoMessage /\ NonceInv
        /\ \A s \in log.seen : s[1] = s[2]
    BY DEF FlushSession, SessionInv, IdleInv, StepInv
  <1>3. client' \in ClientStates /\ client'.pc = "flushed" /\ client'.new = client.new
    BY <1>1 DEF FlushSession, ClientStates
  <1>4. /\ TpmTypes' /\ tpmSide'.inbox = NoMessage /\ tpmSide'.nonce = tpmSide.nonce
        /\ tpmSide'.drawn = tpmSide.drawn /\ tpmSide'.nv = tpmSide.nv
    BY <1>1, <1>2, Zenon DEF FlushSession, TpmTypes
  <1>5. log' = log
    BY DEF FlushSession
  <1>6. NonceInv'
    BY <1>2, <1>3, <1>4 DEF NonceInv
  <1>7. IdleInv' /\ CommandInv' /\ AnswerInv' /\ StepInv'
    BY <1>2, <1>3, <1>4, <1>5 DEF IdleInv, CommandInv, AnswerInv, StepInv
  <1> QED BY <1>1, <1>3, <1>4, <1>5, <1>6, <1>7 DEF SessionInv, SessionTypes

\* The session of the client library stays in step with the TPM exactly
\* until a call fails, and every value a read returns is the value at the
\* start plus the acknowledged increments (tpm2_lib.cc, Tpm2_*ProtectedNv).
THEOREM SessionStaysInStep == SessionSpec => []SessionInStep
  <1>1. SessionInit => SessionInv
    BY InitSession
  <1>2. SessionInv /\ [SessionNext]_sessionVars => SessionInv'
    <2> SUFFICES ASSUME SessionInv, [SessionNext]_sessionVars PROVE SessionInv'
      OBVIOUS
    <2>1. CASE \E cmd \in NvCommands : IssueCommand(cmd)
      BY <2>1, IssueSession
    <2>2. CASE UNCHANGED sessionVars
      BY <2>2 DEF sessionVars, SessionInv, SessionTypes, TpmTypes, NonceInv, IdleInv,
                  CommandInv, AnswerInv, StepInv
    <2> QED BY <2>1, <2>2, StartSession, ExecuteSession, ReturnSession, FlushedSession
            DEF SessionNext, DefineProtectedSpace, IncrementProtectedNv, ReadProtectedNv,
                SessionRest
  <1>3. SessionInv => SessionInStep
    BY Zenon DEF SessionInv, IdleInv, StepInv, SessionInStep
  <1> QED BY <1>1, <1>2, <1>3, PTL DEF SessionSpec
=============================================================================
