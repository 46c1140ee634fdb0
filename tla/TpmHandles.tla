----------------------------- MODULE TpmHandles -----------------------------
(***************************************************************************)
(* The handles that the programs of src/src/tpm2 load into the TPM and     *)
(* flush again.  A TPM has few slots for transient objects and sessions,   *)
(* they outlive the program that filled them, and every command can fail:  *)
(* the TPM rejects it, the command is not sent, or it is executed and the  *)
(* answer is lost.                                                         *)
(*                                                                         *)
(* A program is the sequence of commands it issues, each with what the     *)
(* program does when it fails: flush some handles and return, or go on.    *)
(* What the commands compute is left out here; the TPM is external and is  *)
(* modelled by what happens to its handles.                                *)
(***************************************************************************)
EXTENDS Integers, Sequences, FiniteSets

CONSTANTS
    TransientSlots,   \* transient objects the TPM holds
    SessionSlots,     \* sessions the TPM holds
    MaxRuns,          \* program runs
    MaxLost           \* answers of the TPM that are lost

\* A TPM 2.0 holds at least three transient objects and one session.
ASSUME HandlesAssumption ==
    /\ TransientSlots \in Nat /\ TransientSlots >= 3
    /\ SessionSlots \in Nat /\ SessionSlots >= 1

(***************************************************************************)
(* A command of tpm2_lib.cc, seen by its handles: the kind of handle it    *)
(* returns and the variable that receives it, and the variables whose      *)
(* handles it is issued for.                                               *)
(***************************************************************************)
Command(returns, var, needs) ==
    [returns |-> returns, var |-> var, needs |-> needs, goOn |-> FALSE, cleanup |-> {"done"}]

Uses(needs) == Command("nothing", "", needs)

CreatePrimary(v) == Command("transient", v, {})
CreateKey(parent) == Uses({parent})
CreateSealed(parent) == Uses({parent})
Load(parent, v) == Command("transient", v, {parent})
LoadContext(v) == Command("transient", v, {})
SaveContext(v) == Uses({v})
ReadPublic(v) == Uses({v})
Certify(v) == Uses({v})
Quote(v) == Uses({v})
Unseal(v, session) == Uses({v, session})
TpmMakeCredential(v) == Uses({v})
ActivateCredential(v, ek) == Uses({v, ek})
StartAuthSession(v) == Command("session", v, {})
PolicyGetDigest(session) == Uses({session})
PolicyPassword(session) == Uses({session})
PolicyPcr(session) == Uses({session})
PcrEvent == Uses({})
ReadNv == Uses({})
WriteNv == Uses({})
IncrementNv == Uses({})
DefineSpace == Uses({})
UndefineSpace == Uses({})
EvictControl(v) == Uses({v})
SessionIncrementNv(session) == Uses({session})
SessionReadNv(session) == Uses({session})

FlushContext(v) == Command("flush", v, {})

\* A step of the program outside the TPM (files, keys, messages) that can fail.
HostStep == Uses({})

\* The command's failure is reported and the program goes on.
Ignored(c) == [c EXCEPT !.goOn = TRUE]

\* The command's failure flushes these variables and ends the program.
Otherwise(c, vs) == [c EXCEPT !.cleanup = vs]

(***************************************************************************)
(* The programs of the key protocol.  Their variables start at 0, a        *)
(* failure jumps to the label done, and the code there flushes those that  *)
(* were set.                                                               *)
(***************************************************************************)
SaveSlot(v) == <<SaveContext(v), Ignored(UndefineSpace), DefineSpace, WriteNv>>

CreateAndSaveHierarchy ==
    [steps |-> <<CreatePrimary("root"), CreateKey("root"), Load("root", "seal"),
                 CreateKey("root"), Load("root", "quote")>>
               \o SaveSlot("root") \o SaveSlot("seal") \o SaveSlot("quote"),
     done |-> {"root", "seal", "quote"}]

RestoreHierarchy ==
    [steps |-> <<ReadNv, LoadContext("root"), ReadNv, LoadContext("seal"),
                 ReadNv, LoadContext("quote")>>,
     done |-> {"root", "seal", "quote"}]

EndorsementKey ==
    [steps |-> <<CreatePrimary("ek"), Otherwise(ReadPublic("ek"), {"ek"}),
                 Ignored(FlushContext("ek")), HostStep>>,
     done |-> {}]

GenerateProgramKeyRequest ==
    [steps |-> <<CreatePrimary("ek"), ReadPublic("ek"),
                 Ignored(FlushContext("ek")), HostStep,
                 ReadNv, LoadContext("root"), ReadNv, LoadContext("seal"),
                 ReadNv, LoadContext("quote"), HostStep, ReadPublic("quote"),
                 Quote("quote"), HostStep>>,
     done |-> {"root", "seal", "quote", "ek"}]

\* A plausible slip: the quote key is left out of the clean-up.
GetProgramKeyCertKeepsQuote ==
    [steps |-> <<CreatePrimary("ek"), ReadNv, LoadContext("root"), ReadNv,
                 LoadContext("quote"), HostStep, ActivateCredential("quote", "ek"),
                 HostStep>>,
     done |-> {"root", "seal", "ek"}]

GetProgramKeyCert ==
    [steps |-> <<CreatePrimary("ek"), ReadNv, LoadContext("root"), ReadNv,
                 LoadContext("quote"), HostStep, ActivateCredential("quote", "ek"),
                 HostStep>>,
     done |-> {"root", "seal", "quote", "ek"}]

(***************************************************************************)
(* The combined tests of tpm2_util.cc.  They return at once when a command *)
(* fails, except where they flush what is listed.                          *)
(***************************************************************************)
EndorsementCombinedTest ==
    [steps |-> <<CreatePrimary("ek"), Otherwise(ReadPublic("ek"), {}),
                 Otherwise(CreatePrimary("parent"), {}), Otherwise(CreateKey("parent"), {}),
                 Otherwise(Load("parent", "active"), {"ek", "parent"}),
                 Otherwise(ReadPublic("active"), {}),
                 TpmMakeCredential("ek"), ActivateCredential("active", "ek")>>,
     done |-> {"active", "parent", "ek"}]

ContextCombinedTest ==
    [steps |-> <<CreatePrimary("handle"), Otherwise(SaveContext("handle"), {}),
                 Otherwise(FlushContext("handle"), {}),
                 Otherwise(LoadContext("handle"), {})>>,
     done |-> {"handle"}]

NvCombinedTest ==
    [steps |-> <<Ignored(UndefineSpace), DefineSpace, WriteNv, ReadNv,
                 Ignored(UndefineSpace), DefineSpace, Ignored(IncrementNv), Ignored(ReadNv),
                 Ignored(IncrementNv), Ignored(ReadNv), Ignored(UndefineSpace)>>,
     done |-> {}]

KeyCombinedTest ==
    [steps |-> <<CreatePrimary("parent"), Otherwise(CreateKey("parent"), {}),
                 Otherwise(Load("parent", "load"), {"parent"}), Certify("load"),
                 Ignored(Uses({})), Ignored(EvictControl("load")), Ignored(Uses({}))>>,
     done |-> {"load", "parent"}]

SealCombinedTest ==
    [steps |-> <<CreatePrimary("parent"), Otherwise(StartAuthSession("session"), {}),
                 Otherwise(PolicyGetDigest("session"), {"session"}),
                 Otherwise(PolicyPassword("session"), {"session"}),
                 Otherwise(PolicyPcr("session"), {"session"}),
                 Otherwise(PolicyGetDigest("session"), {}),
                 Otherwise(CreateSealed("parent"), {"session"}),
                 Otherwise(Load("parent", "load"), {"session"}),
                 Unseal("load", "session")>>,
     done |-> {"session", "load"}]

QuoteCombinedTest ==
    [steps |-> <<CreatePrimary("parent"), Ignored(PcrEvent),
                 Otherwise(CreateKey("parent"), {}), Otherwise(Load("parent", "load"), {}),
                 Quote("load")>>,
     done |-> {"load", "parent"}]

NvCombinedSessionTest ==
    [steps |-> <<Ignored(UndefineSpace), DefineSpace, IncrementNv, CreatePrimary("ek"),
                 Otherwise(ReadPublic("ek"), {}), StartAuthSession("session"),
                 SessionIncrementNv("session"), SessionReadNv("session")>>,
     done |-> {"session", "ek"}]

Protocol == {CreateAndSaveHierarchy, RestoreHierarchy, EndorsementKey,
             GenerateProgramKeyRequest, GetProgramKeyCert}
Tests == {EndorsementCombinedTest, ContextCombinedTest, NvCombinedTest, KeyCombinedTest,
          SealCombinedTest, QuoteCombinedTest, NvCombinedSessionTest}

-----------------------------------------------------------------------------

(***************************************************************************)
(* loaded: the handles in the TPM, each with what left it there: the run   *)
(* that is going on, an earlier run of the protocol or of a test, or a     *)
(* lost answer.  run: the program, its step, its handle variables, and the *)
(* variables it still flushes once it is on its way out.                   *)
(***************************************************************************)
VARIABLES loaded, run, spent

handleVars == <<loaded, run, spent>>

Variables == {"root", "seal", "quote", "ek", "parent", "active", "handle", "load", "session"}
NoHandle == <<"none", 0>>
NoVariables == [v \in Variables |-> NoHandle]
HandlesIdle == [at |-> "idle"]

HandlesInit ==
    /\ loaded = {}
    /\ run = HandlesIdle
    /\ spent = [runs |-> 0, lost |-> 0]

Room(kind) == IF kind = "session" THEN SessionSlots ELSE TransientSlots
FreeHandles(kind) ==
    {n \in 1..Room(kind) : \A l \in loaded : l.handle # <<kind, n>>}
Present(h) == \E l \in loaded : l.handle = h

\* A new handle is the lowest free one of its kind.
NewHandle(kind) ==
    <<kind, CHOOSE n \in FreeHandles(kind) : \A o \in FreeHandles(kind) : n <= o>>

StartProgram(p) ==
    /\ run = HandlesIdle
    /\ spent.runs < MaxRuns
    /\ run' = [at |-> "step", program |-> p, pc |-> 1, var |-> NoVariables, flush |-> {}]
    /\ spent' = [spent EXCEPT !.runs = @ + 1]
    /\ UNCHANGED loaded

CurrentStep == run.program.steps[run.pc]
ProgramRuns == run.at = "step" /\ run.pc <= Len(run.program.steps)

\* The TPM can execute the command: its handles are loaded and there is room.
Executable(c) ==
    /\ \A v \in c.needs : Present(run.var[v])
    /\ c.returns \in {"transient", "session"} => FreeHandles(c.returns) # {}
    /\ c.returns = "flush" => Present(run.var[c.var])

\* The handle stays loaded, for the lost flush.
Abandoned(h) ==
    {IF l.handle = h THEN [l EXCEPT !.from = "lost"] ELSE l : l \in loaded}

Without(h) == {l \in loaded : l.handle # h}

\* The handles after the command was executed, the new one marked with its origin.
Executed(c, from) ==
    CASE c.returns = "nothing" -> loaded
      [] c.returns = "flush" -> Without(run.var[c.var])
      [] OTHER -> loaded \cup {[handle |-> NewHandle(c.returns), from |-> from]}

CommandSucceeds ==
    /\ ProgramRuns
    /\ Executable(CurrentStep)
    /\ LET c == CurrentStep IN
       /\ loaded' = Executed(c, "run")
       /\ run' = [run EXCEPT
            !.pc = @ + 1,
            !.var = IF c.returns = "nothing" THEN @
                    ELSE [@ EXCEPT ![c.var] = IF c.returns = "flush" THEN NoHandle
                                              ELSE NewHandle(c.returns)]]
    /\ UNCHANGED spent

(***************************************************************************)
(* What the program does after a failed command: go on (past a flush, with *)
(* the variable reset all the same), or flush what the failure path lists  *)
(* (the label done: every variable that was set).                          *)
(***************************************************************************)
AfterFailure(c) ==
    IF c.goOn
    THEN [run EXCEPT !.pc = @ + 1,
                     !.var = IF c.returns = "flush" THEN [@ EXCEPT ![c.var] = NoHandle] ELSE @]
    ELSE [run EXCEPT !.at = "leaving",
                     !.flush = {v \in IF c.cleanup = {"done"} THEN run.program.done
                                      ELSE c.cleanup : run.var[v] # NoHandle}]

\* The TPM rejects the command, or it is not sent.  A flush of a loaded handle is not rejected.
CommandRejected ==
    /\ ProgramRuns
    /\ CurrentStep.returns = "flush" => ~Executable(CurrentStep)
    /\ run' = AfterFailure(CurrentStep)
    /\ UNCHANGED <<loaded, spent>>

\* A flush that is not sent leaves its handle in the TPM.
FlushNotSent ==
    /\ ProgramRuns
    /\ CurrentStep.returns = "flush"
    /\ spent.lost < MaxLost
    /\ loaded' = Abandoned(run.var[CurrentStep.var])
    /\ run' = AfterFailure(CurrentStep)
    /\ spent' = [spent EXCEPT !.lost = @ + 1]

\* The TPM executes the command and the program does not get the answer.
AnswerLost ==
    /\ ProgramRuns
    /\ spent.lost < MaxLost
    /\ Executable(CurrentStep)
    /\ loaded' = Executed(CurrentStep, "lost")
    /\ run' = AfterFailure(CurrentStep)
    /\ spent' = [spent EXCEPT !.lost = @ + 1]

ProgramEnds ==
    /\ run.at = "step"
    /\ run.pc > Len(run.program.steps)
    /\ run' = [run EXCEPT !.at = "leaving",
                          !.flush = {v \in run.program.done : run.var[v] # NoHandle}]
    /\ UNCHANGED <<loaded, spent>>

\* One of the final Tpm2_FlushContext calls; its result is ignored.
FlushOnExit(v) ==
    /\ run.at = "leaving"
    /\ run' = [run EXCEPT !.flush = @ \ {v}]
    /\ \/ /\ loaded' = Without(run.var[v])
          /\ UNCHANGED spent
       \/ /\ spent.lost < MaxLost
          /\ spent' = [spent EXCEPT !.lost = @ + 1]
          /\ loaded' = Abandoned(run.var[v])

\* What a run leaves behind is marked with the kind of program it was.
Leftover(l, p) ==
    IF l.from # "run" THEN l
    ELSE [l EXCEPT !.from = IF p \in Protocol THEN "protocol" ELSE "test"]

CloseTpm ==
    /\ run.at = "leaving"
    /\ run.flush = {}
    /\ run' = HandlesIdle
    /\ loaded' = {Leftover(l, run.program) : l \in loaded}
    /\ UNCHANGED spent

(***************************************************************************)
(* tpm2_util.exe --command=Flushall: the transient handles are listed and  *)
(* each is flushed.  The listing starts at the first transient handle, so  *)
(* sessions are not in it.                                                 *)
(***************************************************************************)
Flushall ==
    /\ run = HandlesIdle
    /\ loaded # {}
    /\ loaded' = {l \in loaded : l.handle[1] = "session"}
    /\ UNCHANGED <<run, spent>>

HandlesRest ==
    /\ run = HandlesIdle
    /\ UNCHANGED handleVars

HandlesNext ==
    \/ \E p \in Protocol \cup Tests : StartProgram(p)
    \/ CommandSucceeds
    \/ CommandRejected
    \/ FlushNotSent
    \/ AnswerLost
    \/ ProgramEnds
    \/ \E v \in Variables : run # HandlesIdle /\ v \in run.flush /\ FlushOnExit(v)
    \/ CloseTpm
    \/ Flushall
    \/ HandlesRest

HandlesSpec == HandlesInit /\ [][HandlesNext]_handleVars

-----------------------------------------------------------------------------

Origins == {"run", "protocol", "test", "lost"}
Handles == ({"transient"} \X (1..TransientSlots)) \cup ({"session"} \X (1..SessionSlots))

\* Handles are in their slots and occur once, and the run has its shape.
HandlesTypeOK ==
    /\ loaded \subseteq [handle : Handles, from : Origins]
    /\ \A a, b \in loaded : a.handle = b.handle => a = b
    /\ run.at \in {"idle", "step", "leaving"}
    /\ run # HandlesIdle => \A v \in Variables : run.var[v] \in Handles \cup {NoHandle}

(***************************************************************************)
(* Whichever command fails, the programs of the key protocol leave nothing *)
(* behind in the TPM: between runs every handle still loaded was left by a *)
(* combined test or by an answer that was lost.  And started on a TPM that *)
(* is empty they never run out of slots: when a command finds none free,   *)
(* some slot is held by a leftover.                                        *)
(***************************************************************************)
HandlesReturned ==
    /\ run = HandlesIdle => \A l \in loaded : l.from \in {"test", "lost"}
    /\ ProgramRuns /\ CurrentStep.returns \in {"transient", "session"}
         /\ FreeHandles(CurrentStep.returns) = {}
         => \E l \in loaded : l.from # "run"
=============================================================================
