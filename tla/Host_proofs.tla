---------------------------- MODULE Host_proofs -----------------------------
(***************************************************************************)
(* Programs and their hosts. HostedPrograms, for any set of programs, any  *)
(* assignment of executables to them and any number of name extensions: it *)
(* is type correct, every running program that was handed to its caller    *)
(* stays within reach, and Shutdown leaves no earlier program behind.      *)
(* ProgramKeys, for any machines and keys: every certificate a program     *)
(* ends up with is for a key that its machine attested.                    *)
(***************************************************************************)
EXTENDS HostedPrograms, ProgramKeys, TLAPS

-----------------------------------------------------------------------------
\* How far a start has come tells which process and goroutines there are.
StartInv ==
    \A p \in Prog :
        /\ proc[p] = "none" <=> start[p] \in {"idle", "created", "failed"}
        /\ reaper[p] = "none" <=>
              start[p] \in {"idle", "created", "failed", "spawned"}
        /\ waiter[p] = "none" <=> start[p] # "returned"

\* Done is signalled by the reaper, and only after Cmd.Wait.
ReaperInv ==
    \A p \in Prog :
        /\ p \in done <=> reaper[p] = "finished"
        /\ reaper[p] \in {"reaped", "finished"} => proc[p] = "gone"
        /\ client[p] = "returned" => p \in done

\* A child that nobody has seen end is in the list.
ListInv ==
    /\ \A p \in Prog :
        /\ waiter[p] = "waiting" => p \in hostedPrograms \/ p \in done
        /\ waiter[p] = "finished" => p \in done
    /\ \A p \in asked : start[p] = "returned"
    /\ shutdown \in {"returned", "exited"} => asked \subseteq done

\* Only ExtendTaoName changes a name, and it keeps the program's hash.
NameInv ==
    \A p \in Prog :
        /\ subprin[p] = <<HashOf[p], subprin[p][2]>>
        /\ subprin[p][2] \in 0 .. MaxExtensions
        /\ p \in extending => subprin[p][2] < MaxExtensions

IInv ==
    TypeOK /\ StartInv /\ ReaperInv /\ ListInv /\ NameInv /\ WaitFailsForCause

----------------------------------------------------------------------------
\* The inductive invariant holds initially: nothing has been started.
LEMMA InitIInv == Init => IInv
  <1> SUFFICES ASSUME Init PROVE IInv
    OBVIOUS
  <1>1. \A p \in Prog : subprin[p] = <<HashOf[p], 0>>
    BY DEF Init
  <1>2. subprin \in [Prog -> Name]
    BY HashAssumption, ExtensionsAssumption DEF Init, Name
  <1>3. NameInv
    BY <1>1, ExtensionsAssumption DEF Init, NameInv
  <1>4. TypeOK
    BY <1>2, Zenon DEF Init, TypeOK
  <1>5. StartInv /\ ReaperInv /\ ListInv /\ WaitFailsForCause
    BY DEF Init, StartInv, ReaperInv, ListInv, WaitFailsForCause
  <1> QED BY <1>3, <1>4, <1>5 DEF IInv

\* The steps of StartHostedProgram preserve the inductive invariant.
LEMMA StarterIInv ==
  ASSUME IInv, NEW p \in Prog, Starter(p)
  PROVE  IInv'
  <1> USE DEF IInv, TypeOK, StartInv, ReaperInv, ListInv, NameInv,
              WaitFailsForCause, osVars, sigVars, nameVars, listVars, downVars
  <1>1. CASE NewHostedProgram(p)
    BY <1>1 DEF NewHostedProgram
  <1>2. CASE CmdStart(p)
    <2>1. CASE /\ start' = [start EXCEPT ![p] = "spawned"]
               /\ proc' = [proc EXCEPT ![p] = "running"]
      BY <1>2, <2>1 DEF CmdStart
    <2>2. CASE /\ start' = [start EXCEPT ![p] = "failed"]
               /\ UNCHANGED proc
      BY <1>2, <2>2 DEF CmdStart
    <2> QED BY <1>2, <2>1, <2>2 DEF CmdStart
  <1>3. CASE Notify(p)
    BY <1>3 DEF Notify
  <1>4. CASE AddHostedProgram(p)
    BY <1>4 DEF AddHostedProgram
  <1> QED BY <1>1, <1>2, <1>3, <1>4 DEF Starter

\* The dispatch of a SIGCHLD preserves it.
LEMMA DispatchIInv ==
  ASSUME IInv, DispatchSignal
  PROVE  IInv'
  BY Zenon DEF IInv, TypeOK, StartInv, ReaperInv, ListInv, NameInv,
         WaitFailsForCause, osVars, sigVars, nameVars, listVars, downVars,
         DispatchSignal

\* The end of a process and the steps of its reaper preserve it.
LEMMA ReaperIInv ==
  ASSUME IInv, NEW p \in Prog, Exit(p) \/ Reaper(p)
  PROVE  IInv'
  <1> USE DEF IInv, TypeOK, StartInv, ReaperInv, ListInv, NameInv,
              WaitFailsForCause, osVars, sigVars, nameVars, listVars, downVars
  <1>1. CASE Exit(p)
    BY <1>1 DEF Exit
  <1>2. CASE ReceiveSignal(p)
    BY <1>2 DEF ReceiveSignal
  <1>3. CASE CmdWait(p)
    BY <1>3 DEF CmdWait
  <1>4. CASE SignalDone(p)
    BY <1>4 DEF SignalDone
  <1> QED BY <1>1, <1>2, <1>3, <1>4 DEF Reaper

\* The waiter, the child's own requests and WaitHostedProgram preserve it.
LEMMA OperationIInv ==
  ASSUME IInv, NEW p \in Prog,
         \/ RemoveExited(p) \/ ExtendRequest(p) \/ ExtendTaoName(p)
         \/ WaitHostedProgram(p) \/ WaitReturn(p)
  PROVE  IInv'
  <1> USE DEF IInv, TypeOK, StartInv, ReaperInv, ListInv, NameInv,
              WaitFailsForCause, osVars, sigVars, nameVars, listVars, downVars
  <1>1. CASE RemoveExited(p)
    BY <1>1 DEF RemoveExited
  <1>2. CASE ExtendRequest(p)
    BY <1>2 DEF ExtendRequest
  <1>3. CASE ExtendTaoName(p)
    BY <1>3, ExtensionsAssumption DEF ExtendTaoName, Name
  <1>4. CASE WaitHostedProgram(p)
    <2>1. PICK P \in Matches(<<HashOf[p], 0>>) :
            client' = [client EXCEPT ![p] =
                         IF p \in P THEN "blocked" ELSE "nosuch"]
      BY <1>4, Zenon DEF WaitHostedProgram
    <2>2. ASSUME p \notin P
          PROVE  p \in done \/ p \in extending \/ subprin[p][2] > 0
      BY <1>4, <2>1, <2>2 DEF WaitHostedProgram, Matches
    <2> QED BY <1>4, <2>1, <2>2 DEF WaitHostedProgram
  <1>5. CASE WaitReturn(p)
    BY <1>5 DEF WaitReturn
  <1> QED BY <1>1, <1>2, <1>3, <1>4, <1>5

\* StopHostedProgram and KillHostedProgram preserve it.
LEMMA AdminIInv ==
  ASSUME IInv, NEW n \in Name, StopHostedProgram(n) \/ KillHostedProgram(n)
  PROVE  IInv'
  <1> USE DEF IInv, TypeOK, StartInv, ReaperInv, ListInv, NameInv,
              WaitFailsForCause, osVars, sigVars, nameVars, listVars, downVars
  <1>1. CASE StopHostedProgram(n)
    BY <1>1 DEF StopHostedProgram, Matches, Signal
  <1>2. CASE KillHostedProgram(n)
    BY <1>2 DEF KillHostedProgram, Matches, Signal
  <1> QED BY <1>1, <1>2

\* The steps of Shutdown, its timer and the end of linux_host preserve it.
LEMMA ShutdownIInv ==
  ASSUME IInv, Shutdown \/ Timeout
  PROVE  IInv'
  <1> USE DEF IInv, TypeOK, StartInv, ReaperInv, ListInv, NameInv,
              WaitFailsForCause, osVars, sigVars, nameVars, listVars, downVars
  <1>1. CASE ShutdownStop
    BY <1>1 DEF ShutdownStop, Signal
  <1>2. ASSUME NEW p \in Prog, ShutdownWaitOrKill(p)
        PROVE  IInv'
    BY <1>2 DEF ShutdownWaitOrKill, Signal
  <1>3. CASE ShutdownWaited
    BY <1>3 DEF ShutdownWaited
  <1>4. CASE ShutdownReturn
    BY <1>4 DEF ShutdownReturn
  <1>5. CASE HostExit
    BY <1>5 DEF HostExit
  <1>6. CASE Timeout
    BY <1>6 DEF Timeout
  <1> QED BY <1>1, <1>2, <1>3, <1>4, <1>5, <1>6 DEF Shutdown

\* Every step preserves the inductive invariant.
LEMMA NextIInv == IInv /\ [Next]_vars => IInv'
  <1> SUFFICES ASSUME IInv, [Next]_vars PROVE IInv'
    OBVIOUS
  <1>1. CASE UNCHANGED vars
    BY <1>1 DEF vars, osVars, sigVars, nameVars, listVars, downVars, IInv,
                TypeOK, StartInv, ReaperInv, ListInv, NameInv,
                WaitFailsForCause
  <1>2. CASE \E p \in Prog : Starter(p)
    BY <1>2, StarterIInv
  <1>3. CASE \E p \in Prog : Exit(p) \/ Reaper(p)
    BY <1>3, ReaperIInv
  <1>4. CASE DispatchSignal
    BY <1>4, DispatchIInv
  <1>5. CASE \E p \in Prog :
               \/ RemoveExited(p) \/ ExtendRequest(p) \/ ExtendTaoName(p)
               \/ WaitHostedProgram(p) \/ WaitReturn(p)
    BY <1>5, OperationIInv
  <1>6. CASE \E n \in Name : StopHostedProgram(n) \/ KillHostedProgram(n)
    BY <1>6, AdminIInv
  <1>7. CASE Shutdown \/ Timeout
    BY <1>7, ShutdownIInv
  <1> QED BY <1>1, <1>2, <1>3, <1>4, <1>5, <1>6, <1>7 DEF Next

\* The inductive invariant implies the properties of the runs.
LEMMA IInvImplies ==
  IInv => /\ TypeOK /\ Reachable /\ ShutdownComplete
          /\ WaitMeansReaped /\ WaitFailsForCause
  BY DEF IInv, TypeOK, StartInv, ReaperInv, ListInv, Reachable,
         ShutdownComplete, WaitMeansReaped

----------------------------------------------------------------------------
\* The inductive invariant is an invariant of the specification.
THEOREM Invariance == Spec => []IInv
  BY InitIInv, NextIInv, PTL DEF Spec

\* Type correctness, for every set of programs.
THEOREM TypeCorrect == Spec => []TypeOK
  BY Invariance, IInvImplies, PTL

\* A running program whose start returned is always in hostedPrograms.
THEOREM AlwaysReachable == Spec => []Reachable
  BY Invariance, IInvImplies, PTL

\* When Shutdown has returned, every earlier program is dead and reaped.
THEOREM ShutdownIsComplete == Spec => []ShutdownComplete
  BY Invariance, IInvImplies, PTL

\* WaitHostedProgram returns only for reaped programs.
THEOREM WaitIsSound == Spec => []WaitMeansReaped
  BY Invariance, IInvImplies, PTL

\* WaitHostedProgram finds a program that was started, unless it is reaped
\* or has asked for another name.
THEOREM WaitFindsPrograms == Spec => []WaitFailsForCause
  BY Invariance, IInvImplies, PTL

-----------------------------------------------------------------------------
\* The certification of program keys (ProgramKeys), for any machines, and any
\* number of policy keys, hierarchies, program keys and TPM resets.

Names == Machines \X Nat
EndorsementCerts == [subject : Machines, signer : Nat]
ProgramCerts == [subject : Nat, signer : Nat]
Slots == [gen : Nat, boot : Nat]
CertFiles == {NoFile} \cup [cert : ProgramCerts, under : Names]
Hosts ==
    [info : BOOLEAN, gens : Nat, boot : Nat, primary : Slots, seal : Slots, quote : Slots,
     keyFile : Nat, certFile : CertFiles, quoted : SUBSET (Nat \X Names)]
Requests ==
    [cert : EndorsementCerts, key : Nat, name : Names, quoteKey : Names,
     quote : [by : Names, over : Nat]]
Credentials == Nat \X Names \X Nat
Responses ==
    [cert : EndorsementCerts, name : Names, credential : Credentials,
     encrypted : [under : Credentials, data : ProgramCerts]]
Posts ==
    [endorsed : SUBSET EndorsementCerts, requests : SUBSET Requests,
     responses : SUBSET Responses, keys : Nat]

KeyTypes ==
    /\ authority \in [instructions : BOOLEAN, key : Nat, cert : ProgramCerts]
    /\ host \in [Machines -> Hosts]
    /\ post \in Posts

\* A request was made with the quote key it names, on the machine of that key.
RequestInv ==
    \A r \in post.requests : /\ r.cert \in post.endorsed
                             /\ <<r.key, r.name>> \in host[r.name[1]].quoted

\* A response answers a request.
ResponseInv ==
    \A s \in post.responses :
        \E r \in post.requests : /\ r.cert = s.cert /\ r.name = s.name
                                 /\ r.key = s.encrypted.data.subject

KeyInv == KeyTypes /\ RequestInv /\ ResponseInv /\ CertAttested

\* A step that makes no request, no response and no certificate file keeps
\* the invariant, when it keeps what they rest on.
LEMMA KeysKept ==
  ASSUME KeyInv, KeyTypes', post'.requests = post.requests, post'.responses = post.responses,
         post.endorsed \subseteq post'.endorsed,
         \A m \in Machines : /\ host[m].quoted \subseteq host'[m].quoted
                             /\ host'[m].certFile = host[m].certFile
  PROVE  KeyInv'
  <1>1. \A r \in post.requests : r.name[1] \in Machines
    BY DEF KeyInv, KeyTypes, Posts, Requests, Names
  <1>2. RequestInv'
    BY <1>1, Zenon DEF KeyInv, RequestInv
  <1>3. ResponseInv'
    BY DEF KeyInv, ResponseInv
  <1>4. CertAttested'
    BY DEF KeyInv, CertAttested
  <1> QED BY <1>2, <1>3, <1>4 DEF KeyInv

\* The fields of the records the programs hold.
LEMMA KeysFields ==
  ASSUME KeyTypes
  PROVE  /\ authority.key \in Nat /\ post.keys \in Nat
         /\ post.endorsed \in SUBSET EndorsementCerts /\ post.requests \in SUBSET Requests
         /\ post.responses \in SUBSET Responses
         /\ \A m \in Machines : /\ host[m] \in Hosts /\ host[m].gens \in Nat /\ host[m].boot \in Nat
                                /\ host[m].quote.gen \in Nat /\ QuoteName(m) \in Names
                                /\ QuoteName(m)[1] = m
  <1>1. \A m \in Machines : host[m] \in Hosts
    BY DEF KeyTypes
  <1>2. \A m \in Machines : host[m].gens \in Nat /\ host[m].boot \in Nat /\ host[m].quote.gen \in Nat
    BY <1>1 DEF Hosts, Slots
  <1>3. \A m \in Machines : QuoteName(m) \in Names /\ QuoteName(m)[1] = m
    BY <1>2 DEF QuoteName, Names
  <1>4. /\ authority.key \in Nat /\ post.keys \in Nat
        /\ post.endorsed \in SUBSET EndorsementCerts /\ post.requests \in SUBSET Requests
        /\ post.responses \in SUBSET Responses
    BY DEF KeyTypes, Posts
  <1> QED BY <1>1, <1>2, <1>3, <1>4

\* A change of one machine that leaves its certificate and its quotes alone.
LEMMA MachineStep ==
  ASSUME KeyInv, NEW m \in Machines, NEW h \in Hosts, host' = [host EXCEPT ![m] = h],
         UNCHANGED <<authority, post>>,
         h.certFile = host[m].certFile, h.quoted = host[m].quoted
  PROVE  KeyInv'
  <1>1. KeyTypes /\ KeyTypes'
    BY DEF KeyInv, KeyTypes
  <1>2. \A n \in Machines : host'[n] = IF n = m THEN h ELSE host[n]
    BY <1>1 DEF KeyTypes
  <1>3. \A n \in Machines : /\ host[n].quoted \subseteq host'[n].quoted
                            /\ host'[n].certFile = host[n].certFile
    BY <1>2
  <1> QED BY <1>1, <1>3, KeysKept

\* What the authority does by itself.
LEMMA AuthorityInv ==
  ASSUME KeyInv, SigningInstructions \/ GeneratePolicyKey \/ SelfSignPolicyCert
  PROVE  KeyInv'
  <1>1. KeyTypes /\ UNCHANGED <<host, post>>
    BY DEF KeyInv, SigningInstructions, GeneratePolicyKey, SelfSignPolicyCert
  <1>2. authority' \in [instructions : BOOLEAN, key : Nat, cert : ProgramCerts]
    <2> DEFINE k == authority.key
               n == k + 1
               c == [subject |-> k, signer |-> k]
    <2>1. k \in Nat /\ authority \in [instructions : BOOLEAN, key : Nat, cert : ProgramCerts]
      BY <1>1, KeysFields DEF KeyTypes
    <2>2. n \in Nat
      BY <2>1
    <2>3. c \in ProgramCerts
      BY <2>1 DEF ProgramCerts
    <2>4. CASE SigningInstructions
      BY <2>1, <2>4, Zenon DEF SigningInstructions
    <2>5. CASE GeneratePolicyKey
      <3>1. authority' = [authority EXCEPT !.key = n]
        BY <2>5 DEF GeneratePolicyKey
      <3> HIDE DEF n
      <3> QED BY <2>1, <2>2, <3>1
    <2>6. CASE SelfSignPolicyCert
      <3>1. authority' = [authority EXCEPT !.cert = c]
        BY <2>6 DEF SelfSignPolicyCert, SignTpmX509, CertificateRequest
      <3> HIDE DEF c
      <3> QED BY <2>1, <2>3, <3>1
    <2> QED BY <2>4, <2>5, <2>6
  <1>3. KeyTypes'
    BY <1>1, <1>2 DEF KeyTypes
  <1> QED BY <1>1, <1>3, KeysKept

\* What a machine does without making a request.
LEMMA MachineInv ==
  ASSUME KeyInv, NEW m \in Machines,
         GetEndorsementKey(m) \/ CreateAndSaveKeyHierarchy(m) \/ TpmReset(m)
  PROVE  KeyInv'
  <1> DEFINE h == host[m]
  <1>1. KeyTypes /\ h \in Hosts /\ h.gens \in Nat /\ h.boot \in Nat
    BY KeysFields DEF KeyInv
  <1>2. CASE GetEndorsementKey(m)
    <2> DEFINE x == [h EXCEPT !.info = TRUE]
    <2>1. host' = [host EXCEPT ![m] = x] /\ UNCHANGED <<authority, post>>
      BY <1>2 DEF GetEndorsementKey
    <2>2. x \in Hosts /\ x.certFile = h.certFile /\ x.quoted = h.quoted
      BY <1>1, Zenon DEF Hosts
    <2> HIDE DEF x
    <2> QED BY <2>1, <2>2, MachineStep, Zenon
  <1>3. CASE TpmReset(m)
    <2> DEFINE n == h.boot + 1
               x == [h EXCEPT !.boot = n]
    <2>1. host' = [host EXCEPT ![m] = x] /\ UNCHANGED <<authority, post>>
      BY <1>3 DEF TpmReset
    <2>2. n \in Nat
      BY <1>1
    <2> HIDE DEF n
    <2>3. x \in Hosts /\ x.certFile = h.certFile /\ x.quoted = h.quoted
      BY <1>1, <2>2 DEF Hosts
    <2> HIDE DEF x
    <2> QED BY <2>1, <2>3, MachineStep, Zenon
  <1>4. CASE CreateAndSaveKeyHierarchy(m)
    <2>1. PICK written \in 0..3, emptied \in BOOLEAN : host' = [host EXCEPT ![m] = Saved(h, written, emptied)]
      BY <1>4, Zenon DEF CreateAndSaveKeyHierarchy
    <2> DEFINE n == h.gens + 1
               new == [gen |-> n, boot |-> h.boot]
               After(i) == IF i <= written THEN new
                           ELSE IF i = written + 1 /\ emptied THEN EmptySlot
                           ELSE h[SlotOrder[i]]
               a == After(1)
               b == After(2)
               c == After(3)
               x == [h EXCEPT !.gens = n, !.primary = a, !.seal = b, !.quote = c]
    <2>2. x = Saved(h, written, emptied)
      BY DEF Saved
    <2>3. n \in Nat
      BY <1>1
    <2>4. new \in Slots /\ EmptySlot \in Slots
      BY <1>1, <2>3 DEF Slots, EmptySlot
    <2>5. h.primary \in Slots /\ h.seal \in Slots /\ h.quote \in Slots
      BY <1>1 DEF Hosts
    <2>6. SlotOrder[1] = "primary" /\ SlotOrder[2] = "seal" /\ SlotOrder[3] = "quote"
      BY DEF SlotOrder
    <2>7. h[SlotOrder[1]] = h.primary /\ h[SlotOrder[2]] = h.seal /\ h[SlotOrder[3]] = h.quote
      BY <2>6
    <2> HIDE DEF new, n
    <2>8. a \in Slots /\ b \in Slots /\ c \in Slots
      BY <2>4, <2>5, <2>7
    <2> HIDE DEF a, b, c
    <2>9. x \in Hosts /\ x.certFile = h.certFile /\ x.quoted = h.quoted
      BY <1>1, <2>3, <2>8, Zenon DEF Hosts
    <2>10. host' = [host EXCEPT ![m] = x] /\ UNCHANGED <<authority, post>>
      BY <1>4, <2>1, <2>2, Zenon DEF CreateAndSaveKeyHierarchy
    <2> HIDE DEF x
    <2> QED BY <2>9, <2>10, MachineStep, Zenon
  <1> QED BY <1>2, <1>3, <1>4

\* One more endorsement certificate.
LEMMA EndorseInv ==
  ASSUME KeyInv, NEW m \in Machines, CloudProxySignEndorsementKey(m)
  PROVE  KeyInv'
  <1> DEFINE c == EndorsementCert(m)
             e == post.endorsed \cup {c}
  <1>1. KeyTypes /\ post \in Posts /\ post.endorsed \in SUBSET EndorsementCerts
    BY KeysFields DEF KeyInv, KeyTypes
  <1>2. c \in EndorsementCerts
    BY <1>1, KeysFields DEF EndorsementCert, SignTpmX509, CertificateRequest, EndorsementCerts
  <1>3. post' = [post EXCEPT !.endorsed = e] /\ UNCHANGED <<authority, host>>
    BY DEF CloudProxySignEndorsementKey
  <1>4. e \in SUBSET EndorsementCerts /\ post.endorsed \subseteq e
    BY <1>1, <1>2
  <1> HIDE DEF c, e
  <1>5. /\ post' \in Posts /\ post'.endorsed = e /\ post'.requests = post.requests
        /\ post'.responses = post.responses
    BY <1>1, <1>3, <1>4 DEF Posts
  <1>6. KeyTypes'
    BY <1>1, <1>3, <1>5 DEF KeyTypes
  <1> QED BY <1>3, <1>4, <1>5, <1>6, KeysKept

\* A program key and, if the run comes to its end, a request with its quote.
LEMMA RequestMadeInv ==
  ASSUME KeyInv, NEW m \in Machines, NEW cert \in post.endorsed,
         ClientGenerateProgramKeyRequest(m, cert)
  PROVE  KeyInv'
  <1> DEFINE h == host[m]
             k == post.keys + 1
             q == QuoteName(m)
             r == Request(m, cert, k)
  <1>1. /\ KeyTypes /\ h \in Hosts /\ post \in Posts /\ cert \in EndorsementCerts
        /\ post.keys \in Nat /\ q \in Names /\ q[1] = m
        /\ post.requests \in SUBSET Requests /\ host \in [Machines -> Hosts]
        /\ UNCHANGED authority
    BY KeysFields DEF KeyInv, KeyTypes, ClientGenerateProgramKeyRequest
  <1>2. k \in Nat
    BY <1>1
  <1>3. CASE host' = [host EXCEPT ![m].keyFile = k] /\ post' = [post EXCEPT !.keys = k]
    <2> DEFINE x == [h EXCEPT !.keyFile = k]
    <2>1. host' = [host EXCEPT ![m] = x] /\ post' = [post EXCEPT !.keys = k]
      BY <1>3
    <2> HIDE DEF k
    <2>2. x \in Hosts /\ x.certFile = h.certFile /\ x.quoted = h.quoted
      BY <1>1, <1>2 DEF Hosts
    <2> HIDE DEF x
    <2>3. /\ post' \in Posts /\ post'.requests = post.requests
          /\ post'.responses = post.responses /\ post'.endorsed = post.endorsed
      BY <1>1, <1>2, <2>1 DEF Posts
    <2>4. host' \in [Machines -> Hosts]
      BY <1>1, <2>1, <2>2
    <2>5. \A n \in Machines : /\ host[n].quoted \subseteq host'[n].quoted
                              /\ host'[n].certFile = host[n].certFile
      BY <1>1, <2>1, <2>2
    <2>6. KeyTypes'
      BY <1>1, <2>3, <2>4 DEF KeyTypes
    <2> QED BY <2>3, <2>5, <2>6, KeysKept
  <1>4. CASE /\ host' = [host EXCEPT ![m].keyFile = k, ![m].quoted = @ \cup {<<k, q>>}]
             /\ post' = [post EXCEPT !.keys = k, !.requests = @ \cup {r}]
    <2> DEFINE t == h.quoted \cup {<<k, q>>}
               w == post.requests \cup {r}
               x == [h EXCEPT !.keyFile = k, !.quoted = t]
    <2>1. host' = [host EXCEPT ![m] = x] /\ post' = [post EXCEPT !.keys = k, !.requests = w]
      BY <1>4, Zenon
    <2>2. r = [cert |-> cert, key |-> k, name |-> q, quoteKey |-> q, quote |-> [by |-> q, over |-> k]]
      BY DEF Request
    <2> HIDE DEF k, q, r
    <2>3. r \in Requests /\ r.cert = cert /\ r.key = k /\ r.name = q
      BY <1>1, <1>2, <2>2 DEF Requests
    <2>4. h.quoted \in SUBSET (Nat \X Names)
      BY <1>1 DEF Hosts
    <2>5. t \in SUBSET (Nat \X Names) /\ h.quoted \subseteq t /\ <<k, q>> \in t
      BY <1>1, <1>2, <2>4
    <2>6. w \in SUBSET Requests
      BY <1>1, <2>3
    <2>7. \A s \in w : s \in post.requests \/ s = r
      OBVIOUS
    <2>8. post.requests \subseteq w
      OBVIOUS
    <2> HIDE DEF t, w
    <2>9. x \in Hosts /\ x.certFile = h.certFile /\ x.quoted = t
      BY <1>1, <1>2, <2>5, Zenon DEF Hosts
    <2> HIDE DEF x
    <2>10. /\ post' \in Posts /\ post'.requests = w
           /\ post'.responses = post.responses /\ post'.endorsed = post.endorsed
      BY <1>1, <1>2, <2>1, <2>6, Zenon DEF Posts
    <2>11. host' \in [Machines -> Hosts] /\ host'[m].quoted = t
      BY <1>1, <2>1, <2>9
    <2>12. \A n \in Machines : /\ host[n].quoted \subseteq host'[n].quoted
                               /\ host'[n].certFile = host[n].certFile
      BY <1>1, <2>1, <2>5, <2>9
    <2>13. KeyTypes'
      BY <1>1, <2>10, <2>11 DEF KeyTypes
    <2>14. ASSUME NEW s \in post'.requests
           PROVE  s.cert \in post'.endorsed /\ <<s.key, s.name>> \in host'[s.name[1]].quoted
      <3>1. CASE s \in post.requests
        <4>1. s.name[1] \in Machines
          BY <1>1, <3>1 DEF Requests, Names
        <4> QED BY <2>10, <2>12, <3>1, <4>1 DEF KeyInv, RequestInv
      <3>2. CASE s = r
        BY <1>1, <2>3, <2>5, <2>10, <2>11, <3>2
      <3> QED BY <2>7, <2>10, <3>1, <3>2
    <2>15. RequestInv'
      BY <2>14, Zenon DEF RequestInv
    <2>16. ResponseInv'
      BY <2>8, <2>10 DEF KeyInv, ResponseInv
    <2>17. CertAttested'
      BY <2>8, <2>10, <2>12 DEF KeyInv, CertAttested
    <2> QED BY <2>13, <2>15, <2>16, <2>17 DEF KeyInv
  <1> QED BY <1>3, <1>4 DEF ClientGenerateProgramKeyRequest

\* The server answers a request with a certificate of the key in it.
LEMMA ServerInv ==
  ASSUME KeyInv, NEW r \in post.requests, ServerSignProgramKeyRequest(r)
  PROVE  KeyInv'
  <1> DEFINE s == Response(r)
             w == post.responses \cup {s}
             a == authority.key
             cr == <<r.key, r.name, a>>
             pc == [subject |-> r.key, signer |-> a]
  <1>1. /\ KeyTypes /\ post \in Posts /\ r \in Requests /\ a \in Nat
        /\ post.responses \in SUBSET Responses
    BY KeysFields DEF KeyInv, KeyTypes
  <1>2. r.cert \in EndorsementCerts /\ r.key \in Nat /\ r.name \in Names
    BY <1>1 DEF Requests
  <1>3. s = [cert |-> r.cert, name |-> r.name, credential |-> cr,
             encrypted |-> [under |-> cr, data |-> pc]]
    BY DEF Response, EncryptedCert, ProgramCert, SignTpmX509, CertificateRequest
  <1>4. cr \in Credentials /\ pc \in ProgramCerts /\ pc.subject = r.key
    BY <1>1, <1>2 DEF Credentials, ProgramCerts
  <1>5. post' = [post EXCEPT !.responses = w] /\ UNCHANGED <<authority, host>>
    BY DEF ServerSignProgramKeyRequest
  <1> HIDE DEF s, cr, pc, a
  <1>6. s \in Responses /\ s.cert = r.cert /\ s.name = r.name /\ s.encrypted.data.subject = r.key
    BY <1>2, <1>3, <1>4 DEF Responses
  <1>7. w \in SUBSET Responses /\ (\A t \in w : t \in post.responses \/ t = s)
    BY <1>1, <1>6
  <1> HIDE DEF w
  <1>8. /\ post' \in Posts /\ post'.requests = post.requests
        /\ post'.responses = w /\ post'.endorsed = post.endorsed
    BY <1>1, <1>5, <1>7 DEF Posts
  <1>9. KeyTypes'
    BY <1>1, <1>5, <1>8 DEF KeyTypes
  <1>10. RequestInv' /\ CertAttested'
    BY <1>5, <1>8 DEF KeyInv, RequestInv, CertAttested
  <1>11. ResponseInv'
    BY <1>6, <1>7, <1>8 DEF KeyInv, ResponseInv
  <1> QED BY <1>9, <1>10, <1>11 DEF KeyInv

\* A credential opens for the machine and quote key of the request, so the
\* certificate is of a key that quote key has quoted.
LEMMA CertificateInv ==
  ASSUME KeyInv, NEW m \in Machines, NEW s \in post.responses, ClientGetProgramKeyCert(m, s)
  PROVE  KeyInv'
  <1> DEFINE h == host[m]
             q == QuoteName(m)
             c == DecryptedCert(s.credential, s.encrypted)
             f == [cert |-> c, under |-> q]
             x == [h EXCEPT !.certFile = f]
  <1>1. /\ KeyTypes /\ h \in Hosts /\ s \in Responses /\ q \in Names /\ q[1] = m
        /\ host \in [Machines -> Hosts] /\ post.requests \in SUBSET Requests
    BY KeysFields DEF KeyInv, KeyTypes
  <1>2. /\ c # NoProgramCert /\ s.cert.subject = m /\ s.name = q
        /\ host' = [host EXCEPT ![m] = x] /\ UNCHANGED <<authority, post>>
    BY <1>1 DEF ClientGetProgramKeyCert, CredentialOpens
  <1>3. c = s.encrypted.data
    BY <1>2 DEF DecryptedCert
  <1>4. c \in ProgramCerts
    BY <1>1, <1>3 DEF Responses
  <1>5. PICK r \in post.requests : r.cert = s.cert /\ r.name = s.name /\ r.key = c.subject
    BY <1>3 DEF KeyInv, ResponseInv
  <1>6. <<c.subject, q>> \in h.quoted /\ r.cert \in post.endorsed /\ r.cert.subject = m
    BY <1>1, <1>2, <1>5 DEF KeyInv, RequestInv
  <1> HIDE DEF c, q
  <1>7. f \in CertFiles /\ f.cert = c /\ f.under = q
    BY <1>1, <1>4 DEF CertFiles
  <1> HIDE DEF f
  <1>8. x \in Hosts /\ x.certFile = f /\ x.quoted = h.quoted
    BY <1>1, <1>7 DEF Hosts
  <1> HIDE DEF x
  <1>9. /\ host' \in [Machines -> Hosts] /\ host'[m].certFile = f
        /\ \A n \in Machines : host'[n].quoted = host[n].quoted
        /\ \A n \in Machines : n # m => host'[n].certFile = host[n].certFile
    BY <1>1, <1>2, <1>8
  <1>10. KeyTypes'
    BY <1>1, <1>2, <1>9 DEF KeyTypes
  <1>11. RequestInv'
    <2>1. \A t \in post.requests : t.name[1] \in Machines
      BY <1>1 DEF Requests, Names
    <2> QED BY <1>2, <1>9, <2>1, Zenon DEF KeyInv, RequestInv
  <1>12. ResponseInv'
    BY <1>2 DEF KeyInv, ResponseInv
  <1>13. ASSUME NEW n \in Machines, host'[n].certFile # NoFile
         PROVE  LET d == host'[n].certFile IN
                /\ <<d.cert.subject, d.under>> \in host'[n].quoted
                /\ \E t \in post'.requests : /\ t.key = d.cert.subject
                                             /\ t.cert.subject = n
                                             /\ t.cert \in post'.endorsed
    <2>1. CASE n = m
      BY <1>2, <1>5, <1>6, <1>7, <1>9, <2>1
    <2>2. CASE n # m
      BY <1>2, <1>9, <1>13, <2>2 DEF KeyInv, CertAttested
    <2> QED BY <2>1, <2>2
  <1>14. CertAttested'
    BY <1>13 DEF CertAttested
  <1> QED BY <1>10, <1>11, <1>12, <1>14 DEF KeyInv

\* Nothing is certified at first,
LEMMA KeysInitInv ==
  ASSUME KeysInit
  PROVE  KeyInv
  <1>1. EmptySlot \in Slots /\ NoProgramCert \in ProgramCerts /\ NoFile \in CertFiles
    BY DEF EmptySlot, Slots, NoProgramCert, ProgramCerts, CertFiles
  <1>2. authority \in [instructions : BOOLEAN, key : Nat, cert : ProgramCerts]
    BY <1>1 DEF KeysInit
  <1>3. ASSUME NEW m \in Machines PROVE host[m] \in Hosts /\ host[m].certFile = NoFile
    BY <1>1 DEF KeysInit, Hosts
  <1>4. host \in [Machines -> Hosts]
    <2>1. host = [m \in Machines |-> host[m]]
      BY DEF KeysInit
    <2> QED BY <1>3, <2>1
  <1>5. post \in Posts /\ post.requests = {} /\ post.responses = {}
    BY DEF KeysInit, Posts
  <1>6. KeyTypes
    BY <1>2, <1>4, <1>5 DEF KeyTypes
  <1> QED BY <1>3, <1>5, <1>6 DEF KeyInv, RequestInv, ResponseInv, CertAttested

\* and every step of a program keeps what was certified attested.
LEMMA KeysNextInv ==
  ASSUME KeyInv, [KeysNext]_keyVars
  PROVE  KeyInv'
  <1>1. CASE UNCHANGED keyVars
    BY <1>1 DEF keyVars, KeyInv, KeyTypes, RequestInv, ResponseInv, CertAttested
  <1>2. CASE SigningInstructions \/ GeneratePolicyKey \/ SelfSignPolicyCert
    BY <1>2, AuthorityInv
  <1>3. ASSUME NEW m \in Machines,
               \/ GetEndorsementKey(m) \/ CreateAndSaveKeyHierarchy(m) \/ TpmReset(m)
               \/ CloudProxySignEndorsementKey(m)
        PROVE  KeyInv'
    BY <1>3, MachineInv, EndorseInv
  <1>4. ASSUME NEW m \in Machines, NEW cert \in post.endorsed, ClientGenerateProgramKeyRequest(m, cert)
        PROVE  KeyInv'
    BY <1>4, RequestMadeInv
  <1>5. ASSUME NEW m \in Machines, NEW s \in post.responses, ClientGetProgramKeyCert(m, s)
        PROVE  KeyInv'
    BY <1>5, CertificateInv
  <1>6. ASSUME NEW r \in post.requests, ServerSignProgramKeyRequest(r)
        PROVE  KeyInv'
    BY <1>6, ServerInv
  <1> QED BY <1>1, <1>2, <1>3, <1>4, <1>5, <1>6 DEF KeysNext, KeysRest

(***************************************************************************)
(* For any machines, policy keys, hierarchies, program keys and resets:    *)
(* the certificate that ClientGetProgramKeyCert writes is of a program key *)
(* that this machine's TPM quoted with the very key that opened it, asked  *)
(* for with an endorsement certificate of this machine, whatever old       *)
(* requests and responses the programs were given.                         *)
(***************************************************************************)
THEOREM CertificatesAreAttested == KeysSpec => []CertAttested
  <1>1. KeysInit => KeyInv
    BY KeysInitInv
  <1>2. KeyInv /\ [KeysNext]_keyVars => KeyInv'
    BY KeysNextInv
  <1>3. KeyInv => CertAttested
    BY DEF KeyInv
  <1> QED BY <1>1, <1>2, <1>3, PTL DEF KeysSpec
=============================================================================
