------------------------------ MODULE TaoClient ------------------------------
(***************************************************************************)
(* A hosted C++ program obtaining its keys: TaoProgramData::InitTao of    *)
(* tao_support/taosupport.cc.  The first start generates a signing and a  *)
(* crypting key, has the host attest that the signing key speaks for the  *)
(* program, trades the attestation for a certificate at the domain        *)
(* service, seals everything and writes two files.  Later starts unseal   *)
(* the first file.  Every host call, the service and every file operation *)
(* may fail, the program may be killed between any two of them, and the   *)
(* domain's policy key may be replaced at any time.                       *)
(*                                                                         *)
(* External: the Tao host (names, attestations, sealing to a name), the   *)
(* domain service, the file system.  TaoRpc models one host call.         *)
(***************************************************************************)
EXTENDS Integers, Sequences, TaoRpc, TaoChannel

CONSTANTS PolicyCerts,   \* policy certificates the domain may use
          FirstPolicy,
          MaxKeySets,    \* bound: key pairs generated
          MaxStarts,     \* bound: starts of the program
          MaxRotations   \* bound: replacements of the policy certificate

ASSUME TaoClientAssumption ==
  FirstPolicy \in PolicyCerts /\ {MaxKeySets, MaxStarts, MaxRotations} \subseteq Nat

VARIABLE tc              \* program, disk, host and domain, one record

NoKey == 0
NoCert == [key |-> NoKey, name |-> <<"none">>, issuer |-> "none"]
NoData == [sign |-> NoKey, crypt |-> NoKey, cert |-> NoCert, chain |-> <<>>]

(* Contents of protectedProgramKeys: the sealed SavedProgramData and the
   name it is sealed to, or what an interrupted write leaves. *)
FileState(state) == [state |-> state, for |-> <<>>, data |-> NoData]
NoKeyFile == FileState("missing")
EmptyKeyFile == FileState("empty")
TornKeyFile == FileState("torn")
Sealed(name, data) == [state |-> "sealed", for |-> name, data |-> data]

(* TaoProgramData::TaoProgramData: an object with nothing in it. *)
NewProgramData(pc) ==
  [pc |-> pc, policy |-> "none", name |-> <<"none">>, sign |-> NoKey, crypt |-> NoKey,
   verify |-> NoKey, delegation |-> NoCert, certificate |-> NoCert, cert |-> NoCert,
   chain |-> <<>>, blob |-> NoKeyFile, data |-> NoData]

TaoClientInit ==
  tc = [prog |-> NewProgramData("down"),
        hostName |-> <<>>,               \* the extensions of the program's name
        policy |-> FirstPolicy,
        keyFile |-> NoKeyFile, certFile |-> NoCert,
        keySets |-> 0, starts |-> 0, rotations |-> 0]

Prog(s, p) == [s EXCEPT !.prog = p]
ClientAt(pc) == tc.prog.pc = pc
Go(s, pc) == [s EXCEPT !.prog.pc = pc]

(* InitTao returns false and the program exits. *)
InitTaoFails(s) == Prog(s, NewProgramData("down"))

(* A step that may fail. *)
OrFails(next) == tc' = next \/ tc' = InitTaoFails(tc)

(* The host starts the program under its own, unextended, name. *)
StartClient ==
  /\ ClientAt("down") /\ tc.starts < MaxStarts
  /\ tc' = [tc EXCEPT !.prog = NewProgramData("read_config"), !.hostName = <<>>,
                      !.starts = @ + 1]

(* InitTao, the part before the name: the policy and host certificates. *)
ReadConfig ==
  /\ ClientAt("read_config")
  /\ OrFails([tc EXCEPT !.prog.policy = tc.policy, !.prog.pc = "extend"])

ExtendTaoName ==
  /\ ClientAt("extend")
  /\ OrFails([tc EXCEPT !.hostName = Append(@, tc.prog.policy), !.prog.pc = "name"])

GetTaoName ==
  /\ ClientAt("name")
  /\ OrFails([tc EXCEPT !.prog.name = tc.hostName, !.prog.pc = "read_keys"])

(* GetProgramData.  ReadFile fails when the file is not there, and also when
   it cannot be opened or read; either way new keys are made.  An empty or
   a cut file reads well. *)
ReadKeyFile ==
  /\ ClientAt("read_keys")
  /\ \/ tc' = Go(tc, "init_keys")
     \/ /\ tc.keyFile # NoKeyFile
        /\ tc' = [tc EXCEPT !.prog.blob = tc.keyFile, !.prog.pc = "recover"]

(* RecoverProgramData: the host unseals only what is whole and was sealed
   under the name the program has now. *)
RecoverProgramData ==
  /\ ClientAt("recover")
  /\ LET b == tc.prog.blob
     IN \/ /\ b.state = "sealed" /\ b.for = tc.hostName
           /\ tc' = [tc EXCEPT !.prog.data = b.data, !.prog.pc = "fill"]
        \/ tc' = InitTaoFails(tc)

(* InitProgramKeys, in the order of its calls. *)
GenerateKeys ==
  /\ ClientAt("init_keys") /\ tc.keySets < MaxKeySets
  /\ LET k == tc.keySets + 1
     IN tc' = [tc EXCEPT !.keySets = k, !.prog.sign = k, !.prog.crypt = k,
                         !.prog.verify = k, !.prog.pc = "attest"]

AttestKey ==
  /\ ClientAt("attest")
  /\ OrFails([tc EXCEPT !.prog.delegation =
                [key |-> tc.prog.verify, name |-> tc.prog.name, issuer |-> "host"],
                        !.prog.pc = "request"])

(* RequestDomainServiceCert: the answer's certificate and chain are stored
   as they come.  A service that closes the connection instead of answering
   leaves the program in the loop that reads until something else than 0 is
   returned. *)
RequestDomainServiceCert ==
  /\ ClientAt("request")
  /\ LET d == tc.prog.delegation
         c == [key |-> d.key, name |-> d.name, issuer |-> tc.policy]
     IN \/ OrFails([tc EXCEPT !.prog.cert = c, !.prog.certificate = c,
                              !.prog.chain = Append(@, tc.policy), !.prog.pc = "collect"])
        \/ tc' = Go(tc, "polling")

(* The end of InitProgramKeys, and SaveProgramData. *)
CollectProgramData ==
  [sign |-> tc.prog.sign, crypt |-> tc.prog.crypt, cert |-> tc.prog.cert,
   chain |-> tc.prog.chain]

SaveProgramData ==
  /\ ClientAt("collect")
  /\ OrFails([tc EXCEPT !.prog.data = CollectProgramData,
                        !.prog.blob = Sealed(tc.hostName, CollectProgramData),
                        !.prog.pc = "creat_keys"])

(* WriteFile creates or truncates, then writes; it does not look at what
   write returns. *)
CreatKeyFile ==
  /\ ClientAt("creat_keys")
  /\ OrFails([tc EXCEPT !.keyFile = EmptyKeyFile, !.prog.pc = "write_keys"])

WriteKeyFile ==
  /\ ClientAt("write_keys")
  /\ \E f \in {tc.prog.blob, TornKeyFile} :
       tc' = [tc EXCEPT !.keyFile = f, !.prog.pc = "creat_cert"]

CreatCertFile ==
  /\ ClientAt("creat_cert")
  /\ OrFails([tc EXCEPT !.certFile = NoCert, !.prog.pc = "write_cert"])

WriteCertFile ==
  /\ ClientAt("write_cert")
  /\ \E f \in {tc.prog.cert, NoCert} :
       tc' = [tc EXCEPT !.certFile = f, !.prog.pc = "fill"]

(* The end of GetProgramData, on both paths: the object is filled from the
   saved data.  The DER string of the certificate is left alone, and the
   saved chain is added to the chain already there. *)
FillCertFromFile ==
  LET d == tc.prog.data
  IN /\ ClientAt("fill")
     /\ tc' = [tc EXCEPT !.prog.sign = d.sign, !.prog.crypt = d.crypt, !.prog.verify = d.sign,
                         !.prog.certificate = tc.certFile, !.prog.chain = @ \o d.chain,
                         !.prog.pc = "running"]

FillProgramData ==
  LET d == tc.prog.data
  IN /\ ClientAt("fill")
     /\ tc' = [tc EXCEPT !.prog.sign = d.sign, !.prog.crypt = d.crypt, !.prog.verify = d.sign,
                         !.prog.certificate = d.cert, !.prog.chain = @ \o d.chain,
                         !.prog.pc = "running"]

ProgramKilled == ~ClientAt("down") /\ tc' = InitTaoFails(tc)

RotatePolicy ==
  /\ tc.rotations < MaxRotations
  /\ \E p \in PolicyCerts \ {tc.policy} :
       tc' = [tc EXCEPT !.policy = p, !.rotations = @ + 1]

TaoClientRest == ClientAt("down") /\ tc.starts = MaxStarts /\ UNCHANGED tc

TaoClientNext ==
  \/ StartClient \/ ReadConfig \/ ExtendTaoName \/ GetTaoName
  \/ ReadKeyFile \/ RecoverProgramData
  \/ GenerateKeys \/ AttestKey \/ RequestDomainServiceCert \/ SaveProgramData
  \/ CreatKeyFile \/ WriteKeyFile \/ CreatCertFile \/ WriteCertFile
  \/ FillProgramData \/ ProgramKilled \/ RotatePolicy \/ TaoClientRest

TaoClientSpec == TaoClientInit /\ [][TaoClientNext]_tc

(* Types of the client's record. *)
TaoClientTypeOK ==
  /\ tc.policy \in PolicyCerts
  /\ tc.keyFile.state \in {"missing", "empty", "torn", "sealed"}
  /\ {tc.prog.sign, tc.prog.crypt, tc.prog.verify, tc.certFile.key} \subseteq 0..MaxKeySets
  /\ Len(tc.hostName) <= 1 /\ tc.starts \in 0..MaxStarts

(* A certificate goes with a key and a name. *)
Belongs(d, name) == d.cert.key = d.sign /\ d.crypt = d.sign /\ d.cert.name = name

(* A program that is up uses keys, and a certificate of exactly these keys,
   made out to the name it runs under, however often it was killed between
   two steps, whichever of its starts made them and whatever policy key the
   domain has had since (InitTao); what its key file would restore is in the
   same way consistent with the only name that may unseal it
   (GetProgramData seals keys and certificate as one). *)
KeysBelong ==
  /\ ClientAt("running") => /\ tc.prog.certificate.key = tc.prog.sign
                      /\ tc.prog.verify = tc.prog.sign /\ tc.prog.crypt = tc.prog.sign
                      /\ tc.prog.sign # NoKey
                      /\ tc.prog.certificate.name = tc.hostName
  /\ tc.keyFile.state = "sealed" => Belongs(tc.keyFile.data, tc.keyFile.for)

(* The client as its program sees it: the keys and the certificate belong
   together (taosupport.cc), every call of the host gets its own answer
   (tao_rpc.cc), and a channel made with those keys brings only whole
   messages, in order, from the peer that was verified (ssl_helpers.cc). *)
TaoClientSound == KeysBelong /\ RpcInStep /\ ChannelSound
=============================================================================
