---------------------------- MODULE ProgramKeys ----------------------------
(***************************************************************************)
(* The certification of program keys by the programs of src/src/tpm2: a    *)
(* policy authority signs the endorsement keys of machines; a machine      *)
(* makes a key hierarchy in its TPM and keeps the contexts of its keys in  *)
(* non-volatile slots; it generates a program key, quotes it, and asks for *)
(* a certificate; the server checks the request and answers with a         *)
(* certificate only that machine's TPM can open.                           *)
(*                                                                         *)
(* The programs exchange files, which operators carry: any program may be  *)
(* given any endorsement certificate, request or response that was ever    *)
(* produced, old ones included.  Program runs on one machine exclude each  *)
(* other (the TPM device is opened by one at a time), so a run is one      *)
(* action, with an outcome for each place it can stop that leaves          *)
(* something behind.  Keys are numbers; encryption, signatures and hashes  *)
(* are the records of what they bind.                                      *)
(***************************************************************************)
EXTENDS Integers, FiniteSets

CONSTANTS
    Machines,          \* machines with a TPM
    MaxPolicyKeys,     \* runs of GeneratePolicyKey
    MaxHierarchies,    \* runs of CreateAndSaveCloudProxyKeyHierarchy per machine
    MaxProgramKeys,    \* program keys generated on all machines
    MaxResets          \* TPM resets per machine

(***************************************************************************)
(* authority: the signing instructions, the policy key and the policy      *)
(* certificate files.  host: per machine, the files of its programs, the   *)
(* slots, the boot count of its TPM and the keys its TPM has quoted.       *)
(* post: the endorsement certificates, requests and responses produced.    *)
(***************************************************************************)
VARIABLES authority, host, post

keyVars == <<authority, host, post>>

NoFile == [under |-> "none"]
EmptySlot == [gen |-> 0, boot |-> 0]
NoProgramCert == [subject |-> 0, signer |-> 0]

KeysInit ==
    /\ authority = [instructions |-> FALSE, key |-> 0, cert |-> NoProgramCert]
    /\ host = [m \in Machines |->
                [info |-> FALSE, gens |-> 0, boot |-> 1,
                 primary |-> EmptySlot, seal |-> EmptySlot, quote |-> EmptySlot,
                 keyFile |-> 0, certFile |-> NoFile, quoted |-> {}]]
    /\ post = [endorsed |-> {}, requests |-> {}, responses |-> {}, keys |-> 0]

\* SigningInstructions.exe: the instructions always say that signing is allowed.
SigningInstructions ==
    /\ ~authority.instructions
    /\ authority' = [authority EXCEPT !.instructions = TRUE]
    /\ UNCHANGED <<host, post>>

\* GeneratePolicyKey.exe overwrites the key file with a new key.
GeneratePolicyKey ==
    /\ authority.instructions
    /\ authority.key < MaxPolicyKeys
    /\ authority' = [authority EXCEPT !.key = @ + 1]
    /\ UNCHANGED <<host, post>>

\* GenerateX509CertificateRequest: a request for a key, which nothing signs.
CertificateRequest(key) == [pubkey |-> key]

\* SignX509Certificate: the certificate of the request's key by the signing key;
\* whether the request verifies is only printed, and no extension is added.
SignTpmX509(key, request) == [subject |-> request.pubkey, signer |-> key]

\* SelfSignPolicyCert.exe: a certificate of the key in the file, by that key.
SelfSignPolicyCert ==
    /\ authority.instructions
    /\ authority.key > 0
    /\ authority.cert.subject # authority.key
    /\ authority' = [authority EXCEPT
          !.cert = SignTpmX509(authority.key, CertificateRequest(authority.key))]
    /\ UNCHANGED <<host, post>>

\* GetEndorsementKey.exe: writes the machine's endorsement key to a file.
GetEndorsementKey(m) ==
    /\ ~host[m].info
    /\ host' = [host EXCEPT ![m].info = TRUE]
    /\ UNCHANGED <<authority, post>>

\* The certificate of the machine's endorsement key, signed by the policy key.
EndorsementCert(m) == SignTpmX509(authority.key, CertificateRequest(m))

\* CloudProxySignEndorsementKey.exe: the policy key signs the endorsement key.
CloudProxySignEndorsementKey(m) ==
    /\ authority.instructions
    /\ authority.key > 0
    /\ host[m].info
    /\ post' = [post EXCEPT !.endorsed = @ \cup {EndorsementCert(m)}]
    /\ post' # post
    /\ UNCHANGED <<authority, host>>

(***************************************************************************)
(* CreateAndSaveCloudProxyKeyHierarchy.exe: new seal and quote keys, whose *)
(* contexts go to three slots one after the other.  A slot is undefined,   *)
(* defined again and written; the run stops at the first failure, with     *)
(* the slots before it written and that one as it was or empty.            *)
(***************************************************************************)
SlotOrder == <<"primary", "seal", "quote">>

Saved(h, written, emptied) ==
    LET new == [gen |-> h.gens + 1, boot |-> h.boot]
        After(i) == IF i <= written THEN new
                    ELSE IF i = written + 1 /\ emptied THEN EmptySlot
                    ELSE h[SlotOrder[i]] IN
    [h EXCEPT !.gens = @ + 1,
              !.primary = After(1), !.seal = After(2), !.quote = After(3)]

CreateAndSaveKeyHierarchy(m) ==
    /\ host[m].gens < MaxHierarchies
    /\ \E written \in 0..3, emptied \in BOOLEAN :
         host' = [host EXCEPT ![m] = Saved(host[m], written, emptied)]
    /\ UNCHANGED <<authority, post>>

\* The TPM is reset (external): contexts saved before can no longer be loaded.
TpmReset(m) ==
    /\ host[m].boot <= MaxResets
    /\ host' = [host EXCEPT ![m].boot = @ + 1]
    /\ UNCHANGED <<authority, post>>

\* Tpm2_ReadNv and Tpm2_LoadContext succeed on the slot.
Loads(m, slot) == slot # EmptySlot /\ slot.boot = host[m].boot

\* The TPM name of the quote key whose context is in the slot.
QuoteName(m) == <<m, host[m].quote.gen>>

\* The root, seal and quote keys are read from their slots and loaded.
HierarchyLoaded(m) == Loads(m, host[m].primary) /\ Loads(m, host[m].seal) /\ Loads(m, host[m].quote)

\* The request: the endorsement certificate the operator gave, the program key,
\* the name and public part of the quote key, and its quote of the key's hash.
Request(m, cert, k) ==
    [cert |-> cert, key |-> k, name |-> QuoteName(m), quoteKey |-> QuoteName(m),
     quote |-> [by |-> QuoteName(m), over |-> k]]

(***************************************************************************)
(* ClientGenerateProgramKeyRequest.exe: the hierarchy is loaded, a program *)
(* key is generated and written to the key file, and a request is made     *)
(* that holds the endorsement certificate the operator gave, the key, the  *)
(* quote key's name and public part, and a quote of the key's hash.  After *)
(* the key file is written the quote or the output can still fail.         *)
(***************************************************************************)
ClientGenerateProgramKeyRequest(m, cert) ==
    /\ HierarchyLoaded(m)
    /\ post.keys < MaxProgramKeys
    /\ LET k == post.keys + 1 IN
       \/ /\ host' = [host EXCEPT ![m].keyFile = k]
          /\ post' = [post EXCEPT !.keys = k]
       \/ /\ host' = [host EXCEPT ![m].keyFile = k,
                                  ![m].quoted = @ \cup {<<k, QuoteName(m)>>}]
          /\ post' = [post EXCEPT !.keys = k, !.requests = @ \cup {Request(m, cert, k)}]
    /\ UNCHANGED authority

(***************************************************************************)
(* MakeCredential: the credential is encrypted to the endorsement key and  *)
(* bound to the name of the quote key.  The first form is a plausible      *)
(* slip: the name is left out of the derived key and of the HMAC.          *)
(***************************************************************************)
CredentialOpensUnnamed(cert, name, activator) == cert.subject = activator[1]

CredentialOpens(cert, name, activator) == cert.subject = activator[1] /\ name = activator

\* The signing instructions allow it and the key file holds a key.
CanSign == authority.instructions /\ authority.key > 0

\* The endorsement certificate verifies under the policy certificate's key.
EndorsementVerified(r) == authority.cert # NoProgramCert /\ r.cert.signer = authority.cert.subject

\* The quote is of the program key's hash, and signed by the quote key whose
\* public part the request holds.
QuoteVerified(r) == r.quote = [by |-> r.quoteKey, over |-> r.key]

\* The certificate of the program key, signed by the key in the key file.
ProgramCert(r) == SignTpmX509(authority.key, CertificateRequest(r.key))

\* EncryptDataWithCredential: data that the keys derived from the credential
\* encrypt and authenticate.
EncryptedCert(credential, cert) == [under |-> credential, data |-> cert]

\* A new credential for the requester's endorsement and quote keys (a run of the
\* server for this request by this policy key), and the certificate encrypted
\* with it.
Response(r) ==
    LET credential == <<r.key, r.name, authority.key>> IN
    [cert |-> r.cert, name |-> r.name, credential |-> credential,
     encrypted |-> EncryptedCert(credential, ProgramCert(r))]

(***************************************************************************)
(* ServerSignProgramKeyRequest.exe: the endorsement certificate has to     *)
(* verify under the policy certificate, the quote has to be of the program *)
(* key's hash and signed by the quote key of the request.                  *)
(***************************************************************************)
ServerSignProgramKeyRequest(r) ==
    /\ CanSign
    /\ EndorsementVerified(r)
    /\ QuoteVerified(r)
    /\ post' = [post EXCEPT !.responses = @ \cup {Response(r)}]
    /\ post' # post
    /\ UNCHANGED <<authority, host>>

\* The root and quote keys are read from their slots and loaded.
RootAndQuoteLoaded(m) == Loads(m, host[m].primary) /\ Loads(m, host[m].quote)

\* The HMAC has to verify with the keys derived from the credential that the TPM
\* recovered, and the certificate is decrypted.
DecryptedCert(credential, box) == IF box.under = credential THEN box.data ELSE NoProgramCert

(***************************************************************************)
(* ClientGetProgramKeyCert.exe: the root and quote keys are loaded, the    *)
(* TPM activates the credential if it was made for this endorsement key    *)
(* and this quote key, and the decrypted certificate is written.           *)
(***************************************************************************)
ClientGetProgramKeyCert(m, s) ==
    /\ RootAndQuoteLoaded(m)
    /\ CredentialOpens(s.cert, s.name, QuoteName(m))
    /\ LET cert == DecryptedCert(s.credential, s.encrypted) IN
       /\ cert # NoProgramCert
       /\ host' = [host EXCEPT ![m].certFile = [cert |-> cert, under |-> QuoteName(m)]]
    /\ host' # host
    /\ UNCHANGED <<authority, post>>

KeysRest == UNCHANGED keyVars

KeysNext ==
    \/ SigningInstructions
    \/ GeneratePolicyKey
    \/ SelfSignPolicyCert
    \/ \E m \in Machines :
         \/ GetEndorsementKey(m)
         \/ CloudProxySignEndorsementKey(m)
         \/ CreateAndSaveKeyHierarchy(m)
         \/ TpmReset(m)
         \/ \E cert \in post.endorsed : ClientGenerateProgramKeyRequest(m, cert)
         \/ \E s \in post.responses : ClientGetProgramKeyCert(m, s)
    \/ \E r \in post.requests : ServerSignProgramKeyRequest(r)
    \/ KeysRest

KeysSpec == KeysInit /\ [][KeysNext]_keyVars

-----------------------------------------------------------------------------

Slot == [gen : 0..MaxHierarchies, boot : 0..(MaxResets + 1)]

\* The shape of the files and slots.
KeysTypeOK ==
    /\ authority \in [instructions : BOOLEAN, key : 0..MaxPolicyKeys, cert : [subject : 0..MaxPolicyKeys, signer : 0..MaxPolicyKeys]]
    /\ \A m \in Machines :
         /\ host[m].gens \in 0..MaxHierarchies
         /\ \A i \in 1..3 : host[m][SlotOrder[i]] \in Slot
         /\ host[m].keyFile \in 0..MaxProgramKeys
    /\ post.endorsed \subseteq [subject : Machines, signer : 1..MaxPolicyKeys]

(***************************************************************************)
(* A certificate that ClientGetProgramKeyCert writes on a machine is for a *)
(* program key which that machine's TPM quoted, with the very quote key    *)
(* that opened the certificate, and whose request carried an endorsement   *)
(* certificate of this machine signed by a policy key: whatever stale or   *)
(* mixed-up files the programs were given, and however many hierarchies    *)
(* were made and TPM resets happened in between.                           *)
(***************************************************************************)
CertAttested ==
    \A m \in Machines : host[m].certFile # NoFile =>
        LET c == host[m].certFile IN
        /\ <<c.cert.subject, c.under>> \in host[m].quoted
        /\ \E r \in post.requests : /\ r.key = c.cert.subject
                                    /\ r.cert.subject = m
                                    /\ r.cert \in post.endorsed
=============================================================================
