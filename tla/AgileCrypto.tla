----------------------------- MODULE AgileCrypto -----------------------------
(***************************************************************************)
(* The key objects of the C++ support library (tao_support/               *)
(* agile_crypto_support.cc): keys are generated as protobuf CryptoKeys,   *)
(* turned into Signers, Verifiers and Crypters and back, used, stored and *)
(* read again.  What may go wrong is a conversion that drops something a  *)
(* later use needs, or two sides choosing different digests.              *)
(*                                                                         *)
(* Cryptography is symbolic and external: a signature is its key, digest  *)
(* and message; a cipher block can be read with the key and the counter   *)
(* it was made with; a MAC holds for the key, iv and blocks it was made   *)
(* from.                                                                  *)
(***************************************************************************)
EXTENDS Integers, Sequences, FiniteSets

CONSTANTS CipherSuites,  \* the suites of the behaviours examined
          Messages,      \* messages to sign
          Lengths,       \* lengths, in blocks, of the texts to encrypt
          CounterWord,   \* the modulus of one of the counter's two words
          MaxObjects     \* bound: key objects alive

ASSUME AgileCryptoAssumption ==
  CipherSuites \subseteq {"128", "192", "256"} /\ CounterWord \in Nat \ {0} /\ MaxObjects \in Nat

VARIABLE ag              \* key objects, signatures, boxes and the last verdict

(* SignerAlgorithmNameFromCipherSuite and CrypterAlgorithmNameFromCipherSuite. *)
SignerAlgorithmName(suite) ==
  CASE suite = "128" -> "ecdsap256" [] suite = "192" -> "ecdsap384" [] suite = "256" -> "ecdsap521"
CrypterAlgorithmName(suite) ==
  CASE suite = "128" -> "aes128-ctr-hmacsha256" [] suite = "192" -> "aes256-ctr-hmacsha384"
    [] suite = "256" -> "aes256-ctr-hmacsha512"
SignerTypes == {"ecdsap256", "ecdsap384", "ecdsap521"}
CrypterTypes == {"aes128-ctr-hmacsha256", "aes256-ctr-hmacsha384", "aes256-ctr-hmacsha512"}

(* A key object: its form, its header (type, "-public" or not, purpose),
   the key it holds and what of the key. *)
KeyObject(form, type, public, purpose, key, part) ==
  [form |-> form, type |-> type, public |-> public, purpose |-> purpose, key |-> key, part |-> part]

AgileInit ==
  ag = [suite |-> "none", objs |-> {}, sigs |-> {}, boxes |-> {}, keys |-> 0,
        last |-> [op |-> "none", ok |-> FALSE, expected |-> FALSE]]

Add(o) == /\ Cardinality(ag.objs \cup {o}) <= MaxObjects
          /\ ag' = [ag EXCEPT !.objs = @ \cup {o}]

(* GenerateCryptoKey for the two algorithms of the suite. *)
GenerateCryptoKey(suite) ==
  /\ ag.keys = 0 /\ ag.objs = {}
  /\ ag' = [ag EXCEPT !.suite = suite, !.keys = 3,
              !.objs = {KeyObject("CryptoKey", SignerAlgorithmName(suite), FALSE, "signing", k, "private")
                          : k \in {1, 2}}
                       \cup {KeyObject("CryptoKey", CrypterAlgorithmName(suite), FALSE, "crypting", 3,
                                       "symmetric")}]

(* DeserializeECCKeyComponents reads a private key, and nothing else. *)
Deserializes(o) == o.part = "private"

CryptoKeyToSigner(o) ==
  /\ o.form = "CryptoKey" /\ o.type \in SignerTypes /\ ~o.public /\ Deserializes(o)
  /\ Add([o EXCEPT !.form = "Signer"])

CryptoKeyToVerifier(o) ==
  /\ o.form = "CryptoKey" /\ o.type \in SignerTypes /\ o.public /\ Deserializes(o)
  /\ Add([o EXCEPT !.form = "Verifier"])

(* VerifierFromSigner: the header becomes a public, verifying one; the key
   stays the signer's, private part included. *)
VerifierFromSigner(o) ==
  /\ o.form = "Signer"
  /\ Add([o EXCEPT !.form = "Verifier", !.public = TRUE, !.purpose = "verifying"])

(* GenerateX509CertificateRequest and SignX509Certificate for a signer's key. *)
SignX509Certificate(o) ==
  /\ o.form = "Signer"
  /\ Add(KeyObject("Certificate", o.type, TRUE, "none", o.key, "public"))

VerifierFromCertificate(o) ==
  /\ o.form = "Certificate" /\ o.type \in SignerTypes
  /\ Add(KeyObject("Verifier", o.type, TRUE, "verifying", o.key, "public"))

(* SerializeECCKeyComponents writes a private key, or an empty component
   when there is none. *)
Serialized(o) == IF o.part = "private" THEN "private" ELSE "none"

SignerToCryptoKey(o) ==
  /\ o.form = "Signer" /\ o.type # "aes256-ctr-hmacsha512"
  /\ Add([o EXCEPT !.form = "CryptoKey", !.part = Serialized(o)])

VerifierToCryptoKey(o) ==
  /\ o.form = "Verifier" /\ o.public /\ o.type \in SignerTypes
  /\ Add([o EXCEPT !.form = "CryptoKey", !.part = Serialized(o)])

CryptoKeyToCrypter(o) ==
  /\ o.form = "CryptoKey" /\ o.type \in CrypterTypes
  /\ Add([o EXCEPT !.form = "Crypter"])

(* CrypterToCryptoKey copies the header but does not attach it. *)
CrypterToCryptoKey(o) ==
  /\ o.form = "Crypter" /\ o.type \in CrypterTypes
  /\ Add(KeyObject("CryptoKey", "none", FALSE, "none", o.key, "symmetric"))

(* Signer::Sign, Signer::Verify and Verifier::Verify choose the digest by
   the same chain of tests, in which only the first is an equality. *)
SignDigest(type) ==
  IF type = "ecdsap256" THEN "SHA256" ELSE IF type # "ecdsap384" THEN "SHA384" ELSE "SHA512"
DigestByName(type) ==
  IF type = "ecdsap256" THEN "SHA256" ELSE IF type = "ecdsap384" THEN "SHA384" ELSE "SHA512"
VerifyDigest(type) ==
  IF type = "ecdsap256" THEN "SHA256" ELSE IF type # "ecdsap384" THEN "SHA384" ELSE "SHA512"

Sign(o, m) ==
  /\ o.form = "Signer" /\ o.purpose = "signing"
  /\ ag.sigs = {}
  /\ ag' = [ag EXCEPT !.sigs = {[key |-> o.key, digest |-> SignDigest(o.type), msg |-> m]}]

Verdict(op, ok, expected) == [op |-> op, ok |-> ok, expected |-> expected]

Verify(o, m, s) ==
  /\ \/ o.form = "Signer" /\ o.purpose = "signing"
     \/ o.form = "Verifier" /\ o.purpose = "verifying"
  /\ ag' = [ag EXCEPT !.last =
              Verdict("verify", s = [key |-> o.key, digest |-> VerifyDigest(o.type), msg |-> m],
                      o.key = s.key /\ m = s.msg)]

(* bumpCtr: a counter of two words. *)
BumpOneWord(ctr) == <<(ctr[1] + 1) % CounterWord, ctr[2]>>
BumpCtr(ctr) ==
  LET x == (ctr[1] + 1) % CounterWord
  IN <<x, IF x < ctr[1] THEN (ctr[2] + 1) % CounterWord ELSE ctr[2]>>

Ivs == (0..CounterWord - 1) \X (0..CounterWord - 1)
Counter[iv \in Ivs, i \in Nat] ==
  IF i = 0 THEN iv ELSE BumpCtr(Counter[iv, i - 1])

(* AesCtrCrypt: block i under the counter iv + i; the same call decrypts. *)
CtrBlocks(key, iv, n) == [i \in 1..n |-> [key |-> key, ctr |-> Counter[iv, i - 1], text |-> i]]
Plain(key, iv, blocks) ==
  [i \in DOMAIN blocks |-> IF blocks[i].key = key /\ blocks[i].ctr = Counter[iv, i - 1]
                           THEN blocks[i].text ELSE 0]

MacOf(key, iv, blocks) == [key |-> key, iv |-> iv, blocks |-> blocks]

(* Crypter::Encrypt and Protect. *)
Protect(o, iv, n) ==
  /\ o.form = "Crypter" /\ o.purpose = "crypting" /\ ag.boxes = {}
  /\ LET b == CtrBlocks(o.key, iv, n)
     IN ag' = [ag EXCEPT !.boxes = {[iv |-> iv, blocks |-> b, mac |-> MacOf(o.key, iv, b), n |-> n,
                                     key |-> o.key, whole |-> TRUE]}]

(* What storage may do to a box. *)
Damage(b) ==
  /\ b.whole
  /\ \E d \in {[b EXCEPT !.iv = BumpCtr(@)], [b EXCEPT !.blocks = Tail(@)]} :
       ag' = [ag EXCEPT !.boxes = {[d EXCEPT !.whole = FALSE]}]

(* Crypter::Decrypt under Unprotect: the MAC over iv and ciphertext decides. *)
Unprotect(o, b) ==
  /\ o.form = "Crypter" /\ o.purpose = "crypting"
  /\ LET ok == b.mac = MacOf(o.key, b.iv, b.blocks)
     IN ag' = [ag EXCEPT !.last =
                 Verdict("decrypt", ok /\ Plain(o.key, b.iv, b.blocks) = [i \in 1..b.n |-> i],
                         b.whole /\ o.key = b.key)]

AgileNext ==
  \/ \E suite \in CipherSuites : GenerateCryptoKey(suite)
  \/ \E o \in ag.objs :
       \/ CryptoKeyToSigner(o) \/ CryptoKeyToVerifier(o) \/ VerifierFromSigner(o)
       \/ SignX509Certificate(o) \/ VerifierFromCertificate(o)
       \/ SignerToCryptoKey(o) \/ VerifierToCryptoKey(o)
       \/ CryptoKeyToCrypter(o) \/ CrypterToCryptoKey(o)
       \/ \E m \in Messages : Sign(o, m)
       \/ \E m \in Messages, s \in ag.sigs : Verify(o, m, s)
       \/ \E iv \in Ivs, n \in Lengths : Protect(o, iv, n)
       \/ \E b \in ag.boxes : Unprotect(o, b)
  \/ \E b \in ag.boxes : Damage(b)

AgileSpec == AgileInit /\ [][AgileNext]_ag

(* Types of the crypto record. *)
AgileTypeOK ==
  /\ Cardinality(ag.objs) <= MaxObjects
  /\ \A o \in ag.objs : /\ o.form \in {"CryptoKey", "Signer", "Verifier", "Crypter", "Certificate"}
                        /\ o.part \in {"private", "public", "symmetric", "none"}

(* Whatever chain of conversions, certificates and reloads a verifier went
   through, it accepts exactly the signatures its key made on the message it
   is shown; a box decrypts, and to its text, exactly when it is undamaged
   and the key is the one it was made with; and no counter value occurs
   twice in a text (Sign, Verify, Encrypt, Decrypt, bumpCtr). *)
CryptoSound ==
  /\ ag.last.ok = ag.last.expected
  /\ \A b \in ag.boxes : \A i, j \in DOMAIN b.blocks : i # j => b.blocks[i].ctr # b.blocks[j].ctr
=============================================================================
