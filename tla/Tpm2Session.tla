---------------------------- MODULE Tpm2Session ----------------------------
(***************************************************************************)
(* The HMAC sessions of src/src/tpm2/tpm2_lib.cc: a program starts a       *)
(* session with the TPM and then defines, increments and reads a           *)
(* non-volatile counter, each command and each answer carrying an HMAC     *)
(* over the command, the two newest nonces and a session key.              *)
(*                                                                         *)
(* The client is translated from the library.  The TPM is external: it     *)
(* checks a command's HMAC against the nonce it handed out last, executes  *)
(* the command, hands out a new nonce, and answers with an HMAC; a         *)
(* command it rejects leaves its nonce alone.  A nonce is a number no      *)
(* other party has used, and an HMAC is the record of everything that      *)
(* goes into it, so that two are equal only if all of that is.             *)
(***************************************************************************)
EXTENDS Integers

CONSTANTS
    MaxCalls,     \* protected commands a program issues
    MaxNonce      \* nonces either side draws

ASSUME SessionAssumption == MaxCalls \in Nat /\ MaxNonce \in Nat

NvCommands == {"define", "increment", "read"}

(***************************************************************************)
(* client is the ProtectedSessionAuthInfo of the program: the two newest   *)
(* nonces, the nonces the session key was derived from, and the open call  *)
(* (its command and where it is).  tpmSide is the TPM: whether the session *)
(* is open, its newest nonce, the nonces of the key, the command being     *)
(* executed and the answer it gave, and the counter.  log remembers what   *)
(* the calls of the session returned.                                      *)
(***************************************************************************)
VARIABLES client, tpmSide, log

sessionVars == <<client, tpmSide, log>>

NoNonce == 0
NoMessage == [cmd |-> "none"]
NoIndex == [exists |-> FALSE, written |-> FALSE, value |-> 0]

(***************************************************************************)
(* The public area of the counter, which is what its name hashes.  The     *)
(* library always computes the name of an index that has been written      *)
(* (the argument wasWritten of its callers).                               *)
(***************************************************************************)
CalculateNvName(wasWritten) == [index |-> "nv", written |-> wasWritten]

(***************************************************************************)
(* What an HMAC of a message covers: the session key, the direction, the   *)
(* command, the names of its handles, its parameters, and both nonces.     *)
(***************************************************************************)
CalculateSessionHmac(key, dir, cmd, names, parms, newer, older) ==
    [key |-> key, dir |-> dir, cmd |-> cmd, names |-> names,
     parms |-> parms, newer |-> newer, older |-> older]

\* The key is derived from the salt and from the nonces of the first exchange.
CalculateSessionKey(a) == <<a.new, a.old>>

RollNonces(a, nonce) == [a EXCEPT !.old = a.new, !.new = nonce]

\* The names a command is authorised for: the owner, or the index twice.
NamesOf(cmd) ==
    IF cmd = "define" THEN "owner" ELSE CalculateNvName(TRUE)

SessionInit ==
    /\ client = [old |-> NoNonce, new |-> NoNonce, key |-> <<>>,
                 pc |-> "closed", cmd |-> "none", calls |-> 0]
    /\ \E written \in BOOLEAN :
         tpmSide = [open |-> FALSE, nonce |-> NoNonce, key |-> <<>>, drawn |-> 0,
                    inbox |-> NoMessage, outbox |-> NoMessage,
                    nv |-> IF written THEN [exists |-> TRUE, written |-> TRUE, value |-> 1]
                           ELSE NoIndex]
    /\ log = [start |-> 0, acked |-> 0, failed |-> FALSE, seen |-> {}]

Draw(n) == tpmSide.drawn + n <= MaxNonce

(***************************************************************************)
(* Tpm2_StartProtectedAuthSession and CalculateSessionKey: the client      *)
(* sends a nonce, the TPM answers with its own, and both derive the key.   *)
(* When the answer is lost the program gives up: it never learns the       *)
(* handle of the session, which stays open in the TPM.                     *)
(***************************************************************************)
StartProtectedAuthSession ==
    /\ client.pc = "closed"
    /\ Draw(2)
    /\ LET mine == tpmSide.drawn + 1
           theirs == tpmSide.drawn + 2
           started == [client EXCEPT !.old = mine, !.new = theirs, !.pc = "idle"] IN
       /\ \/ client' = [started EXCEPT !.key = CalculateSessionKey(started)]
          \/ client' = [client EXCEPT !.old = mine, !.pc = "flushed"]
       /\ tpmSide' = [tpmSide EXCEPT !.open = TRUE, !.nonce = theirs,
                                     !.key = <<theirs, mine>>, !.drawn = theirs]
    /\ log' = [log EXCEPT !.start = tpmSide.nv.value]

(***************************************************************************)
(* CalculateandSetProtectedAuth: a fresh nonce is drawn and rolled in      *)
(* before the HMAC is computed, whatever becomes of the command.  The      *)
(* command then either reaches the TPM or SendCommand fails.               *)
(***************************************************************************)
CalculateandSetProtectedAuth(cmd) ==
    LET rolled == RollNonces(client, tpmSide.drawn + 1) IN
    [cmd |-> cmd, nonce |-> rolled.new,
     hmac |-> CalculateSessionHmac(rolled.key, "command", cmd, NamesOf(cmd), 0,
                                   rolled.new, rolled.old)]

IssueCommand(cmd) ==
    /\ client.pc = "idle"
    /\ client.calls < MaxCalls
    /\ Draw(1)
    /\ \/ /\ client' = [RollNonces(client, tpmSide.drawn + 1) EXCEPT
                          !.pc = "sent", !.cmd = cmd, !.calls = @ + 1]
          /\ tpmSide' = [tpmSide EXCEPT !.inbox = CalculateandSetProtectedAuth(cmd),
                                        !.drawn = @ + 1]
          /\ UNCHANGED log
       \/ /\ client' = [RollNonces(client, tpmSide.drawn + 1) EXCEPT !.calls = @ + 1]
          /\ tpmSide' = [tpmSide EXCEPT !.drawn = @ + 1]
          /\ log' = [log EXCEPT !.failed = TRUE]

DefineProtectedSpace == IssueCommand("define")
IncrementProtectedNv == IssueCommand("increment")
ReadProtectedNv == IssueCommand("read")

(***************************************************************************)
(* The TPM (external).  A command is accepted when its HMAC is the one     *)
(* the TPM computes from its own newest nonce and the real name of the     *)
(* index, and when the index is as the command needs it.                   *)
(***************************************************************************)
TpmNames(cmd) ==
    IF cmd = "define" THEN "owner" ELSE CalculateNvName(tpmSide.nv.written)

TpmAccepts(m) ==
    /\ m.hmac = CalculateSessionHmac(tpmSide.key, "command", m.cmd, TpmNames(m.cmd), 0,
                                     m.nonce, tpmSide.nonce)
    /\ CASE m.cmd = "define" -> ~tpmSide.nv.exists
         [] m.cmd = "increment" -> tpmSide.nv.exists
         [] OTHER -> tpmSide.nv.written

TpmEffect(cmd) ==
    CASE cmd = "define" -> [exists |-> TRUE, written |-> FALSE, value |-> 0]
      [] cmd = "increment" -> [tpmSide.nv EXCEPT !.written = TRUE, !.value = @ + 1]
      [] OTHER -> tpmSide.nv

TpmExecutes ==
    /\ tpmSide.inbox # NoMessage
    /\ LET m == tpmSide.inbox
           mine == tpmSide.drawn + 1
           result == IF m.cmd = "read" THEN tpmSide.nv.value ELSE 0 IN
       \/ /\ TpmAccepts(m)
          /\ Draw(1)
          /\ tpmSide' = [tpmSide EXCEPT
               !.inbox = NoMessage, !.nonce = mine, !.drawn = mine,
               !.nv = TpmEffect(m.cmd),
               !.outbox = [cmd |-> m.cmd, ok |-> TRUE, nonce |-> mine, parms |-> result,
                           hmac |-> CalculateSessionHmac(tpmSide.key, "response", m.cmd,
                                                         "none", result, mine, m.nonce)]]
       \/ /\ ~TpmAccepts(m)
          /\ tpmSide' = [tpmSide EXCEPT !.inbox = NoMessage,
                                        !.outbox = [cmd |-> m.cmd, ok |-> FALSE]]
    /\ UNCHANGED <<client, log>>

\* A call returns: the program may issue the next one.
Returned(a) == [a EXCEPT !.pc = "idle", !.cmd = "none"]

CallFails ==
    /\ client' = Returned(client)
    /\ log' = [log EXCEPT !.failed = TRUE]

(***************************************************************************)
(* GetandVerifyProtectedAuth: the nonce of the answer is rolled in, and    *)
(* the answer's HMAC has to be the one computed with it.  The first form   *)
(* is a plausible slip: the answer is verified and its nonce not kept.     *)
(***************************************************************************)
VerifyWithoutRolling(r) ==
    /\ client' = Returned(client)
    /\ log' = IF r.nonce = tpmSide.nonce
              THEN [log EXCEPT !.acked = IF client.cmd = "increment" THEN @ + 1 ELSE @]
              ELSE [log EXCEPT !.failed = TRUE]

GetandVerifyProtectedAuth(r) ==
    LET rolled == RollNonces(client, r.nonce) IN
    /\ client' = Returned(rolled)
    /\ IF r.hmac = CalculateSessionHmac(rolled.key, "response", client.cmd, "none", r.parms,
                                        rolled.new, rolled.old)
       THEN log' = [log EXCEPT
              !.acked = IF client.cmd = "increment" THEN @ + 1 ELSE @,
              !.seen = IF client.cmd = "read" THEN @ \cup {<<r.parms, log.start + log.acked>>}
                       ELSE @]
       ELSE log' = [log EXCEPT !.failed = TRUE]

(***************************************************************************)
(* The answer arrives: an error code fails the call before the answer's    *)
(* nonce is looked at; or GetResponse fails and nothing of it is seen.     *)
(***************************************************************************)
CommandReturns ==
    /\ client.pc = "sent"
    /\ tpmSide.outbox # NoMessage
    /\ tpmSide' = [tpmSide EXCEPT !.outbox = NoMessage]
    /\ \/ /\ tpmSide.outbox.ok
          /\ GetandVerifyProtectedAuth(tpmSide.outbox)
       \/ /\ ~tpmSide.outbox.ok
          /\ CallFails
       \/ CallFails

\* The program flushes the session, after which no call can be made in it.
FlushSession ==
    /\ client.pc = "idle"
    /\ client' = [client EXCEPT !.pc = "flushed"]
    /\ tpmSide' = [tpmSide EXCEPT !.open = FALSE]
    /\ UNCHANGED log

SessionRest ==
    /\ client.pc = "flushed"
    /\ UNCHANGED sessionVars

SessionNext ==
    \/ StartProtectedAuthSession
    \/ DefineProtectedSpace
    \/ IncrementProtectedNv
    \/ ReadProtectedNv
    \/ TpmExecutes
    \/ CommandReturns
    \/ FlushSession
    \/ SessionRest

SessionSpec == SessionInit /\ [][SessionNext]_sessionVars

-----------------------------------------------------------------------------

Nonces == 0..MaxNonce

\* The shape of the session state on both sides.
SessionTypeOK ==
    /\ client.old \in Nonces /\ client.new \in Nonces
    /\ client.pc \in {"closed", "idle", "sent", "flushed"}
    /\ client.cmd \in NvCommands \cup {"none"}
    /\ client.calls \in 0..MaxCalls
    /\ tpmSide.nonce \in Nonces /\ tpmSide.drawn \in Nonces
    /\ tpmSide.nv \in [exists : BOOLEAN, written : BOOLEAN, value : 0..(MaxCalls + 1)]
    /\ log.acked \in 0..MaxCalls /\ log.failed \in BOOLEAN

(***************************************************************************)
(* Between two calls the newest nonce of the client is the TPM's exactly   *)
(* if no call of the session has failed: the nonces are rolled before a    *)
(* command is sent (tpm2_lib.cc:3543) and after its answer (3637), so one  *)
(* lost or rejected command puts the session out of step for good.  And    *)
(* because of that, a counter value a read does return is the value at the *)
(* start of the session plus the increments that were acknowledged: an     *)
(* increment whose answer was lost is never silently included.             *)
(***************************************************************************)
SessionInStep ==
    /\ client.pc = "idle" => (log.failed <=> client.new # tpmSide.nonce)
    /\ \A s \in log.seen : s[1] = s[2]
=============================================================================
