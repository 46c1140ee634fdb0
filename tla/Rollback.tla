------------------------------ MODULE Rollback ------------------------------
(***************************************************************************)
(* Rollback-protected sealing on a LinuxHost that runs on a TPM 2.0: the   *)
(* table of counters in memory, the two files that keep it, the monotonic  *)
(* counter of the TPM that protects the key file, and the host's crashes   *)
(* and restarts.                                                           *)
(*                                                                         *)
(* Sources: go/tao/linux_host.go (InitCounter, GetCounter,                 *)
(* RollbackProtectedSeal, RollbackProtectedUnseal), go/tao/rollback.go,    *)
(* go/tao/tpm2_tao.go and go/tpm2/tpm2.go (InitCounter, GetCounter).       *)
(*                                                                         *)
(* Each caller is a goroutine that serves one RPC of a hosted program.     *)
(* With one caller the calls are serial; with two they interleave.         *)
(***************************************************************************)
EXTENDS Integers, FiniteSets

CONSTANTS
    Caller,       \* goroutines serving the RPCs of hosted programs
    Entry,        \* (program name, label) pairs
    InitValue,    \* counter values passed to InitCounter
    MaxSeals,     \* bound: sealed blobs handed out
    MaxRestarts,  \* bound: restarts of the host
    NoTable,      \* rbTable == nil
    NoEntry,      \* a label the table has no entry for
    NoFile,       \* a file that was never written
    Garbage       \* a file that an unfinished write left truncated

ASSUME InitValueAssumption == InitValue \subseteq Nat
ASSUME NoEntryAssumption == NoEntry \notin Int
ASSUME NoTableAssumption == NoTable \notin [Entry -> Int \cup {NoEntry}]
ASSUME FileAssumption ==
    /\ NoFile \notin [key : Nat, ctr : Nat] \cup
                     [key : Nat, table : [Entry -> Int \cup {NoEntry}]]
    /\ Garbage \notin [key : Nat, ctr : Nat] \cup
                      [key : Nat, table : [Entry -> Int \cup {NoEntry}]]
    /\ NoFile # Garbage

VARIABLES
    up,         \* the host process runs
    restarts,   \* restarts so far
    rbTable,    \* the table in memory
    nv,         \* the TPM's counter, which survives everything
    nvHandle,   \* this process has initialised the TPM's counter
    keyFile,    \* SealedRollbackTableKeys.bin
    tableFile,  \* EncryptedRollbackTable.bin
    lastKey,    \* table keys generated so far
    call,       \* what each caller is doing, with its local variables
    blobs,      \* sealed data handed out to hosted programs
    saved,      \* history: the table as it was last saved completely
    saving,     \* history: a save was begun after the last complete one
    starts,     \* history: counter initialisations after the last save
    events,     \* history: what went wrong so far
    verdict     \* history: outcomes of Unseal that matter

hostVars == <<up, restarts>>
tpmVars  == <<nv, nvHandle>>
fileVars == <<keyFile, tableFile, lastKey>>
histVars == <<saved, saving, starts, events, verdict>>
vars     == <<hostVars, rbTable, tpmVars, fileVars, call, blobs, histVars>>

Table == [Entry -> Nat \cup {NoEntry}]
\* since, seq: how many blobs had been handed out when the call that sealed
\* this one began, and when it returned.
Blob  == [entry : Entry, ctr : Nat, since : Nat, seq : Nat]
Call  == [pc : {"idle", "lookup", "update", "tpm", "tpm again",
                "tpm seal", "write key", "write table", "return"},
          op : {"init", "get", "seal", "unseal"},
          entry : Entry \cup {NoEntry},
          since : Nat,    \* blobs handed out when the call began
          ctr : Nat,      \* c: the argument, or the entry's next value
          key : Nat,      \* newKeys
          cmp : Nat]      \* the counter sealed with the keys

EmptyTable == [e \in Entry |-> NoEntry]
Events     == {"lost", "unsaved", "interrupted", "bumped"}

TypeOK ==
    /\ up \in BOOLEAN
    /\ restarts \in Nat
    /\ rbTable \in Table \cup {NoTable}
    /\ nv \in Nat
    /\ nvHandle \in BOOLEAN
    /\ keyFile \in [key : Nat, ctr : Nat] \cup {NoFile, Garbage}
    /\ tableFile \in [key : Nat, table : Table] \cup {NoFile, Garbage}
    /\ lastKey \in Nat
    /\ call \in [Caller -> Call]
    /\ blobs \subseteq Blob
    /\ saved \in Table \cup {NoTable}
    /\ saving \in BOOLEAN
    /\ starts \in Nat
    /\ events \subseteq Events
    /\ verdict \subseteq {"stale accepted", "latest refused"}

Idle == [pc |-> "idle", op |-> "init", entry |-> NoEntry, since |-> 0,
         ctr |-> 0, key |-> 0, cmp |-> 0]

Init ==
    /\ up = TRUE
    /\ restarts = 0
    /\ rbTable = NoTable
    /\ nv = 0
    /\ nvHandle = FALSE
    /\ keyFile = NoFile
    /\ tableFile = NoFile
    /\ lastKey = 0
    /\ call = [t \in Caller |-> Idle]
    /\ blobs = {}
    /\ saved = NoTable
    /\ saving = FALSE
    /\ starts = 0
    /\ events = {}
    /\ verdict = {}

----------------------------------------------------------------------------
\* The TPM

\* cmp_ctr := (c + 1) / 2
Cmp(c) == (c + 1) \div 2

\* TPM2Tao.InitCounter: the first use in a process increments the counter.
NvReady == IF nvHandle THEN nv ELSE nv + 1
TpmInitCounter(n) ==
    /\ nv' = n
    /\ nvHandle' = TRUE
    /\ starts' = IF nvHandle THEN starts ELSE starts + 1

----------------------------------------------------------------------------
\* Loading the table

\* ReadRollbackTable, with the key that keyFile holds.
ReadRollbackTable(key) ==
    CASE tableFile = NoFile -> EmptyTable
      [] tableFile = Garbage -> NoTable
      [] OTHER -> IF tableFile.key = key THEN tableFile.table ELSE NoTable

\* Host.RollbackProtectedUnseal accepts the key file.
KeysUnseal == keyFile \notin {NoFile, Garbage} /\ keyFile.ctr = Cmp(NvReady)

\* What InitCounter leaves in rbTable; "" is the label GetCounter passes,
\* and with it a table that cannot be decrypted stays nil.
LoadedTable(op) ==
    LET t == IF KeysUnseal THEN ReadRollbackTable(keyFile.key) ELSE NoTable
    IN  IF t = NoTable /\ (op = "init" \/ ~KeysUnseal) THEN EmptyTable ELSE t

\* The part of InitCounter that reads the files, when rbTable == nil.  The
\* TPM is used only when there is a key file.
LoadIfNil(op) ==
    /\ rbTable' = IF rbTable = NoTable THEN LoadedTable(op) ELSE rbTable
    /\ IF rbTable = NoTable /\ keyFile # NoFile
       THEN TpmInitCounter(NvReady)
       ELSE UNCHANGED <<tpmVars, starts>>
    /\ events' = IF rbTable = NoTable /\ saved # NoTable /\ rbTable' # saved
                 THEN events \cup {"lost"} ELSE events

\* A call of a hosted program begins; the table is loaded if need be.
Invoke(t, op, e, c) ==
    /\ up
    /\ call[t].pc = "idle"
    /\ LoadIfNil(op)
    /\ call' = [call EXCEPT ![t] = [Idle EXCEPT !.pc = "lookup", !.op = op,
                                               !.entry = e, !.ctr = c,
                                               !.since = Cardinality(blobs)]]
    /\ UNCHANGED <<hostVars, fileVars, blobs, saved, saving, verdict>>

InitCounter(t, e, c) == Invoke(t, "init", e, c)

GetCounter(t, e) == Invoke(t, "get", e, 0)

RollbackProtectedSeal(t, e) ==
    Cardinality(blobs) < MaxSeals /\ Invoke(t, "seal", e, 0)

RollbackProtectedUnseal(t, b) == Invoke(t, "unseal", b.entry, b.ctr)

----------------------------------------------------------------------------
\* Using the table

\* What a file may hold when the host ends: ioutil.WriteFile truncates before
\* it writes, so a caller inside it leaves the file as it was or cut short.
Torn(file, pc) ==
    {file} \cup {Garbage : t \in {u \in Caller : call[u].pc = pc}}

\* The host process ends: only the files and the TPM are left.
Down ==
    /\ up' = FALSE
    /\ rbTable' = NoTable
    /\ nvHandle' = FALSE
    /\ call' = [t \in Caller |-> Idle]
    /\ events' = IF \E t \in Caller : call[t].op = "seal" /\ call[t].pc # "idle"
                 THEN events \cup {"interrupted"} ELSE events
    /\ keyFile' \in Torn(keyFile, "write key")
    /\ tableFile' \in Torn(tableFile, "write table")
    /\ UNCHANGED <<restarts, nv, lastKey, blobs, saved, saving, starts, verdict>>

\* LookupRollbackEntry in a nil table: the RPC's goroutine panics and takes
\* the host down with it.
Panic(t) ==
    /\ up
    /\ call[t].pc = "lookup"
    /\ rbTable = NoTable
    /\ Down

\* Mutant: InitCounter sets the entry whatever its value.
LookupForReset(t) ==
    /\ call[t].op = "init"
    /\ call' = [call EXCEPT ![t].pc = "update"]
    /\ UNCHANGED <<events, verdict>>

\* InitCounter raises the entry to its argument unless it is higher already.
LookupForInit(t) ==
    LET e == call[t].entry
        c == call[t].ctr
        raise == rbTable[e] = NoEntry \/ rbTable[e] <= c
    IN  /\ call[t].op = "init"
        /\ call' = [call EXCEPT ![t] =
                      IF raise THEN [@ EXCEPT !.pc = "update"] ELSE Idle]
        /\ events' = IF rbTable[e] # NoEntry /\ rbTable[e] < c
                     THEN events \cup {"bumped"} ELSE events
        /\ UNCHANGED verdict

\* GetCounter returns the counter, or fails without one.
LookupForGet(t) ==
    /\ call[t].op = "get"
    /\ call' = [call EXCEPT ![t] = Idle]
    /\ UNCHANGED <<events, verdict>>

\* RollbackProtectedSeal fails without a counter, else it takes the next.
LookupForSeal(t) ==
    LET e == call[t].entry
    IN  /\ call[t].op = "seal"
        /\ call' = [call EXCEPT ![t] =
                      IF rbTable[e] = NoEntry THEN Idle
                      ELSE [@ EXCEPT !.pc = "update", !.ctr = rbTable[e] + 1]]
        /\ UNCHANGED <<events, verdict>>

\* Mutant: any counter up to the current one is accepted.
AcceptedUpTo(e, c) == rbTable[e] # NoEntry /\ rbTable[e] >= c

\* RollbackProtectedUnseal accepts a blob whose counter is the current one.
Accepted(e, c) == rbTable[e] = c

\* b2 was sealed by a call that began after b had been handed out.
Newer(b2, b) == b2.entry = b.entry /\ b2.since >= b.seq

LookupForUnseal(t) ==
    LET e == call[t].entry
        c == call[t].ctr
        these == {b \in blobs : b.entry = e /\ b.ctr = c}
        older == \E b \in these : \E b2 \in blobs : Newer(b2, b)
        newest == \E b \in these : \A b2 \in blobs : ~Newer(b2, b)
    IN  /\ call[t].op = "unseal"
        /\ call' = [call EXCEPT ![t] = Idle]
        /\ verdict' = verdict
              \cup (IF Accepted(e, c) /\ older THEN {"stale accepted"} ELSE {})
              \cup (IF ~Accepted(e, c) /\ newest THEN {"latest refused"} ELSE {})
        /\ UNCHANGED events

Lookup(t) ==
    /\ up
    /\ call[t].pc = "lookup"
    /\ rbTable # NoTable
    /\ \/ LookupForInit(t) \/ LookupForGet(t)
       \/ LookupForSeal(t) \/ LookupForUnseal(t)
    /\ UNCHANGED <<hostVars, rbTable, tpmVars, fileVars, blobs, saved, saving,
                   starts>>

\* Mutant: the entry is set to the counter before the one that is sealed.
UpdateToPrevious(t) ==
    /\ up
    /\ call[t].pc = "update"
    /\ rbTable' = [rbTable EXCEPT ![call[t].entry] = call[t].ctr - 1]
    /\ call' = [call EXCEPT ![t] =
                  IF @.op = "seal" THEN [@ EXCEPT !.pc = "tpm"] ELSE Idle]
    /\ UNCHANGED <<hostVars, tpmVars, fileVars, blobs, histVars>>

UpdateRollbackEntry(t) ==
    /\ up
    /\ call[t].pc = "update"
    /\ rbTable' = [rbTable EXCEPT ![call[t].entry] = call[t].ctr]
    /\ call' = [call EXCEPT ![t] =
                  IF @.op = "seal" THEN [@ EXCEPT !.pc = "tpm"] ELSE Idle]
    /\ UNCHANGED <<hostVars, tpmVars, fileVars, blobs, histVars>>

----------------------------------------------------------------------------
\* Saving the table: SaveHostRollbackTableWithNewKeys

\* A failed save is not reported: the sealed data is returned anyway.
SaveFails(t) ==
    /\ call' = [call EXCEPT ![t].pc = "return"]
    /\ events' = events \cup {"unsaved"}

\* Mutant: the counter is incremented once, even or odd.
TpmIncrementOnce(t) ==
    /\ up
    /\ call[t].pc = "tpm"
    /\ TpmInitCounter(NvReady + 1)
    /\ call' = [call EXCEPT ![t].pc = "tpm seal"]
    /\ saving' = TRUE
    /\ UNCHANGED <<hostVars, rbTable, fileVars, blobs, saved, events, verdict>>

\* RollbackProtectedSeal of the TPM increments its counter once or, when it
\* is odd, twice, so that it ends up odd.
TpmIncrement(t) ==
    /\ up
    /\ call[t].pc = "tpm"
    /\ \/ /\ TpmInitCounter(NvReady + 1)
          /\ call' = [call EXCEPT ![t].pc =
                        IF NvReady % 2 # 0 THEN "tpm again" ELSE "tpm seal"]
          /\ saving' = TRUE
          /\ UNCHANGED events
       \/ /\ TpmInitCounter(NvReady)
          /\ SaveFails(t)
          /\ UNCHANGED saving
    /\ UNCHANGED <<hostVars, rbTable, fileVars, blobs, saved, verdict>>

TpmIncrementAgain(t) ==
    /\ up
    /\ call[t].pc = "tpm again"
    /\ \/ /\ nv' = nv + 1
          /\ call' = [call EXCEPT ![t].pc = "tpm seal"]
          /\ UNCHANGED events
       \/ SaveFails(t) /\ UNCHANGED nv
    /\ UNCHANGED <<hostVars, rbTable, nvHandle, fileVars, blobs, saved, saving,
                   starts, verdict>>

\* The fresh keys are sealed with the counter that is read back.
TpmSeal(t) ==
    /\ up
    /\ call[t].pc = "tpm seal"
    /\ lastKey' = lastKey + 1
    /\ \/ /\ call' = [call EXCEPT ![t] = [@ EXCEPT !.pc = "write key",
                                            !.key = lastKey + 1,
                                            !.cmp = Cmp(nv)]]
          /\ UNCHANGED events
       \/ SaveFails(t)
    /\ UNCHANGED <<hostVars, rbTable, tpmVars, keyFile, tableFile, blobs, saved,
                   saving, starts, verdict>>

\* ioutil.WriteFile truncates the file before it writes.
WriteKey(t) ==
    /\ up
    /\ call[t].pc = "write key"
    /\ \/ /\ keyFile' = [key |-> call[t].key, ctr |-> call[t].cmp]
          /\ call' = [call EXCEPT ![t].pc = "write table"]
          /\ UNCHANGED events
       \/ keyFile' \in {keyFile, Garbage} /\ SaveFails(t)
    /\ UNCHANGED <<hostVars, rbTable, tpmVars, tableFile, lastKey, blobs, saved,
                   saving, starts, verdict>>

WriteTable(t) ==
    /\ up
    /\ call[t].pc = "write table"
    /\ \/ /\ tableFile' = [key |-> call[t].key, table |-> rbTable]
          /\ call' = [call EXCEPT ![t].pc = "return"]
          /\ saved' = rbTable
          /\ saving' = FALSE
          /\ starts' = 0
          /\ UNCHANGED events
       \/ /\ tableFile' \in {tableFile, Garbage}
          /\ SaveFails(t)
          /\ UNCHANGED <<saved, saving, starts>>
    /\ UNCHANGED <<hostVars, rbTable, tpmVars, keyFile, lastKey, blobs, verdict>>

\* Mutant: the data is sealed with the counter that was read.
ReturnSealedOld(t) ==
    /\ up
    /\ call[t].pc = "return"
    /\ blobs' = blobs \cup {[entry |-> call[t].entry, ctr |-> call[t].ctr - 1,
                             since |-> call[t].since,
                             seq |-> Cardinality(blobs) + 1]}
    /\ call' = [call EXCEPT ![t] = Idle]
    /\ UNCHANGED <<hostVars, rbTable, tpmVars, fileVars, histVars>>

\* RollbackProtectedSeal hands the sealed data to the hosted program.
ReturnSealed(t) ==
    /\ up
    /\ call[t].pc = "return"
    /\ blobs' = blobs \cup {[entry |-> call[t].entry, ctr |-> call[t].ctr,
                             since |-> call[t].since,
                             seq |-> Cardinality(blobs) + 1]}
    /\ call' = [call EXCEPT ![t] = Idle]
    /\ UNCHANGED <<hostVars, rbTable, tpmVars, fileVars, histVars>>

----------------------------------------------------------------------------
\* The host process is stopped, or crashes, at any moment ...
Crash == up /\ Down

\* ... and is started again.
Restart ==
    /\ ~up
    /\ restarts < MaxRestarts
    /\ up' = TRUE
    /\ restarts' = restarts + 1
    /\ UNCHANGED <<rbTable, tpmVars, fileVars, call, blobs, histVars>>

Next ==
    \/ \E t \in Caller :
         \/ \E e \in Entry, c \in InitValue : InitCounter(t, e, c)
         \/ \E e \in Entry : GetCounter(t, e) \/ RollbackProtectedSeal(t, e)
         \/ \E b \in blobs : RollbackProtectedUnseal(t, b)
         \/ Panic(t) \/ Lookup(t) \/ UpdateRollbackEntry(t)
         \/ TpmIncrement(t) \/ TpmIncrementAgain(t) \/ TpmSeal(t)
         \/ WriteKey(t) \/ WriteTable(t) \/ ReturnSealed(t)
    \/ Crash
    \/ Restart

Spec == Init /\ [][Next]_vars

----------------------------------------------------------------------------
\* Properties

\* A table that was saved completely is what the host loads again, provided
\* no later save was begun and the host has started at most once since: the
\* odd counter of a save and the even one of the next start have the same
\* (c + 1) / 2, and the two files belong together.
Durable ==
    saved # NoTable /\ ~saving /\ starts + NvReady - nv <= 1 =>
        LoadedTable("unseal") = saved

\* RollbackProtectedUnseal accepts only the newest data sealed under a label,
\* unless the table was lost or a save of it has failed unnoticed.
OnlyNewestUnseals ==
    "stale accepted" \in verdict => events \cap {"lost", "unsaved"} # {}

\* RollbackProtectedUnseal refuses the newest data only after a table was
\* lost or not saved, a seal was interrupted, or InitCounter raised the
\* counter above it.
NewestUnseals ==
    "latest refused" \in verdict => events # {}

\* While the host runs no counter in the table goes down: neither
\* InitCounter nor RollbackProtectedSeal writes a value it read too early.
CountersGrow ==
    [][rbTable # NoTable /\ rbTable' # NoTable =>
         \A e \in Entry : rbTable[e] # NoEntry =>
            rbTable'[e] # NoEntry /\ rbTable[e] <= rbTable'[e]]_vars

\* TPM2Tao's note: "You also need to reseal the tpm keys when you startup
\* since you may shutdown before a RollbackSeal and your key will bump by
\* two".  A saved table survives any number of starts.
SurvivesRestarts ==
    saved # NoTable /\ ~saving => LoadedTable("unseal") = saved

\* InitCounter's comment: "If label is empty string, just read in the table".
\* GetCounter relies on it: its lookup finds a table.
TableIsRead ==
    \A t \in Caller : up /\ call[t].pc = "lookup" => rbTable # NoTable

=============================================================================
