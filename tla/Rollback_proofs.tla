--------------------------- MODULE Rollback_proofs ---------------------------
(***************************************************************************)
(* Rollback, for any labels, any counter values and any number of seals    *)
(* and restarts.  With any number of callers: types.  With serial calls: a *)
(* completely saved table is loaded again after one start, no counter goes *)
(* down while the host runs, and only the newest data sealed under a label *)
(* unseals, which does.                                                    *)
(***************************************************************************)
EXTENDS Rollback, FiniteSetTheorems, TLAPS

\* Calls are serial: at most one goroutine serves hosted programs.
Serial == \A t, u \in Caller : t = u

SavePcs == {"tpm again", "tpm seal", "write key", "write table"}

\* A host that is down has no memory; a call that is past its lookup has a
\* table; a save that is under way has initialised the TPM's counter.
CallInv ==
    /\ ~up => /\ rbTable = NoTable
              /\ nvHandle = FALSE
              /\ \A t \in Caller : call[t] = Idle
    /\ \A t \in Caller :
        /\ call[t].pc # "idle" => call[t].entry \in Entry
        /\ call[t].pc \notin {"idle", "lookup"} => rbTable # NoTable
        /\ call[t].pc \in SavePcs => saving /\ nvHandle
        /\ call[t].pc \in SavePcs \cup {"tpm", "return"} => call[t].op = "seal"

\* The TPM's counter is odd when a save seals its keys.
ParityInv ==
    \A t \in Caller :
        /\ call[t].pc = "tpm again" => nv % 2 = 0
        /\ call[t].pc \in {"tpm seal", "write key", "write table"} => nv % 2 = 1
        /\ call[t].pc \in {"write key", "write table"} => call[t].cmp = Cmp(nv)
        /\ call[t].pc = "write table" =>
              keyFile = [key |-> call[t].key, ctr |-> call[t].cmp]

\* After a complete save the files belong together, and the TPM's counter
\* is the odd one of the save plus one for each start.
FileInv ==
    saved # NoTable /\ ~saving =>
        /\ keyFile \in [key : Nat, ctr : Nat]
        /\ tableFile = [key |-> keyFile.key, table |-> saved]
        /\ nv = 2 * keyFile.ctr - 1 + starts

DurableInv ==
    TypeOK /\ IsFiniteSet(blobs) /\ CallInv /\ ParityInv /\ FileInv

----------------------------------------------------------------------------
\* (c + 1) / 2 is the same for an odd counter and the even one after it.
LEMMA CmpOdd ==
  ASSUME NEW n \in Nat, n % 2 = 1
  PROVE  /\ n = 2 * Cmp(n) - 1
         /\ Cmp(n) \in Nat
  BY DEF Cmp

\* From a counter of the form 2c - 1 the sealed value c is read back after
\* no start or one.
LEMMA CmpTolerance ==
  ASSUME NEW c \in Nat, NEW s \in 0 .. 1, NEW n \in Nat, n = 2 * c - 1 + s
  PROVE  Cmp(n) = c
  BY DEF Cmp

\* Cmp maps counters to counters.
LEMMA CmpType == \A n \in Nat : Cmp(n) \in Nat
  BY DEF Cmp

\* An idle call is a call.
LEMMA IdleType == Idle \in Call
  BY DEF Idle, Call

\* Initially nothing was saved and nothing is under way.
LEMMA InitDurable == Init => DurableInv
  <1> SUFFICES ASSUME Init PROVE DurableInv
    OBVIOUS
  <1>1. TypeOK
    BY IdleType, Zenon DEF Init, TypeOK
  <1>2. \A t \in Caller : call[t] = Idle
    BY DEF Init
  <1>3. CallInv /\ ParityInv
    BY <1>2, Zenon DEF Init, CallInv, ParityInv, Idle, SavePcs
  <1>4. FileInv
    BY DEF Init, FileInv
  <1>5. IsFiniteSet(blobs)
    BY FS_EmptySet DEF Init
  <1> QED BY <1>1, <1>3, <1>4, <1>5 DEF DurableInv

\* What is loaded is a table.
LEMMA LoadedType ==
  ASSUME TypeOK, NEW op
  PROVE  LoadedTable(op) \in Table \cup {NoTable}
  <1>1. EmptyTable \in Table
    BY DEF EmptyTable, Table
  <1>2. \A k : ReadRollbackTable(k) \in Table \cup {NoTable}
    BY <1>1, Zenon DEF ReadRollbackTable, TypeOK
  <1> QED BY <1>1, <1>2 DEF LoadedTable

\* Initialising the TPM's counter moves it and the count of starts together.
LEMMA InitCounterShift ==
  ASSUME TypeOK, TpmInitCounter(NvReady)
  PROVE  /\ nv' \in Nat /\ starts' \in Nat /\ nvHandle' = TRUE
         /\ nv' - starts' = nv - starts
  <1>1. nv \in Nat /\ starts \in Nat
    BY Zenon DEF TypeOK
  <1>2. CASE nvHandle
    BY <1>1, <1>2 DEF TpmInitCounter, NvReady
  <1>3. CASE ~nvHandle
    BY <1>1, <1>3 DEF TpmInitCounter, NvReady
  <1> QED BY <1>2, <1>3, Zenon

\* A start keeps the relation between the key file and the TPM's counter.
LEMMA FileShift ==
  ASSUME TypeOK, FileInv, nv' \in Nat, starts' \in Nat,
         nv' - starts' = nv - starts,
         UNCHANGED <<keyFile, tableFile, saved, saving>>
  PROVE  FileInv'
  <1>1. nv \in Nat /\ starts \in Nat
    BY Zenon DEF TypeOK
  <1> QED BY <1>1 DEF FileInv

\* The start of a call preserves the invariant.
LEMMA InvokeDurable ==
  ASSUME Serial, DurableInv, NEW t \in Caller,
         NEW op \in {"init", "get", "seal", "unseal"}, NEW e \in Entry, NEW c \in Nat,
         Invoke(t, op, e, c)
  PROVE  DurableInv'
  <1>1. LoadedTable(op) \in Table \cup {NoTable}
    BY LoadedType DEF DurableInv
  <1>2. Cardinality(blobs) \in Nat
    BY FS_CardinalityType DEF DurableInv
  <1>3. call'[t] = [pc |-> "lookup", op |-> op, entry |-> e,
                    since |-> Cardinality(blobs), ctr |-> c, key |-> 0, cmp |-> 0]
    BY Zenon DEF Invoke, DurableInv, TypeOK, Idle
  <1>4. call'[t] \in Call
    BY <1>2, <1>3 DEF Call
  <1>5. \A u \in Caller : u = t
    BY DEF Serial
  <1>6. call' = [call EXCEPT ![t] = call'[t]]
    BY Zenon DEF Invoke, DurableInv, TypeOK
  <1>7. up /\ rbTable' \in Table \cup {NoTable}
    BY <1>1, Zenon DEF Invoke, LoadIfNil, DurableInv, TypeOK
  <1>8. nv' \in Nat /\ starts' \in Nat /\ nvHandle' \in BOOLEAN
        /\ nv' - starts' = nv - starts
    <2>1. CASE rbTable = NoTable /\ keyFile # NoFile
      BY <2>1, InitCounterShift DEF Invoke, LoadIfNil, DurableInv
    <2>2. CASE ~(rbTable = NoTable /\ keyFile # NoFile)
      BY <2>2, Zenon DEF Invoke, LoadIfNil, DurableInv, TypeOK, tpmVars
    <2> QED BY <2>1, <2>2
  <1>9. events' \subseteq Events
    BY Zenon DEF Invoke, LoadIfNil, DurableInv, TypeOK, Events
  <1>10. TypeOK'
    BY <1>4, <1>6, <1>7, <1>8, <1>9, Zenon
    DEF Invoke, DurableInv, TypeOK, hostVars, fileVars
  <1>11. up'
    BY <1>7 DEF Invoke, hostVars
  <1>12. /\ call'[t].pc = "lookup"
         /\ call'[t].entry \in Entry
    BY <1>3
  <1>15. CallInv'
    BY <1>5, <1>11, <1>12, Zenon DEF CallInv, SavePcs
  <1>16. ParityInv'
    BY <1>5, <1>12, Zenon DEF ParityInv
  <1>13. FileInv'
    BY <1>8, FileShift DEF Invoke, DurableInv, fileVars
  <1>14. IsFiniteSet(blobs)'
    BY DEF Invoke, DurableInv
  <1> QED BY <1>10, <1>13, <1>14, <1>15, <1>16 DEF DurableInv

----------------------------------------------------------------------------
\* The parity of a counter after one increment.
LEMMA Increment ==
  ASSUME NEW n \in Nat
  PROVE  /\ n + 1 \in Nat
         /\ n % 2 = 0 => (n + 1) % 2 = 1
         /\ n % 2 # 0 => (n + 1) % 2 = 0
  OBVIOUS

\* A step that only moves the program counter of the one caller.
LEMMA PcStep ==
  ASSUME Serial, TypeOK, NEW t \in Caller,
         NEW x \in {"return", "tpm again", "tpm seal", "write table"},
         call' = [call EXCEPT ![t].pc = x]
  PROVE  /\ call' \in [Caller -> Call]
         /\ \A u \in Caller : u = t
         /\ call'[t] \in Call
         /\ call'[t].pc = x
         /\ call'[t].op = call[t].op /\ call'[t].entry = call[t].entry
         /\ call'[t].ctr = call[t].ctr /\ call'[t].key = call[t].key
         /\ call'[t].cmp = call[t].cmp /\ call'[t].since = call[t].since
  <1>1. call[t] \in Call
    BY Zenon DEF TypeOK
  <1>2. [call[t] EXCEPT !.pc = x] \in Call
    BY <1>1, Zenon DEF Call
  <1>3. call' = [call EXCEPT ![t] = [call[t] EXCEPT !.pc = x]]
    BY Zenon
  <1>4. call'[t] = [call[t] EXCEPT !.pc = x]
    BY <1>3, Zenon DEF TypeOK
  <1>5. call' \in [Caller -> Call]
    BY <1>2, <1>3, Zenon DEF TypeOK
  <1> QED BY <1>1, <1>2, <1>4, <1>5, Zenon DEF Serial, Call

\* A step after which the one caller is idle.
LEMMA IdleStep ==
  ASSUME Serial, TypeOK, NEW t \in Caller, call' = [call EXCEPT ![t] = Idle]
  PROVE  /\ call' \in [Caller -> Call]
         /\ \A u \in Caller : u = t
         /\ call'[t] = Idle /\ call'[t].pc = "idle" /\ call'[t].since = 0
  BY IdleType, Zenon DEF TypeOK, Serial, Idle

\* An idle caller satisfies what the invariants say of callers.
LEMMA IdleCaller ==
  ASSUME NEW t \in Caller, \A u \in Caller : u = t,
         call'[t].pc = "idle", up'
  PROVE  CallInv' /\ ParityInv'
  <1>1. CallInv'
    BY Zenon DEF CallInv, SavePcs
  <1>2. ParityInv'
    BY Zenon DEF ParityInv
  <1> QED BY <1>1, <1>2

\* A failing save leaves the files' relation to a later one; the call returns.
LEMMA FailStep ==
  ASSUME Serial, DurableInv, NEW t \in Caller, up, up', SaveFails(t),
         call[t].op = "seal", call[t].pc # "idle", rbTable # NoTable,
         rbTable' = rbTable
  PROVE  /\ call' \in [Caller -> Call]
         /\ events' \subseteq Events
         /\ CallInv' /\ ParityInv'
  <1>1. call' = [call EXCEPT ![t].pc = "return"]
    BY DEF SaveFails
  <1>2. /\ call' \in [Caller -> Call]
        /\ \A u \in Caller : u = t
        /\ call'[t].pc = "return"
        /\ call'[t].op = call[t].op /\ call'[t].entry = call[t].entry
    BY <1>1, PcStep, Zenon DEF DurableInv
  <1>3. events' \subseteq Events
    BY Zenon DEF SaveFails, DurableInv, TypeOK, Events
  <1>4. call[t].entry \in Entry
    BY DEF DurableInv, CallInv
  <1>5. CallInv'
    BY <1>2, <1>4, Zenon DEF CallInv, SavePcs
  <1>6. ParityInv'
    BY <1>2, Zenon DEF ParityInv
  <1> QED BY <1>2, <1>3, <1>5, <1>6

----------------------------------------------------------------------------
\* The lookups of the four operations preserve the invariant.
LEMMA LookupDurable ==
  ASSUME Serial, DurableInv, NEW t \in Caller, Lookup(t)
  PROVE  DurableInv'
  <1> USE DEF DurableInv
  <1>1. /\ up /\ up' /\ rbTable # NoTable /\ rbTable' # NoTable
        /\ call[t].pc = "lookup" /\ call[t].entry \in Entry /\ call[t] \in Call
        /\ \A u \in Caller : u = t
    BY Zenon DEF Lookup, CallInv, TypeOK, hostVars, Serial
  <1>2. UNCHANGED <<restarts, rbTable, nv, nvHandle, keyFile, tableFile, lastKey,
                    blobs, saved, saving, starts, up>>
    BY DEF Lookup, hostVars, tpmVars, fileVars
  <1>3. FileInv' /\ IsFiniteSet(blobs)'
    BY <1>2 DEF FileInv
  <1>4. /\ call' \in [Caller -> Call] /\ events' \subseteq Events
        /\ verdict' \subseteq {"stale accepted", "latest refused"}
        /\ call'[t].pc \in {"idle", "update"}
        /\ call'[t].pc = "update" => call'[t].entry \in Entry
    <2>1. CASE LookupForInit(t)
      <3>1. /\ events' \subseteq Events
            /\ verdict' \subseteq {"stale accepted", "latest refused"}
        BY <2>1, Zenon DEF LookupForInit, TypeOK, Events
      <3>2. CASE call' = [call EXCEPT ![t] = Idle]
        BY <3>1, <3>2, IdleStep, Zenon
      <3>3. CASE call' = [call EXCEPT ![t] = [call[t] EXCEPT !.pc = "update"]]
        <4>1. [call[t] EXCEPT !.pc = "update"] \in Call
          BY <1>1, Zenon DEF Call
        <4> QED BY <1>1, <3>1, <3>3, <4>1, Zenon DEF TypeOK, Call
      <3> QED BY <2>1, <3>2, <3>3, Zenon DEF LookupForInit
    <2>2. CASE LookupForSeal(t)
      <3>1. /\ events' \subseteq Events
            /\ verdict' \subseteq {"stale accepted", "latest refused"}
        BY <2>2, Zenon DEF LookupForSeal, TypeOK
      <3>2. CASE call' = [call EXCEPT ![t] = Idle]
        BY <3>1, <3>2, IdleStep, Zenon
      <3>3. CASE /\ rbTable[call[t].entry] # NoEntry
                 /\ call' = [call EXCEPT ![t] =
                       [call[t] EXCEPT !.pc = "update",
                                       !.ctr = rbTable[call[t].entry] + 1]]
        <4>0. rbTable \in Table
          BY <1>1, Zenon DEF TypeOK
        <4>1. rbTable[call[t].entry] \in Nat
          BY <1>1, <3>3, <4>0 DEF Table
        <4> DEFINE n == rbTable[call[t].entry] + 1
                   c == [call[t] EXCEPT !.pc = "update", !.ctr = n]
        <4>2. n \in Nat /\ call' = [call EXCEPT ![t] = c]
          BY <3>3, <4>1, Increment
        <4> HIDE DEF n
        <4>3. c \in Call /\ c.pc = "update" /\ c.entry = call[t].entry
          BY <1>1, <4>2, Zenon DEF Call
        <4> HIDE DEF c
        <4> QED BY <1>1, <3>1, <4>2, <4>3, Zenon DEF TypeOK
      <3> QED BY <2>2, <3>2, <3>3, Zenon DEF LookupForSeal
    <2>3. CASE LookupForUnseal(t)
      <3>1. /\ events' \subseteq Events
            /\ verdict' \subseteq {"stale accepted", "latest refused"}
        BY <2>3, Zenon DEF LookupForUnseal, TypeOK
      <3> QED BY <2>3, <3>1, IdleStep, Zenon DEF LookupForUnseal
    <2>4. CASE LookupForGet(t)
      <3>1. /\ events' \subseteq Events
            /\ verdict' \subseteq {"stale accepted", "latest refused"}
        BY <2>4, Zenon DEF LookupForGet, TypeOK
      <3> QED BY <2>4, <3>1, IdleStep, Zenon DEF LookupForGet
    <2> QED BY <2>1, <2>2, <2>3, <2>4, Zenon DEF Lookup
  <1>5. TypeOK'
    BY <1>2, <1>4, Zenon DEF TypeOK
  <1>6. CallInv'
    BY <1>1, <1>4, Zenon DEF CallInv, SavePcs
  <1>7. ParityInv'
    BY <1>1, <1>4, Zenon DEF ParityInv
  <1> QED BY <1>3, <1>5, <1>6, <1>7

\* UpdateRollbackEntry preserves it.
LEMMA UpdateDurable ==
  ASSUME Serial, DurableInv, NEW t \in Caller, UpdateRollbackEntry(t)
  PROVE  DurableInv'
  <1> USE DEF DurableInv
  <1>1. /\ up /\ up' /\ rbTable \in Table
        /\ call[t].pc = "update" /\ call[t].entry \in Entry /\ call[t] \in Call
        /\ \A u \in Caller : u = t
    BY Zenon DEF UpdateRollbackEntry, CallInv, TypeOK, hostVars, Serial
  <1>2. UNCHANGED <<restarts, nv, nvHandle, keyFile, tableFile, lastKey,
                    blobs, saved, saving, starts, up, events, verdict>>
    BY DEF UpdateRollbackEntry, hostVars, tpmVars, fileVars, histVars
  <1>3. FileInv' /\ IsFiniteSet(blobs)'
    BY <1>2 DEF FileInv
  <1>4. rbTable' \in Table /\ rbTable' # NoTable
    <2>1. call[t].ctr \in Nat
      BY <1>1, Zenon DEF Call
    <2>2. rbTable' \in Table
      BY <1>1, <2>1 DEF UpdateRollbackEntry, Table
    <2> QED BY <2>2, NoTableAssumption DEF Table
  <1>5. /\ call' \in [Caller -> Call]
        /\ call'[t].pc \in {"idle", "tpm"}
        /\ call'[t].pc = "tpm" =>
              call'[t].entry \in Entry /\ call'[t].op = "seal"
    <2>1. CASE call' = [call EXCEPT ![t] = Idle]
      BY <2>1, IdleStep, Zenon
    <2>2. CASE /\ call[t].op = "seal"
               /\ call' = [call EXCEPT ![t] = [call[t] EXCEPT !.pc = "tpm"]]
      <3>1. [call[t] EXCEPT !.pc = "tpm"] \in Call
        BY <1>1, Zenon DEF Call
      <3> QED BY <1>1, <2>2, <3>1, Zenon DEF TypeOK, Call
    <2> QED BY <2>1, <2>2, Zenon DEF UpdateRollbackEntry
  <1>6. TypeOK'
    BY <1>2, <1>4, <1>5, Zenon DEF TypeOK
  <1>7. CallInv'
    BY <1>1, <1>4, <1>5, Zenon DEF CallInv, SavePcs
  <1>8. ParityInv'
    BY <1>1, <1>5, Zenon DEF ParityInv
  <1> QED BY <1>3, <1>6, <1>7, <1>8

----------------------------------------------------------------------------
\* The TPM's part of a save preserves the invariant.
LEMMA TpmIncrementDurable ==
  ASSUME Serial, DurableInv, NEW t \in Caller, TpmIncrement(t)
  PROVE  DurableInv'
  <1> USE DEF DurableInv
  <1>1. /\ up /\ up' /\ rbTable # NoTable /\ rbTable' = rbTable
        /\ call[t].pc = "tpm" /\ call[t].op = "seal" /\ call[t].entry \in Entry
    BY Zenon DEF TpmIncrement, CallInv, hostVars
  <1>2. UNCHANGED <<up, restarts, keyFile, tableFile, lastKey, blobs, saved, verdict>>
    BY Zenon DEF TpmIncrement, hostVars, fileVars
  <1>3. nv \in Nat /\ starts \in Nat
    BY Zenon DEF TypeOK
  <1>30. NvReady \in Nat
    BY <1>3, Increment DEF NvReady
  <1>4. CASE /\ TpmInitCounter(NvReady + 1)
             /\ call' = [call EXCEPT ![t].pc =
                           IF NvReady % 2 # 0 THEN "tpm again" ELSE "tpm seal"]
             /\ saving' = TRUE
             /\ UNCHANGED events
    <2>1. nv' = NvReady + 1 /\ nvHandle' = TRUE /\ starts' \in Nat
      BY <1>3, <1>4, Increment, Zenon DEF TpmInitCounter
    <2>10. nv' \in Nat /\ (IF NvReady % 2 # 0 THEN nv' % 2 = 0 ELSE nv' % 2 = 1)
      BY <1>30, <2>1, Increment
    <2> DEFINE x == IF NvReady % 2 # 0 THEN "tpm again" ELSE "tpm seal"
    <2>2. x \in {"return", "tpm again", "tpm seal", "write table"}
          /\ call' = [call EXCEPT ![t].pc = x]
      BY <1>4, Zenon
    <2> HIDE DEF x
    <2>3. /\ call' \in [Caller -> Call]
          /\ \A u \in Caller : u = t
          /\ call'[t].pc = x
          /\ call'[t].op = call[t].op /\ call'[t].entry = call[t].entry
      BY <2>2, PcStep, Zenon
    <2>4. TypeOK'
      BY <1>1, <1>2, <1>4, <2>1, <2>3, <2>10, Zenon DEF TypeOK
    <2>5. CallInv'
      BY <1>1, <1>4, <2>1, <2>3, Zenon DEF CallInv, SavePcs
    <2>6. ParityInv'
      BY <2>3, <2>10, Zenon DEF ParityInv, x
    <2>7. FileInv'
      BY <1>4, Zenon DEF FileInv
    <2> QED BY <1>2, <2>4, <2>5, <2>6, <2>7
  <1>5. CASE TpmInitCounter(NvReady) /\ SaveFails(t) /\ UNCHANGED saving
    <2>1. /\ nv' \in Nat /\ starts' \in Nat /\ nvHandle' = TRUE
          /\ nv' - starts' = nv - starts
      BY <1>5, InitCounterShift
    <2>2. FileInv'
      BY <1>2, <1>5, <2>1, FileShift
    <2>3. /\ call' \in [Caller -> Call] /\ events' \subseteq Events
          /\ CallInv' /\ ParityInv'
      BY <1>1, <1>5, FailStep
    <2>4. TypeOK'
      BY <1>1, <1>2, <1>5, <2>1, <2>3, Zenon DEF TypeOK
    <2> QED BY <1>2, <2>2, <2>3, <2>4
  <1> QED BY <1>4, <1>5, Zenon DEF TpmIncrement

\* The second increment makes the counter odd.
LEMMA TpmAgainDurable ==
  ASSUME Serial, DurableInv, NEW t \in Caller, TpmIncrementAgain(t)
  PROVE  DurableInv'
  <1> USE DEF DurableInv
  <1>1. /\ up /\ up' /\ rbTable # NoTable /\ rbTable' = rbTable
        /\ call[t].pc = "tpm again" /\ call[t].op = "seal"
        /\ call[t].entry \in Entry /\ saving /\ nvHandle
    BY Zenon DEF TpmIncrementAgain, CallInv, SavePcs, hostVars
  <1>2. UNCHANGED <<up, restarts, nvHandle, keyFile, tableFile, lastKey, blobs,
                    saved, saving, starts, verdict>>
    BY Zenon DEF TpmIncrementAgain, hostVars, fileVars
  <1>3. nv \in Nat /\ nv % 2 = 0
    BY <1>1, Zenon DEF TypeOK, ParityInv
  <1>4. FileInv'
    BY <1>1, <1>2, Zenon DEF FileInv
  <1>5. CASE /\ nv' = nv + 1
             /\ call' = [call EXCEPT ![t].pc = "tpm seal"]
             /\ UNCHANGED events
    <2>1. /\ call' \in [Caller -> Call]
          /\ \A u \in Caller : u = t
          /\ call'[t].pc = "tpm seal"
          /\ call'[t].op = call[t].op /\ call'[t].entry = call[t].entry
      BY <1>5, PcStep, Zenon
    <2>10. nv' \in Nat /\ nv' % 2 = 1
      BY <1>3, <1>5, Increment, Zenon
    <2>2. TypeOK'
      BY <1>1, <1>2, <1>5, <2>1, <2>10, Zenon DEF TypeOK
    <2>3. CallInv'
      BY <1>1, <1>2, <2>1, Zenon DEF CallInv, SavePcs
    <2>4. ParityInv'
      BY <2>1, <2>10, Zenon DEF ParityInv
    <2> QED BY <1>2, <1>4, <2>2, <2>3, <2>4
  <1>6. CASE SaveFails(t) /\ UNCHANGED nv
    <2>1. /\ call' \in [Caller -> Call] /\ events' \subseteq Events
          /\ CallInv' /\ ParityInv'
      BY <1>1, <1>6, FailStep, Zenon
    <2>2. TypeOK'
      BY <1>1, <1>2, <1>6, <2>1, Zenon DEF TypeOK
    <2> QED BY <1>2, <1>4, <2>1, <2>2
  <1> QED BY <1>5, <1>6, Zenon DEF TpmIncrementAgain

\* Sealing the keys fixes the counter they will be compared with.
LEMMA TpmSealDurable ==
  ASSUME Serial, DurableInv, NEW t \in Caller, TpmSeal(t)
  PROVE  DurableInv'
  <1> USE DEF DurableInv
  <1>1. /\ up /\ up' /\ rbTable # NoTable /\ rbTable' = rbTable
        /\ call[t].pc = "tpm seal" /\ call[t].op = "seal"
        /\ call[t].entry \in Entry /\ saving /\ nvHandle
        /\ call[t] \in Call /\ \A u \in Caller : u = t
    BY Zenon DEF TpmSeal, CallInv, SavePcs, hostVars, Serial, TypeOK
  <1>2. UNCHANGED <<up, restarts, nv, nvHandle, keyFile, tableFile, blobs,
                    saved, saving, starts, verdict>>
    BY Zenon DEF TpmSeal, hostVars, tpmVars
  <1>3. /\ nv \in Nat /\ nv % 2 = 1 /\ Cmp(nv) \in Nat
        /\ lastKey + 1 \in Nat /\ lastKey' = lastKey + 1
    BY <1>1, CmpType, Increment, Zenon DEF TypeOK, ParityInv, TpmSeal
  <1>30. lastKey' \in Nat
    BY <1>3
  <1>4. FileInv'
    BY <1>1, <1>2, Zenon DEF FileInv
  <1>5. CASE /\ call' = [call EXCEPT ![t] = [@ EXCEPT !.pc = "write key",
                                               !.key = lastKey + 1,
                                               !.cmp = Cmp(nv)]]
             /\ UNCHANGED events
    <2> DEFINE c == [call[t] EXCEPT !.pc = "write key", !.key = lastKey + 1,
                                    !.cmp = Cmp(nv)]
    <2> DEFINE k == lastKey + 1
               n == Cmp(nv)
    <2>0. k \in Nat /\ n \in Nat /\ c = [call[t] EXCEPT !.pc = "write key",
                                                 !.key = k, !.cmp = n]
      BY <1>3
    <2> HIDE DEF k, n
    <2>11. /\ c \in Call /\ c.pc = "write key" /\ c.op = call[t].op
           /\ c.entry = call[t].entry /\ c.cmp = n
      BY <1>1, <2>0, Zenon DEF Call
    <2>1. /\ c \in Call /\ c.pc = "write key" /\ c.op = call[t].op
          /\ c.entry = call[t].entry /\ c.cmp = Cmp(nv)
      BY <2>11 DEF n
    <2>2. call' = [call EXCEPT ![t] = c]
      BY <1>5
    <2> HIDE DEF c
    <2>3. call' \in [Caller -> Call] /\ call'[t] = c
      BY <2>1, <2>2, Zenon DEF TypeOK
    <2>4. TypeOK'
      BY <1>1, <1>2, <1>30, <1>5, <2>3, Zenon DEF TypeOK
    <2>5. CallInv'
      BY <1>1, <1>2, <2>1, <2>3, Zenon DEF CallInv, SavePcs
    <2>6. ParityInv'
      BY <1>1, <1>2, <1>3, <2>1, <2>3, Zenon DEF ParityInv
    <2> QED BY <1>2, <1>4, <2>4, <2>5, <2>6
  <1>6. CASE SaveFails(t)
    <2>1. /\ call' \in [Caller -> Call] /\ events' \subseteq Events
          /\ CallInv' /\ ParityInv'
      BY <1>1, <1>6, FailStep, Zenon
    <2>2. TypeOK'
      BY <1>1, <1>2, <1>30, <2>1, Zenon DEF TypeOK
    <2> QED BY <1>2, <1>4, <2>1, <2>2
  <1> QED BY <1>5, <1>6, Zenon DEF TpmSeal

----------------------------------------------------------------------------
\* The file writes of a save preserve the invariant.
LEMMA WriteKeyDurable ==
  ASSUME Serial, DurableInv, NEW t \in Caller, WriteKey(t)
  PROVE  DurableInv'
  <1> USE DEF DurableInv
  <1>1. /\ up /\ up' /\ rbTable # NoTable /\ rbTable' = rbTable
        /\ call[t].pc = "write key" /\ call[t].op = "seal"
        /\ call[t].entry \in Entry /\ saving /\ nvHandle
        /\ call[t].key \in Nat /\ call[t].cmp \in Nat
    <2>1. call[t] \in Call
      BY Zenon DEF TypeOK
    <2> QED BY <2>1, Zenon DEF WriteKey, CallInv, SavePcs, hostVars, Call
  <1>2. UNCHANGED <<up, restarts, nv, nvHandle, tableFile, lastKey, blobs,
                    saved, saving, starts, verdict>>
    BY Zenon DEF WriteKey, hostVars, tpmVars
  <1>3. nv % 2 = 1 /\ call[t].cmp = Cmp(nv)
    BY <1>1, Zenon DEF ParityInv
  <1>4. FileInv'
    BY <1>1, <1>2, Zenon DEF FileInv
  <1>5. CASE /\ keyFile' = [key |-> call[t].key, ctr |-> call[t].cmp]
             /\ call' = [call EXCEPT ![t].pc = "write table"]
             /\ UNCHANGED events
    <2>1. /\ call' \in [Caller -> Call]
          /\ \A u \in Caller : u = t
          /\ call'[t].pc = "write table"
          /\ call'[t].op = call[t].op /\ call'[t].entry = call[t].entry
          /\ call'[t].key = call[t].key /\ call'[t].cmp = call[t].cmp
      BY <1>5, PcStep, Zenon
    <2>2. keyFile' \in [key : Nat, ctr : Nat]
      BY <1>1, <1>5, Zenon
    <2>3. TypeOK'
      BY <1>1, <1>2, <1>5, <2>1, <2>2, Zenon DEF TypeOK
    <2>4. CallInv'
      BY <1>1, <1>2, <2>1, Zenon DEF CallInv, SavePcs
    <2>5. ParityInv'
      BY <1>2, <1>3, <1>5, <2>1, Zenon DEF ParityInv
    <2> QED BY <1>2, <1>4, <2>3, <2>4, <2>5
  <1>6. CASE keyFile' \in {keyFile, Garbage} /\ SaveFails(t)
    <2>1. /\ call' \in [Caller -> Call] /\ events' \subseteq Events
          /\ CallInv' /\ ParityInv'
      BY <1>1, <1>6, FailStep, Zenon
    <2>2. TypeOK'
      BY <1>1, <1>2, <1>6, <2>1, Zenon DEF TypeOK
    <2> QED BY <1>2, <1>4, <2>1, <2>2
  <1> QED BY <1>5, <1>6, Zenon DEF WriteKey

\* The write of the table completes a save.
LEMMA WriteTableDurable ==
  ASSUME Serial, DurableInv, NEW t \in Caller, WriteTable(t)
  PROVE  DurableInv'
  <1> USE DEF DurableInv
  <1>1. /\ up /\ up' /\ rbTable # NoTable /\ rbTable' = rbTable
        /\ rbTable \in Table
        /\ call[t].pc = "write table" /\ call[t].op = "seal"
        /\ call[t].entry \in Entry /\ saving /\ nvHandle
        /\ call[t].key \in Nat /\ call[t].cmp \in Nat
    <2>1. call[t] \in Call
      BY Zenon DEF TypeOK
    <2> QED BY <2>1, Zenon DEF WriteTable, CallInv, SavePcs, hostVars, Call, TypeOK
  <1>2. UNCHANGED <<up, restarts, nv, nvHandle, keyFile, lastKey, blobs, verdict>>
    BY Zenon DEF WriteTable, hostVars, tpmVars
  <1>3. /\ nv \in Nat /\ nv % 2 = 1 /\ call[t].cmp = Cmp(nv)
        /\ keyFile = [key |-> call[t].key, ctr |-> call[t].cmp]
    BY <1>1, Zenon DEF ParityInv, TypeOK
  <1>4. CASE /\ tableFile' = [key |-> call[t].key, table |-> rbTable]
             /\ call' = [call EXCEPT ![t].pc = "return"]
             /\ saved' = rbTable
             /\ saving' = FALSE
             /\ starts' = 0
             /\ UNCHANGED events
    <2>1. /\ call' \in [Caller -> Call]
          /\ \A u \in Caller : u = t
          /\ call'[t].pc = "return"
          /\ call'[t].op = call[t].op /\ call'[t].entry = call[t].entry
      BY <1>4, PcStep, Zenon
    <2>2. tableFile' \in [key : Nat, table : Table]
      BY <1>1, <1>4, Zenon
    <2>3. TypeOK'
      BY <1>1, <1>2, <1>4, <2>1, <2>2, Zenon DEF TypeOK
    <2>4. CallInv'
      BY <1>1, <2>1, Zenon DEF CallInv, SavePcs
    <2>5. ParityInv'
      BY <2>1, Zenon DEF ParityInv
    <2>6. nv' = 2 * keyFile'.ctr - 1 + starts'
      BY <1>2, <1>3, <1>4, CmpOdd
    <2>7. FileInv'
      BY <1>1, <1>2, <1>3, <1>4, <2>6, Zenon DEF FileInv
    <2> QED BY <1>2, <2>3, <2>4, <2>5, <2>7
  <1>5. CASE /\ tableFile' \in {tableFile, Garbage}
             /\ SaveFails(t)
             /\ UNCHANGED <<saved, saving, starts>>
    <2>1. /\ call' \in [Caller -> Call] /\ events' \subseteq Events
          /\ CallInv' /\ ParityInv'
      BY <1>1, <1>5, FailStep, Zenon
    <2>2. TypeOK'
      BY <1>1, <1>2, <1>5, <2>1, Zenon DEF TypeOK
    <2>3. FileInv'
      BY <1>1, <1>5, Zenon DEF FileInv
    <2> QED BY <1>2, <2>1, <2>2, <2>3
  <1> QED BY <1>4, <1>5, Zenon DEF WriteTable

\* Handing out the sealed data preserves it.
LEMMA ReturnDurable ==
  ASSUME Serial, DurableInv, NEW t \in Caller, ReturnSealed(t)
  PROVE  DurableInv'
  <1> USE DEF DurableInv
  <1>1. /\ up /\ up' /\ call[t].entry \in Entry
        /\ call[t].ctr \in Nat /\ call[t].since \in Nat
    <2>1. call[t] \in Call
      BY Zenon DEF TypeOK
    <2> QED BY <2>1, Zenon DEF ReturnSealed, CallInv, hostVars, Call
  <1>2. UNCHANGED <<up, restarts, rbTable, nv, nvHandle, keyFile, tableFile, lastKey,
                    saved, saving, starts, events, verdict>>
    BY DEF ReturnSealed, hostVars, tpmVars, fileVars, histVars
  <1>3. /\ call' \in [Caller -> Call]
        /\ \A u \in Caller : u = t
        /\ call'[t].pc = "idle"
    BY IdleStep, Zenon DEF ReturnSealed
  <1>4. Cardinality(blobs) + 1 \in Nat
    BY FS_CardinalityType, Increment
  <1>5. blobs' \subseteq Blob
    <2> DEFINE n == Cardinality(blobs) + 1
    <2>1. n \in Nat /\ blobs' = blobs \cup
            {[entry |-> call[t].entry, ctr |-> call[t].ctr,
              since |-> call[t].since, seq |-> n]}
      BY <1>4 DEF ReturnSealed
    <2> HIDE DEF n
    <2>2. [entry |-> call[t].entry, ctr |-> call[t].ctr,
           since |-> call[t].since, seq |-> n] \in Blob
      BY <1>1, <2>1 DEF Blob
    <2> QED BY <2>1, <2>2, Zenon DEF TypeOK
  <1>6. IsFiniteSet(blobs')
    BY FS_AddElement, Zenon DEF ReturnSealed
  <1>7. TypeOK'
    BY <1>2, <1>3, <1>5, Zenon DEF TypeOK
  <1>8. FileInv'
    BY <1>2 DEF FileInv
  <1>9. CallInv' /\ ParityInv'
    BY <1>1, <1>3, IdleCaller
  <1> QED BY <1>6, <1>7, <1>8, <1>9

\* A crash or a restart preserves it.
LEMMA DownDurable ==
  ASSUME DurableInv, Down
  PROVE  DurableInv'
  <1> USE DEF DurableInv, Down
  <1>1. \A t \in Caller : call'[t] = Idle /\ call'[t].pc = "idle"
    BY Zenon DEF Idle
  <1>2. UNCHANGED <<restarts, nv, lastKey, blobs, saved, saving, starts, verdict>>
    BY Zenon
  <1>3. /\ keyFile' \in {keyFile, Garbage} /\ tableFile' \in {tableFile, Garbage}
        /\ keyFile' # keyFile \/ tableFile' # tableFile => saving
    BY Zenon DEF Torn, CallInv, SavePcs
  <1>4. TypeOK'
    BY <1>2, <1>3, IdleType, Zenon DEF TypeOK, Events
  <1>5. CallInv'
    BY <1>1, Zenon DEF CallInv, SavePcs
  <1>6. ParityInv'
    BY <1>1, Zenon DEF ParityInv
  <1>7. FileInv'
    <2>1. CASE saving
      BY <1>2, <2>1, Zenon DEF FileInv
    <2>2. CASE ~saving
      <3>1. UNCHANGED <<keyFile, tableFile, nv, starts, saved, saving>>
        BY <1>2, <1>3, <2>2, Zenon
      <3>2. FileInv
        BY Zenon
      <3> HIDE DEF DurableInv, Down
      <3> QED BY <3>1, <3>2 DEF FileInv
    <2> QED BY <2>1, <2>2, Zenon
  <1> QED BY <1>2, <1>4, <1>5, <1>6, <1>7, Zenon

\* So does the start of the host after it.
LEMMA RestartDurable ==
  ASSUME DurableInv, Restart
  PROVE  DurableInv'
  <1> USE DEF DurableInv, Restart
  <1>1. UNCHANGED <<rbTable, nv, nvHandle, keyFile, tableFile, lastKey, call, blobs,
                    saved, saving, starts, events, verdict>>
    BY DEF tpmVars, fileVars, histVars
  <1>2. restarts' \in Nat
    BY Increment, Zenon DEF TypeOK
  <1>3. TypeOK'
    BY <1>1, <1>2, Zenon DEF TypeOK
  <1>4. CallInv'
    BY <1>1 DEF CallInv
  <1>5. ParityInv'
    BY <1>1, Zenon DEF ParityInv
  <1>6. FileInv'
    BY <1>1 DEF FileInv
  <1> QED BY <1>1, <1>3, <1>4, <1>5, <1>6

----------------------------------------------------------------------------
\* A step of Next is the start of a call, a step of one, or the host's.
LEMMA NextCases ==
  ASSUME TypeOK, Next
  PROVE  \/ \E t \in Caller :
              \/ \E op \in {"init", "get", "seal", "unseal"}, e \in Entry, c \in Nat :
                    Invoke(t, op, e, c)
              \/ Lookup(t) \/ UpdateRollbackEntry(t)
              \/ TpmIncrement(t) \/ TpmIncrementAgain(t) \/ TpmSeal(t)
              \/ WriteKey(t) \/ WriteTable(t) \/ ReturnSealed(t)
         \/ Down
         \/ Restart
  <1>1. ASSUME NEW t \in Caller, NEW e \in Entry, NEW c \in InitValue,
               InitCounter(t, e, c)
        PROVE  Invoke(t, "init", e, c) /\ c \in Nat
    BY <1>1, InitValueAssumption DEF InitCounter
  <1>2. ASSUME NEW t \in Caller, NEW e \in Entry, RollbackProtectedSeal(t, e)
        PROVE  Invoke(t, "seal", e, 0)
    BY <1>2 DEF RollbackProtectedSeal
  <1>3. ASSUME NEW t \in Caller, NEW b \in blobs, RollbackProtectedUnseal(t, b)
        PROVE  /\ Invoke(t, "unseal", b.entry, b.ctr)
               /\ b.entry \in Entry /\ b.ctr \in Nat
    BY <1>3, Zenon DEF RollbackProtectedUnseal, TypeOK, Blob
  <1>4. ASSUME NEW t \in Caller, NEW e \in Entry, GetCounter(t, e)
        PROVE  Invoke(t, "get", e, 0)
    BY <1>4 DEF GetCounter
  <1>5. 0 \in Nat
    OBVIOUS
  <1> QED BY <1>1, <1>2, <1>3, <1>4, <1>5 DEF Next, Panic, Crash

\* Every step of serial calls preserves the invariant.
LEMMA NextDurable ==
  ASSUME Serial, DurableInv, [Next]_vars
  PROVE  DurableInv'
  <1>1. CASE UNCHANGED vars
    <2>1. UNCHANGED <<up, restarts, rbTable, nv, nvHandle, keyFile, tableFile,
                      lastKey, call, blobs, saved, saving, starts, events, verdict>>
      BY <1>1 DEF vars, hostVars, tpmVars, fileVars, histVars
    <2> QED BY <2>1, Zenon DEF DurableInv, TypeOK, CallInv, ParityInv, FileInv
  <1>2. CASE Next
    <2>1. TypeOK
      BY DEF DurableInv
    <2> QED BY <1>2, <2>1, NextCases, InvokeDurable, LookupDurable, UpdateDurable,
               TpmIncrementDurable, TpmAgainDurable, TpmSealDurable,
               WriteKeyDurable, WriteTableDurable, ReturnDurable,
               DownDurable, RestartDurable
  <1> QED BY <1>1, <1>2

\* The relation of the files to the TPM's counter makes the table durable.
LEMMA DurableInvImplies ==
  ASSUME DurableInv PROVE Durable
  <1> SUFFICES ASSUME saved # NoTable, ~saving, starts + NvReady - nv <= 1
               PROVE  LoadedTable("unseal") = saved
    BY DEF Durable
  <1>1. /\ nv \in Nat /\ starts \in Nat /\ saved \in Table
        /\ keyFile \in [key : Nat, ctr : Nat]
        /\ tableFile = [key |-> keyFile.key, table |-> saved]
        /\ nv = 2 * keyFile.ctr - 1 + starts
    BY Zenon DEF DurableInv, TypeOK, FileInv
  <1>2. keyFile.ctr \in Nat /\ keyFile.key \in Nat
    BY <1>1
  <1>3. Cmp(NvReady) = keyFile.ctr
    <2>1. NvReady \in {nv, nv + 1}
      BY DEF NvReady
    <2> DEFINE s == starts + NvReady - nv
    <2>2. s \in 0 .. 1 /\ NvReady \in Nat /\ NvReady = 2 * keyFile.ctr - 1 + s
      BY <1>1, <1>2, <2>1
    <2> QED BY <1>2, <2>2, CmpTolerance
  <1>4. keyFile \notin {NoFile, Garbage} /\ tableFile \notin {NoFile, Garbage}
    <2>1. saved \in [Entry -> Int \cup {NoEntry}]
      BY <1>1 DEF Table
    <2>2. tableFile \in [key : Nat, table : [Entry -> Int \cup {NoEntry}]]
      BY <1>1, <1>2, <2>1
    <2> QED BY <1>1, <2>2, FileAssumption
  <1>5. KeysUnseal
    BY <1>3, <1>4 DEF KeysUnseal
  <1>6. ReadRollbackTable(keyFile.key) = saved
    BY <1>1, <1>4 DEF ReadRollbackTable
  <1> QED BY <1>5, <1>6 DEF LoadedTable

\* With serial calls, a table that was saved completely is loaded again as
\* long as no later save was begun and the host started at most once.
THEOREM TableIsDurable ==
  ASSUME Serial
  PROVE  Spec => [](TypeOK /\ Durable)
  <1>1. DurableInv /\ [Next]_vars => DurableInv'
    BY NextDurable
  <1>2. DurableInv => TypeOK /\ Durable
    BY DurableInvImplies DEF DurableInv
  <1> QED BY <1>1, <1>2, InitDurable, PTL DEF Spec

----------------------------------------------------------------------------
\* A call about to write an entry writes no less than the table holds.
GrowInv ==
    \A t \in Caller : call[t].pc = "update" =>
        \/ rbTable[call[t].entry] = NoEntry
        \/ rbTable[call[t].entry] <= call[t].ctr

\* The lookups of InitCounter and of RollbackProtectedSeal establish it.
LEMMA LookupGrow ==
  ASSUME Serial, DurableInv, NEW t \in Caller, Lookup(t)
  PROVE  GrowInv' /\ rbTable' = rbTable
  <1>1. /\ rbTable' = rbTable /\ rbTable \in Table
        /\ call[t].entry \in Entry /\ call[t] \in Call /\ call[t].ctr \in Nat
        /\ call \in [Caller -> Call]
        /\ \A u \in Caller : u = t
    BY Zenon DEF Lookup, DurableInv, CallInv, TypeOK, Serial, Call
  <1>2. rbTable[call[t].entry] \in Nat \cup {NoEntry}
    BY <1>1 DEF Table
  <1>3. CASE LookupForInit(t)
    <2>1. CASE call' = [call EXCEPT ![t] = Idle]
      BY <1>1, <2>1 DEF GrowInv, Idle
    <2>2. CASE /\ \/ rbTable[call[t].entry] = NoEntry
                  \/ rbTable[call[t].entry] <= call[t].ctr
               /\ call' = [call EXCEPT ![t] = [call[t] EXCEPT !.pc = "update"]]
      <3>1. call'[t].entry = call[t].entry /\ call'[t].ctr = call[t].ctr
        BY <1>1, <2>2, Zenon DEF Call
      <3> QED BY <1>1, <2>2, <3>1 DEF GrowInv
    <2> QED BY <1>3, <2>1, <2>2, Zenon DEF LookupForInit
  <1>4. CASE LookupForSeal(t)
    <2>1. CASE call' = [call EXCEPT ![t] = Idle]
      BY <1>1, <2>1 DEF GrowInv, Idle
    <2>2. CASE /\ rbTable[call[t].entry] # NoEntry
               /\ call' = [call EXCEPT ![t] =
                     [call[t] EXCEPT !.pc = "update",
                                     !.ctr = rbTable[call[t].entry] + 1]]
      <3> DEFINE n == rbTable[call[t].entry]
      <3>1. call'[t].entry = call[t].entry /\ call'[t].ctr = n + 1
        BY <1>1, <2>2, Zenon DEF Call
      <3>2. n \in Nat
        BY <1>2, <2>2
      <3>3. n <= n + 1
        BY <3>2
      <3> QED BY <1>1, <3>1, <3>3 DEF GrowInv
    <2> QED BY <1>4, <2>1, <2>2, Zenon DEF LookupForSeal
  <1>5. CASE LookupForGet(t) \/ LookupForUnseal(t)
    <2>1. call' = [call EXCEPT ![t] = Idle]
      BY <1>5, Zenon DEF LookupForGet, LookupForUnseal
    <2>2. call'[t].pc = "idle"
      BY <2>1, IdleStep, Zenon DEF DurableInv
    <2> QED BY <1>1, <2>2 DEF GrowInv
  <1> QED BY <1>1, <1>3, <1>4, <1>5 DEF Lookup

\* The write itself raises the entry, and the call has written.
LEMMA UpdateGrow ==
  ASSUME Serial, DurableInv, GrowInv, NEW t \in Caller, UpdateRollbackEntry(t)
  PROVE  /\ GrowInv'
         /\ \A e \in Entry : rbTable[e] # NoEntry =>
               rbTable'[e] # NoEntry /\ rbTable[e] <= rbTable'[e]
  <1>1. /\ rbTable \in Table /\ call[t].pc = "update"
        /\ call[t].entry \in Entry /\ call[t] \in Call /\ call[t].ctr \in Nat
        /\ call \in [Caller -> Call]
        /\ \A u \in Caller : u = t
    BY Zenon DEF UpdateRollbackEntry, DurableInv, CallInv, TypeOK, Serial, Call
  <1>2. call'[t].pc \in {"tpm", "idle"}
    BY <1>1, Zenon DEF UpdateRollbackEntry, Idle, Call
  <1>3. GrowInv'
    BY <1>1, <1>2 DEF GrowInv
  <1>4. ASSUME NEW e \in Entry, rbTable[e] # NoEntry
        PROVE  rbTable'[e] # NoEntry /\ rbTable[e] <= rbTable'[e]
    <2>1. rbTable[e] \in Nat
      BY <1>1, <1>4 DEF Table
    <2>2. CASE e = call[t].entry
      <3>1. rbTable'[e] = call[t].ctr
        BY <1>1, <2>2 DEF UpdateRollbackEntry, Table
      <3>2. rbTable[e] <= call[t].ctr
        BY <1>1, <1>4, <2>2 DEF GrowInv
      <3> QED BY <1>1, <3>1, <3>2, NoEntryAssumption
    <2>3. CASE e # call[t].entry
      <3>1. rbTable'[e] = rbTable[e]
        BY <1>1, <2>3 DEF UpdateRollbackEntry, Table
      <3> QED BY <1>4, <2>1, <3>1
    <2> QED BY <2>2, <2>3
  <1> QED BY <1>3, <1>4

\* A save does not touch the table in memory, and no call in it is about to
\* write an entry.
LEMMA SaveGrow ==
  ASSUME Serial, DurableInv, NEW t \in Caller,
         \/ TpmIncrement(t) \/ TpmIncrementAgain(t) \/ TpmSeal(t)
         \/ WriteKey(t) \/ WriteTable(t) \/ ReturnSealed(t)
  PROVE  GrowInv' /\ rbTable' = rbTable
  <1>1. /\ call[t] \in Call /\ call \in [Caller -> Call]
        /\ \A u \in Caller : u = t
    BY Zenon DEF DurableInv, TypeOK, Serial
  <1>2. rbTable' = rbTable
    BY Zenon DEF TpmIncrement, TpmIncrementAgain, TpmSeal, WriteKey, WriteTable,
           ReturnSealed
  <1>3. call'[t].pc # "update"
    <2>1. CASE \E x \in {"return", "tpm again", "tpm seal", "write table"} :
                 call' = [call EXCEPT ![t].pc = x]
      <3>1. PICK x \in {"return", "tpm again", "tpm seal", "write table"} :
                 call' = [call EXCEPT ![t].pc = x]
        BY <2>1, Zenon
      <3>2. call'[t].pc = x
        BY <3>1, PcStep, Zenon DEF DurableInv
      <3> QED BY <3>2, Zenon
    <2>2. CASE TpmIncrement(t)
      BY <2>1, <2>2, Zenon DEF TpmIncrement, SaveFails
    <2>3. CASE TpmIncrementAgain(t) \/ WriteKey(t) \/ WriteTable(t)
      BY <2>1, <2>3, Zenon DEF TpmIncrementAgain, WriteKey, WriteTable, SaveFails
    <2>4. CASE TpmSeal(t)
      <3>1. CASE call' = [call EXCEPT ![t] = [call[t] EXCEPT !.pc = "write key",
                                                !.key = lastKey + 1,
                                                !.cmp = Cmp(nv)]]
        BY <1>1, <3>1, Zenon DEF Call
      <3> QED BY <2>1, <2>4, <3>1, Zenon DEF TpmSeal, SaveFails
    <2>5. CASE ReturnSealed(t)
      BY <2>5, IdleStep, Zenon DEF ReturnSealed, DurableInv
    <2> QED BY <2>2, <2>3, <2>4, <2>5
  <1> QED BY <1>1, <1>2, <1>3 DEF GrowInv

\* Every step of serial calls keeps the counters from going down.
LEMMA NextGrow ==
  ASSUME Serial, DurableInv, GrowInv, [Next]_vars
  PROVE  /\ GrowInv'
         /\ rbTable # NoTable /\ rbTable' # NoTable =>
              \A e \in Entry : rbTable[e] # NoEntry =>
                 rbTable'[e] # NoEntry /\ rbTable[e] <= rbTable'[e]
  <1> DEFINE Up == rbTable # NoTable /\ rbTable' # NoTable =>
              \A e \in Entry : rbTable[e] # NoEntry =>
                 rbTable'[e] # NoEntry /\ rbTable[e] <= rbTable'[e]
  <1> SUFFICES GrowInv' /\ Up
    OBVIOUS
  <1>1. rbTable' = rbTable => Up
    <2> SUFFICES ASSUME rbTable' = rbTable, rbTable # NoTable,
                        NEW e \in Entry, rbTable[e] # NoEntry
                 PROVE  rbTable[e] <= rbTable[e]
      OBVIOUS
    <2>1. rbTable[e] \in Nat
      BY Zenon DEF DurableInv, TypeOK, Table
    <2> QED BY <2>1
  <1>2. CASE UNCHANGED vars
    <2>1. rbTable' = rbTable /\ call' = call
      BY <1>2 DEF vars
    <2> QED BY <1>1, <2>1 DEF GrowInv
  <1>3. ASSUME NEW t \in Caller, NEW op, NEW e, NEW c, Invoke(t, op, e, c)
        PROVE  GrowInv' /\ Up
    <2>1. call'[t].pc = "lookup" /\ \A u \in Caller : u = t
      BY <1>3, Zenon DEF Invoke, DurableInv, TypeOK, Idle, Serial
    <2>2. rbTable # NoTable => rbTable' = rbTable
      BY <1>3 DEF Invoke, LoadIfNil
    <2> QED BY <1>1, <2>1, <2>2 DEF GrowInv
  <1>4. CASE Down
    <2>1. rbTable' = NoTable /\ \A t \in Caller : call'[t].pc = "idle"
      BY <1>4, Zenon DEF Down, Idle
    <2> QED BY <2>1 DEF GrowInv
  <1>5. CASE Restart
    <2>1. rbTable' = rbTable /\ call' = call
      BY <1>5 DEF Restart
    <2> QED BY <1>1, <2>1 DEF GrowInv
  <1>6. ASSUME NEW t \in Caller, Lookup(t) PROVE GrowInv' /\ Up
    BY <1>1, <1>6, LookupGrow
  <1>7. ASSUME NEW t \in Caller, UpdateRollbackEntry(t) PROVE GrowInv' /\ Up
    BY <1>7, UpdateGrow
  <1>8. ASSUME NEW t \in Caller,
               \/ TpmIncrement(t) \/ TpmIncrementAgain(t) \/ TpmSeal(t)
               \/ WriteKey(t) \/ WriteTable(t) \/ ReturnSealed(t)
        PROVE  GrowInv' /\ Up
    BY <1>1, <1>8, SaveGrow
  <1>9. TypeOK
    BY DEF DurableInv
  <1> HIDE DEF Up
  <1>10. CASE Next
    <2>1. CASE Down \/ Restart
      BY <1>4, <1>5, <2>1
    <2>2. CASE \E t \in Caller :
                 \/ \E op \in {"init", "get", "seal", "unseal"}, e \in Entry, c \in Nat :
                       Invoke(t, op, e, c)
                 \/ Lookup(t) \/ UpdateRollbackEntry(t)
                 \/ TpmIncrement(t) \/ TpmIncrementAgain(t) \/ TpmSeal(t)
                 \/ WriteKey(t) \/ WriteTable(t) \/ ReturnSealed(t)
      BY <1>3, <1>6, <1>7, <1>8, <2>2
    <2> QED BY <1>9, <1>10, <2>1, <2>2, NextCases
  <1> QED BY <1>2, <1>10

\* With serial calls no counter of the table goes down while the host runs.
THEOREM CountersOnlyGrow ==
  ASSUME Serial
  PROVE  Spec => CountersGrow
  <1>1. Init => DurableInv /\ GrowInv
    BY InitDurable DEF Init, GrowInv, Idle
  <1>2. DurableInv /\ GrowInv /\ [Next]_vars => (DurableInv /\ GrowInv)'
    BY NextDurable, NextGrow
  <1>3. DurableInv /\ GrowInv /\ [Next]_vars =>
          [rbTable # NoTable /\ rbTable' # NoTable =>
             \A e \in Entry : rbTable[e] # NoEntry =>
                rbTable'[e] # NoEntry /\ rbTable[e] <= rbTable'[e]]_vars
    BY NextGrow
  <1> QED BY <1>1, <1>2, <1>3, PTL DEF Spec, CountersGrow

----------------------------------------------------------------------------
(***************************************************************************)
(* Any number of goroutines.  What holds when calls interleave: a call past *)
(* its lookup has a table in memory, since only the end of the process     *)
(* takes it away, and the end of the process ends the calls too.           *)
(***************************************************************************)
Served(c, table) ==
    /\ c.pc # "idle" => c.entry \in Entry
    /\ c.pc \notin {"idle", "lookup"} => table # NoTable

SharedInv ==
    TypeOK /\ IsFiniteSet(blobs) /\ \A t \in Caller : Served(call[t], rbTable)

\* One caller takes a step; the table stays, if there is one.
LEMMA CallerStep ==
  ASSUME SharedInv, NEW t \in Caller, NEW x \in Call, call' = [call EXCEPT ![t] = x],
         Served(x, rbTable'), rbTable # NoTable => rbTable' # NoTable
  PROVE  call' \in [Caller -> Call] /\ \A u \in Caller : Served(call'[u], rbTable')
  <1>1. call \in [Caller -> Call] /\ \A u \in Caller : Served(call[u], rbTable)
    BY Zenon DEF SharedInv, TypeOK
  <1>2. call' \in [Caller -> Call] /\ call'[t] = x /\ \A u \in Caller : u # t => call'[u] = call[u]
    BY <1>1
  <1>3. ASSUME NEW u \in Caller, u # t PROVE Served(call'[u], rbTable')
    BY <1>1, <1>2, <1>3 DEF Served
  <1> QED BY <1>2, <1>3

\* A call that has ended needs nothing.
LEMMA IdleServed == \A table : Served(Idle, table)
  BY DEF Served, Idle

\* A step that only moves a program counter past the lookup.
LEMMA PcServed ==
  ASSUME SharedInv, NEW t \in Caller, call[t].pc \notin {"idle", "lookup"},
         NEW x \in {"return", "tpm", "tpm again", "tpm seal", "write table", "update"},
         call' = [call EXCEPT ![t].pc = x], rbTable' = rbTable
  PROVE  call' \in [Caller -> Call] /\ \A u \in Caller : Served(call'[u], rbTable')
  <1> DEFINE c == [call[t] EXCEPT !.pc = x]
  <1>1. call[t] \in Call /\ Served(call[t], rbTable)
    BY Zenon DEF SharedInv, TypeOK
  <1>2. c \in Call /\ c.pc = x /\ c.entry = call[t].entry
    BY <1>1, Zenon DEF Call
  <1>3. call' = [call EXCEPT ![t] = c]
    BY Zenon
  <1> HIDE DEF c
  <1>4. Served(c, rbTable')
    BY <1>1, <1>2, Zenon DEF Served
  <1> QED BY <1>2, <1>3, <1>4, CallerStep, Zenon

\* The start of a call.
LEMMA InvokeShared ==
  ASSUME SharedInv, NEW t \in Caller,
         NEW op \in {"init", "get", "seal", "unseal"}, NEW e \in Entry, NEW c \in Nat,
         Invoke(t, op, e, c)
  PROVE  SharedInv'
  <1> DEFINE x == [Idle EXCEPT !.pc = "lookup", !.op = op, !.entry = e, !.ctr = c,
                               !.since = Cardinality(blobs)]
  <1>1. TypeOK /\ Cardinality(blobs) \in Nat
    BY FS_CardinalityType DEF SharedInv
  <1>2. LoadedTable(op) \in Table \cup {NoTable}
    BY <1>1, LoadedType
  <1>3. x \in Call /\ x.pc = "lookup" /\ x.entry \in Entry
    BY <1>1, IdleType, Zenon DEF Call
  <1>4. call' = [call EXCEPT ![t] = x]
    BY DEF Invoke
  <1> HIDE DEF x
  <1>5. rbTable' \in Table \cup {NoTable} /\ (rbTable # NoTable => rbTable' = rbTable)
    BY <1>1, <1>2, Zenon DEF Invoke, LoadIfNil, TypeOK
  <1>6. Served(x, rbTable')
    BY <1>3 DEF Served
  <1>7. call' \in [Caller -> Call] /\ \A u \in Caller : Served(call'[u], rbTable')
    BY <1>3, <1>4, <1>5, <1>6, CallerStep, Zenon
  <1>8. nv' \in Nat /\ starts' \in Nat /\ nvHandle' \in BOOLEAN
    <2>1. CASE rbTable = NoTable /\ keyFile # NoFile
      BY <1>1, <2>1, InitCounterShift DEF Invoke, LoadIfNil
    <2>2. CASE ~(rbTable = NoTable /\ keyFile # NoFile)
      BY <1>1, <2>2, Zenon DEF Invoke, LoadIfNil, TypeOK, tpmVars
    <2> QED BY <2>1, <2>2
  <1>9. events' \subseteq Events
    BY <1>1, Zenon DEF Invoke, LoadIfNil, TypeOK, Events
  <1>10. TypeOK'
    BY <1>1, <1>5, <1>7, <1>8, <1>9, Zenon DEF Invoke, TypeOK, hostVars, fileVars
  <1>11. IsFiniteSet(blobs')
    BY DEF Invoke, SharedInv
  <1> QED BY <1>7, <1>10, <1>11 DEF SharedInv

\* The lookups of the four operations.
LEMMA LookupShared ==
  ASSUME SharedInv, NEW t \in Caller, Lookup(t)
  PROVE  SharedInv'
  <1>1. /\ rbTable # NoTable /\ rbTable \in Table /\ call[t] \in Call /\ TypeOK
        /\ call[t].pc = "lookup" /\ call[t].entry \in Entry
    BY Zenon DEF Lookup, SharedInv, Served, TypeOK
  <1>2. UNCHANGED <<up, restarts, rbTable, nv, nvHandle, keyFile, tableFile, lastKey, blobs,
                    saved, saving, starts>>
    BY DEF Lookup, hostVars, tpmVars, fileVars
  <1>3. /\ events' \subseteq Events
        /\ verdict' \subseteq {"stale accepted", "latest refused"}
    BY <1>1, Zenon DEF Lookup, LookupForInit, LookupForGet, LookupForSeal, LookupForUnseal, TypeOK,
                Events
  <1>4. \E x \in Call : call' = [call EXCEPT ![t] = x] /\ Served(x, rbTable')
    <2>1. CASE call' = [call EXCEPT ![t] = Idle]
      BY <2>1, IdleServed, IdleType, Zenon
    <2>2. CASE LookupForInit(t)
      <3> DEFINE y == [call[t] EXCEPT !.pc = "update"]
      <3>1. CASE call' = [call EXCEPT ![t] = y]
        <4>1. y \in Call /\ y.entry = call[t].entry
          BY <1>1, Zenon DEF Call
        <4> HIDE DEF y
        <4> QED BY <1>1, <1>2, <3>1, <4>1, Zenon DEF Served
      <3> QED BY <2>1, <2>2, <3>1, Zenon DEF LookupForInit
    <2>3. CASE LookupForSeal(t)
      <3> DEFINE n == rbTable[call[t].entry] + 1
                 y == [call[t] EXCEPT !.pc = "update", !.ctr = n]
      <3>1. CASE rbTable[call[t].entry] # NoEntry /\ call' = [call EXCEPT ![t] = y]
        <4>1. n \in Nat
          BY <1>1, <3>1 DEF Table
        <4> HIDE DEF n
        <4>2. y \in Call /\ y.entry = call[t].entry
          BY <1>1, <4>1, Zenon DEF Call
        <4> HIDE DEF y
        <4> QED BY <1>1, <1>2, <3>1, <4>2, Zenon DEF Served
      <3> QED BY <2>1, <2>3, <3>1, Zenon DEF LookupForSeal
    <2>4. CASE LookupForGet(t) \/ LookupForUnseal(t)
      BY <2>1, <2>4, Zenon DEF LookupForGet, LookupForUnseal
    <2> QED BY <2>2, <2>3, <2>4 DEF Lookup
  <1>5. call' \in [Caller -> Call] /\ \A u \in Caller : Served(call'[u], rbTable')
    BY <1>2, <1>4, CallerStep, Zenon
  <1>6. TypeOK'
    BY <1>1, <1>2, <1>3, <1>5, Zenon DEF TypeOK
  <1> QED BY <1>2, <1>5, <1>6 DEF SharedInv

\* Writing an entry: there is a table to write it to.
LEMMA UpdateShared ==
  ASSUME SharedInv, NEW t \in Caller, UpdateRollbackEntry(t)
  PROVE  SharedInv'
  <1>1. /\ rbTable \in Table /\ call[t] \in Call /\ TypeOK /\ call[t].pc = "update"
        /\ call[t].entry \in Entry /\ call[t].ctr \in Nat
    BY Zenon DEF UpdateRollbackEntry, SharedInv, Served, TypeOK, Call
  <1>2. rbTable' \in Table /\ rbTable' # NoTable
    <2>1. rbTable' \in Table
      BY <1>1 DEF UpdateRollbackEntry, Table
    <2> QED BY <2>1, NoTableAssumption DEF Table
  <1>3. \E x \in Call : call' = [call EXCEPT ![t] = x] /\ Served(x, rbTable')
    <2> DEFINE y == [call[t] EXCEPT !.pc = "tpm"]
    <2>1. y \in Call /\ y.entry = call[t].entry
      BY <1>1, Zenon DEF Call
    <2>2. call' = [call EXCEPT ![t] = Idle] \/ call' = [call EXCEPT ![t] = y]
      BY Zenon DEF UpdateRollbackEntry
    <2> HIDE DEF y
    <2> QED BY <1>1, <1>2, <2>1, <2>2, IdleServed, IdleType DEF Served
  <1>4. call' \in [Caller -> Call] /\ \A u \in Caller : Served(call'[u], rbTable')
    BY <1>2, <1>3, CallerStep, Zenon
  <1>5. UNCHANGED <<up, restarts, nv, nvHandle, keyFile, tableFile, lastKey, blobs,
                    saved, saving, starts, events, verdict>>
    BY DEF UpdateRollbackEntry, hostVars, tpmVars, fileVars, histVars
  <1>6. TypeOK'
    BY <1>1, <1>2, <1>4, <1>5, Zenon DEF TypeOK
  <1> QED BY <1>4, <1>5, <1>6 DEF SharedInv

\* The steps of a save that only move the program counter of their caller.
LEMMA SaveShared ==
  ASSUME SharedInv, NEW t \in Caller,
         TpmIncrement(t) \/ TpmIncrementAgain(t) \/ WriteKey(t) \/ WriteTable(t)
  PROVE  SharedInv'
  <1>1. /\ TypeOK /\ call[t] \in Call /\ call[t].pc \notin {"idle", "lookup"}
        /\ rbTable # NoTable /\ rbTable \in Table
    BY Zenon DEF SharedInv, Served, TypeOK, TpmIncrement, TpmIncrementAgain, WriteKey, WriteTable
  <1>2. UNCHANGED <<up, restarts, rbTable, lastKey, blobs, verdict>>
    BY Zenon DEF TpmIncrement, TpmIncrementAgain, WriteKey, WriteTable, hostVars, fileVars
  <1>3. \E x \in {"return", "tpm again", "tpm seal", "write table"} :
            call' = [call EXCEPT ![t].pc = x]
    BY Zenon DEF TpmIncrement, TpmIncrementAgain, WriteKey, WriteTable, SaveFails
  <1>4. call' \in [Caller -> Call] /\ \A u \in Caller : Served(call'[u], rbTable')
    BY <1>1, <1>2, <1>3, PcServed, Zenon
  <1>5. events' \subseteq Events
    BY <1>1, Zenon DEF TpmIncrement, TpmIncrementAgain, WriteKey, WriteTable, SaveFails, TypeOK, Events
  <1>6. nv' \in Nat /\ nvHandle' \in BOOLEAN /\ starts' \in Nat
    <2>1. nv \in Nat /\ starts \in Nat /\ nvHandle \in BOOLEAN
      BY <1>1, Zenon DEF TypeOK
    <2>2. CASE TpmIncrement(t)
      <3>1. NvReady \in Nat
        BY <2>1 DEF NvReady
      <3>2. PICK n \in {NvReady, NvReady + 1} : TpmInitCounter(n)
        BY <2>2, Zenon DEF TpmIncrement
      <3>3. n \in Nat
        BY <3>1
      <3> QED BY <2>1, <3>2, <3>3 DEF TpmInitCounter
    <2>3. CASE TpmIncrementAgain(t)
      <3>1. nv' \in {nv, nv + 1} /\ starts' = starts /\ nvHandle' = nvHandle
        BY <2>3, Zenon DEF TpmIncrementAgain
      <3> QED BY <2>1, <3>1
    <2>4. CASE WriteKey(t)
      BY <2>1, <2>4, Zenon DEF WriteKey, tpmVars
    <2>5. CASE WriteTable(t)
      <3>1. nv' = nv /\ nvHandle' = nvHandle /\ starts' \in {0, starts}
        BY <2>5, Zenon DEF WriteTable, tpmVars
      <3> QED BY <2>1, <3>1
    <2> QED BY <2>2, <2>3, <2>4, <2>5
  <1>7. /\ keyFile' \in [key : Nat, ctr : Nat] \cup {NoFile, Garbage}
        /\ tableFile' \in [key : Nat, table : Table] \cup {NoFile, Garbage}
        /\ saved' \in Table \cup {NoTable} /\ saving' \in BOOLEAN
    <2>1. /\ keyFile \in [key : Nat, ctr : Nat] \cup {NoFile, Garbage}
          /\ tableFile \in [key : Nat, table : Table] \cup {NoFile, Garbage}
          /\ saved \in Table \cup {NoTable} /\ saving \in BOOLEAN
          /\ call[t].key \in Nat /\ call[t].cmp \in Nat
      BY <1>1, Zenon DEF TypeOK, Call
    <2>2. CASE TpmIncrement(t)
      BY <2>1, <2>2, Zenon DEF TpmIncrement, fileVars
    <2>3. CASE TpmIncrementAgain(t)
      BY <2>1, <2>3, Zenon DEF TpmIncrementAgain, fileVars
    <2>4. CASE WriteKey(t)
      <3>1. [key |-> call[t].key, ctr |-> call[t].cmp] \in [key : Nat, ctr : Nat]
        BY <2>1
      <3> QED BY <2>1, <2>4, <3>1, Zenon DEF WriteKey
    <2>5. CASE WriteTable(t)
      <3>1. [key |-> call[t].key, table |-> rbTable] \in [key : Nat, table : Table]
        BY <1>1, <2>1
      <3> QED BY <1>1, <2>1, <2>5, <3>1, Zenon DEF WriteTable
    <2> QED BY <2>2, <2>3, <2>4, <2>5
  <1>8. TypeOK'
    BY <1>1, <1>2, <1>4, <1>5, <1>6, <1>7, Zenon DEF TypeOK
  <1> QED BY <1>2, <1>4, <1>8 DEF SharedInv

\* Sealing the fresh keys with the counter that is read back.
LEMMA TpmSealShared ==
  ASSUME SharedInv, NEW t \in Caller, TpmSeal(t)
  PROVE  SharedInv'
  <1>1. /\ TypeOK /\ call[t] \in Call /\ call[t].pc = "tpm seal" /\ Served(call[t], rbTable)
        /\ lastKey \in Nat /\ nv \in Nat
    BY Zenon DEF SharedInv, TypeOK, TpmSeal
  <1>2. UNCHANGED <<up, restarts, rbTable, nv, nvHandle, keyFile, tableFile, blobs, saved,
                    saving, starts, verdict>>
    BY Zenon DEF TpmSeal, hostVars, tpmVars
  <1>3. lastKey' \in Nat
    <2>1. lastKey' = lastKey + 1
      BY Zenon DEF TpmSeal
    <2>2. lastKey \in Nat
      BY <1>1, Zenon
    <2> QED BY <2>1, <2>2
  <1>4. call' \in [Caller -> Call] /\ \A u \in Caller : Served(call'[u], rbTable')
    <2> DEFINE k == lastKey + 1
               m == Cmp(nv)
               y == [call[t] EXCEPT !.pc = "write key", !.key = k, !.cmp = m]
    <2>1. CASE call' = [call EXCEPT ![t] = y]
      <3>1. lastKey \in Nat /\ nv \in Nat
        BY <1>1, Zenon
      <3>2. k \in Nat
        BY <3>1
      <3>3. m \in Nat
        BY <3>1, CmpType
      <3>4. k \in Nat /\ m \in Nat
        BY <3>2, <3>3
      <3> HIDE DEF k, m
      <3>5. y \in Call /\ y.pc = "write key" /\ y.entry = call[t].entry
        BY <1>1, <3>4, Zenon DEF Call
      <3> HIDE DEF y
      <3>6. Served(y, rbTable')
        BY <1>1, <1>2, <3>5, Zenon DEF Served
      <3> QED BY <1>2, <2>1, <3>5, <3>6, CallerStep, Zenon
    <2>2. CASE SaveFails(t)
      BY <1>1, <1>2, <2>2, PcServed, Zenon DEF SaveFails
    <2> QED BY <2>1, <2>2, Zenon DEF TpmSeal
  <1>5. events' \subseteq Events
    BY <1>1, Zenon DEF TpmSeal, SaveFails, TypeOK, Events
  <1>6. TypeOK'
    BY <1>1, <1>2, <1>3, <1>4, <1>5, Zenon DEF TypeOK
  <1> QED BY <1>2, <1>4, <1>6 DEF SharedInv

\* The sealed data is handed out.
LEMMA ReturnShared ==
  ASSUME SharedInv, NEW t \in Caller, ReturnSealed(t)
  PROVE  SharedInv'
  <1> DEFINE b == [entry |-> call[t].entry, ctr |-> call[t].ctr, since |-> call[t].since,
                   seq |-> Cardinality(blobs) + 1]
  <1>1. /\ TypeOK /\ call[t] \in Call /\ call[t].entry \in Entry /\ IsFiniteSet(blobs)
        /\ Cardinality(blobs) \in Nat
    BY FS_CardinalityType, Zenon DEF SharedInv, Served, TypeOK, ReturnSealed
  <1>2. blobs' = blobs \cup {b} /\ call' = [call EXCEPT ![t] = Idle]
        /\ UNCHANGED <<up, restarts, rbTable, nv, nvHandle, keyFile, tableFile, lastKey,
                       saved, saving, starts, events, verdict>>
    BY Zenon DEF ReturnSealed, hostVars, tpmVars, fileVars, histVars
  <1>3. b \in Blob
    <2>1. call[t].ctr \in Nat /\ call[t].since \in Nat
      BY <1>1, Zenon DEF Call
    <2>2. Cardinality(blobs) \in Nat
      BY <1>1
    <2>3. Cardinality(blobs) + 1 \in Nat
      BY <2>2
    <2> QED BY <1>1, <2>1, <2>3 DEF Blob
  <1> HIDE DEF b
  <1>4. IsFiniteSet(blobs') /\ blobs' \subseteq Blob
    BY <1>1, <1>2, <1>3, FS_AddElement, Zenon DEF TypeOK
  <1>5. call' \in [Caller -> Call] /\ \A u \in Caller : Served(call'[u], rbTable')
    BY <1>2, IdleServed, IdleType, CallerStep, Zenon
  <1>6. TypeOK'
    BY <1>1, <1>2, <1>4, <1>5, Zenon DEF TypeOK
  <1> QED BY <1>4, <1>5, <1>6 DEF SharedInv

\* The end of the process ends the calls, and a restart finds none.
LEMMA HostShared ==
  ASSUME SharedInv, Down \/ Restart
  PROVE  SharedInv'
  <1>1. TypeOK /\ IsFiniteSet(blobs) /\ \A t \in Caller : Served(call[t], rbTable)
    BY DEF SharedInv
  <1>2. CASE Down
    <2>1. call' \in [Caller -> Call] /\ \A t \in Caller : Served(call'[t], rbTable')
      BY <1>2, IdleServed, IdleType, Zenon DEF Down
    <2>2. /\ keyFile' \in {keyFile, Garbage} /\ tableFile' \in {tableFile, Garbage}
          /\ events' \subseteq Events
      BY <1>1, <1>2, Zenon DEF Down, Torn, TypeOK, Events
    <2>3. UNCHANGED <<restarts, nv, lastKey, blobs, saved, saving, starts, verdict>>
          /\ up' = FALSE /\ nvHandle' = FALSE /\ rbTable' = NoTable
      BY <1>2, Zenon DEF Down
    <2>4. TypeOK'
      BY <1>1, <2>1, <2>2, <2>3, Zenon DEF TypeOK
    <2> QED BY <1>1, <2>1, <2>3, <2>4 DEF SharedInv
  <1>3. CASE Restart
    <2>1. UNCHANGED <<rbTable, nv, nvHandle, keyFile, tableFile, lastKey, call, blobs, saved,
                      saving, starts, events, verdict>>
          /\ up' = TRUE /\ restarts' = restarts + 1
      BY <1>3 DEF Restart, tpmVars, fileVars, histVars
    <2>2. restarts \in Nat
      BY <1>1, Zenon DEF TypeOK
    <2>3. restarts' \in Nat
      BY <2>1, <2>2
    <2>4. TypeOK'
      BY <1>1, <2>1, <2>3, Zenon DEF TypeOK
    <2> QED BY <1>1, <2>1, <2>4 DEF SharedInv
  <1> QED BY <1>2, <1>3

\* Whatever the calls of hosted programs do to each other, and wherever a
\* crash strikes, every variable keeps its type: no entry is written through
\* a nil table and no blob or file has a counter that is not a number.
THEOREM TypeCorrect == Spec => []TypeOK
  <1>1. Init => SharedInv
    <2> SUFFICES ASSUME Init PROVE SharedInv
      OBVIOUS
    <2>1. TypeOK
      BY IdleType, Zenon DEF Init, TypeOK
    <2> QED BY <2>1, IdleServed, FS_EmptySet DEF Init, SharedInv
  <1>2. ASSUME SharedInv, [Next]_vars PROVE SharedInv'
    <2>1. CASE UNCHANGED vars
      <3>1. UNCHANGED <<up, restarts, rbTable, nv, nvHandle, keyFile, tableFile,
                        lastKey, call, blobs, saved, saving, starts, events, verdict>>
        BY <2>1 DEF vars, hostVars, tpmVars, fileVars, histVars
      <3> QED BY <1>2, <3>1, Zenon DEF SharedInv, TypeOK
    <2>2. CASE Next
      <3>1. TypeOK
        BY <1>2 DEF SharedInv
      <3> QED BY <1>2, <2>2, <3>1, NextCases, InvokeShared, LookupShared, UpdateShared,
                 SaveShared, TpmSealShared, ReturnShared, HostShared
    <2> QED BY <1>2, <2>1, <2>2
  <1>3. SharedInv => TypeOK
    BY DEF SharedInv
  <1> QED BY <1>1, <1>2, <1>3, PTL DEF Spec

----------------------------------------------------------------------------
(***************************************************************************)
(* Freshness.  With serial calls only the newest data sealed under a label *)
(* unseals, as long as no table was lost and no save has failed: what was  *)
(* handed out is covered by the saved table, the saved table by the one in *)
(* memory, and an accepted blob has the counter in memory; a newer blob    *)
(* has a larger counter, which cannot be.  And the newest does unseal: the *)
(* counter in memory is the one of the blob handed out last, unless a seal *)
(* under way has raised it.                                                *)
(***************************************************************************)
\* No table was lost, and no save has failed.
Good == events \cap {"lost", "unsaved"} = {}

\* Blobs are numbered in the order they were handed out, and a call began
\* when no more had been handed out than now.
SeqInv ==
    /\ \A b \in blobs : b.since < b.seq /\ b.seq <= Cardinality(blobs)
    /\ \A t \in Caller : call[t].since <= Cardinality(blobs)

\* Of two blobs of an entry the newer one has the larger counter.
OrderInv == \A b, b2 \in blobs : Newer(b2, b) => b.ctr < b2.ctr

\* Every blob handed out is covered by the saved table.
SavedInv ==
    \A b \in blobs : /\ saved # NoTable
                     /\ saved[b.entry] # NoEntry
                     /\ b.ctr <= saved[b.entry]

\* The table in memory is not behind the saved one.
MemoryInv ==
    rbTable # NoTable /\ saved # NoTable =>
        \A e \in Entry : saved[e] # NoEntry =>
            rbTable[e] # NoEntry /\ saved[e] <= rbTable[e]

\* A seal has the next counter; once that is in the table it is larger than
\* that of any blob of the entry, and when the seal returns it is saved.
SealInv ==
    \A t \in Caller :
        /\ call[t].pc = "update" /\ call[t].op = "seal" =>
              /\ rbTable[call[t].entry] # NoEntry
              /\ call[t].ctr = rbTable[call[t].entry] + 1
        /\ call[t].pc \in SavePcs \cup {"tpm", "return"} =>
              /\ rbTable[call[t].entry] = call[t].ctr
              /\ \A b \in blobs : b.entry = call[t].entry => b.ctr < call[t].ctr
        /\ call[t].pc = "return" =>
              saved # NoTable /\ saved[call[t].entry] = call[t].ctr

FreshInv ==
    /\ SeqInv
    /\ Good => /\ OrderInv /\ SavedInv /\ MemoryInv /\ SealInv
               /\ "stale accepted" \notin verdict

----------------------------------------------------------------------------
\* The number of blobs is a natural number.
LEMMA BlobCount ==
  ASSUME DurableInv PROVE Cardinality(blobs) \in Nat
  BY FS_CardinalityType DEF DurableInv

\* Initially there are no blobs and no calls.
LEMMA InitFresh == Init => FreshInv
  <1> SUFFICES ASSUME Init PROVE FreshInv
    OBVIOUS
  <1>1. blobs = {} /\ Cardinality(blobs) = 0
    BY FS_EmptySet DEF Init
  <1>2. \A t \in Caller : call[t].pc = "idle" /\ call[t].since = 0
    BY DEF Init, Idle
  <1>3. SeqInv
    BY <1>1, <1>2 DEF SeqInv
  <1>4. OrderInv /\ SavedInv /\ MemoryInv /\ SealInv
    BY <1>1, <1>2, Zenon DEF Init, OrderInv, SavedInv, MemoryInv, SealInv, SavePcs
  <1> QED BY <1>3, <1>4 DEF FreshInv, Init

\* A failed save ends the period in which freshness is promised.
LEMMA FailFresh ==
  ASSUME Serial, DurableInv, FreshInv, NEW t \in Caller, SaveFails(t),
         UNCHANGED blobs
  PROVE  FreshInv'
  <1>1. call'[t].since = call[t].since /\ \A u \in Caller : u = t
    BY PcStep, Zenon DEF SaveFails, DurableInv
  <1>2. SeqInv'
    BY <1>1, Zenon DEF SeqInv, FreshInv
  <1>3. ~Good'
    BY DEF SaveFails, Good
  <1> QED BY <1>2, <1>3, Zenon DEF FreshInv

\* A step of a save that succeeds changes nothing freshness depends on.
LEMMA SaveFresh ==
  ASSUME Serial, DurableInv, FreshInv, NEW t \in Caller,
         call[t].pc \in SavePcs \cup {"tpm"}, call'[t].pc \in SavePcs,
         call'[t].entry = call[t].entry, call'[t].ctr = call[t].ctr,
         call'[t].since = call[t].since,
         UNCHANGED <<rbTable, blobs, saved, verdict, events>>
  PROVE  FreshInv'
  <1>1. \A u \in Caller : u = t
    BY DEF Serial
  <1>2. SeqInv'
    BY <1>1, Zenon DEF SeqInv, FreshInv
  <1>3. ASSUME Good'
        PROVE  (OrderInv /\ SavedInv /\ MemoryInv)' /\ "stale accepted" \notin verdict'
    <2>1. Good
      BY <1>3 DEF Good
    <2> QED BY <2>1, Zenon DEF FreshInv, OrderInv, SavedInv, MemoryInv, Newer
  <1>4. ASSUME Good' PROVE SealInv'
    <2>1. SealInv
      BY <1>4, Zenon DEF Good, FreshInv
    <2>2. /\ rbTable[call[t].entry] = call[t].ctr
          /\ \A b \in blobs : b.entry = call[t].entry => b.ctr < call[t].ctr
      BY <2>1 DEF SealInv
    <2>3. call'[t].pc # "update" /\ call'[t].pc # "return"
      BY Zenon DEF SavePcs
    <2> QED BY <1>1, <2>2, <2>3 DEF SealInv
  <1> QED BY <1>2, <1>3, <1>4, Zenon DEF FreshInv


\* A call begins: a table that is loaded is the saved one, or it was lost.
LEMMA InvokeFresh ==
  ASSUME Serial, DurableInv, FreshInv, NEW t \in Caller, NEW op, NEW e, NEW c,
         Invoke(t, op, e, c)
  PROVE  FreshInv'
  <1>1. /\ call'[t].pc = "lookup" /\ call'[t].since = Cardinality(blobs)
        /\ \A u \in Caller : u = t
    BY Zenon DEF Invoke, DurableInv, TypeOK, Idle, Serial
  <1>2. UNCHANGED <<blobs, saved, verdict>>
    BY DEF Invoke
  <1>3. SeqInv'
    <2>1. Cardinality(blobs) <= Cardinality(blobs)
      BY BlobCount
    <2> QED BY <1>1, <1>2, <2>1, Zenon DEF SeqInv, FreshInv
  <1>4. ASSUME Good'
        PROVE  (OrderInv /\ SavedInv /\ MemoryInv /\ SealInv)'
               /\ "stale accepted" \notin verdict'
    <2>1. Good
      BY <1>4 DEF Good, Invoke, LoadIfNil
    <2>2. OrderInv' /\ SavedInv' /\ "stale accepted" \notin verdict'
      BY <1>2, <2>1, Zenon DEF FreshInv, OrderInv, SavedInv, Newer
    <2>3. SealInv'
      BY <1>1, Zenon DEF SealInv, SavePcs
    <2>4. CASE rbTable # NoTable
      <3>1. rbTable' = rbTable
        BY <2>4 DEF Invoke, LoadIfNil
      <3>2. MemoryInv'
        BY <1>2, <2>1, <3>1, Zenon DEF FreshInv, MemoryInv
      <3> QED BY <2>2, <2>3, <3>2, Zenon
    <2>5. CASE rbTable = NoTable
      <3>1. saved = NoTable \/ rbTable' = saved
        BY <1>4, <2>5 DEF Good, Invoke, LoadIfNil
      <3>2. saved \in Table \cup {NoTable}
        BY Zenon DEF DurableInv, TypeOK
      <3>3. \A n \in Nat : n <= n
        OBVIOUS
      <3>4. MemoryInv'
        BY <1>2, <3>1, <3>2, <3>3 DEF MemoryInv, Table
      <3> QED BY <2>2, <2>3, <3>4, Zenon
    <2> QED BY <2>4, <2>5, Zenon
  <1> QED BY <1>3, <1>4, Zenon DEF FreshInv

\* An accepted blob has the counter in memory, and no newer one has less.
LEMMA UnsealFresh ==
  ASSUME DurableInv, FreshInv, Good, NEW t \in Caller, rbTable # NoTable,
         LookupForUnseal(t)
  PROVE  "stale accepted" \notin verdict'
  <1> DEFINE e == call[t].entry
             c == call[t].ctr
             these == {b \in blobs : b.entry = e /\ b.ctr = c}
             older == \E b \in these : \E b2 \in blobs : Newer(b2, b)
  <1>1. SUFFICES ASSUME Accepted(e, c), older PROVE FALSE
    BY Zenon DEF LookupForUnseal, FreshInv
  <1>2. PICK b \in blobs : /\ b.entry = e /\ b.ctr = c
                           /\ \E b2 \in blobs : Newer(b2, b)
    BY <1>1
  <1>3. PICK b2 \in blobs : Newer(b2, b)
    BY <1>2
  <1>4. b2.entry = e /\ b.ctr < b2.ctr
    BY <1>2, <1>3, Zenon DEF FreshInv, OrderInv, Newer
  <1>5. /\ saved # NoTable /\ saved[e] # NoEntry /\ b2.ctr <= saved[e]
    BY <1>3, <1>4, Zenon DEF FreshInv, SavedInv
  <1>6. b2 \in Blob /\ b \in Blob /\ saved \in Table /\ rbTable \in Table
    BY <1>5, Zenon DEF DurableInv, TypeOK
  <1>7. e \in Entry /\ b.ctr \in Nat /\ b2.ctr \in Nat
    BY <1>4, <1>6 DEF Blob
  <1>8. rbTable[e] # NoEntry /\ saved[e] <= rbTable[e]
    BY <1>5, <1>7, Zenon DEF FreshInv, MemoryInv
  <1>9. rbTable[e] = b.ctr
    BY <1>1, <1>2 DEF Accepted
  <1>10. saved[e] \in Nat
    BY <1>5, <1>6, <1>7 DEF Table
  <1> QED BY <1>4, <1>5, <1>7, <1>8, <1>9, <1>10

\* The lookup of any call.
LEMMA LookupFresh ==
  ASSUME Serial, DurableInv, FreshInv, NEW t \in Caller, Lookup(t)
  PROVE  FreshInv'
  <1>1. /\ rbTable # NoTable /\ rbTable \in Table
        /\ call[t].entry \in Entry /\ call[t] \in Call /\ call[t].since \in Nat
        /\ call \in [Caller -> Call]
        /\ \A u \in Caller : u = t
    BY Zenon DEF Lookup, DurableInv, CallInv, TypeOK, Serial, Call
  <1>2. UNCHANGED <<rbTable, blobs, saved>>
    BY DEF Lookup
  <1>3. /\ call'[t].since \in {0, call[t].since}
        /\ call'[t].pc \in {"idle", "update"}
        /\ call'[t].pc = "update" /\ call'[t].op = "seal" =>
              /\ rbTable[call'[t].entry] # NoEntry
              /\ call'[t].ctr = rbTable[call'[t].entry] + 1
    <2>1. CASE call' = [call EXCEPT ![t] = Idle]
      <3>1. call'[t] = Idle
        BY <1>1, <2>1
      <3> QED BY <3>1 DEF Idle
    <2>2. CASE LookupForInit(t)
      <3>1. CASE call' = [call EXCEPT ![t] = [call[t] EXCEPT !.pc = "update"]]
        <4>1. call'[t] = [call[t] EXCEPT !.pc = "update"]
          BY <1>1, <3>1
        <4>2. call[t].op = "init"
          BY <2>2 DEF LookupForInit
        <4>3. call'[t].op = "init" /\ call'[t].pc = "update"
              /\ call'[t].since = call[t].since
          BY <1>1, <4>1, <4>2, Zenon DEF Call
        <4> QED BY <4>3
      <3> QED BY <2>1, <2>2, <3>1, Zenon DEF LookupForInit
    <2>3. CASE LookupForSeal(t)
      <3> DEFINE n == rbTable[call[t].entry] + 1
      <3>1. CASE /\ rbTable[call[t].entry] # NoEntry
                 /\ call' = [call EXCEPT ![t] =
                       [call[t] EXCEPT !.pc = "update", !.ctr = n]]
        <4> HIDE DEF n
        <4>1. call'[t] = [call[t] EXCEPT !.pc = "update", !.ctr = n]
          BY <1>1, <3>1
        <4>2. /\ call'[t].pc = "update" /\ call'[t].since = call[t].since
              /\ call'[t].entry = call[t].entry /\ call'[t].ctr = n
          BY <1>1, <4>1, Zenon DEF Call
        <4> QED BY <3>1, <4>2 DEF n
      <3> QED BY <2>1, <2>3, <3>1, Zenon DEF LookupForSeal
    <2>4. CASE LookupForGet(t) \/ LookupForUnseal(t)
      BY <2>1, <2>4, Zenon DEF LookupForGet, LookupForUnseal
    <2> QED BY <2>2, <2>3, <2>4 DEF Lookup
  <1>4. SeqInv'
    <2>1. Cardinality(blobs) \in Nat
      BY BlobCount
    <2>2. call[t].since <= Cardinality(blobs)
      BY Zenon DEF FreshInv, SeqInv
    <2>3. 0 <= Cardinality(blobs)
      BY <2>1
    <2> QED BY <1>1, <1>2, <1>3, <2>2, <2>3, Zenon DEF SeqInv, FreshInv
  <1>5. ASSUME Good'
        PROVE  (OrderInv /\ SavedInv /\ MemoryInv /\ SealInv)'
               /\ "stale accepted" \notin verdict'
    <2>1. events \subseteq events'
      BY Zenon DEF Lookup, LookupForInit, LookupForGet, LookupForSeal, LookupForUnseal
    <2>2. Good
      BY <1>5, <2>1 DEF Good
    <2>3. (OrderInv /\ SavedInv /\ MemoryInv)'
      BY <1>2, <2>2, Zenon DEF FreshInv, OrderInv, SavedInv, MemoryInv, Newer
    <2>4. SealInv'
      BY <1>1, <1>2, <1>3, Zenon DEF SealInv, SavePcs
    <2>5. "stale accepted" \notin verdict'
      <3>1. verdict' = verdict \/ LookupForUnseal(t)
        BY DEF Lookup, LookupForInit, LookupForGet, LookupForSeal
      <3> QED BY <1>1, <2>2, <3>1, UnsealFresh, Zenon DEF FreshInv
    <2> QED BY <2>3, <2>4, <2>5, Zenon
  <1> QED BY <1>4, <1>5, Zenon DEF FreshInv


\* A seal's counter, once written, is larger than any blob's.
LEMMA UpdateFresh ==
  ASSUME Serial, DurableInv, GrowInv, FreshInv, NEW t \in Caller,
         UpdateRollbackEntry(t)
  PROVE  FreshInv'
  <1> DEFINE e == call[t].entry
             c == call[t].ctr
  <1>1. /\ rbTable # NoTable /\ rbTable \in Table /\ call[t].pc = "update"
        /\ e \in Entry /\ call[t] \in Call /\ c \in Nat
        /\ call \in [Caller -> Call]
        /\ \A u \in Caller : u = t
    BY Zenon DEF UpdateRollbackEntry, DurableInv, CallInv, TypeOK, Serial, Call
  <1>2. UNCHANGED <<blobs, saved, events, verdict>>
    BY DEF UpdateRollbackEntry, histVars
  <1>3. \A x \in Entry : rbTable'[x] = IF x = e THEN c ELSE rbTable[x]
    BY <1>1 DEF UpdateRollbackEntry, Table
  <1>4. \/ call'[t] = Idle
        \/ /\ call[t].op = "seal" /\ call'[t].pc = "tpm"
           /\ call'[t].entry = e /\ call'[t].ctr = c
           /\ call'[t].since = call[t].since
    BY <1>1, Zenon DEF UpdateRollbackEntry, Call
  <1>5. SeqInv'
    <2>1. Cardinality(blobs) \in Nat
      BY BlobCount
    <2>2. call[t].since <= Cardinality(blobs)
      BY Zenon DEF FreshInv, SeqInv
    <2>3. 0 <= Cardinality(blobs)
      BY <2>1
    <2>4. call'[t].since <= Cardinality(blobs)
      BY <1>4, <2>2, <2>3 DEF Idle
    <2> QED BY <1>1, <1>2, <2>4, Zenon DEF SeqInv, FreshInv
  <1>6. ASSUME Good'
        PROVE  (OrderInv /\ SavedInv /\ MemoryInv /\ SealInv)'
               /\ "stale accepted" \notin verdict'
    <2>1. Good /\ OrderInv /\ SavedInv /\ MemoryInv /\ SealInv
      BY <1>2, <1>6, Zenon DEF Good, FreshInv
    <2>2. (OrderInv /\ SavedInv)' /\ "stale accepted" \notin verdict'
      BY <1>2, <2>1, Zenon DEF FreshInv, OrderInv, SavedInv, Newer
    <2>3. MemoryInv'
      <3> SUFFICES ASSUME saved # NoTable, NEW x \in Entry, saved[x] # NoEntry
                   PROVE  rbTable'[x] # NoEntry /\ saved[x] <= rbTable'[x]
        BY <1>2 DEF MemoryInv
      <3>1. rbTable[x] # NoEntry /\ saved[x] <= rbTable[x]
        BY <1>1, <2>1 DEF MemoryInv
      <3>2. saved[x] \in Nat /\ rbTable[x] \in Nat
        BY <1>1, <3>1, Zenon DEF DurableInv, TypeOK, Table
      <3>3. CASE x = e
        <4>1. rbTable[x] <= c
          BY <1>1, <3>1, <3>3 DEF GrowInv
        <4>2. saved[x] <= c
          BY <1>1, <3>1, <3>2, <4>1
        <4> QED BY <1>1, <1>3, <3>3, <4>2, NoEntryAssumption
      <3> QED BY <1>3, <3>1, <3>3
    <2>4. SealInv'
      <3>1. CASE call'[t] = Idle
        <4>1. call'[t].pc = "idle"
          BY <3>1 DEF Idle
        <4> QED BY <1>1, <4>1, Zenon DEF SealInv, SavePcs
      <3>2. CASE /\ call[t].op = "seal" /\ call'[t].pc = "tpm"
                 /\ call'[t].entry = e /\ call'[t].ctr = c
        <4>1. rbTable[e] # NoEntry /\ c = rbTable[e] + 1
          BY <1>1, <2>1, <3>2 DEF SealInv
        <4>2. ASSUME NEW b \in blobs, b.entry = e PROVE b.ctr < c
          <5>1. saved # NoTable /\ saved[e] # NoEntry /\ b.ctr <= saved[e]
            BY <2>1, <4>2 DEF SavedInv
          <5>2. saved[e] <= rbTable[e]
            BY <1>1, <2>1, <5>1 DEF MemoryInv
          <5>3. b.ctr \in Nat
            BY Zenon DEF DurableInv, TypeOK, Blob
          <5>4. saved[e] \in Nat /\ rbTable[e] \in Nat
            BY <1>1, <4>1, <5>1, Zenon DEF DurableInv, TypeOK, Table
          <5> QED BY <4>1, <5>1, <5>2, <5>3, <5>4
        <4>3. rbTable'[e] = c
          BY <1>1, <1>3
        <4> QED BY <1>1, <1>2, <3>2, <4>2, <4>3, Zenon DEF SealInv
      <3> QED BY <1>4, <3>1, <3>2
    <2> QED BY <2>2, <2>3, <2>4, Zenon
  <1> QED BY <1>5, <1>6, Zenon DEF FreshInv

\* The steps of a save before the table is written.
LEMMA TpmFresh ==
  ASSUME Serial, DurableInv, FreshInv, NEW t \in Caller,
         TpmIncrement(t) \/ TpmIncrementAgain(t) \/ TpmSeal(t) \/ WriteKey(t)
  PROVE  FreshInv'
  <1>1. /\ call[t] \in Call /\ call \in [Caller -> Call]
        /\ call[t].pc \in SavePcs \cup {"tpm"}
    BY Zenon DEF DurableInv, TypeOK, TpmIncrement, TpmIncrementAgain, TpmSeal,
           WriteKey, SavePcs
  <1>2. UNCHANGED <<rbTable, blobs, saved, verdict>>
    BY Zenon DEF TpmIncrement, TpmIncrementAgain, TpmSeal, WriteKey
  <1>3. CASE SaveFails(t)
    BY <1>2, <1>3, FailFresh
  <1>4. CASE /\ UNCHANGED events
             /\ \E x \in {"tpm again", "tpm seal", "write table"} :
                  call' = [call EXCEPT ![t].pc = x]
    <2>1. PICK x \in {"tpm again", "tpm seal", "write table"} :
                  call' = [call EXCEPT ![t].pc = x]
      BY <1>4, Zenon
    <2>2. /\ call'[t].pc = x /\ call'[t].entry = call[t].entry
          /\ call'[t].ctr = call[t].ctr /\ call'[t].since = call[t].since
      BY <2>1, PcStep, Zenon DEF DurableInv
    <2>3. call'[t].pc \in SavePcs
      BY <2>2, Zenon DEF SavePcs
    <2> QED BY <1>1, <1>2, <1>4, <2>2, <2>3, SaveFresh, Zenon
  <1>5. CASE /\ UNCHANGED events
             /\ call' = [call EXCEPT ![t] = [call[t] EXCEPT !.pc = "write key",
                                               !.key = lastKey + 1,
                                               !.cmp = Cmp(nv)]]
    <2>1. /\ call'[t].pc = "write key" /\ call'[t].entry = call[t].entry
          /\ call'[t].ctr = call[t].ctr /\ call'[t].since = call[t].since
      BY <1>1, <1>5, Zenon DEF Call
    <2>2. call'[t].pc \in SavePcs
      BY <2>1, Zenon DEF SavePcs
    <2> QED BY <1>1, <1>2, <1>5, <2>1, <2>2, SaveFresh, Zenon
  <1>6. CASE TpmIncrement(t)
    BY <1>3, <1>4, <1>6, Zenon DEF TpmIncrement
  <1>7. CASE TpmIncrementAgain(t)
    BY <1>3, <1>4, <1>7, Zenon DEF TpmIncrementAgain
  <1>8. CASE TpmSeal(t)
    BY <1>3, <1>5, <1>8, Zenon DEF TpmSeal
  <1>9. CASE WriteKey(t)
    BY <1>3, <1>4, <1>9, Zenon DEF WriteKey
  <1> QED BY <1>6, <1>7, <1>8, <1>9


\* Once the table is written it is the saved one.
LEMMA WriteTableFresh ==
  ASSUME Serial, DurableInv, FreshInv, NEW t \in Caller, WriteTable(t)
  PROVE  FreshInv'
  <1>1. /\ call[t].pc = "write table" /\ rbTable # NoTable /\ rbTable \in Table
        /\ call[t].entry \in Entry
        /\ UNCHANGED <<rbTable, blobs, verdict>>
    BY Zenon DEF WriteTable, DurableInv, CallInv, TypeOK
  <1>2. CASE SaveFails(t)
    BY <1>1, <1>2, FailFresh, Zenon
  <1>3. CASE /\ call' = [call EXCEPT ![t].pc = "return"]
             /\ saved' = rbTable /\ UNCHANGED events
    <2>1. /\ call'[t].pc = "return" /\ call'[t].entry = call[t].entry
          /\ call'[t].ctr = call[t].ctr /\ call'[t].since = call[t].since
          /\ \A u \in Caller : u = t
      BY <1>3, PcStep, Zenon DEF DurableInv
    <2>2. SeqInv'
      BY <1>1, <2>1, Zenon DEF SeqInv, FreshInv
    <2>3. ASSUME Good'
          PROVE  (OrderInv /\ SavedInv /\ MemoryInv /\ SealInv)'
                 /\ "stale accepted" \notin verdict'
      <3>1. Good /\ OrderInv /\ SavedInv /\ MemoryInv /\ SealInv
        BY <1>3, <2>3, Zenon DEF Good, FreshInv
      <3>2. OrderInv' /\ "stale accepted" \notin verdict'
        BY <1>1, <3>1, Zenon DEF FreshInv, OrderInv, Newer
      <3>3. SavedInv'
        <4> SUFFICES ASSUME NEW b \in blobs
                     PROVE  rbTable[b.entry] # NoEntry /\ b.ctr <= rbTable[b.entry]
          BY <1>1, <1>3, Zenon DEF SavedInv
        <4>1. b.entry \in Entry /\ b.ctr \in Nat
          BY Zenon DEF DurableInv, TypeOK, Blob
        <4>2. saved # NoTable /\ saved[b.entry] # NoEntry /\ b.ctr <= saved[b.entry]
          BY <3>1 DEF SavedInv
        <4>3. rbTable[b.entry] # NoEntry /\ saved[b.entry] <= rbTable[b.entry]
          BY <1>1, <3>1, <4>1, <4>2, Zenon DEF MemoryInv
        <4>4. saved[b.entry] \in Nat /\ rbTable[b.entry] \in Nat
          BY <1>1, <4>1, <4>2, <4>3, Zenon DEF DurableInv, TypeOK, Table
        <4> QED BY <4>1, <4>2, <4>3, <4>4
      <3>4. MemoryInv'
        <4>1. \A n \in Nat : n <= n
          OBVIOUS
        <4> QED BY <1>1, <1>3, <4>1, Zenon DEF MemoryInv, Table
      <3>5. SealInv'
        <4>1. /\ rbTable[call[t].entry] = call[t].ctr
              /\ \A b \in blobs : b.entry = call[t].entry => b.ctr < call[t].ctr
          BY <1>1, <3>1, Zenon DEF SealInv, SavePcs
        <4> QED BY <1>1, <1>3, <2>1, <4>1, Zenon DEF SealInv
      <3> QED BY <3>2, <3>3, <3>4, <3>5, Zenon
    <2> QED BY <2>2, <2>3, Zenon DEF FreshInv
  <1> QED BY <1>2, <1>3, Zenon DEF WriteTable

\* The blob handed out is the newest of its entry and has its largest counter.
LEMMA ReturnFresh ==
  ASSUME Serial, DurableInv, FreshInv, NEW t \in Caller, ReturnSealed(t)
  PROVE  FreshInv'
  <1> DEFINE n == Cardinality(blobs)
             nb == [entry |-> call[t].entry, ctr |-> call[t].ctr,
                    since |-> call[t].since, seq |-> n + 1]
  <1>1. /\ call[t].pc = "return" /\ rbTable # NoTable
        /\ blobs' = blobs \cup {nb}
        /\ UNCHANGED <<rbTable, saved, events, verdict>>
        /\ \A u \in Caller : u = t
    BY DEF ReturnSealed, DurableInv, CallInv, histVars, Serial
  <1>2. call'[t].pc = "idle" /\ call'[t].since = 0
    BY IdleStep, Zenon DEF ReturnSealed, DurableInv
  <1>3. /\ n \in Nat /\ call[t].since \in Nat /\ call[t].ctr \in Nat
        /\ call[t].since <= n
    BY BlobCount, Zenon DEF DurableInv, TypeOK, Call, FreshInv, SeqInv
  <1>4. /\ nb.entry = call[t].entry /\ nb.ctr = call[t].ctr
        /\ nb.since = call[t].since /\ nb.seq = n + 1
    OBVIOUS
  <1>5. ASSUME NEW b \in blobs
        PROVE  /\ b.since \in Nat /\ b.seq \in Nat /\ b.ctr \in Nat
               /\ b.since < b.seq /\ b.seq <= n
    BY Zenon DEF DurableInv, TypeOK, Blob, FreshInv, SeqInv
  <1>6. Cardinality(blobs') = n + 1
    <2>1. nb \notin blobs
      <3> SUFFICES ASSUME nb \in blobs PROVE FALSE
        OBVIOUS
      <3>1. n + 1 <= n
        BY <1>4, <1>5
      <3> QED BY <1>3, <3>1
    <2> QED BY <1>1, <2>1, FS_AddElement DEF DurableInv
  <1> HIDE DEF n, nb
  <1>7. SeqInv'
    <2>1. ASSUME NEW b \in blobs' PROVE b.since < b.seq /\ b.seq <= n + 1
      <3>1. CASE b \in blobs
        BY <1>3, <1>5, <3>1
      <3>2. CASE b = nb
        BY <1>3, <1>4, <3>2
      <3> QED BY <1>1, <2>1, <3>1, <3>2
    <2>2. 0 <= n + 1
      BY <1>3
    <2> QED BY <1>1, <1>2, <1>6, <2>1, <2>2, Zenon DEF SeqInv
  <1>8. ASSUME Good'
        PROVE  (OrderInv /\ SavedInv /\ MemoryInv /\ SealInv)'
               /\ "stale accepted" \notin verdict'
    <2>1. Good /\ OrderInv /\ SavedInv /\ MemoryInv /\ SealInv
      BY <1>1, <1>8, Zenon DEF Good, FreshInv
    <2>2. /\ saved # NoTable /\ saved[call[t].entry] = call[t].ctr
          /\ \A b \in blobs : b.entry = call[t].entry => b.ctr < call[t].ctr
      BY <1>1, <2>1 DEF SealInv
    <2>3. OrderInv'
      <3> SUFFICES ASSUME NEW b \in blobs', NEW b2 \in blobs', Newer(b2, b)
                   PROVE  b.ctr < b2.ctr
        BY DEF OrderInv, Newer
      <3>1. CASE b \in blobs /\ b2 \in blobs
        BY <2>1, <3>1 DEF OrderInv
      <3>2. CASE b \in blobs /\ b2 = nb
        BY <1>4, <2>2, <3>2 DEF Newer
      <3>3. CASE b = nb
        <4>1. b2.since >= n + 1
          BY <1>4, <3>3 DEF Newer
        <4>2. b2.since \in Nat /\ b2.since <= n
          BY <1>1, <1>3, <1>4, <1>5
        <4> QED BY <1>3, <4>1, <4>2
      <3> QED BY <1>1, <3>1, <3>2, <3>3
    <2>4. SavedInv'
      <3>1. call[t].ctr # NoEntry /\ call[t].ctr <= call[t].ctr
        BY <1>3, NoEntryAssumption
      <3> QED BY <1>1, <1>4, <2>1, <2>2, <3>1 DEF SavedInv
    <2>5. MemoryInv' /\ "stale accepted" \notin verdict'
      BY <1>1, <2>1, Zenon DEF MemoryInv, FreshInv
    <2>6. SealInv'
      BY <1>1, <1>2, Zenon DEF SealInv, SavePcs
    <2> QED BY <2>3, <2>4, <2>5, <2>6, Zenon
  <1> QED BY <1>7, <1>8, Zenon DEF FreshInv

\* A crash forgets the calls and the table in memory.
LEMMA DownFresh ==
  ASSUME DurableInv, FreshInv, Down
  PROVE  FreshInv'
  <1>1. \A t \in Caller : call'[t].pc = "idle" /\ call'[t].since = 0
    BY Zenon DEF Down, Idle
  <1>2. rbTable' = NoTable /\ UNCHANGED <<blobs, saved, verdict>>
    BY Zenon DEF Down
  <1>3. SeqInv'
    <2>1. 0 <= Cardinality(blobs)
      BY BlobCount
    <2> QED BY <1>1, <1>2, <2>1, Zenon DEF SeqInv, FreshInv
  <1>4. ASSUME Good'
        PROVE  (OrderInv /\ SavedInv /\ MemoryInv /\ SealInv)'
               /\ "stale accepted" \notin verdict'
    <2>1. Good
      BY <1>4, Zenon DEF Good, Down
    <2>2. (OrderInv /\ SavedInv)' /\ "stale accepted" \notin verdict'
      BY <1>2, <2>1, Zenon DEF FreshInv, OrderInv, SavedInv, Newer
    <2>3. MemoryInv' /\ SealInv'
      BY <1>1, <1>2, Zenon DEF MemoryInv, SealInv, SavePcs
    <2> QED BY <2>2, <2>3, Zenon
  <1> QED BY <1>3, <1>4, Zenon DEF FreshInv

\* Every step of serial calls preserves the invariant.
LEMMA NextFresh ==
  ASSUME Serial, DurableInv, GrowInv, FreshInv, [Next]_vars
  PROVE  FreshInv'
  <1>1. CASE UNCHANGED <<rbTable, call, blobs, saved, events, verdict>>
    BY <1>1, Zenon DEF FreshInv, Good, SeqInv, OrderInv, SavedInv, MemoryInv, SealInv, Newer
  <1>2. CASE UNCHANGED vars
    BY <1>1, <1>2 DEF vars, histVars
  <1>3. CASE Restart
    BY <1>1, <1>3 DEF Restart, histVars
  <1>4. CASE Down
    BY <1>4, DownFresh
  <1>5. ASSUME NEW t \in Caller,
               \/ \E op \in {"init", "get", "seal", "unseal"}, e \in Entry, c \in Nat :
                     Invoke(t, op, e, c)
               \/ Lookup(t) \/ UpdateRollbackEntry(t)
               \/ TpmIncrement(t) \/ TpmIncrementAgain(t) \/ TpmSeal(t)
               \/ WriteKey(t) \/ WriteTable(t) \/ ReturnSealed(t)
        PROVE  FreshInv'
    BY <1>5, InvokeFresh, LookupFresh, UpdateFresh, TpmFresh, WriteTableFresh,
       ReturnFresh
  <1>6. TypeOK
    BY DEF DurableInv
  <1> QED BY <1>2, <1>3, <1>4, <1>5, <1>6, NextCases

\* With serial calls RollbackProtectedUnseal accepts only the newest data
\* sealed under a label, unless a table was lost or a save has failed.
THEOREM OnlyNewestIsAccepted ==
  ASSUME Serial
  PROVE  Spec => []OnlyNewestUnseals
  <1>1. Init => DurableInv /\ GrowInv /\ FreshInv
    BY InitDurable, InitFresh DEF Init, GrowInv, Idle
  <1>2. DurableInv /\ GrowInv /\ FreshInv /\ [Next]_vars
          => (DurableInv /\ GrowInv /\ FreshInv)'
    BY NextDurable, NextGrow, NextFresh
  <1>3. FreshInv => OnlyNewestUnseals
    BY Zenon DEF FreshInv, OnlyNewestUnseals, Good
  <1> QED BY <1>1, <1>2, <1>3, PTL DEF Spec

----------------------------------------------------------------------------
(***************************************************************************)
(* The other direction: the newest data sealed under a label unseals, as   *)
(* long as nothing at all went wrong.  Between calls its counter is the    *)
(* one in the saved table and the one in memory; a call that is sealing    *)
(* under its label is ahead of it, first in memory and then on disk.       *)
(***************************************************************************)
\* No blob of the entry was sealed by a call that began later.
Latest(b) == \A b2 \in blobs : ~Newer(b2, b)

\* A serial call sees no other hand out a blob.
SinceInv ==
    \A t \in Caller : call[t].pc # "idle" => call[t].since = Cardinality(blobs)

\* The saved table has the counter of the latest blob of an entry, unless a
\* seal for the entry is about to return the next one.
KeptInv ==
    \A b \in blobs :
        Latest(b) /\ (\A t \in Caller : call[t].pc = "return" => call[t].entry # b.entry) =>
            saved # NoTable /\ saved[b.entry] = b.ctr

\* The table in memory has it, unless a seal for the entry has raised it.
CurrentInv ==
    rbTable # NoTable =>
        \A b \in blobs :
            /\ Latest(b)
            /\ \A t \in Caller : call[t].pc \in SavePcs \cup {"tpm", "return"} =>
                                    call[t].entry # b.entry
            => rbTable[b.entry] = b.ctr

\* InitCounter, the other call that writes an entry, writes a new one or
\* writes what is there already.
RaiseInv ==
    \A t \in Caller : call[t].pc = "update" /\ call[t].op # "seal" =>
        rbTable[call[t].entry] \in {NoEntry, call[t].ctr}

LatestInv ==
    /\ SinceInv
    /\ events = {} => /\ KeptInv /\ CurrentInv /\ RaiseInv
                      /\ "latest refused" \notin verdict

----------------------------------------------------------------------------
\* Initially there are no blobs and no calls.
LEMMA InitLatest == Init => LatestInv
  BY DEF Init, Idle, LatestInv, SinceInv, KeptInv, CurrentInv, RaiseInv

\* When nothing went wrong, neither was a table lost nor did a save fail.
LEMMA CleanIsGood ==
  ASSUME FreshInv, events = {}
  PROVE  SavedInv /\ MemoryInv /\ SealInv
  BY Zenon DEF FreshInv, Good

\* A call begins; a table that is loaded is the saved one.
LEMMA InvokeLatest ==
  ASSUME Serial, DurableInv, LatestInv, NEW t \in Caller, NEW op, NEW e, NEW c,
         Invoke(t, op, e, c)
  PROVE  LatestInv'
  <1>1. /\ call[t].pc = "idle" /\ call'[t].pc = "lookup"
        /\ call'[t].since = Cardinality(blobs)
        /\ \A u \in Caller : u = t
    BY Zenon DEF Invoke, DurableInv, TypeOK, Idle, Serial
  <1>2. UNCHANGED <<blobs, saved, verdict>> /\ events \subseteq events'
    BY DEF Invoke, LoadIfNil
  <1>3. SinceInv'
    BY <1>1, <1>2 DEF SinceInv
  <1>4. ASSUME events' = {}
        PROVE  (KeptInv /\ CurrentInv /\ RaiseInv)' /\ "latest refused" \notin verdict'
    <2>1. events = {} /\ KeptInv /\ CurrentInv /\ "latest refused" \notin verdict'
      BY <1>2, <1>4, Zenon DEF LatestInv
    <2>2. \A b \in blobs : Latest(b) => saved # NoTable /\ saved[b.entry] = b.ctr
      BY <1>1, <2>1, Zenon DEF KeptInv
    <2>3. KeptInv'
      BY <1>2, <2>2, Zenon DEF KeptInv, Latest, Newer
    <2>4. RaiseInv'
      BY <1>1, Zenon DEF RaiseInv
    <2>5. CASE rbTable # NoTable
      <3>1. rbTable' = rbTable
        BY <2>5 DEF Invoke, LoadIfNil
      <3>2. \A b \in blobs : Latest(b) => rbTable[b.entry] = b.ctr
        BY <1>1, <2>1, <2>5, Zenon DEF CurrentInv, SavePcs
      <3>3. CurrentInv'
        BY <1>2, <3>1, <3>2 DEF CurrentInv, Latest, Newer
      <3> QED BY <2>1, <2>3, <2>4, <3>3, Zenon
    <2>6. CASE rbTable = NoTable
      <3>1. saved = NoTable \/ rbTable' = saved
        BY <1>4, <2>6 DEF Invoke, LoadIfNil
      <3>2. CurrentInv'
        BY <1>2, <2>2, <3>1 DEF CurrentInv, Latest, Newer
      <3> QED BY <2>1, <2>3, <2>4, <3>2, Zenon
    <2> QED BY <2>5, <2>6, Zenon
  <1> QED BY <1>3, <1>4, Zenon DEF LatestInv

\* The latest blob of an entry has the counter in memory, so it is accepted.
LEMMA UnsealLatest ==
  ASSUME Serial, LatestInv, events = {}, NEW t \in Caller, call[t].pc = "lookup",
         rbTable # NoTable, LookupForUnseal(t)
  PROVE  "latest refused" \notin verdict'
  <1> DEFINE e == call[t].entry
             c == call[t].ctr
             these == {b \in blobs : b.entry = e /\ b.ctr = c}
             newest == \E b \in these : \A b2 \in blobs : ~Newer(b2, b)
  <1>1. SUFFICES ASSUME ~Accepted(e, c), newest PROVE FALSE
    BY Zenon DEF LookupForUnseal, LatestInv
  <1>2. PICK b \in blobs : b.entry = e /\ b.ctr = c /\ Latest(b)
    BY <1>1, Zenon DEF Latest
  <1>3. \A u \in Caller : u = t
    BY DEF Serial
  <1>4. rbTable[b.entry] = b.ctr
    BY <1>2, <1>3, Zenon DEF LatestInv, CurrentInv, SavePcs
  <1> QED BY <1>1, <1>2, <1>4 DEF Accepted

\* A call that ends without a write, and a lookup, leave both tables alone.
LEMMA QuietLatest ==
  ASSUME Serial, LatestInv, NEW t \in Caller,
         call[t].pc \in {"lookup", "update"}, call'[t].pc \in {"idle", "update"},
         call'[t].pc = "update" => call'[t].since = call[t].since,
         events' = {} => /\ events = {} /\ "latest refused" \notin verdict'
                         /\ call'[t].pc = "update" /\ call'[t].op # "seal" =>
                               rbTable[call'[t].entry] \in {NoEntry, call'[t].ctr},
         UNCHANGED <<rbTable, blobs, saved>>
  PROVE  LatestInv'
  <1>1. \A u \in Caller : u = t
    BY Zenon DEF Serial
  <1>2. SinceInv'
    BY <1>1, Zenon DEF SinceInv, LatestInv
  <1>3. ASSUME events' = {}
        PROVE  (KeptInv /\ CurrentInv /\ RaiseInv)' /\ "latest refused" \notin verdict'
    <2>1. KeptInv /\ CurrentInv
      BY <1>3, Zenon DEF LatestInv
    <2>2. \A b \in blobs : Latest(b) => saved # NoTable /\ saved[b.entry] = b.ctr
      BY <1>1, <2>1, Zenon DEF KeptInv
    <2>3. rbTable # NoTable => \A b \in blobs : Latest(b) => rbTable[b.entry] = b.ctr
      BY <1>1, <2>1, Zenon DEF CurrentInv, SavePcs
    <2>4. KeptInv' /\ CurrentInv'
      BY <2>2, <2>3, Zenon DEF KeptInv, CurrentInv, Latest, Newer
    <2>5. RaiseInv'
      BY <1>1, <1>3, Zenon DEF RaiseInv
    <2> QED BY <1>3, <2>4, <2>5, Zenon
  <1> QED BY <1>2, <1>3, Zenon DEF LatestInv

\* The lookup of any call: InitCounter raises no entry that is there, or the
\* event is recorded.
LEMMA LookupLatest ==
  ASSUME Serial, DurableInv, LatestInv, NEW t \in Caller, Lookup(t)
  PROVE  LatestInv'
  <1>1. /\ rbTable # NoTable /\ rbTable \in Table /\ call[t].pc = "lookup"
        /\ call[t].entry \in Entry /\ call[t] \in Call /\ call[t].ctr \in Nat
        /\ call \in [Caller -> Call]
    BY Zenon DEF Lookup, DurableInv, CallInv, TypeOK, Call
  <1>2. UNCHANGED <<rbTable, blobs, saved>>
    BY DEF Lookup
  <1>3. events \subseteq events'
    BY Zenon DEF Lookup, LookupForInit, LookupForGet, LookupForSeal, LookupForUnseal
  <1>4. ASSUME events' = {} PROVE events = {} /\ "latest refused" \notin verdict'
    <2>1. events = {}
      BY <1>3, <1>4
    <2>2. verdict' = verdict \/ LookupForUnseal(t)
      BY DEF Lookup, LookupForInit, LookupForGet, LookupForSeal
    <2> QED BY <1>1, <2>1, <2>2, UnsealLatest, Zenon DEF LatestInv
  <1>5. CASE call' = [call EXCEPT ![t] = Idle]
    <2>1. call'[t].pc = "idle"
      BY <1>1, <1>5 DEF Idle
    <2> QED BY <1>1, <1>2, <1>4, <2>1, QuietLatest, Zenon
  <1>6. CASE LookupForInit(t)
    <2> DEFINE e == call[t].entry
               c == call[t].ctr
    <2>1. CASE /\ rbTable[e] = NoEntry \/ rbTable[e] <= c
               /\ call' = [call EXCEPT ![t] = [call[t] EXCEPT !.pc = "update"]]
      <3>1. /\ call'[t].pc = "update" /\ call'[t].since = call[t].since
            /\ call'[t].entry = e /\ call'[t].ctr = c
        BY <1>1, <2>1, Zenon DEF Call
      <3>2. ASSUME events' = {} PROVE rbTable[e] \in {NoEntry, c}
        <4>1. rbTable[e] = NoEntry \/ ~(rbTable[e] < c)
          BY <1>6, <3>2 DEF LookupForInit
        <4>2. rbTable[e] = NoEntry \/ rbTable[e] \in Nat
          BY <1>1 DEF Table
        <4> QED BY <1>1, <2>1, <4>1, <4>2
      <3> QED BY <1>1, <1>2, <1>4, <3>1, <3>2, QuietLatest, Zenon
    <2> QED BY <1>5, <1>6, <2>1, Zenon DEF LookupForInit
  <1>7. CASE LookupForSeal(t)
    <2> DEFINE n == rbTable[call[t].entry] + 1
    <2>1. CASE call' = [call EXCEPT ![t] = [call[t] EXCEPT !.pc = "update", !.ctr = n]]
      <3> HIDE DEF n
      <3>1. call[t].op = "seal"
        BY <1>7 DEF LookupForSeal
      <3>2. /\ call'[t].pc = "update" /\ call'[t].since = call[t].since
            /\ call'[t].op = "seal"
        BY <1>1, <2>1, <3>1, Zenon DEF Call
      <3> QED BY <1>1, <1>2, <1>4, <3>2, QuietLatest, Zenon
    <2> QED BY <1>5, <1>7, <2>1, Zenon DEF LookupForSeal
  <1>8. CASE LookupForGet(t) \/ LookupForUnseal(t)
    BY <1>5, <1>8, Zenon DEF LookupForGet, LookupForUnseal
  <1> QED BY <1>6, <1>7, <1>8 DEF Lookup

\* A seal raises the entry it is sealing for; InitCounter changes nothing
\* that was ever sealed under.
LEMMA UpdateLatest ==
  ASSUME Serial, DurableInv, FreshInv, LatestInv, NEW t \in Caller,
         UpdateRollbackEntry(t)
  PROVE  LatestInv'
  <1> DEFINE e == call[t].entry
             c == call[t].ctr
  <1>1. /\ rbTable # NoTable /\ rbTable \in Table /\ call[t].pc = "update"
        /\ e \in Entry /\ call[t] \in Call /\ c \in Nat
        /\ call \in [Caller -> Call]
        /\ \A u \in Caller : u = t
    BY Zenon DEF UpdateRollbackEntry, DurableInv, CallInv, TypeOK, Serial, Call
  <1>2. UNCHANGED <<blobs, saved, events, verdict>>
    BY DEF UpdateRollbackEntry, histVars
  <1>3. \A x \in Entry : rbTable'[x] = IF x = e THEN c ELSE rbTable[x]
    BY <1>1 DEF UpdateRollbackEntry, Table
  <1>4. \/ call[t].op # "seal" /\ call'[t] = Idle
        \/ /\ call[t].op = "seal" /\ call'[t].pc = "tpm"
           /\ call'[t].entry = e /\ call'[t].since = call[t].since
    BY <1>1, Zenon DEF UpdateRollbackEntry, Call
  <1>5. call'[t].pc \in {"idle", "tpm"}
    BY <1>4 DEF Idle
  <1>6. SinceInv'
    <2>1. call[t].since = Cardinality(blobs)
      BY <1>1, Zenon DEF SinceInv, LatestInv
    <2>2. call'[t].pc # "idle" => call'[t].since = call[t].since
      BY <1>4 DEF Idle
    <2> QED BY <1>1, <1>2, <2>1, <2>2 DEF SinceInv
  <1>7. ASSUME events' = {}
        PROVE  (KeptInv /\ CurrentInv /\ RaiseInv)' /\ "latest refused" \notin verdict'
    <2>1. /\ events = {} /\ KeptInv /\ CurrentInv /\ RaiseInv
          /\ "latest refused" \notin verdict'
      BY <1>2, <1>7, Zenon DEF LatestInv
    <2>2. \A b \in blobs : Latest(b) => saved # NoTable /\ saved[b.entry] = b.ctr
      BY <1>1, <2>1, Zenon DEF KeptInv
    <2>3. KeptInv'
      BY <1>2, <2>2 DEF KeptInv, Latest, Newer
    <2>4. RaiseInv'
      BY <1>1, <1>5 DEF RaiseInv
    <2>5. ASSUME NEW b \in blobs, Latest(b),
                 call'[t].pc = "tpm" => call'[t].entry # b.entry
          PROVE  rbTable'[b.entry] = b.ctr
      <3>1. rbTable[b.entry] = b.ctr
        BY <1>1, <2>1, <2>5, Zenon DEF CurrentInv, SavePcs
      <3>2. b.entry \in Entry /\ b.ctr \in Nat
        BY Zenon DEF DurableInv, TypeOK, Blob
      <3>3. CASE b.entry = e
        <4>1. call[t].op # "seal"
          BY <1>4, <2>5, <3>3
        <4>2. rbTable[e] \in {NoEntry, c}
          BY <1>1, <2>1, <4>1, Zenon DEF RaiseInv
        <4>3. c = b.ctr
          BY <3>1, <3>2, <3>3, <4>2, NoEntryAssumption
        <4> QED BY <1>3, <3>2, <3>3, <4>3, Zenon
      <3> QED BY <1>3, <3>1, <3>2, <3>3
    <2>6. CurrentInv'
      <3> SUFFICES ASSUME NEW b \in blobs, Latest(b),
                          \A u \in Caller : call'[u].pc \in SavePcs \cup {"tpm", "return"} =>
                                               call'[u].entry # b.entry
                   PROVE  rbTable'[b.entry] = b.ctr
        BY <1>2 DEF CurrentInv, Latest, Newer
      <3> QED BY <2>5
    <2> QED BY <2>1, <2>3, <2>4, <2>6, Zenon
  <1> QED BY <1>6, <1>7, Zenon DEF LatestInv

\* A failed save is an event.
LEMMA FailLatest ==
  ASSUME Serial, DurableInv, LatestInv, NEW t \in Caller, call[t].pc # "idle",
         SaveFails(t), UNCHANGED blobs
  PROVE  LatestInv'
  <1>1. call'[t].since = call[t].since /\ \A u \in Caller : u = t
    BY PcStep, Zenon DEF SaveFails, DurableInv
  <1>2. SinceInv'
    BY <1>1, Zenon DEF SinceInv, LatestInv
  <1>3. events' # {}
    BY DEF SaveFails
  <1> QED BY <1>2, <1>3, Zenon DEF LatestInv

\* A step of a save that succeeds: the entry it saves for stays exempt.
LEMMA SaveLatest ==
  ASSUME Serial, LatestInv, NEW t \in Caller,
         call[t].pc \in SavePcs \cup {"tpm"}, call'[t].pc \in SavePcs,
         call'[t].entry = call[t].entry, call'[t].since = call[t].since,
         UNCHANGED <<rbTable, blobs, saved, verdict, events>>
  PROVE  LatestInv'
  <1>1. \A u \in Caller : u = t
    BY DEF Serial
  <1>2. SinceInv'
    BY <1>1, Zenon DEF SinceInv, LatestInv, SavePcs
  <1>3. ASSUME events' = {}
        PROVE  (KeptInv /\ CurrentInv /\ RaiseInv)' /\ "latest refused" \notin verdict'
    <2>1. KeptInv /\ CurrentInv /\ "latest refused" \notin verdict'
      BY <1>3, Zenon DEF LatestInv
    <2>2. \A b \in blobs : Latest(b) => saved # NoTable /\ saved[b.entry] = b.ctr
      BY <1>1, <2>1, Zenon DEF KeptInv, SavePcs
    <2>3. KeptInv'
      BY <2>2 DEF KeptInv, Latest, Newer
    <2>4. rbTable # NoTable => \A b \in blobs :
             Latest(b) /\ call[t].entry # b.entry => rbTable[b.entry] = b.ctr
      BY <1>1, <2>1, Zenon DEF CurrentInv
    <2>5. CurrentInv'
      BY <2>4 DEF CurrentInv, Latest, Newer
    <2>6. RaiseInv'
      BY <1>1, Zenon DEF RaiseInv, SavePcs
    <2> QED BY <2>1, <2>3, <2>5, <2>6, Zenon
  <1> QED BY <1>2, <1>3, Zenon DEF LatestInv

\* The steps of a save before the table is written.
LEMMA TpmLatest ==
  ASSUME Serial, DurableInv, LatestInv, NEW t \in Caller,
         TpmIncrement(t) \/ TpmIncrementAgain(t) \/ TpmSeal(t) \/ WriteKey(t)
  PROVE  LatestInv'
  <1>1. /\ call[t] \in Call /\ call \in [Caller -> Call]
        /\ call[t].pc \in SavePcs \cup {"tpm"} /\ call[t].pc # "idle"
    BY Zenon DEF DurableInv, TypeOK, TpmIncrement, TpmIncrementAgain, TpmSeal,
           WriteKey, SavePcs
  <1>2. UNCHANGED <<rbTable, blobs, saved, verdict>>
    BY Zenon DEF TpmIncrement, TpmIncrementAgain, TpmSeal, WriteKey
  <1>3. CASE SaveFails(t)
    BY <1>1, <1>2, <1>3, FailLatest
  <1>4. CASE /\ UNCHANGED events
             /\ \E x \in {"tpm again", "tpm seal", "write table"} :
                  call' = [call EXCEPT ![t].pc = x]
    <2>1. PICK x \in {"tpm again", "tpm seal", "write table"} :
                  call' = [call EXCEPT ![t].pc = x]
      BY <1>4, Zenon
    <2>2. /\ call'[t].pc = x /\ call'[t].entry = call[t].entry
          /\ call'[t].since = call[t].since
      BY <2>1, PcStep, Zenon DEF DurableInv
    <2>3. call'[t].pc \in SavePcs
      BY <2>2, Zenon DEF SavePcs
    <2> QED BY <1>1, <1>2, <1>4, <2>2, <2>3, SaveLatest, Zenon
  <1>5. CASE /\ UNCHANGED events
             /\ call' = [call EXCEPT ![t] = [call[t] EXCEPT !.pc = "write key",
                                               !.key = lastKey + 1,
                                               !.cmp = Cmp(nv)]]
    <2>1. /\ call'[t].pc = "write key" /\ call'[t].entry = call[t].entry
          /\ call'[t].since = call[t].since
      BY <1>1, <1>5, Zenon DEF Call
    <2>2. call'[t].pc \in SavePcs
      BY <2>1, Zenon DEF SavePcs
    <2> QED BY <1>1, <1>2, <1>5, <2>1, <2>2, SaveLatest, Zenon
  <1>6. CASE TpmIncrement(t)
    BY <1>3, <1>4, <1>6, Zenon DEF TpmIncrement
  <1>7. CASE TpmIncrementAgain(t)
    BY <1>3, <1>4, <1>7, Zenon DEF TpmIncrementAgain
  <1>8. CASE TpmSeal(t)
    BY <1>3, <1>5, <1>8, Zenon DEF TpmSeal
  <1>9. CASE WriteKey(t)
    BY <1>3, <1>4, <1>9, Zenon DEF WriteKey
  <1> QED BY <1>6, <1>7, <1>8, <1>9

\* Once the table is written the saved entries of other labels are current.
LEMMA WriteTableLatest ==
  ASSUME Serial, DurableInv, LatestInv, NEW t \in Caller, WriteTable(t)
  PROVE  LatestInv'
  <1>1. /\ call[t].pc = "write table" /\ rbTable # NoTable
        /\ UNCHANGED <<rbTable, blobs, verdict>>
    BY Zenon DEF WriteTable, DurableInv, CallInv
  <1>2. CASE SaveFails(t)
    BY <1>1, <1>2, FailLatest, Zenon
  <1>3. CASE /\ call' = [call EXCEPT ![t].pc = "return"]
             /\ saved' = rbTable /\ UNCHANGED events
    <2>1. /\ call'[t].pc = "return" /\ call'[t].entry = call[t].entry
          /\ call'[t].since = call[t].since
          /\ \A u \in Caller : u = t
      BY <1>3, PcStep, Zenon DEF DurableInv
    <2>2. SinceInv'
      BY <1>1, <2>1, Zenon DEF SinceInv, LatestInv
    <2>3. ASSUME events' = {}
          PROVE  (KeptInv /\ CurrentInv /\ RaiseInv)' /\ "latest refused" \notin verdict'
      <3>1. CurrentInv /\ "latest refused" \notin verdict'
        BY <1>1, <1>3, <2>3, Zenon DEF LatestInv
      <3>2. \A b \in blobs : Latest(b) /\ call[t].entry # b.entry =>
                                rbTable[b.entry] = b.ctr
        BY <1>1, <2>1, <3>1, Zenon DEF CurrentInv
      <3>3. KeptInv' /\ CurrentInv'
        BY <1>1, <1>3, <2>1, <3>2, Zenon DEF KeptInv, CurrentInv, Latest, Newer
      <3>4. RaiseInv'
        BY <2>1 DEF RaiseInv
      <3> QED BY <3>1, <3>3, <3>4, Zenon
    <2> QED BY <2>2, <2>3, Zenon DEF LatestInv
  <1> QED BY <1>2, <1>3, Zenon DEF WriteTable

\* The blob handed out is later than every other of its entry.
LEMMA ReturnLatest ==
  ASSUME Serial, DurableInv, FreshInv, LatestInv, NEW t \in Caller, ReturnSealed(t)
  PROVE  LatestInv'
  <1> DEFINE n == Cardinality(blobs)
             nb == [entry |-> call[t].entry, ctr |-> call[t].ctr,
                    since |-> call[t].since, seq |-> n + 1]
  <1>1. /\ call[t].pc = "return" /\ rbTable # NoTable
        /\ blobs' = blobs \cup {nb}
        /\ UNCHANGED <<rbTable, saved, events, verdict>>
        /\ \A u \in Caller : u = t
    BY DEF ReturnSealed, DurableInv, CallInv, histVars, Serial
  <1>2. call'[t].pc = "idle"
    BY IdleStep, Zenon DEF ReturnSealed, DurableInv
  <1>3. nb.entry = call[t].entry /\ nb.ctr = call[t].ctr /\ nb.since = n
    BY <1>1, Zenon DEF LatestInv, SinceInv
  <1>4. n \in Nat
    BY BlobCount
  <1> HIDE DEF n, nb
  <1>5. \A b \in blobs : b.seq \in Nat /\ b.seq <= n
    BY Zenon DEF DurableInv, TypeOK, Blob, FreshInv, SeqInv, n
  <1>6. ASSUME NEW b \in blobs', Latest(b)'
        PROVE  b = nb \/ (b \in blobs /\ Latest(b) /\ call[t].entry # b.entry)
    <2>1. \A b2 \in blobs' : ~Newer(b2, b)
      BY <1>6 DEF Latest, Newer
    <2>2. CASE b \in blobs
      <3>1. ~Newer(nb, b)
        BY <1>1, <2>1
      <3>2. n >= b.seq
        BY <1>4, <1>5, <2>2
      <3>3. nb.entry # b.entry
        BY <1>3, <3>1, <3>2 DEF Newer
      <3> QED BY <1>1, <1>3, <2>1, <2>2, <3>3 DEF Latest
    <2> QED BY <1>1, <2>2
  <1>7. SinceInv'
    BY <1>1, <1>2 DEF SinceInv
  <1>8. ASSUME events' = {}
        PROVE  (KeptInv /\ CurrentInv /\ RaiseInv)' /\ "latest refused" \notin verdict'
    <2>1. /\ events = {} /\ KeptInv /\ CurrentInv /\ "latest refused" \notin verdict'
      BY <1>1, <1>8, Zenon DEF LatestInv
    <2>2. /\ saved # NoTable /\ saved[nb.entry] = nb.ctr
          /\ rbTable[nb.entry] = nb.ctr
      BY <1>1, <1>3, <2>1, CleanIsGood, Zenon DEF SealInv
    <2>3. \A b \in blobs : Latest(b) /\ call[t].entry # b.entry =>
             saved[b.entry] = b.ctr /\ rbTable[b.entry] = b.ctr
      BY <1>1, <2>1, Zenon DEF KeptInv, CurrentInv
    <2>4. \A b \in blobs' : Latest(b)' => saved[b.entry] = b.ctr /\ rbTable[b.entry] = b.ctr
      BY <1>6, <2>2, <2>3
    <2>5. KeptInv' /\ CurrentInv'
      BY <1>1, <2>2, <2>4 DEF KeptInv, CurrentInv
    <2>6. RaiseInv'
      BY <1>1, <1>2 DEF RaiseInv
    <2> QED BY <2>1, <2>5, <2>6, Zenon
  <1> QED BY <1>7, <1>8, Zenon DEF LatestInv

\* A crash that interrupts no seal leaves the saved table current.
LEMMA DownLatest ==
  ASSUME Serial, DurableInv, LatestInv, Down
  PROVE  LatestInv'
  <1>1. \A t \in Caller : call'[t].pc = "idle"
    BY Zenon DEF Down, Idle
  <1>2. rbTable' = NoTable /\ UNCHANGED <<blobs, saved, verdict>>
    BY Zenon DEF Down
  <1>3. SinceInv'
    BY <1>1 DEF SinceInv
  <1>4. ASSUME events' = {}
        PROVE  (KeptInv /\ CurrentInv /\ RaiseInv)' /\ "latest refused" \notin verdict'
    <2>1. events = {} /\ \A t \in Caller : ~(call[t].op = "seal" /\ call[t].pc # "idle")
      BY <1>4, Zenon DEF Down
    <2>2. \A t \in Caller : call[t].pc # "return"
      BY <2>1 DEF DurableInv, CallInv
    <2>3. KeptInv /\ "latest refused" \notin verdict'
      BY <1>2, <2>1, Zenon DEF LatestInv
    <2>4. \A b \in blobs : Latest(b) => saved # NoTable /\ saved[b.entry] = b.ctr
      BY <2>2, <2>3, Zenon DEF KeptInv
    <2>5. KeptInv'
      BY <1>2, <2>4 DEF KeptInv, Latest, Newer
    <2>6. CurrentInv' /\ RaiseInv'
      BY <1>1, <1>2 DEF CurrentInv, RaiseInv
    <2> QED BY <2>3, <2>5, <2>6, Zenon
  <1> QED BY <1>3, <1>4, Zenon DEF LatestInv

\* Every step of serial calls preserves the invariant.
LEMMA NextLatest ==
  ASSUME Serial, DurableInv, FreshInv, LatestInv, [Next]_vars
  PROVE  LatestInv'
  <1>1. CASE UNCHANGED <<rbTable, call, blobs, saved, events, verdict>>
    BY <1>1, Zenon DEF LatestInv, SinceInv, KeptInv, CurrentInv, RaiseInv, Latest, Newer
  <1>2. CASE UNCHANGED vars
    BY <1>1, <1>2 DEF vars, histVars
  <1>3. CASE Restart
    BY <1>1, <1>3 DEF Restart, histVars
  <1>4. CASE Down
    BY <1>4, DownLatest
  <1>5. ASSUME NEW t \in Caller,
               \/ \E op \in {"init", "get", "seal", "unseal"}, e \in Entry, c \in Nat :
                     Invoke(t, op, e, c)
               \/ Lookup(t) \/ UpdateRollbackEntry(t)
               \/ TpmIncrement(t) \/ TpmIncrementAgain(t) \/ TpmSeal(t)
               \/ WriteKey(t) \/ WriteTable(t) \/ ReturnSealed(t)
        PROVE  LatestInv'
    BY <1>5, InvokeLatest, LookupLatest, UpdateLatest, TpmLatest, WriteTableLatest,
       ReturnLatest
  <1>6. TypeOK
    BY DEF DurableInv
  <1> QED BY <1>2, <1>3, <1>4, <1>5, <1>6, NextCases

\* With serial calls RollbackProtectedUnseal refuses the newest data sealed
\* under a label only after something went wrong: a table was lost or not
\* saved, a seal was interrupted, or InitCounter raised the counter above it.
THEOREM NewestIsAccepted ==
  ASSUME Serial
  PROVE  Spec => []NewestUnseals
  <1>1. Init => DurableInv /\ GrowInv /\ FreshInv /\ LatestInv
    BY InitDurable, InitFresh, InitLatest DEF Init, GrowInv, Idle
  <1>2. DurableInv /\ GrowInv /\ FreshInv /\ LatestInv /\ [Next]_vars
          => (DurableInv /\ GrowInv /\ FreshInv /\ LatestInv)'
    BY NextDurable, NextGrow, NextFresh, NextLatest
  <1>3. LatestInv => NewestUnseals
    BY Zenon DEF LatestInv, NewestUnseals
  <1> QED BY <1>1, <1>2, <1>3, PTL DEF Spec

=============================================================================
