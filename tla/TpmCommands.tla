---------------------------- MODULE TpmCommands ----------------------------
(***************************************************************************)
(* The commands of src/src/tpm2/tpm2_lib.cc as bytes: what each Tpm2_ call *)
(* puts on the wire, what the TPM reads there, and what the call reads in  *)
(* the answer.  A call fills a buffer of MAX_SIZE_PARAMS bytes piece by    *)
(* piece, most pieces after a check of the room left, and sizes of areas   *)
(* are computed ahead, patched in later, or written in two halves.         *)
(*                                                                         *)
(* Bytes are numbers and a buffer is a sequence of them.  Handles are four *)
(* bytes; names, digests and keys are short byte strings.  The TPM is      *)
(* external: it is modelled by the wire format it reads and writes.        *)
(***************************************************************************)
EXTENDS Integers, SequencesExt, FiniteSets

CONSTANTS
    MaxParams,    \* MAX_SIZE_PARAMS, scaled down
    Passwords,    \* authorisation strings: sequences of hexadecimal digits
    Blobs,        \* data, names and digests: sequences of bytes
    PcrNums       \* PCRs a caller selects, -1 for none

ASSUME CommandsAssumption == MaxParams \in Nat /\ PcrNums \subseteq (-1..23) \ {0}

-----------------------------------------------------------------------------
\* ChangeEndian16 and ChangeEndian32: numbers go out with the high byte first.
U16(n) == <<(n \div 256) % 256, n % 256>>
U32(n) == U16(n \div 65536) \o U16(n)

Sized(bytes) == U16(Len(bytes)) \o bytes

ALG_RSA == <<0, 1>>
ALG_SHA1 == <<0, 4>>
ALG_AES == <<0, 6>>
ALG_KEYEDHASH == <<0, 8>>
ALG_NULL == <<0, 16>>
ALG_RSASSA == <<0, 20>>
ALG_CFB == <<0, 67>>
TPM_RS_PW == <<64, 0, 0, 9>>
TPM_RH_OWNER == <<64, 0, 0, 1>>
TPM_RH_LOCKOUT == <<64, 0, 0, 10>>
Flags == <<0, 2, 4, 114>>
Exponent == <<0, 1, 0, 1>>

(***************************************************************************)
(* The buffer being filled.  Put is the check of the room left, the write  *)
(* and Update; a failed check returns false from the call.  PutAll writes  *)
(* what a marshalling function returned, without a check of its own.       *)
(***************************************************************************)
Start == [out |-> <<>>, ok |-> TRUE]
Left(w) == MaxParams - Len(w.out)

Put(w, bytes) ==
    IF w.ok /\ Left(w) >= Len(bytes) THEN [w EXCEPT !.out = @ \o bytes]
    ELSE [w EXCEPT !.ok = FALSE]
Puts(w, pieces) == FoldLeft(Put, w, pieces)
PutAll(w, bytes) == [w EXCEPT !.out = IF w.ok THEN @ \o bytes ELSE @]

(***************************************************************************)
(* The marshalling functions.  IF_LESS_THAN_RETURN_MINUS1 returns false,   *)
(* which is 0 and not -1: an area that does not fit is left out, and the   *)
(* caller's test for a negative size does not see it.                      *)
(***************************************************************************)
Area(pieces, room) ==
    LET all == FlattenSeq(pieces) IN IF Len(all) <= room THEN all ELSE <<>>

\* Two digits make a byte; an odd last digit is dropped.
AuthBytes(password) ==
    [i \in 1..(Len(password) \div 2) |-> 16 * password[2 * i - 1] + password[2 * i]]

SetPasswordData(password, size) == Area(<<Sized(AuthBytes(password))>>, size)

\* The password is given the room of the whole area.
CreatePasswordAuthArea(password, size) ==
    LET data == SetPasswordData(password, size) IN
    IF size < 9 THEN <<>>
    ELSE U16(7 + Len(data)) \o TPM_RS_PW \o U16(0) \o <<1>> \o data

CreateSensitiveArea(password, data, size) ==
    LET auth == SetPasswordData(password, size) IN
    IF size < 4 + Len(auth) + Len(data) THEN <<>> ELSE Sized(auth \o Sized(data))

Symmetric(key) == IF key = "storage" THEN ALG_AES ELSE ALG_NULL
Scheme(key) == IF key = "storage" THEN ALG_NULL ELSE ALG_RSASSA

\* What FillPublicRsaTemplate and Marshal_Public_Key_Info put down after the size.
PublicArea(key) ==
    ALG_RSA \o ALG_SHA1 \o Flags \o U16(0)
    \o Symmetric(key) \o (IF Symmetric(key) # ALG_NULL THEN U16(128) \o ALG_CFB ELSE <<>>)
    \o Scheme(key) \o (IF Scheme(key) = ALG_RSASSA THEN ALG_SHA1 ELSE <<>>)
    \o U16(1024) \o Exponent \o U16(0)

\* A faulty form: the area has no symmetric parameters.
PublicSizeSigning(key) == 10 + 2 + 12

\* The size is computed ahead, from the symmetric algorithm alone.
PublicSize(key) == 10 + 2 + (IF Symmetric(key) # ALG_NULL THEN 2 ELSE 0) + 12

Marshal_Public_Key_Info(key, size) == Area(<<U16(PublicSize(key)), PublicArea(key)>>, size)

Marshal_Keyed_Hash_Info(policy, size) ==
    Area(<<Sized(ALG_KEYEDHASH \o ALG_SHA1 \o Flags \o Sized(policy) \o ALG_NULL \o U16(0))>>, size)

Marshal_OutsideInfo(data, size) == Area(<<Sized(data)>>, size)

\* One PCR as a selection: the algorithm and three bytes with its bit.
PcrSelect(n) ==
    [b \in 1..3 |-> IF n \div 8 = b - 1 THEN 2 ^ (n % 8) ELSE 0]

InitSinglePcrSelection(n, hash) ==
    IF n = -1 THEN <<>> ELSE <<[hash |-> hash, select |-> PcrSelect(n)]>>

Marshal_PCR_Long_Selection(pcrs, size) ==
    IF pcrs = <<>> THEN U32(0)
    ELSE Area(<<U32(Len(pcrs))>>
              \o [i \in 1..Len(pcrs) |->
                    pcrs[i].hash \o <<Len(pcrs[i].select)>> \o pcrs[i].select], size)

Marshal_PCR_Short_Selection(pcr, size) == Area(<<<<Len(pcr.select)>>, pcr.select>>, size)

Marshal_Signature_Scheme_Info(scheme, hash, size) == Area(<<scheme, hash>>, size)

Marshal_AuthSession_Info(key, bind, nonce, salt, symmetric, size) ==
    Area(<<key, bind, Sized(nonce), Sized(salt), <<1>>, symmetric,
           IF symmetric # ALG_NULL THEN U16(128) \o ALG_CFB ELSE <<>>, ALG_SHA1>>, size)

-----------------------------------------------------------------------------
(***************************************************************************)
(* A call: the command and the arguments that vary.  data and data2 are    *)
(* the byte strings of the call, key says which template a new key uses.   *)
(* Each Tpm2_ operator is the parameter buffer the function of that name   *)
(* sends, or a writer that is not ok where it returns false before.        *)
(***************************************************************************)
AHandle == <<128, 0, 0, 1>>
AnotherHandle == <<128, 0, 0, 2>>
SessionHandle == <<3, 0, 0, 0>>
GetNvHandle(slot) == U32(2 ^ 24 + slot)
Index == GetNvHandle(1000)
Selection(r) == InitSinglePcrSelection(r.pcr, ALG_SHA1)

WithAuthIn(w, password, room) ==
    PutAll(Put(w, U16(0)), CreatePasswordAuthArea(password, room))
WithAuth(w, password) == WithAuthIn(w, password, Left(w) - 2)

Tpm2_Startup(r) == Put(Start, U16(0))
Tpm2_GetCapability(r) == Puts(Start, <<U32(1), AHandle, U32(20)>>)
Tpm2_GetRandom(r) == Put(Start, U16(Len(r.data)))
Tpm2_ReadClock(r) == Start
Tpm2_ReadPcrs(r) ==
    LET pcr == Selection(r)[1] IN
    Puts(Start, <<U32(Len(Selection(r))), pcr.hash, <<Len(pcr.select)>>, pcr.select>>)
Tpm2_PCR_Event(r) ==
    Puts(WithAuthIn(Put(Start, U32(r.pcr)), <<>>, MaxParams), <<U16(Len(r.data)), r.data>>)

\* The end of the two Create commands: no outside information, then the PCRs.
PutPcrs(w, r) == PutAll(w, Marshal_PCR_Long_Selection(Selection(r), Left(w)))
CreationInfo(w, r) == PutPcrs(PutAll(w, Marshal_OutsideInfo(<<>>, Left(w))), r)
PutSensitive(w, password, data) == PutAll(w, CreateSensitiveArea(password, data, Left(w)))
PutPublicKey(w, key) == PutAll(w, Marshal_Public_Key_Info(key, Left(w)))
PutKeyedHash(w, policy) == PutAll(w, Marshal_Keyed_Hash_Info(policy, Left(w)))

Tpm2_CreatePrimary(r) ==
    LET auth == WithAuth(PutAll(Start, TPM_RH_OWNER), <<>>) IN
    CreationInfo(PutPublicKey(PutSensitive(auth, r.pw, <<>>), r.key), r)
Tpm2_CreateKey(r) ==
    LET auth == WithAuth(Put(Start, AHandle), r.pw) IN
    CreationInfo(PutPublicKey(PutSensitive(auth, r.pw, <<>>), r.key), r)
Tpm2_CreateSealed(r) ==
    LET auth == WithAuth(Put(Start, AHandle), r.pw) IN
    CreationInfo(PutKeyedHash(PutSensitive(auth, r.pw, r.data), r.data2), r)
Tpm2_Load(r) ==
    Puts(WithAuthIn(Put(Start, AHandle), r.pw, MaxParams), <<Sized(r.data), Sized(r.data2)>>)

Tpm2_StartAuthSession(r) ==
    PutAll(Start, Marshal_AuthSession_Info(AHandle, AnotherHandle, r.data, r.data2,
                                           Symmetric(r.key), MaxParams))
Tpm2_PolicyPassword(r) == PutAll(Start, SessionHandle)
Tpm2_PolicyGetDigest(r) == PutAll(Start, SessionHandle)
\* The expected digest is sent by its size alone; the callers pass an empty one.
Tpm2_PolicyPcr(r) ==
    PutAll(Puts(Start, <<SessionHandle, U16(0)>>),
           Marshal_PCR_Long_Selection(Selection(r), MaxParams))
Tpm2_PolicySecret(r) == Puts(Start, <<AHandle, U16(Len(r.data)), r.data>>)
Tpm2_MakeCredential(r) ==
    Puts(Start, <<AHandle, U16(Len(r.data)), r.data, U16(Len(r.data2)), r.data2>>)
\* Two password areas are joined behind one size.
Tpm2_ActivateCredential(r) ==
    LET active == CreatePasswordAuthArea(r.pw, 512)
        key == CreatePasswordAuthArea(<<>>, 512)
        twin == U16(Len(active) + Len(key) - 4)
                \o SubSeq(active, 3, Len(active)) \o SubSeq(key, 3, Len(key))
    IN PutAll(Puts(Start, <<AHandle, AnotherHandle, U16(0)>>),
              twin \o Sized(r.data) \o Sized(r.data2))
Tpm2_ReadPublic(r) == Put(Start, AHandle)
\* The size of the two sessions is filled in last; both carry the signed key's password.
Tpm2_Certify(r) ==
    LET session == TPM_RS_PW \o U16(0) \o <<1>> \o SetPasswordData(r.pw, MaxParams) IN
    Puts(Start, <<AHandle, AnotherHandle, U16(0), Sized(session \o session),
                  U16(Len(r.data)), r.data, ALG_NULL>>)
Tpm2_Unseal(r) ==
    Puts(Start, <<AHandle, U16(0),
                  Sized(SessionHandle \o U16(0) \o <<1>> \o SetPasswordData(r.pw, MaxParams))>>)

PutScheme(w) == PutAll(w, Marshal_Signature_Scheme_Info(ALG_RSA, ALG_SHA1, Left(w)))
PutPcr(w, r) == PutAll(w, Marshal_PCR_Short_Selection(Selection(r)[1], Left(w)))
\* The room for the data is looked at once more before the scheme.
PutNull(w, r) == PutAll([w EXCEPT !.ok = @ /\ Left(w) >= Len(r.data)], ALG_NULL \o U16(0))

\* A faulty form: the zero half of the PCR count is left out.
QuoteWithoutZero(r) ==
    LET auth == WithAuth(Put(Start, AHandle), r.pw) IN
    PutPcr(PutScheme(Puts(auth, <<U16(Len(r.data)), r.data, ALG_NULL>>)), r)

(***************************************************************************)
(* The signature scheme goes out as ALG_NULL.  The scheme and the hash     *)
(* that follow are read by the TPM with the two zero bytes before them:    *)
(* as the count of the PCR selections, 1 because the callers pass          *)
(* TPM_ALG_RSA, and as the algorithm of the first.                         *)
(***************************************************************************)
Tpm2_Quote(r) ==
    LET auth == WithAuth(Put(Start, AHandle), r.pw)
        data == Puts(auth, <<U16(Len(r.data)), r.data>>)
    IN PutPcr(PutScheme(PutNull(data, r)), r)

Tpm2_LoadContext(r) == PutAll(Start, r.data)
Tpm2_SaveContext(r) == PutAll(Start, AHandle)
Tpm2_FlushContext(r) == PutAll(Start, AHandle)
Tpm2_IncrementNv(r) ==
    LET index == Puts(Start, <<Index, Index>>) IN
    PutAll(PutAll(index, U16(0)), CreatePasswordAuthArea(r.pw, Left(index) - 2))
Tpm2_ReadNv(r) ==
    PutAll(WithAuth(Puts(Start, <<Index, Index>>), r.pw), U16(Len(r.data)) \o U16(0))
Tpm2_WriteNv(r) ==
    Puts(WithAuth(Puts(Start, <<Index, Index>>), r.pw), <<U16(Len(r.data)), r.data, U16(0)>>)
Tpm2_DefineSpace(r) ==
    LET auth == WithAuth(PutAll(Start, TPM_RH_OWNER), <<>>)
        password == PutAll(auth, SetPasswordData(r.pw, Left(auth)))
        size_nv_area == 4 + 4 + 2 + 2 * 2 + Len(r.data)
    IN Puts(password, <<U16(size_nv_area), Index, ALG_SHA1, Flags,
                        U16(Len(r.data)), r.data, U16(Len(r.data2))>>)
Tpm2_UndefineSpace(r) == WithAuth(Put(PutAll(Start, TPM_RH_OWNER), Index), <<>>)
Tpm2_EvictControl(r) ==
    LET handles == Put(PutAll(Start, TPM_RH_OWNER), AHandle) IN
    Put(PutAll(PutAll(handles, U16(0)), CreatePasswordAuthArea(<<>>, Left(handles) - 2)),
        AnotherHandle)
Tpm2_DictionaryAttackLockReset(r) == PutAll(Start, TPM_RH_LOCKOUT)
Tpm2_Rsa_Encrypt(r) ==
    Puts(PutAll(Start, SetPasswordData(r.pw, MaxParams)),
         <<AHandle, U16(Len(r.data)), r.data, ALG_NULL, U16(Len(r.data2)), r.data2>>)


(***************************************************************************)
(* Every command: the parameters that are sent, whether they are sent with *)
(* TPM_ST_SESSIONS, and the arguments of the call that matter.             *)
(***************************************************************************)
Params(r) ==
    CASE r.cmd = "Startup" -> Tpm2_Startup(r)
      [] r.cmd = "GetCapability" -> Tpm2_GetCapability(r)
      [] r.cmd = "GetRandom" -> Tpm2_GetRandom(r)
      [] r.cmd = "ReadClock" -> Tpm2_ReadClock(r)
      [] r.cmd = "PCR_Read" -> Tpm2_ReadPcrs(r)
      [] r.cmd = "PCR_Event" -> Tpm2_PCR_Event(r)
      [] r.cmd = "CreatePrimary" -> Tpm2_CreatePrimary(r)
      [] r.cmd = "CreateKey" -> Tpm2_CreateKey(r)
      [] r.cmd = "CreateSealed" -> Tpm2_CreateSealed(r)
      [] r.cmd = "Load" -> Tpm2_Load(r)
      [] r.cmd = "StartAuthSession" -> Tpm2_StartAuthSession(r)
      [] r.cmd = "PolicyPassword" -> Tpm2_PolicyPassword(r)
      [] r.cmd = "PolicyGetDigest" -> Tpm2_PolicyGetDigest(r)
      [] r.cmd = "PolicyPCR" -> Tpm2_PolicyPcr(r)
      [] r.cmd = "PolicySecret" -> Tpm2_PolicySecret(r)
      [] r.cmd = "MakeCredential" -> Tpm2_MakeCredential(r)
      [] r.cmd = "ActivateCredential" -> Tpm2_ActivateCredential(r)
      [] r.cmd = "ReadPublic" -> Tpm2_ReadPublic(r)
      [] r.cmd = "Certify" -> Tpm2_Certify(r)
      [] r.cmd = "Unseal" -> Tpm2_Unseal(r)
      [] r.cmd = "Quote" -> Tpm2_Quote(r)
      [] r.cmd = "ContextLoad" -> Tpm2_LoadContext(r)
      [] r.cmd = "ContextSave" -> Tpm2_SaveContext(r)
      [] r.cmd = "FlushContext" -> Tpm2_FlushContext(r)
      [] r.cmd = "NV_Increment" -> Tpm2_IncrementNv(r)
      [] r.cmd = "NV_Read" -> Tpm2_ReadNv(r)
      [] r.cmd = "NV_Write" -> Tpm2_WriteNv(r)
      [] r.cmd = "NV_DefineSpace" -> Tpm2_DefineSpace(r)
      [] r.cmd = "NV_UndefineSpace" -> Tpm2_UndefineSpace(r)
      [] r.cmd = "EvictControl" -> Tpm2_EvictControl(r)
      [] r.cmd = "DictionaryAttackLockReset" -> Tpm2_DictionaryAttackLockReset(r)
      [] r.cmd = "RSA_Encrypt" -> Tpm2_Rsa_Encrypt(r)

NoSessions == {"Startup", "GetCapability", "GetRandom", "ReadClock", "PCR_Read",
               "StartAuthSession", "PolicyPassword", "PolicyGetDigest", "PolicyPCR",
               "PolicySecret", "MakeCredential", "ReadPublic", "ContextLoad", "ContextSave",
               "FlushContext", "DictionaryAttackLockReset"}

Code(cmd) == IF cmd \in {"CreateKey", "CreateSealed"} THEN "Create" ELSE cmd

CommandOf(r, params) ==
    [tag |-> IF r.cmd \in NoSessions THEN "NO_SESSIONS" ELSE "SESSIONS",
     size |-> 10 + Len(params), code |-> Code(r.cmd), params |-> params]
Tpm2_SetCommand(r) == CommandOf(r, Params(r).out)

-----------------------------------------------------------------------------
(***************************************************************************)
(* The TPM (external).  It reads handles, then, if the tag says so, the    *)
(* size of the authorisation area and the sessions in it, then the         *)
(* parameters, each in its wire form, and rejects a command that does not  *)
(* parse or has bytes left over.  A value read is a byte string.           *)
(***************************************************************************)
Num(bytes) == FoldLeft(LAMBDA n, b : IF n > 65535 THEN n ELSE 256 * n + b, 0, bytes)

Take(s, n) ==
    IF s.ok /\ Len(s.rest) >= n
    THEN [rest |-> SubSeq(s.rest, n + 1, Len(s.rest)),
          vals |-> Append(s.vals, SubSeq(s.rest, 1, n)), ok |-> TRUE]
    ELSE [s EXCEPT !.ok = FALSE]
Skip(s, n) == [Take(s, n) EXCEPT !.vals = s.vals]
Ahead(s, n) == IF Len(s.rest) >= n THEN Num(SubSeq(s.rest, 1, n)) ELSE 0
TakeSized(s) == Take(Skip(s, 2), Ahead(s, 2))

\* An algorithm, with these many bytes of details unless it is TPM_ALG_NULL.
TakeAlg(s, details) ==
    IF Ahead(s, 2) = Num(ALG_NULL) THEN Take(s, 2) ELSE Take(Take(s, 2), details)

TakeSelect(hash) ==
    IF hash.ok /\ hash.rest # <<>> THEN Take(Skip(hash, 1), Head(hash.rest))
    ELSE [hash EXCEPT !.ok = FALSE]
TakePcrs(s) ==
    LET each(t, i) == TakeSelect(Take(t, 2))
    IN IF Ahead(s, 4) > 2 THEN [s EXCEPT !.ok = FALSE]
       ELSE FoldLeft(each, Skip(s, 4), [i \in 1..Ahead(s, 4) |-> i])

TakeOne(s, kind) ==
    CASE kind = "1" -> Take(s, 1)
      [] kind = "2" -> Take(s, 2)
      [] kind = "4" -> Take(s, 4)
      [] kind = "sized" -> TakeSized(s)
      [] kind = "symmetric" -> TakeAlg(s, 4)
      [] kind = "scheme" -> TakeAlg(s, 2)
      [] kind = "pcrs" -> TakePcrs(s)
      [] kind = "rest" -> Take(s, Len(s.rest))
TakeEach(s, kinds) == FoldLeft(TakeOne, s, kinds)

\* An area of that many bytes, which its parts must fill exactly.
AreaFilled(s, area, inside) ==
    IF ~area.ok \/ ~inside.ok \/ inside.rest # <<>> THEN [s EXCEPT !.ok = FALSE]
    ELSE [area EXCEPT !.vals = inside.vals]
TakeInside(s, area, kinds) ==
    AreaFilled(s, area, TakeEach([rest |-> Last(area.vals), vals |-> s.vals, ok |-> TRUE], kinds))
TakeArea(s, width, kinds) == TakeInside(s, Take(Skip(s, width), Ahead(s, width)), kinds)

RsaPublic == <<"2", "2", "4", "sized", "symmetric", "scheme", "2", "4", "sized">>
KeyedHashPublic == <<"2", "2", "4", "sized", "scheme", "sized">>
TakeParam(s, kind) ==
    CASE kind = "sensitive" -> TakeArea(s, 2, <<"sized", "sized">>)
      [] kind = "public" -> TakeArea(s, 2, IF Len(s.rest) > 3 /\ SubSeq(s.rest, 3, 4) = ALG_RSA
                                           THEN RsaPublic ELSE KeyedHashPublic)
      [] kind = "nv public" -> TakeArea(s, 2, <<"4", "2", "4", "sized", "2">>)
      [] OTHER -> TakeOne(s, kind)

Session == <<"4", "sized", "1", "sized">>
TpmFormat(code) ==
    LET f(handles, sessions, params) ==
            [handles |-> handles, sessions |-> sessions, params |-> params] IN
    CASE code \in {"Startup", "GetRandom"} -> f(0, 0, <<"2">>)
      [] code = "GetCapability" -> f(0, 0, <<"4", "4", "4">>)
      [] code = "ReadClock" -> f(0, 0, <<>>)
      [] code = "PCR_Read" -> f(0, 0, <<"pcrs">>)
      [] code = "PCR_Event" -> f(1, 1, <<"sized">>)
      [] code \in {"CreatePrimary", "Create"} ->
            f(1, 1, <<"sensitive", "public", "sized", "pcrs">>)
      [] code = "Load" -> f(1, 1, <<"sized", "sized">>)
      [] code = "StartAuthSession" -> f(2, 0, <<"sized", "sized", "1", "symmetric", "2">>)
      [] code \in {"PolicyPassword", "PolicyGetDigest", "ReadPublic", "ContextSave",
                   "FlushContext"} -> f(1, 0, <<>>)
      [] code = "PolicyPCR" -> f(1, 0, <<"sized", "pcrs">>)
      [] code = "PolicySecret" -> f(2, 1, <<"sized", "sized", "sized", "4">>)
      [] code = "MakeCredential" -> f(1, 0, <<"sized", "sized">>)
      [] code = "ActivateCredential" -> f(2, 2, <<"sized", "sized">>)
      [] code = "Certify" -> f(2, 2, <<"sized", "scheme">>)
      [] code = "Unseal" -> f(1, 1, <<>>)
      [] code = "Quote" -> f(1, 1, <<"sized", "scheme", "pcrs">>)
      [] code = "ContextLoad" -> f(0, 0, <<"rest">>)
      [] code \in {"NV_Increment", "NV_UndefineSpace"} -> f(2, 1, <<>>)
      [] code = "NV_Read" -> f(2, 1, <<"2", "2">>)
      [] code = "NV_Write" -> f(2, 1, <<"sized", "2">>)
      [] code = "NV_DefineSpace" -> f(1, 1, <<"sized", "nv public">>)
      [] code = "EvictControl" -> f(2, 1, <<"4">>)
      [] code = "DictionaryAttackLockReset" -> f(1, 1, <<>>)
      [] code = "RSA_Encrypt" -> f(1, 0, <<"sized", "scheme", "sized">>)

TakeHandles(s, f) == TakeEach(s, [i \in 1..f.handles |-> "4"])
TakeSessions(s, f) ==
    IF f.sessions = 0 THEN s
    ELSE TakeArea(s, 4, FlattenSeq([i \in 1..f.sessions |-> Session]))
WholeCommand(wire, f, end) ==
    [ok |-> /\ wire.size = 10 + Len(wire.params)
            /\ (wire.tag = "SESSIONS") <=> (f.sessions > 0)
            /\ end.ok /\ end.rest = <<>>,
     vals |-> end.vals]
ReadsAs(wire, f) ==
    LET start == [rest |-> wire.params, vals |-> <<>>, ok |-> TRUE] IN
    WholeCommand(wire, f, FoldLeft(TakeParam, TakeSessions(TakeHandles(start, f), f), f.params))
TpmReads(wire) == ReadsAs(wire, TpmFormat(wire.code))


-----------------------------------------------------------------------------
(***************************************************************************)
(* What the caller means, as the TPM should read it: the handles, for each *)
(* session its handle, nonce, attributes and password, and the parameters. *)
(***************************************************************************)
Auth(handle, password) == <<handle, <<>>, <<1>>, AuthBytes(password)>>
PcrsMeant(r) == IF r.pcr = -1 THEN <<>> ELSE <<ALG_SHA1, PcrSelect(r.pcr)>>
KeyMeant(r) ==
    <<ALG_RSA, ALG_SHA1, Flags, <<>>>>
    \o (IF r.key = "storage" THEN <<ALG_AES, U16(128) \o ALG_CFB, ALG_NULL>>
        ELSE <<ALG_NULL, ALG_RSASSA, ALG_SHA1>>)
    \o <<U16(1024), Exponent, <<>>>>

Meant(r) ==
    CASE r.cmd = "Startup" -> <<U16(0)>>
      [] r.cmd = "GetCapability" -> <<U32(1), AHandle, U32(20)>>
      [] r.cmd = "GetRandom" -> <<U16(Len(r.data))>>
      [] r.cmd = "PCR_Read" -> PcrsMeant(r)
      [] r.cmd = "PCR_Event" -> <<U32(r.pcr)>> \o Auth(TPM_RS_PW, <<>>) \o <<r.data>>
      [] r.cmd = "CreatePrimary" ->
            <<TPM_RH_OWNER>> \o Auth(TPM_RS_PW, <<>>) \o <<AuthBytes(r.pw), <<>>>>
            \o KeyMeant(r) \o <<<<>>>> \o PcrsMeant(r)
      [] r.cmd = "CreateKey" ->
            <<AHandle>> \o Auth(TPM_RS_PW, r.pw) \o <<AuthBytes(r.pw), <<>>>>
            \o KeyMeant(r) \o <<<<>>>> \o PcrsMeant(r)
      [] r.cmd = "CreateSealed" ->
            <<AHandle>> \o Auth(TPM_RS_PW, r.pw) \o <<AuthBytes(r.pw), r.data,
              ALG_KEYEDHASH, ALG_SHA1, Flags, r.data2, ALG_NULL, <<>>, <<>>>> \o PcrsMeant(r)
      [] r.cmd = "Load" -> <<AHandle>> \o Auth(TPM_RS_PW, r.pw) \o <<r.data, r.data2>>
      [] r.cmd = "StartAuthSession" ->
            <<AHandle, AnotherHandle, r.data, r.data2, <<1>>, Symmetric(r.key)>>
            \o (IF r.key = "storage" THEN <<U16(128) \o ALG_CFB>> ELSE <<>>) \o <<ALG_SHA1>>
      [] r.cmd \in {"PolicyPassword", "PolicyGetDigest"} -> <<SessionHandle>>
      [] r.cmd = "PolicyPCR" -> <<SessionHandle, <<>>>> \o PcrsMeant(r)
      [] r.cmd = "MakeCredential" -> <<AHandle, r.data, r.data2>>
      [] r.cmd = "ActivateCredential" ->
            <<AHandle, AnotherHandle>> \o Auth(TPM_RS_PW, r.pw) \o Auth(TPM_RS_PW, <<>>)
            \o <<r.data, r.data2>>
      [] r.cmd = "Certify" ->
            <<AHandle, AnotherHandle>> \o Auth(TPM_RS_PW, r.pw) \o Auth(TPM_RS_PW, r.pw)
            \o <<r.data, ALG_NULL>>
      [] r.cmd = "Unseal" -> <<AHandle>> \o Auth(SessionHandle, r.pw)
      [] r.cmd = "Quote" ->
            <<AHandle>> \o Auth(TPM_RS_PW, r.pw) \o <<r.data, ALG_NULL>> \o PcrsMeant(r)
      [] r.cmd = "ContextLoad" -> <<r.data>>
      [] r.cmd \in {"ReadPublic", "ContextSave", "FlushContext"} -> <<AHandle>>
      [] r.cmd = "NV_Increment" -> <<Index, Index>> \o Auth(TPM_RS_PW, r.pw)
      [] r.cmd = "NV_Read" ->
            <<Index, Index>> \o Auth(TPM_RS_PW, r.pw) \o <<U16(Len(r.data)), U16(0)>>
      [] r.cmd = "NV_Write" ->
            <<Index, Index>> \o Auth(TPM_RS_PW, r.pw) \o <<r.data, U16(0)>>
      [] r.cmd = "NV_DefineSpace" ->
            <<TPM_RH_OWNER>> \o Auth(TPM_RS_PW, <<>>)
            \o <<AuthBytes(r.pw), Index, ALG_SHA1, Flags, r.data, U16(Len(r.data2))>>
      [] r.cmd = "NV_UndefineSpace" -> <<TPM_RH_OWNER, Index>> \o Auth(TPM_RS_PW, <<>>)
      [] r.cmd = "EvictControl" ->
            <<TPM_RH_OWNER, AHandle>> \o Auth(TPM_RS_PW, <<>>) \o <<AnotherHandle>>
      [] OTHER -> <<>>

-----------------------------------------------------------------------------
(***************************************************************************)
(* Answers.  The TPM puts the handle it returns, for a command with        *)
(* sessions the size of the parameters, the parameters, and an empty reply *)
(* for each session.  a and b are the byte strings of the answer, key the  *)
(* kind of key a public area is of.                                        *)
(***************************************************************************)
Modulus == <<201, 202>>
PublicReply(key) == SubSeq(PublicArea(key), 1, Len(PublicArea(key)) - 2) \o Sized(Modulus)
Digests(r) == IF r.pcr = -1 THEN <<>> ELSE <<<<31, 32>>>>

ReplyHandle(cmd) ==
    IF cmd \in {"CreatePrimary", "Load", "StartAuthSession", "ContextLoad"} THEN AnotherHandle
    ELSE <<>>
ReplyParams(r, a, b) ==
    CASE r.cmd \in {"GetRandom", "PolicyGetDigest", "ActivateCredential", "NV_Read",
                    "StartAuthSession", "Load", "Unseal"} -> Sized(a)
      [] r.cmd = "GetCapability" -> <<0>> \o U32(1) \o U32(1) \o AHandle
      [] r.cmd = "ReadClock" -> <<0, 0, 0, 0, 0, 0, 0, 5, 0, 0, 0, 0, 0, 0, 0, 6>>
      [] r.cmd = "PCR_Read" ->
            U32(9) \o Marshal_PCR_Long_Selection(Selection(r), MaxParams)
            \o U32(Len(Digests(r))) \o FlattenSeq([i \in 1..Len(Digests(r)) |-> Sized(Digests(r)[i])])
      [] r.cmd = "CreatePrimary" -> Sized(PublicReply(r.key)) \o Sized(a)
      [] r.cmd \in {"CreateKey", "CreateSealed"} ->
            Sized(a) \o Sized(b) \o Sized(U32(0) \o Sized(a))
      [] r.cmd = "MakeCredential" -> Sized(a) \o Sized(b)
      [] r.cmd = "ReadPublic" -> Sized(PublicReply(r.key)) \o Sized(a) \o Sized(b)
      [] r.cmd \in {"Certify", "Quote"} -> Sized(a) \o ALG_RSASSA \o ALG_SHA1 \o Sized(b)
      [] r.cmd = "ContextSave" -> a
      [] OTHER -> <<>>

Reply(r, a, b) ==
    LET params == ReplyParams(r, a, b)
        sessions == IF r.cmd \in NoSessions THEN 0 ELSE TpmFormat(Code(r.cmd)).sessions
    IN ReplyHandle(r.cmd) \o (IF sessions = 0 THEN params
                              ELSE U32(Len(params)) \o params
                                   \o FlattenSeq([i \in 1..sessions |-> <<0, 0, 1, 0, 0>>]))


(***************************************************************************)
(* What the calls read in the answer, at offsets from the end of its       *)
(* header.  The response buffer is zero beyond the answer.                 *)
(***************************************************************************)
Byte(buf, at) == IF at < Len(buf) THEN buf[at + 1] ELSE 0
Bytes(buf, at, n) == [i \in 1..n |-> Byte(buf, at + i - 1)]
SizeAt(buf, at) == 256 * Byte(buf, at) + Byte(buf, at + 1)
SizedAt(buf, at) == Bytes(buf, at + 2, SizeAt(buf, at))
After(buf, at) == at + 2 + SizeAt(buf, at)

\* The handle, and the modulus where the area of a key without a symmetric algorithm has it.
GetPublicOut(buf) == <<Bytes(buf, 0, 4), SizedAt(buf, 32)>>

GetLoadOut(buf) == <<Bytes(buf, 0, 4)>>

\* The modulus in the parameters of an RSA key, which start with the symmetric algorithm.
GetRsaParams(buf, at) ==
    SizedAt(buf, at + 2 + (IF Bytes(buf, at, 2) # ALG_NULL THEN 8 ELSE 6) + 4)

GetName(buf, at) == SizedAt(buf, at)

\* The key must be an RSA key; its parameters follow the policy of the public area.
GetReadPublicOut(buf) ==
    IF Bytes(buf, 2, 2) # ALG_RSA THEN <<>>
    ELSE <<SizedAt(buf, 0), GetRsaParams(buf, After(buf, 10)), GetName(buf, After(buf, 0))>>

GetCreateOut(buf) == <<SizedAt(buf, 4), SizedAt(buf, After(buf, 4))>>

\* The values of a selection of one PCR, or of none; FillTpmPcrData joins them.
GetPcrValue(buf) ==
    LET values == IF SizeAt(buf, 6) = 0 THEN 8 ELSE 8 + 3 + Byte(buf, 10) IN
    IF SizeAt(buf, values + 2) = 0 THEN <<<<>>>> ELSE <<SizedAt(buf, values + 4)>>

SignedOut(buf) ==
    LET sig == After(buf, 4) IN <<SizedAt(buf, 4), SizedAt(buf, sig + 4)>>

Result(cmd, buf) ==
    CASE cmd = "CreatePrimary" -> GetPublicOut(buf)
      [] cmd = "Load" -> GetLoadOut(buf)
      [] cmd = "ReadPublic" -> GetReadPublicOut(buf)
      [] cmd \in {"CreateKey", "CreateSealed"} -> GetCreateOut(buf)
      [] cmd = "PCR_Read" -> GetPcrValue(buf)
      [] cmd \in {"Certify", "Quote"} -> SignedOut(buf)
      [] cmd = "PolicyGetDigest" -> <<SizedAt(buf, 0)>>
      [] cmd = "StartAuthSession" -> <<Bytes(buf, 0, 4), SizedAt(buf, 4)>>
      [] cmd = "MakeCredential" -> <<SizedAt(buf, 0), SizedAt(buf, After(buf, 0))>>
      [] cmd \in {"ActivateCredential", "NV_Read"} -> <<SizedAt(buf, 4)>>
      [] cmd = "ContextLoad" -> <<Bytes(buf, Len(buf) - 4, 4)>>
      [] cmd = "ContextSave" -> <<buf>>
      [] cmd = "GetCapability" -> <<Bytes(buf, 9, 4)>>
      [] cmd = "ReadClock" -> <<Bytes(buf, 0, 8), Bytes(buf, 8, 8)>>
      [] OTHER -> <<>>

\* What the TPM put there.
ResultMeant(r, a, b) ==
    CASE r.cmd = "CreatePrimary" -> <<AnotherHandle, Modulus>>
      [] r.cmd \in {"Load", "ContextLoad"} -> <<AnotherHandle>>
      [] r.cmd = "ReadPublic" -> <<PublicReply(r.key), Modulus, a>>
      [] r.cmd \in {"CreateKey", "CreateSealed", "MakeCredential", "Certify", "Quote"} -> <<a, b>>
      [] r.cmd = "PCR_Read" -> <<FlattenSeq(Digests(r))>>
      [] r.cmd = "StartAuthSession" -> <<AnotherHandle, a>>
      [] r.cmd \in {"PolicyGetDigest", "ActivateCredential", "NV_Read", "ContextSave"} -> <<a>>
      [] r.cmd = "GetCapability" -> <<AHandle>>
      [] r.cmd = "ReadClock" -> <<U32(0) \o U32(5), U32(0) \o U32(6)>>
      [] OTHER -> <<>>

-----------------------------------------------------------------------------
(***************************************************************************)
(* tm: the call that is going on, how far it is, and the answer.           *)
(***************************************************************************)
VARIABLE tm

NoCall == [at |-> "idle"]

TmInit == tm = NoCall

\* Calls for which a PCR has to be selected; the others may pass none.
NeedsPcr == {"PCR_Read", "Quote"}
\* Calls whose data has any size the caller says.
AnySize == {"PCR_Event", "CreateSealed", "NV_Write", "Quote", "Load"}

ArgumentsOf(cmd) ==
    CASE cmd \in {"GetRandom", "PolicySecret", "ContextLoad"} -> {"data"}
      [] cmd \in {"PCR_Read", "PolicyPCR"} -> {"pcr"}
      [] cmd = "PCR_Event" -> {"pcr", "data"}
      [] cmd \in {"CreatePrimary", "CreateKey"} -> {"pw", "key", "pcr"}
      [] cmd = "CreateSealed" -> {"pw", "data", "data2", "pcr"}
      [] cmd \in {"Load", "ActivateCredential", "RSA_Encrypt", "NV_DefineSpace"} ->
            {"pw", "data", "data2"}
      [] cmd = "StartAuthSession" -> {"data", "data2", "key"}
      [] cmd = "MakeCredential" -> {"data", "data2"}
      [] cmd \in {"Certify", "NV_Read", "NV_Write"} -> {"pw", "data"}
      [] cmd \in {"Unseal", "NV_Increment"} -> {"pw"}
      [] cmd = "Quote" -> {"pw", "data", "pcr"}
      [] cmd = "ReadPublic" -> {"key"}
      [] OTHER -> {}

Commands ==
    NoSessions \cup {"PCR_Event", "CreatePrimary", "CreateKey", "CreateSealed", "Load",
                     "ActivateCredential", "Certify", "Unseal", "Quote", "NV_Increment",
                     "NV_Read", "NV_Write", "NV_DefineSpace", "NV_UndefineSpace",
                     "EvictControl", "RSA_Encrypt"}

Small == {d \in Blobs : 4 * Len(d) <= MaxParams}
Fixed(set, default, needed) == IF needed THEN set ELSE {default}
Calls(cmd) ==
    [cmd : {cmd}, pw : Fixed(Passwords, <<>>, "pw" \in ArgumentsOf(cmd)),
     data : Fixed(IF cmd \in AnySize THEN Blobs ELSE Small, <<>>, "data" \in ArgumentsOf(cmd)),
     data2 : Fixed(Small, <<>>, "data2" \in ArgumentsOf(cmd)),
     pcr : Fixed(IF cmd \in NeedsPcr THEN PcrNums \ {-1} ELSE PcrNums, -1, "pcr" \in ArgumentsOf(cmd)),
     key : Fixed({"storage", "signing"}, "signing", "key" \in ArgumentsOf(cmd))]

\* The call is refused for lack of room, returns at once, or sends its command.
TpmCall(r) ==
    /\ tm = NoCall
    /\ tm' = [at |-> IF r.cmd = "PCR_Event" /\ r.pcr < 0 THEN "returned"
                     ELSE IF Params(r).ok THEN "sent" ELSE "refused", call |-> r]

\* SendCommand or GetResponse fails, and the call returns false.
TransportFails ==
    /\ tm.at \in {"sent", "answered"}
    /\ tm' = [at |-> "returned", call |-> tm.call]

TpmAnswers ==
    /\ tm.at = "sent"
    /\ TpmReads(Tpm2_SetCommand(tm.call)).ok
    /\ \E a, b \in Small :
         tm' = [at |-> "answered", call |-> tm.call, a |-> a, b |-> b]

\* The response code is not TPM_RC_SUCCESS, and the call returns false.
Tpm2_InterpretResponse ==
    /\ tm.at = "sent"
    /\ ~TpmReads(Tpm2_SetCommand(tm.call)).ok
    /\ tm' = [at |-> "rejected", call |-> tm.call]

Returns ==
    /\ tm.at \in {"answered", "rejected", "refused", "returned"}
    /\ tm' = NoCall

TmNext ==
    \/ \E cmd \in Commands : tm = NoCall /\ \E r \in Calls(cmd) : TpmCall(r)
    \/ TransportFails
    \/ TpmAnswers
    \/ Tpm2_InterpretResponse
    \/ Returns

TmSpec == TmInit /\ [][TmNext]_tm

-----------------------------------------------------------------------------
TmTypeOK ==
    /\ tm.at \in {"idle", "sent", "answered", "rejected", "refused", "returned"}
    /\ tm # NoCall => tm.call.cmd \in Commands

\* Commands that have no caller, or whose encoding the TPM does not accept.
NotAccepted == {"PolicySecret", "DictionaryAttackLockReset", "RSA_Encrypt"}

(***************************************************************************)
(* Whatever sizes the caller's data have, a call writes no further than    *)
(* its parameter buffer (except for the count of an empty PCR selection,   *)
(* which Marshal_PCR_Long_Selection writes without a check), and a command *)
(* that the TPM executes has exactly the handles, passwords and parameters *)
(* of the call: also where a size was computed ahead or patched in, where  *)
(* an area that did not fit was left out, and where Tpm2_Quote assembles a *)
(* PCR count from pieces of a signature scheme.  The TPM rejects a command *)
(* only if its data did not fit, and what the call reads out of the answer *)
(* is what the TPM put there (for CreatePrimary the modulus only of a key  *)
(* with a signature scheme).                                               *)
(***************************************************************************)
CommandsSound ==
    /\ tm.at = "sent" =>
         /\ Len(Params(tm.call).out)
              <= MaxParams + (IF tm.call.cmd = "CreateSealed" /\ tm.call.pcr = -1 THEN 4 ELSE 0)
         /\ TpmReads(Tpm2_SetCommand(tm.call)).ok
              => TpmReads(Tpm2_SetCommand(tm.call)).vals = Meant(tm.call)
    /\ tm.at = "rejected" => tm.call.cmd \in NotAccepted \/ tm.call.data \notin Small
    /\ tm.at = "refused" => tm.call.data \notin Small
    /\ tm.at = "answered" =>
         LET read == Result(tm.call.cmd, Reply(tm.call, tm.a, tm.b))
             meant == ResultMeant(tm.call, tm.a, tm.b)
         IN IF tm.call.cmd = "CreatePrimary" /\ tm.call.key = "storage"
            THEN read[1] = meant[1] ELSE read = meant

=============================================================================
