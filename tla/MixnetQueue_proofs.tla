-------------------------- MODULE MixnetQueue_proofs --------------------------
(***************************************************************************)
(* MixnetQueue for any finite set of circuits, any batch size and any      *)
(* number of messages: what ct counts, when dequeue panics and when        *)
(* DoQueue may wait, in which order messages leave and that none is lost.  *)
(***************************************************************************)
EXTENDS MixnetQueue, FiniteSetTheorems, TLAPS

\* A worker has the message it writes in front of it, dequeue awaits it, and
\* only dequeue has workers.
WorkerInv ==
    /\ \A id \in Id : worker[id] # "none" =>
          buf[id] # <<>> /\ id \in batch
    /\ batch # {} => pc = "collect"

\* DoQueue dequeues exactly when enough buffers are counted as ready.
PcInv ==
    /\ pc = "select" => ct < BatchSize
    /\ pc = "dequeue" => ct >= BatchSize
    /\ PanicsOnlyAfterLeak

IInv == TypeOK /\ CtExact /\ WorkerInv /\ PcInv

----------------------------------------------------------------------------
\* The circuits with messages ready are finitely many.
LEMMA ReadyFinite ==
  /\ IsFiniteSet(Ready)
  /\ Cardinality(Ready) \in Nat
  BY IdAssumption, FS_Subset, FS_CardinalityType DEF Ready

\* How the number of ready circuits changes when one buffer does.
LEMMA ReadyChange ==
  ASSUME TypeOK, NEW id \in Id, NEW s, buf' = [buf EXCEPT ![id] = s]
  PROVE  /\ buf[id] = <<>> /\ s # <<>> =>
               Cardinality(Ready') = Cardinality(Ready) + 1
         /\ buf[id] # <<>> /\ s = <<>> =>
               Cardinality(Ready') = Cardinality(Ready) - 1
         /\ (buf[id] = <<>> <=> s = <<>>) =>
               Cardinality(Ready') = Cardinality(Ready)
  <1>1. buf'[id] = s /\ \A x \in Id : x # id => buf'[x] = buf[x]
    BY DEF TypeOK
  <1>2. ASSUME buf[id] = <<>>, s # <<>>
        PROVE  Ready' = Ready \cup {id} /\ id \notin Ready
    BY <1>1, <1>2 DEF Ready
  <1>3. ASSUME buf[id] # <<>>, s = <<>>
        PROVE  Ready' = Ready \ {id} /\ id \in Ready
    BY <1>1, <1>3 DEF Ready
  <1>4. ASSUME buf[id] = <<>> <=> s = <<>>
        PROVE  Ready' = Ready
    BY <1>1, <1>4 DEF Ready
  <1> QED BY <1>2, <1>3, <1>4, ReadyFinite, FS_AddElement, FS_RemoveElement

\* Unchanged buffers have unchanged ready circuits.
LEMMA ReadySame ==
  ASSUME UNCHANGED buf PROVE Ready' = Ready
  BY DEF Ready

\* The queue starts empty, in its select.
LEMMA InitIInv == Init => IInv
  <1> SUFFICES ASSUME Init PROVE IInv
    OBVIOUS
  <1>1. TypeOK
    BY DEF Init, TypeOK
  <1>2. Ready = {}
    BY DEF Init, Ready
  <1>3. CtExact
    BY <1>2, FS_EmptySet DEF Init, CtExact
  <1>4. WorkerInv
    BY DEF Init, WorkerInv
  <1>5. PcInv
    BY BatchAssumption DEF Init, PcInv, PanicsOnlyAfterLeak
  <1> QED BY <1>1, <1>3, <1>4, <1>5 DEF IInv

\* Transmit compares ct with the batch size.
LEMMA TransmitPc ==
  ASSUME Transmit, ct' \in Nat
  PROVE  /\ pc' \in {"select", "dequeue"}
         /\ pc' = "select" => ct' < BatchSize
         /\ pc' = "dequeue" => ct' >= BatchSize
  BY BatchAssumption DEF Transmit

----------------------------------------------------------------------------
\* Putting a message into a buffer keeps ct exact and the types right.
LEMMA PushIInv ==
  ASSUME IInv, NEW id \in Id, NEW remove \in BOOLEAN, NEW report \in BOOLEAN,
         Push(id, remove, report), leaked' = leaked
  PROVE  /\ ct' \in Nat
         /\ buf' \in [Id -> Seq(Message)]
         /\ queued' \in [Id -> Nat]
         /\ CtExact'
  <1> DEFINE k == queued[id] + 1
             m == [n |-> k, remove |-> remove, report |-> report]
             s == Append(buf[id], m)
  <1>1. TypeOK /\ CtExact
    BY DEF IInv
  <1>2. k \in Nat \ {0}
    BY <1>1 DEF TypeOK
  <1>3. m \in Message
    BY <1>2 DEF Message
  <1>4. buf' = [buf EXCEPT ![id] = s] /\ queued' = [queued EXCEPT ![id] = k]
    BY DEF Push
  <1> HIDE DEF m, k
  <1>5. buf[id] \in Seq(Message)
    BY <1>1 DEF TypeOK
  <1>6. s \in Seq(Message) /\ s # <<>>
    BY <1>3, <1>5
  <1> HIDE DEF s
  <1>7. buf' \in [Id -> Seq(Message)] /\ queued' \in [Id -> Nat]
    BY <1>1, <1>2, <1>4, <1>6 DEF TypeOK
  <1>8. ct \in Nat /\ leaked \in Nat /\ ct = Cardinality(Ready) + leaked
    BY <1>1 DEF TypeOK, CtExact
  <1>9. ct' = IF buf[id] = <<>> THEN ct + 1 ELSE ct
    BY DEF Push
  <1>10. CASE buf[id] = <<>>
    <2>1. Cardinality(Ready') = Cardinality(Ready) + 1
      BY <1>1, <1>4, <1>6, <1>10, ReadyChange, Zenon
    <2> QED BY <1>7, <1>8, <1>9, <1>10, <2>1, ReadyFinite DEF CtExact
  <1>11. CASE buf[id] # <<>>
    <2>1. Cardinality(Ready') = Cardinality(Ready)
      BY <1>1, <1>4, <1>6, <1>11, ReadyChange, Zenon
    <2> QED BY <1>7, <1>8, <1>9, <1>11, <2>1, ReadyFinite DEF CtExact
  <1> QED BY <1>10, <1>11

\* Messages are identified by their circuit and their number.
LEMMA NumbersType ==
  ASSUME NEW id \in Id, NEW s \in Seq(Message)
  PROVE  Numbers(id, s) \subseteq Id \X Nat
  <1>1. \A i \in 1 .. Len(s) : s[i] \in Message
    OBVIOUS
  <1>2. \A i \in 1 .. Len(s) : s[i].n \in Nat
    BY <1>1 DEF Message
  <1> QED BY <1>2 DEF Numbers

----------------------------------------------------------------------------
\* Queueing a message, by a connection handler or the error handler.
LEMMA EnqueueIInv ==
  ASSUME IInv, NEW id \in Id, NEW remove \in BOOLEAN, NEW report \in BOOLEAN,
         EnqueueMsg(id, remove, report)
  PROVE  IInv'
  <1>1. TypeOK /\ WorkerInv /\ PcInv /\ pc = "select"
    BY DEF IInv, EnqueueMsg
  <1>2. /\ Push(id, remove, report) /\ Transmit
        /\ UNCHANGED <<batch, worker, handler, handling, written, failed,
                       dropped, leaked>>
    BY DEF EnqueueMsg, workVars, errVars, lossVars
  <1>3. /\ ct' \in Nat /\ buf' \in [Id -> Seq(Message)]
        /\ queued' \in [Id -> Nat] /\ CtExact'
    BY <1>2, PushIInv
  <1>4. asked' \in Nat
    BY <1>1 DEF EnqueueMsg, TypeOK
  <1>5. /\ pc' \in {"select", "dequeue"}
        /\ pc' = "select" => ct' < BatchSize
        /\ pc' = "dequeue" => ct' >= BatchSize
    BY <1>2, <1>3, TransmitPc
  <1>6. TypeOK'
    BY <1>1, <1>2, <1>3, <1>4, <1>5, Zenon DEF TypeOK
  <1>7. WorkerInv'
    BY <1>1, <1>2 DEF WorkerInv
  <1>8. PcInv'
    BY <1>5 DEF PcInv, PanicsOnlyAfterLeak
  <1> QED BY <1>3, <1>6, <1>7, <1>8 DEF IInv

\* The error handler queues in the same way.
LEMMA HandlerEnqueueIInv ==
  ASSUME IInv, HandlerEnqueue
  PROVE  IInv'
  <1>1. TypeOK /\ WorkerInv /\ PcInv /\ pc = "select"
    BY DEF IInv, HandlerEnqueue
  <1>2. /\ Push(handler, FALSE, FALSE) /\ Transmit /\ handler' = NoError
        /\ UNCHANGED <<batch, worker, handling, asked, written, failed,
                       dropped, leaked>>
    BY Zenon DEF HandlerEnqueue, workVars, lossVars
  <1>3. handler \in Id
    BY <1>1 DEF HandlerEnqueue, TypeOK
  <1>4. /\ ct' \in Nat /\ buf' \in [Id -> Seq(Message)]
        /\ queued' \in [Id -> Nat] /\ CtExact'
    BY <1>2, <1>3, PushIInv, Zenon
  <1>5. /\ pc' \in {"select", "dequeue"}
        /\ pc' = "select" => ct' < BatchSize
        /\ pc' = "dequeue" => ct' >= BatchSize
    BY <1>2, <1>4, TransmitPc
  <1>6. TypeOK'
    BY <1>1, <1>2, <1>4, <1>5, Zenon DEF TypeOK
  <1>7. WorkerInv'
    BY <1>1, <1>2 DEF WorkerInv
  <1>8. PcInv'
    BY <1>5 DEF PcInv, PanicsOnlyAfterLeak
  <1> QED BY <1>4, <1>6, <1>7, <1>8 DEF IInv

\* Close without a message: every message it deletes leaks one count.
LEMMA CloseIInv ==
  ASSUME IInv, NEW id \in Id, CloseAtOnce(id)
  PROVE  IInv'
  <1>1. TypeOK /\ CtExact /\ WorkerInv /\ PcInv /\ pc = "select"
    BY DEF IInv, CloseAtOnce
  <1>2. /\ buf' = [buf EXCEPT ![id] = <<>>] /\ Transmit
        /\ leaked' = IF buf[id] = <<>> THEN leaked ELSE leaked + 1
        /\ dropped' = dropped \cup Numbers(id, buf[id])
        /\ UNCHANGED <<ct, queued, batch, worker, handler, handling, asked,
                       written, failed>>
    BY DEF CloseAtOnce, workVars, errVars
  <1>3. leaked \in Nat /\ ct \in Nat /\ ct = Cardinality(Ready) + leaked
    BY <1>1 DEF TypeOK, CtExact
  <1>4. leaked' \in Nat /\ CtExact'
    <2>1. CASE buf[id] = <<>>
      <3>1. Cardinality(Ready') = Cardinality(Ready)
        BY <1>1, <1>2, <2>1, ReadyChange, Zenon
      <3> QED BY <1>2, <1>3, <2>1, <3>1 DEF CtExact
    <2>2. CASE buf[id] # <<>>
      <3>1. Cardinality(Ready') = Cardinality(Ready) - 1
        BY <1>1, <1>2, <2>2, ReadyChange, Zenon
      <3> QED BY <1>2, <1>3, <2>2, <3>1, ReadyFinite DEF CtExact
    <2> QED BY <2>1, <2>2
  <1>5. /\ pc' \in {"select", "dequeue"}
        /\ pc' = "select" => ct' < BatchSize
        /\ pc' = "dequeue" => ct' >= BatchSize
    BY <1>2, <1>3, TransmitPc
  <1>6. buf' \in [Id -> Seq(Message)]
    BY <1>1, <1>2 DEF TypeOK
  <1>7. Numbers(id, buf[id]) \subseteq Id \X Nat
    BY <1>1, NumbersType DEF TypeOK
  <1>8. TypeOK'
    BY <1>1, <1>2, <1>4, <1>5, <1>6, <1>7 DEF TypeOK
  <1>9. WorkerInv'
    BY <1>1, <1>2 DEF WorkerInv
  <1>10. PcInv'
    BY <1>5 DEF PcInv, PanicsOnlyAfterLeak
  <1> QED BY <1>4, <1>8, <1>9, <1>10 DEF IInv

----------------------------------------------------------------------------
\* dequeue gives workers to circuits that have a message ready.
LEMMA DequeueIInv ==
  ASSUME IInv, Dequeue
  PROVE  IInv'
  <1>1. TypeOK /\ CtExact /\ PcInv
    BY DEF IInv
  <1>2. PICK B \in SUBSET Ready :
          /\ batch' = B
          /\ worker' = [id \in Id |-> IF id \in B THEN "writing" ELSE "none"]
    BY DEF Dequeue
  <1>3. /\ pc' = "collect"
        /\ UNCHANGED <<ct, buf, queued, handler, handling, asked, written,
                       failed, dropped, leaked>>
    BY DEF Dequeue, queueVars, errVars, lossVars
  <1>4. B \subseteq Id /\ \A id \in B : buf[id] # <<>>
    BY DEF Ready
  <1>5. TypeOK'
    BY <1>1, <1>2, <1>3, <1>4 DEF TypeOK
  <1>6. CtExact'
    BY <1>1, <1>3, ReadySame DEF CtExact
  <1>7. WorkerInv'
    BY <1>2, <1>3, <1>4 DEF WorkerInv
  <1>8. PcInv'
    BY <1>3 DEF PcInv, PanicsOnlyAfterLeak
  <1> QED BY <1>5, <1>6, <1>7, <1>8 DEF IInv

\* dequeue panics only when ct is not the number of ready circuits.
LEMMA PanicIInv ==
  ASSUME IInv, Panic
  PROVE  IInv'
  <1>1. TypeOK /\ CtExact /\ WorkerInv /\ pc = "dequeue"
    BY DEF IInv, Panic
  <1>2. /\ pc' = "panicked"
        /\ UNCHANGED <<ct, buf, queued, batch, worker, handler, handling, asked,
                       written, failed, dropped, leaked>>
    BY DEF Panic, queueVars, workVars, errVars, lossVars
  <1>3. leaked > 0
    BY <1>1, ReadyFinite DEF Panic, CtExact, TypeOK
  <1>4. TypeOK'
    BY <1>1, <1>2 DEF TypeOK
  <1>5. CtExact'
    BY <1>1, <1>2, ReadySame DEF CtExact
  <1>6. WorkerInv'
    BY <1>1, <1>2 DEF WorkerInv
  <1>7. PcInv'
    BY <1>2, <1>3 DEF PcInv, PanicsOnlyAfterLeak
  <1> QED BY <1>4, <1>5, <1>6, <1>7 DEF IInv

\* A worker leaves the buffers alone.
LEMMA WriteIInv ==
  ASSUME IInv, NEW id \in Id, Write(id)
  PROVE  IInv'
  <1>1. TypeOK /\ CtExact /\ WorkerInv /\ PcInv /\ pc = "collect"
        /\ buf[id] # <<>>
    BY DEF IInv, Write, WorkerInv
  <1>2. UNCHANGED <<pc, ct, buf, queued, batch, handler, handling, asked, dropped,
                    leaked>>
    BY DEF Write, queueVars, errVars
  <1>3. Head(buf[id]).n \in Nat
    <2>1. Head(buf[id]) \in Message
      BY <1>1 DEF TypeOK
    <2> QED BY <2>1 DEF Message
  <1>4. /\ worker' \in [Id -> {"none", "writing", "reporting", "result"}]
        /\ written' \in [Id -> Seq(Nat)]
        /\ failed' \in SUBSET (Id \X Nat)
        /\ \A x \in Id : worker'[x] # "none" => worker[x] # "none"
    <2> DEFINE k == Head(buf[id]).n
    <2>1. \/ /\ worker' = [worker EXCEPT ![id] = "result"]
             /\ written' = [written EXCEPT ![id] = Append(@, k)]
             /\ failed' = failed
          \/ /\ worker' = [worker EXCEPT ![id] = "reporting"]
             /\ failed' = failed \cup {<<id, k>>}
             /\ written' = written
      BY DEF Write
    <2>2. k \in Nat
      BY <1>3
    <2> HIDE DEF k
    <2>3. Append(written[id], k) \in Seq(Nat)
      BY <1>1, <2>2 DEF TypeOK
    <2>4. worker[id] = "writing"
      BY DEF Write
    <2>5. <<id, k>> \in Id \X Nat
      BY <2>2
    <2>6. worker' \in [Id -> {"none", "writing", "reporting", "result"}]
      BY <1>1, <2>1, Zenon DEF TypeOK
    <2>7. \A x \in Id : worker'[x] # "none" => worker[x] # "none"
      BY <1>1, <2>1, <2>4 DEF TypeOK
    <2>8. written' \in [Id -> Seq(Nat)]
      BY <1>1, <2>1, <2>3, Zenon DEF TypeOK
    <2>9. failed' \in SUBSET (Id \X Nat)
      BY <1>1, <2>1, <2>5 DEF TypeOK
    <2> QED BY <2>6, <2>7, <2>8, <2>9
  <1>5. TypeOK'
    BY <1>1, <1>2, <1>4 DEF TypeOK
  <1>6. CtExact'
    BY <1>1, <1>2, ReadySame DEF CtExact
  <1>7. WorkerInv'
    BY <1>1, <1>2, <1>4 DEF WorkerInv
  <1>8. PcInv'
    BY <1>1, <1>2 DEF PcInv, PanicsOnlyAfterLeak
  <1> QED BY <1>5, <1>6, <1>7, <1>8 DEF IInv

\* So does the error handler when it takes an error.
LEMMA HandlerReceiveIInv ==
  ASSUME IInv, NEW id \in Id, HandlerReceive(id)
  PROVE  IInv'
  <1>1. TypeOK /\ CtExact /\ WorkerInv /\ PcInv
    BY DEF IInv
  <1>2. UNCHANGED <<pc, ct, buf, queued, batch, handling, asked, written, failed,
                    dropped, leaked>>
    BY DEF HandlerReceive, queueVars, lossVars
  <1>3. /\ worker' \in [Id -> {"none", "writing", "reporting", "result"}]
        /\ handler' \in Id \cup {NoError}
        /\ \A x \in Id : worker'[x] # "none" => worker[x] # "none"
    BY <1>1 DEF HandlerReceive, TypeOK
  <1>4. TypeOK'
    BY <1>1, <1>2, <1>3 DEF TypeOK
  <1>5. CtExact'
    BY <1>1, <1>2, ReadySame DEF CtExact
  <1>6. WorkerInv'
    BY <1>1, <1>2, <1>3 DEF WorkerInv
  <1>7. PcInv'
    BY <1>1, <1>2 DEF PcInv, PanicsOnlyAfterLeak
  <1> QED BY <1>4, <1>5, <1>6, <1>7 DEF IInv

\* Collecting a result removes a message, and with the last one a count.
LEMMA CollectIInv ==
  ASSUME IInv, NEW id \in Id, Collect(id)
  PROVE  IInv'
  <1> DEFINE s == IF Head(buf[id]).remove THEN <<>> ELSE Tail(buf[id])
  <1>1. TypeOK /\ CtExact /\ WorkerInv /\ PcInv /\ pc = "collect"
        /\ buf[id] # <<>>
    BY DEF IInv, Collect, WorkerInv
  <1>2. buf[id] \in Seq(Message)
    BY <1>1 DEF TypeOK
  <1>3. Tail(buf[id]) \in Seq(Message) /\ s \in Seq(Message)
    BY <1>1, <1>2
  <1>4. buf' = [buf EXCEPT ![id] = s] /\ buf'[id] = s
    BY <1>1 DEF Collect, TypeOK
  <1> HIDE DEF s
  <1>5. /\ ct' = IF s = <<>> THEN ct - 1 ELSE ct
        /\ worker' = [worker EXCEPT ![id] = "none"]
        /\ batch' = batch \ {id}
        /\ IF batch' = {} THEN Transmit ELSE UNCHANGED pc
        /\ UNCHANGED <<queued, handler, handling, asked, written, failed, leaked>>
    BY <1>4, Zenon DEF Collect, errVars
  <1>6. dropped' \in SUBSET (Id \X Nat)
    BY <1>1, <1>3, NumbersType, Zenon DEF Collect, TypeOK
  <1>7. ct' \in Nat /\ CtExact'
    <2>1. ct \in Nat /\ leaked \in Nat /\ ct = Cardinality(Ready) + leaked
      BY <1>1 DEF TypeOK, CtExact
    <2>2. CASE s = <<>>
      <3>1. Cardinality(Ready') = Cardinality(Ready) - 1
        BY <1>1, <1>4, <2>2, ReadyChange, Zenon
      <3>2. Cardinality(Ready) # 0
        <4>1. id \in Ready
          BY <1>1 DEF Ready
        <4> QED BY <4>1, ReadyFinite, FS_EmptySet
      <3> QED BY <1>5, <2>1, <2>2, <3>1, <3>2, ReadyFinite DEF CtExact
    <2>3. CASE s # <<>>
      <3>1. Cardinality(Ready') = Cardinality(Ready)
        BY <1>1, <1>4, <2>3, ReadyChange, Zenon
      <3> QED BY <1>5, <2>1, <2>3, <3>1 DEF CtExact
    <2> QED BY <2>2, <2>3
  <1>8. \/ batch' = {} /\ pc' \in {"select", "dequeue"}
           /\ (pc' = "select" => ct' < BatchSize)
           /\ (pc' = "dequeue" => ct' >= BatchSize)
        \/ batch' # {} /\ pc' = "collect"
    BY <1>1, <1>5, <1>7, TransmitPc
  <1>9. TypeOK'
    BY <1>1, <1>3, <1>4, <1>5, <1>6, <1>7, <1>8 DEF TypeOK
  <1>10. WorkerInv'
    BY <1>1, <1>4, <1>5, <1>8 DEF WorkerInv, TypeOK
  <1>11. PcInv'
    BY <1>8 DEF PcInv, PanicsOnlyAfterLeak
  <1> QED BY <1>7, <1>9, <1>10, <1>11 DEF IInv

\* Killing the queue or its error handler changes no buffer.
LEMMA KillIInv ==
  ASSUME IInv, KillQueue \/ KillHandler
  PROVE  IInv'
  <1>1. TypeOK /\ CtExact /\ WorkerInv /\ PcInv
    BY DEF IInv
  <1>2. /\ pc' = "killed" /\ pc # "collect"
        /\ handling' \in BOOLEAN
        /\ UNCHANGED <<ct, buf, queued, batch, worker, handler, asked, written,
                       failed, dropped, leaked>>
    BY <1>1, Zenon DEF KillQueue, KillHandler, TypeOK, queueVars, workVars, errVars,
                lossVars
  <1>3. TypeOK'
    BY <1>1, <1>2 DEF TypeOK
  <1>4. CtExact'
    BY <1>1, <1>2, ReadySame DEF CtExact
  <1>5. WorkerInv'
    BY <1>1, <1>2 DEF WorkerInv
  <1>6. PcInv'
    BY <1>2 DEF PcInv, PanicsOnlyAfterLeak
  <1> QED BY <1>3, <1>4, <1>5, <1>6 DEF IInv

\* Every step preserves the invariant.
LEMMA NextIInv ==
  ASSUME IInv, [Next]_vars
  PROVE  IInv'
  <1>1. CASE UNCHANGED vars
    <2>1. UNCHANGED <<pc, ct, buf, queued, batch, worker, handler, handling, asked,
                      written, failed, dropped, leaked>>
      BY <1>1 DEF vars, queueVars, workVars, errVars, lossVars
    <2> QED BY <2>1 DEF IInv, TypeOK, CtExact, Ready, WorkerInv, PcInv,
                        PanicsOnlyAfterLeak
  <1>2. CASE Next
    BY <1>2, EnqueueIInv, HandlerEnqueueIInv, CloseIInv, DequeueIInv, PanicIInv,
       WriteIInv, HandlerReceiveIInv, CollectIInv, KillIInv
    DEF Next
  <1> QED BY <1>1, <1>2

\* The invariant holds in every reachable state.
THEOREM Invariance == Spec => []IInv
  <1>1. IInv /\ [Next]_vars => IInv'
    BY NextIInv
  <1> QED BY InitIInv, <1>1, PTL DEF Spec

\* Queueing, sending, closing and killing keep every variable in its type;
\* in particular ct never goes below zero.
THEOREM TypeCorrect == Spec => []TypeOK
  <1>1. IInv => TypeOK
    BY DEF IInv
  <1> QED BY <1>1, Invariance, PTL

\* ct exceeds the number of buffers with messages by exactly the buffers that
\* Close deleted while they held messages.
THEOREM CountIsExact == Spec => []CtExact
  <1>1. IInv => CtExact
    BY DEF IInv
  <1> QED BY <1>1, Invariance, PTL

\* As long as Close deletes no buffer with messages, dequeue never panics.
THEOREM PanicsHaveACause == Spec => []PanicsOnlyAfterLeak
  <1>1. IInv => PanicsOnlyAfterLeak
    BY DEF IInv, PcInv
  <1> QED BY <1>1, Invariance, PTL

\* DoQueue never waits while batchSize circuits have a message ready.
THEOREM BatchesArePrompt == Spec => []PromptBatch
  <1>1. IInv => PromptBatch
    <2> SUFFICES ASSUME IInv, pc = "select" PROVE Cardinality(Ready) < BatchSize
      BY DEF PromptBatch
    <2>1. /\ ct < BatchSize /\ ct = Cardinality(Ready) + leaked
          /\ ct \in Nat /\ leaked \in Nat
      BY DEF IInv, PcInv, CtExact, TypeOK
    <2> QED BY <2>1, ReadyFinite, BatchAssumption
  <1> QED BY <1>1, Invariance, PTL

----------------------------------------------------------------------------
(***************************************************************************)
(* The order of a circuit's messages.  Of the q messages queued for it,    *)
(* the first k were tried (written, failed or deleted), and the buffer b   *)
(* holds the last ones: all that were not tried, and the one whose worker  *)
(* has tried it but whose result dequeue has not yet received.             *)
(***************************************************************************)
Counted(b, q, k) ==
    q \in Nat /\ k \in Nat /\ k <= q /\ k \in {q - Len(b), q - Len(b) + 1}

Numbered(b, q) == \A i \in 1 .. Len(b) : b[i].n = q - Len(b) + i

Ascending(w, k) ==
    /\ \A i, j \in 1 .. Len(w) : i < j => w[i] < w[j]
    /\ \A i \in 1 .. Len(w) : w[i] <= k

Settled(id, k, w, lost) ==
    \A n \in 1 .. k : (\E i \in 1 .. Len(w) : w[i] = n) \/ <<id, n>> \in lost

Line(id, b, q, k, w, lost) ==
    /\ b \in Seq(Message) /\ w \in Seq(Nat)
    /\ Counted(b, q, k) /\ Numbered(b, q) /\ Ascending(w, k) /\ Settled(id, k, w, lost)

Tried(id) ==
    queued[id] - Len(buf[id]) + IF worker[id] \in {"reporting", "result"} THEN 1 ELSE 0

LineInv ==
    \A id \in Id : Line(id, buf[id], queued[id], Tried(id), written[id], failed \cup dropped)

\* A message that is queued gets the next number.
LEMMA LinePush ==
  ASSUME NEW id, NEW b, NEW q, NEW k, NEW w, NEW lost, Line(id, b, q, k, w, lost),
         NEW m \in Message, m.n = q + 1
  PROVE  Line(id, Append(b, m), q + 1, k, w, lost)
  <1> DEFINE c == Append(b, m)
  <1>1. b \in Seq(Message) /\ Counted(b, q, k) /\ Numbered(b, q)
    BY DEF Line
  <1>2. Len(b) \in Nat /\ q \in Nat /\ k \in Nat
    BY <1>1 DEF Counted
  <1>3. c \in Seq(Message) /\ Len(c) = Len(b) + 1 /\ c[Len(b) + 1] = m
        /\ \A i \in 1 .. Len(b) : c[i] = b[i]
    BY <1>1
  <1> HIDE DEF c
  <1>4. ASSUME NEW i \in 1 .. Len(c) PROVE c[i].n = (q + 1) - Len(c) + i
    <2>1. CASE i = Len(b) + 1
      BY <1>2, <1>3, <2>1
    <2>2. CASE i # Len(b) + 1
      <3>1. Len(c) = Len(b) + 1
        BY <1>3
      <3>2. i \in 1 .. Len(b)
        BY <1>2, <2>2, <3>1
      <3>3. b[i].n = q - Len(b) + i /\ c[i] = b[i]
        BY <1>1, <1>3, <3>2 DEF Numbered
      <3> QED BY <1>2, <3>1, <3>2, <3>3
    <2> QED BY <2>1, <2>2
  <1>5. Counted(c, q + 1, k)
    BY <1>1, <1>2, <1>3 DEF Counted
  <1>6. Numbered(c, q + 1)
    BY <1>4 DEF Numbered
  <1>7. Line(id, c, q + 1, k, w, lost)
    BY <1>3, <1>5, <1>6 DEF Line
  <1> QED BY <1>7 DEF c

\* The first message of a buffer is the next after those that were tried.
LEMMA NextMessage ==
  ASSUME NEW b, NEW q, NEW k, b \in Seq(Message), b # <<>>, Counted(b, q, k), Numbered(b, q),
         k = q - Len(b)
  PROVE  Head(b).n = k + 1 /\ Counted(b, q, k + 1)
  <1>1. Len(b) \in Nat \ {0} /\ q \in Nat /\ k \in Nat /\ Head(b) = b[1]
    BY DEF Counted
  <1>2. b[1].n = q - Len(b) + 1
    BY <1>1 DEF Numbered
  <1> QED BY <1>1, <1>2 DEF Counted

\* A worker that succeeds has written the next message.
LEMMA LineWritten ==
  ASSUME NEW id, NEW b, NEW q, NEW k, NEW w, NEW lost, Line(id, b, q, k, w, lost),
         b # <<>>, k = q - Len(b)
  PROVE  Line(id, b, q, k + 1, Append(w, Head(b).n), lost)
  <1> DEFINE v == Append(w, k + 1)
  <1>1. b \in Seq(Message) /\ w \in Seq(Nat) /\ Counted(b, q, k) /\ Numbered(b, q)
        /\ Ascending(w, k) /\ Settled(id, k, w, lost)
    BY DEF Line
  <1>2. Head(b).n = k + 1 /\ Counted(b, q, k + 1) /\ k \in Nat /\ Len(w) \in Nat
    <2>1. Head(b).n = k + 1 /\ Counted(b, q, k + 1)
      BY <1>1, NextMessage
    <2> QED BY <1>1, <2>1 DEF Counted
  <1>3. v \in Seq(Nat) /\ Len(v) = Len(w) + 1 /\ v[Len(w) + 1] = k + 1
        /\ \A i \in 1 .. Len(w) : v[i] = w[i] /\ w[i] \in Nat
    BY <1>1, <1>2
  <1> HIDE DEF v
  <1>4. Len(v) = Len(w) + 1
    BY <1>3
  <1>5. ASSUME NEW i \in 1 .. Len(w)
        PROVE  i \in 1 .. Len(v) /\ v[i] = w[i] /\ v[i] \in Nat /\ v[i] <= k
    <2>1. i \in 1 .. Len(v)
      BY <1>2, <1>4
    <2> QED BY <1>1, <1>3, <2>1 DEF Ascending
  <1>6. ASSUME NEW i \in 1 .. Len(v)
        PROVE  i \in 1 .. Len(w) \/ i = Len(w) + 1
    BY <1>2, <1>4
  <1>7. Ascending(v, k + 1)
    <2>1. ASSUME NEW i \in 1 .. Len(v) PROVE v[i] <= k + 1
      BY <1>2, <1>3, <1>5, <1>6
    <2>2. ASSUME NEW i \in 1 .. Len(v), NEW j \in 1 .. Len(v), i < j PROVE v[i] < v[j]
      <3>1. i \in 1 .. Len(w)
        BY <1>2, <1>4, <2>2
      <3>2. CASE j = Len(w) + 1
        BY <1>2, <1>3, <1>5, <3>1, <3>2
      <3>3. CASE j \in 1 .. Len(w)
        BY <1>1, <1>5, <2>2, <3>1, <3>3 DEF Ascending
      <3> QED BY <1>6, <3>2, <3>3
    <2> QED BY <2>1, <2>2 DEF Ascending
  <1>8. Settled(id, k + 1, v, lost)
    <2> SUFFICES ASSUME NEW n \in 1 .. k + 1
                 PROVE  (\E i \in 1 .. Len(v) : v[i] = n) \/ <<id, n>> \in lost
      BY DEF Settled
    <2>1. CASE n = k + 1
      <3>1. Len(w) + 1 \in 1 .. Len(v)
        BY <1>2, <1>4
      <3> QED BY <1>3, <2>1, <3>1
    <2>2. CASE n # k + 1
      <3>1. n \in 1 .. k
        BY <1>2, <2>2
      <3>2. (\E i \in 1 .. Len(w) : w[i] = n) \/ <<id, n>> \in lost
        BY <1>1, <3>1 DEF Settled
      <3> QED BY <1>5, <3>2
    <2> QED BY <2>1, <2>2
  <1>9. Line(id, b, q, k + 1, v, lost)
    BY <1>1, <1>2, <1>3, <1>7, <1>8 DEF Line
  <1> QED BY <1>2, <1>9 DEF v

\* What was settled stays so when more is lost.
LEMMA LineMore ==
  ASSUME NEW id, NEW b, NEW q, NEW k, NEW w, NEW lost, Line(id, b, q, k, w, lost),
         NEW more, lost \subseteq more
  PROVE  Line(id, b, q, k, w, more)
  BY DEF Line, Settled

\* Numbers up to k are below any larger bound.
LEMMA AscendingMore ==
  ASSUME NEW w \in Seq(Nat), NEW k \in Nat, NEW l \in Nat, Ascending(w, k), k <= l
  PROVE  Ascending(w, l)
  <1>1. ASSUME NEW i \in 1 .. Len(w) PROVE w[i] <= l
    <2>1. w[i] \in Nat /\ w[i] <= k
      BY DEF Ascending
    <2> QED BY <2>1
  <1> QED BY <1>1 DEF Ascending

\* A write that fails loses the next message.
LEMMA LineFailed ==
  ASSUME NEW id, NEW b, NEW q, NEW k, NEW w, NEW lost, Line(id, b, q, k, w, lost),
         b # <<>>, k = q - Len(b), NEW more, more = lost \cup {<<id, Head(b).n>>}
  PROVE  Line(id, b, q, k + 1, w, more)
  <1>1. b \in Seq(Message) /\ w \in Seq(Nat) /\ Counted(b, q, k) /\ Numbered(b, q)
        /\ Ascending(w, k) /\ Settled(id, k, w, lost)
    BY DEF Line
  <1>2. Head(b).n = k + 1 /\ Counted(b, q, k + 1) /\ k \in Nat
    BY <1>1, NextMessage DEF Counted
  <1>3. <<id, k + 1>> \in more /\ lost \subseteq more
    BY <1>2
  <1>4. ASSUME NEW n \in 1 .. k + 1
        PROVE  (\E i \in 1 .. Len(w) : w[i] = n) \/ <<id, n>> \in more
    <2>1. CASE n = k + 1
      BY <1>3, <2>1
    <2>2. CASE n # k + 1
      <3>1. n \in 1 .. k
        BY <1>2, <2>2
      <3> QED BY <1>1, <1>3, <3>1 DEF Settled
    <2> QED BY <2>1, <2>2
  <1>5. k + 1 \in Nat /\ k <= k + 1
    BY <1>2
  <1>6. Ascending(w, k + 1)
    BY <1>1, <1>2, <1>5, AscendingMore
  <1>7. Settled(id, k + 1, w, more)
    BY <1>4 DEF Settled
  <1> QED BY <1>1, <1>2, <1>6, <1>7 DEF Line

\* dequeue removes the message that was tried.
LEMMA LineTail ==
  ASSUME NEW id, NEW b, NEW q, NEW k, NEW w, NEW lost, Line(id, b, q, k, w, lost),
         b # <<>>, k = q - Len(b) + 1
  PROVE  Line(id, Tail(b), q, k, w, lost) /\ k = q - Len(Tail(b))
  <1> DEFINE c == Tail(b)
  <1>1. b \in Seq(Message) /\ Counted(b, q, k) /\ Numbered(b, q)
    BY DEF Line
  <1>2. Len(b) \in Nat \ {0} /\ q \in Nat /\ k \in Nat
    BY <1>1 DEF Counted
  <1>3. c \in Seq(Message) /\ Len(c) = Len(b) - 1 /\ \A i \in 1 .. Len(c) : c[i] = b[i + 1]
    BY <1>1, <1>2
  <1> HIDE DEF c
  <1>4. Len(c) = Len(b) - 1
    BY <1>3
  <1>5. Numbered(c, q)
    <2> SUFFICES ASSUME NEW i \in 1 .. Len(c) PROVE c[i].n = q - Len(c) + i
      BY DEF Numbered
    <2>1. i + 1 \in 1 .. Len(b) /\ i \in Nat
      BY <1>2, <1>4
    <2>2. b[i + 1].n = q - Len(b) + (i + 1) /\ c[i] = b[i + 1]
      BY <1>1, <1>3, <2>1 DEF Numbered
    <2> QED BY <1>2, <1>4, <2>1, <2>2
  <1>6. k = q - Len(c) /\ Counted(c, q, k)
    BY <1>1, <1>2, <1>4 DEF Counted
  <1>7. Line(id, c, q, k, w, lost)
    BY <1>3, <1>5, <1>6 DEF Line
  <1> QED BY <1>6, <1>7 DEF c

\* The buffer of a circuit that has none.
LEMMA EmptyBuffer ==
  ASSUME NEW q \in Nat
  PROVE  /\ <<>> \in Seq(Message) /\ Len(<<>>) = 0
         /\ Counted(<<>>, q, q) /\ Numbered(<<>>, q)
  <1>1. <<>> \in Seq(Message) /\ Len(<<>>) = 0 /\ 1 .. 0 = {}
    OBVIOUS
  <1> QED BY <1>1 DEF Counted, Numbered

\* A buffer that is deleted loses all that was not tried.
LEMMA LineDropped ==
  ASSUME NEW id, NEW b, NEW q, NEW k, NEW w, NEW lost, Line(id, b, q, k, w, lost),
         k = q - Len(b), NEW more, lost \cup Numbers(id, b) \subseteq more
  PROVE  Line(id, <<>>, q, q, w, more)
  <1>1. b \in Seq(Message) /\ w \in Seq(Nat) /\ Counted(b, q, k) /\ Numbered(b, q)
        /\ Ascending(w, k) /\ Settled(id, k, w, lost)
    BY DEF Line
  <1>2. Len(b) \in Nat /\ q \in Nat /\ k \in Nat /\ k <= q
    BY <1>1 DEF Counted
  <1>3. ASSUME NEW n \in 1 .. q
        PROVE  (\E i \in 1 .. Len(w) : w[i] = n) \/ <<id, n>> \in more
    <2>1. CASE n \in 1 .. k
      BY <1>1, <2>1 DEF Settled
    <2>2. CASE n \notin 1 .. k
      <3>1. n - k \in 1 .. Len(b) /\ n \in Nat
        BY <1>2, <2>2
      <3>2. b[n - k].n = q - Len(b) + (n - k)
        BY <1>1, <3>1 DEF Numbered
      <3>3. b[n - k].n = n
        BY <1>2, <3>1, <3>2
      <3>4. <<id, n>> \in Numbers(id, b)
        BY <3>1, <3>3 DEF Numbers
      <3> QED BY <3>4
    <2> QED BY <2>1, <2>2
  <1>4. Ascending(w, q)
    BY <1>1, <1>2, AscendingMore
  <1>5. Settled(id, q, w, more)
    BY <1>3 DEF Settled
  <1> QED BY <1>1, <1>2, <1>4, <1>5, EmptyBuffer DEF Line

----------------------------------------------------------------------------
\* NewQueue: nothing was queued.
LEMMA InitLine == Init => LineInv
  <1> SUFFICES ASSUME Init, NEW id \in Id
               PROVE  Line(id, buf[id], queued[id], Tried(id), written[id], failed \cup dropped)
    BY DEF LineInv
  <1>1. buf[id] = <<>> /\ queued[id] = 0 /\ written[id] = <<>> /\ worker[id] = "none"
    BY DEF Init
  <1>2. Tried(id) = 0
    BY <1>1 DEF Tried
  <1>3. <<>> \in Seq(Nat) /\ Len(<<>>) = 0 /\ 1 .. 0 = {} /\ 0 \in Nat
    OBVIOUS
  <1>4. Ascending(<<>>, 0) /\ Settled(id, 0, <<>>, failed \cup dropped)
    BY <1>3 DEF Ascending, Settled
  <1> QED BY <1>1, <1>2, <1>3, <1>4, EmptyBuffer DEF Line

\* A circuit whose buffer, worker and connection are left alone keeps its order.
LEMMA LineSame ==
  ASSUME LineInv, NEW id \in Id, buf'[id] = buf[id], queued'[id] = queued[id],
         Tried(id)' = Tried(id), written'[id] = written[id],
         failed \cup dropped \subseteq (failed \cup dropped)'
  PROVE  Line(id, buf[id], queued[id], Tried(id), written[id], failed \cup dropped)'
  <1>1. Line(id, buf[id], queued[id], Tried(id), written[id], failed \cup dropped)
    BY DEF LineInv
  <1>2. Line(id, buf[id], queued[id], Tried(id), written[id], (failed \cup dropped)')
    BY <1>1, LineMore
  <1> QED BY <1>2

\* Queueing, by a connection handler or the error handler.
LEMMA PushLine ==
  ASSUME IInv, LineInv, NEW c \in Id, NEW remove \in BOOLEAN, NEW report \in BOOLEAN,
         Push(c, remove, report), UNCHANGED <<worker, written, failed, dropped>>
  PROVE  LineInv'
  <1> DEFINE m == [n |-> queued[c] + 1, remove |-> remove, report |-> report]
  <1>1. TypeOK
    BY DEF IInv
  <1>2. queued[c] \in Nat /\ buf[c] \in Seq(Message)
    BY <1>1 DEF TypeOK
  <1>3. m \in Message /\ m.n = queued[c] + 1
    BY <1>2 DEF Message
  <1>4. buf' = [buf EXCEPT ![c] = Append(buf[c], m)]
        /\ queued' = [queued EXCEPT ![c] = queued[c] + 1]
    BY DEF Push
  <1> HIDE DEF m
  <1> SUFFICES ASSUME NEW id \in Id
      PROVE  Line(id, buf[id], queued[id], Tried(id), written[id], failed \cup dropped)'
    BY Zenon DEF LineInv
  <1>5. CASE id = c
    <2>1. buf'[c] = Append(buf[c], m) /\ queued'[c] = queued[c] + 1
      BY <1>1, <1>4 DEF TypeOK
    <2>2. Len(buf'[c]) = Len(buf[c]) + 1 /\ Len(buf[c]) \in Nat
      BY <1>2, <1>3, <2>1
    <2>3. Tried(c)' = Tried(c)
      <3>1. queued'[c] = queued[c] + 1 /\ worker' = worker
        BY <2>1
      <3>2. queued'[c] - Len(buf'[c]) = queued[c] - Len(buf[c])
        BY <1>2, <2>2, <3>1
      <3> QED BY <3>1, <3>2 DEF Tried
    <2>4. Line(c, Append(buf[c], m), queued[c] + 1, Tried(c), written[c], failed \cup dropped)
      BY <1>3, LinePush, Zenon DEF LineInv
    <2> QED BY <1>5, <2>1, <2>3, <2>4
  <1>6. CASE id # c
    <2>1. buf'[id] = buf[id] /\ queued'[id] = queued[id] /\ worker' = worker
      BY <1>1, <1>4, <1>6 DEF TypeOK
    <2>2. Tried(id)' = Tried(id)
      BY <2>1 DEF Tried
    <2> QED BY <2>1, <2>2, LineSame, Zenon
  <1> QED BY <1>5, <1>6

\* Between batches no message is half-way out of its buffer.
LEMMA TriedAtRest ==
  ASSUME IInv, NEW id \in Id, worker[id] \notin {"reporting", "result"}
  PROVE  Tried(id) = queued[id] - Len(buf[id])
  <1>1. queued[id] \in Nat /\ buf[id] \in Seq(Message)
    BY DEF IInv, TypeOK
  <1>2. Len(buf[id]) \in Nat
    BY <1>1
  <1> QED BY <1>1, <1>2 DEF Tried

\* Close deletes a buffer only between batches.
LEMMA CloseLine ==
  ASSUME IInv, LineInv, NEW c \in Id, CloseAtOnce(c)
  PROVE  LineInv'
  <1>1. TypeOK /\ worker[c] = "none" /\ queued[c] \in Nat
    BY DEF IInv, WorkerInv, CloseAtOnce, TypeOK
  <1>2. buf' = [buf EXCEPT ![c] = <<>>] /\ dropped' = dropped \cup Numbers(c, buf[c])
        /\ UNCHANGED <<queued, worker, written, failed>>
    BY DEF CloseAtOnce, workVars
  <1> SUFFICES ASSUME NEW id \in Id
      PROVE  Line(id, buf[id], queued[id], Tried(id), written[id], failed \cup dropped)'
    BY DEF LineInv
  <1>3. CASE id = c
    <2>1. buf'[c] = <<>>
      BY <1>1, <1>2 DEF TypeOK
    <2>2. Tried(c)' = queued[c]
      BY <1>1, <1>2, <2>1 DEF Tried
    <2>3. Tried(c) = queued[c] - Len(buf[c])
      BY <1>1, TriedAtRest
    <2>4. Line(c, <<>>, queued[c], queued[c], written[c], (failed \cup dropped)')
      BY <1>2, <2>3, LineDropped DEF LineInv
    <2> QED BY <1>2, <1>3, <2>1, <2>2, <2>4
  <1>4. CASE id # c
    <2>1. buf'[id] = buf[id] /\ queued' = queued /\ worker' = worker
      BY <1>1, <1>2, <1>4 DEF TypeOK
    <2>2. Tried(id)' = Tried(id)
      BY <2>1 DEF Tried
    <2> QED BY <1>2, <2>1, <2>2, LineSame, Zenon
  <1> QED BY <1>3, <1>4

\* A batch starts with workers that have not tried anything.
LEMMA DequeueLine ==
  ASSUME IInv, LineInv, Dequeue
  PROVE  LineInv'
  <1>1. \A id \in Id : worker[id] = "none" /\ worker'[id] \in {"none", "writing"}
    BY DEF IInv, WorkerInv, Dequeue
  <1>2. UNCHANGED <<buf, queued, written, failed, dropped>>
    BY DEF Dequeue, queueVars, lossVars
  <1>3. \A id \in Id : Tried(id)' = Tried(id)
    BY <1>1, <1>2 DEF Tried
  <1> QED BY <1>2, <1>3, LineSame DEF LineInv

\* The worker tries the first message of its buffer.
LEMMA WriteLine ==
  ASSUME IInv, LineInv, NEW c \in Id, Write(c)
  PROVE  LineInv'
  <1>1. TypeOK /\ worker[c] = "writing" /\ buf[c] # <<>> /\ queued[c] \in Nat
        /\ Len(buf[c]) \in Nat
    BY DEF IInv, WorkerInv, Write, TypeOK
  <1>2. UNCHANGED <<buf, queued, dropped>>
    BY DEF Write, queueVars
  <1>3. Tried(c) = queued[c] - Len(buf[c])
    BY <1>1, TriedAtRest
  <1>4. \E r \in {"reporting", "result"} : worker' = [worker EXCEPT ![c] = r]
    BY DEF Write
  <1>5. worker'[c] \in {"reporting", "result"} /\ \A id \in Id : id # c => worker'[id] = worker[id]
    BY <1>1, <1>4 DEF TypeOK
  <1>6. Tried(c)' = Tried(c) + 1 /\ \A id \in Id : id # c => Tried(id)' = Tried(id)
    BY <1>1, <1>2, <1>3, <1>5 DEF Tried
  <1>7. Line(c, buf[c], queued[c], Tried(c), written[c], failed \cup dropped)
    BY DEF LineInv
  <1> DEFINE k == Head(buf[c]).n
  <1>8. CASE written' = [written EXCEPT ![c] = Append(written[c], k)] /\ failed' = failed
    <2>1. written'[c] = Append(written[c], k) /\ \A id \in Id : id # c => written'[id] = written[id]
      BY <1>1, <1>8 DEF TypeOK
    <2>2. Line(c, buf[c], queued[c], Tried(c) + 1, Append(written[c], k), failed \cup dropped)
      BY <1>1, <1>3, <1>7, LineWritten
    <2>3. Line(c, buf[c], queued[c], Tried(c), written[c], failed \cup dropped)'
      BY <1>2, <1>6, <1>8, <2>1, <2>2
    <2>4. ASSUME NEW id \in Id, id # c
          PROVE  Line(id, buf[id], queued[id], Tried(id), written[id], failed \cup dropped)'
      BY <1>2, <1>6, <1>8, <2>1, <2>4, LineSame, Zenon
    <2> QED BY <2>3, <2>4 DEF LineInv
  <1>9. CASE failed' = failed \cup {<<c, k>>} /\ written' = written
    <2>1. (failed \cup dropped)' = (failed \cup dropped) \cup {<<c, k>>}
      BY <1>2, <1>9
    <2>2. Line(c, buf[c], queued[c], Tried(c) + 1, written[c], (failed \cup dropped)')
      BY <1>1, <1>3, <1>7, <2>1, LineFailed
    <2>3. Line(c, buf[c], queued[c], Tried(c), written[c], failed \cup dropped)'
      BY <1>2, <1>6, <1>9, <2>2
    <2>4. ASSUME NEW id \in Id, id # c
          PROVE  Line(id, buf[id], queued[id], Tried(id), written[id], failed \cup dropped)'
      BY <1>2, <1>6, <1>9, <2>1, <2>4, LineSame
    <2> QED BY <2>3, <2>4 DEF LineInv
  <1> QED BY <1>8, <1>9 DEF Write

\* dequeue removes the message its worker tried, or with it the buffer.
LEMMA CollectLine ==
  ASSUME IInv, LineInv, NEW c \in Id, Collect(c)
  PROVE  LineInv'
  <1>1. TypeOK /\ worker[c] = "result" /\ buf[c] # <<>> /\ queued[c] \in Nat
        /\ buf[c] \in Seq(Message) /\ Len(buf[c]) \in Nat
    BY DEF IInv, WorkerInv, Collect, TypeOK
  <1>2. UNCHANGED <<queued, written, failed>> /\ worker' = [worker EXCEPT ![c] = "none"]
    BY DEF Collect
  <1>3. worker'[c] = "none" /\ \A id \in Id : id # c => worker'[id] = worker[id]
    BY <1>1, <1>2 DEF TypeOK
  <1>4. Tried(c) = queued[c] - Len(buf[c]) + 1
    BY <1>1 DEF Tried
  <1>5. /\ Line(c, Tail(buf[c]), queued[c], Tried(c), written[c], failed \cup dropped)
        /\ Tried(c) = queued[c] - Len(Tail(buf[c]))
    BY <1>1, <1>4, LineTail, Zenon DEF LineInv
  <1>6. /\ dropped \subseteq dropped'
        /\ \A id \in Id : id # c => buf'[id] = buf[id]
    BY <1>1 DEF Collect, TypeOK
  <1>7. ASSUME NEW id \in Id, id # c
        PROVE  Line(id, buf[id], queued[id], Tried(id), written[id], failed \cup dropped)'
    <2>1. Tried(id)' = Tried(id)
      BY <1>2, <1>3, <1>6, <1>7 DEF Tried
    <2> QED BY <1>2, <1>6, <1>7, <2>1, LineSame
  <1>8. CASE Head(buf[c]).remove
    <2>1. buf'[c] = <<>> /\ dropped' = dropped \cup Numbers(c, Tail(buf[c]))
      BY <1>1, <1>8 DEF Collect, TypeOK
    <2>2. Tried(c)' = queued[c]
      BY <1>1, <1>2, <1>3, <2>1 DEF Tried
    <2> DEFINE lost == (failed \cup dropped)'
    <2>5. failed \cup dropped \cup Numbers(c, Tail(buf[c])) \subseteq lost
      BY <1>2, <2>1
    <2> HIDE DEF lost
    <2>3. Line(c, <<>>, queued[c], queued[c], written[c], lost)
      BY <1>5, <2>5, LineDropped, Zenon
    <2>4. Line(c, buf[c], queued[c], Tried(c), written[c], failed \cup dropped)'
      BY <1>2, <2>1, <2>2, <2>3 DEF lost
    <2> QED BY <1>7, <2>4 DEF LineInv
  <1>9. CASE ~Head(buf[c]).remove
    <2>1. buf'[c] = Tail(buf[c]) /\ dropped' = dropped
      BY <1>1, <1>9 DEF Collect, TypeOK
    <2>2. Tail(buf[c]) \in Seq(Message)
      BY <1>1
    <2>3. Tried(c)' = Tried(c)
      BY <1>1, <1>2, <1>3, <1>5, <2>1, <2>2 DEF Tried
    <2>4. Line(c, buf[c], queued[c], Tried(c), written[c], failed \cup dropped)'
      BY <1>2, <1>5, <2>1, <2>3
    <2> QED BY <1>7, <2>4 DEF LineInv
  <1> QED BY <1>8, <1>9

\* Nothing else moves a message.
LEMMA OtherLine ==
  ASSUME IInv, LineInv,
         Panic \/ KillQueue \/ KillHandler \/ UNCHANGED vars \/ \E c \in Id : HandlerReceive(c)
  PROVE  LineInv'
  <1>1. UNCHANGED <<buf, queued, written, failed, dropped>>
    BY DEF Panic, KillQueue, KillHandler, HandlerReceive, vars, queueVars, lossVars
  <1>2. \A id \in Id : worker'[id] \in {"reporting", "result"} <=> worker[id] \in {"reporting", "result"}
    BY DEF IInv, TypeOK, Panic, KillQueue, KillHandler, HandlerReceive, vars, workVars
  <1>3. \A id \in Id : Tried(id)' = Tried(id)
    BY <1>1, <1>2 DEF Tried
  <1> QED BY <1>1, <1>3, LineSame DEF LineInv

\* Every step keeps the order.
LEMMA NextLine ==
  ASSUME IInv, LineInv, [Next]_vars
  PROVE  LineInv'
  <1>1. ASSUME NEW id \in Id, NEW remove \in BOOLEAN, NEW report \in BOOLEAN,
               EnqueueMsg(id, remove, report)
        PROVE  LineInv'
    BY <1>1, PushLine DEF EnqueueMsg, workVars, lossVars
  <1>2. ASSUME HandlerEnqueue PROVE LineInv'
    <2>1. handler \in Id
      BY <1>2 DEF HandlerEnqueue, IInv, TypeOK
    <2> QED BY <1>2, <2>1, PushLine, Zenon DEF HandlerEnqueue, workVars, lossVars
  <1> QED BY <1>1, <1>2, CloseLine, DequeueLine, WriteLine, CollectLine, OtherLine DEF Next

\* Every message that DoQueue took is, in the order it was taken, written,
\* failed or deleted, or waits in its buffer behind those.
THEOREM LinesHold == Spec => []LineInv
  <1>1. IInv /\ LineInv /\ [Next]_vars => LineInv'
    BY NextLine
  <1> QED BY InitLine, <1>1, Invariance, PTL DEF Spec

\* The messages of a circuit reach its connection in the order they were
\* queued, and none reaches it twice.
THEOREM SentInOrder == Spec => []InOrder
  <1>1. LineInv => InOrder
    BY DEF LineInv, Line, Ascending, InOrder
  <1> QED BY <1>1, LinesHold, PTL

\* No message disappears: it is in its buffer until its worker has written it
\* or failed to, or Close deletes the buffer.
THEOREM NoneDisappears == Spec => []Accounted
  <1>1. IInv /\ LineInv => Accounted
    <2> SUFFICES ASSUME IInv, LineInv, NEW id \in Id, NEW n \in 1 .. queued[id]
                 PROVE  \/ <<id, n>> \in Numbers(id, buf[id])
                        \/ \E i \in 1 .. Len(written[id]) : written[id][i] = n
                        \/ <<id, n>> \in failed \cup dropped
      BY Zenon DEF Accounted
    <2> DEFINE b == buf[id]
               q == queued[id]
               k == Tried(id)
    <2>1. b \in Seq(Message) /\ Counted(b, q, k) /\ Numbered(b, q)
          /\ Settled(id, k, written[id], failed \cup dropped)
      BY Zenon DEF LineInv, Line
    <2> HIDE DEF k
    <2>2. q \in Nat /\ k \in Nat /\ Len(b) \in Nat /\ k \in {q - Len(b), q - Len(b) + 1}
      BY <2>1 DEF Counted
    <2>3. CASE n \in 1 .. k
      BY <2>1, <2>3 DEF Settled
    <2>4. CASE n \notin 1 .. k
      <3> DEFINE i == n - (q - Len(b))
      <3>1. i \in 1 .. Len(b) /\ n \in Nat
        BY <2>2, <2>4
      <3>2. b[i].n = q - Len(b) + i
        BY <2>1, <3>1 DEF Numbered
      <3>3. b[i].n = n
        BY <2>2, <3>1, <3>2
      <3> QED BY <3>1, <3>3 DEF Numbers
    <2> QED BY <2>3, <2>4
  <1> QED BY <1>1, LinesHold, Invariance, PTL

=============================================================================
