----------------------------- MODULE MixnetQueue -----------------------------
(***************************************************************************)
(* The batching queue of a mixnet router: DoQueue, which collects messages *)
(* of many circuits and sends them in shuffled batches, the workers of a   *)
(* batch, and the error handler, which for the router's main queue puts    *)
(* the errors of the workers back into the same queue (router.go:171).     *)
(*                                                                         *)
(* Sources: go/apps/mixnet/queue.go, and its use in router.go.             *)
(*                                                                         *)
(* Messages are numbered per circuit.  The channels are unbuffered, so a   *)
(* send and its receive are one action.  Circuit ids are never 0 (newID    *)
(* reserves small values), so 0 in a batch is an id without a buffer.      *)
(***************************************************************************)
EXTENDS Integers, Sequences, FiniteSets

CONSTANTS
    Id,         \* circuit ids
    BatchSize,  \* batchSize
    MaxMsgs,    \* bound: messages queued by the connection handlers
    NoError     \* the error handler has no error in hand

ASSUME IdAssumption == IsFiniteSet(Id)
ASSUME BatchAssumption == BatchSize \in Nat \ {0}
ASSUME NoErrorAssumption == NoError \notin Id

VARIABLES
    pc,       \* DoQueue: in its select, about to dequeue, in dequeue, ended
    ct,       \* the count of buffers with messages ready
    buf,      \* sendBuffer: messages of each circuit, <<>> when it has none
    batch,    \* circuits of the batch whose result dequeue still awaits
    worker,   \* the senderWorker of each circuit of the batch
    handler,  \* DoQueueErrorHandler: the circuit whose error it is queueing
    handling, \* DoQueueErrorHandler has not been killed
    queued,   \* how many messages were put into each buffer
    asked,    \* how many of them the connection handlers queued
    written,  \* history: the messages written to each circuit's connection
    failed,   \* history: messages whose write failed
    dropped,  \* history: messages deleted with their buffer
    leaked    \* history: buffers deleted while they held messages, uncounted

queueVars  == <<ct, buf, queued>>
workVars   == <<batch, worker>>
errVars    == <<handler, handling>>
lossVars   == <<failed, dropped, leaked>>
vars == <<pc, queueVars, workVars, errVars, asked, written, lossVars>>

\* n: its number; remove: sent by Close; report: errConn is not nil.
Message == [n : Nat \ {0}, remove : BOOLEAN, report : BOOLEAN]

TypeOK ==
    /\ pc \in {"select", "dequeue", "collect", "killed", "panicked"}
    /\ ct \in Nat
    /\ buf \in [Id -> Seq(Message)]
    /\ batch \in SUBSET Id
    /\ worker \in [Id -> {"none", "writing", "reporting", "result"}]
    /\ handler \in Id \cup {NoError}
    /\ handling \in BOOLEAN
    /\ queued \in [Id -> Nat]
    /\ asked \in Nat
    /\ written \in [Id -> Seq(Nat)]
    /\ failed \in SUBSET (Id \X Nat)
    /\ dropped \in SUBSET (Id \X Nat)
    /\ leaked \in Nat

\* NewQueue.
Init ==
    /\ pc = "select"
    /\ ct = 0
    /\ buf = [id \in Id |-> <<>>]
    /\ batch = {}
    /\ worker = [id \in Id |-> "none"]
    /\ handler = NoError
    /\ handling = TRUE
    /\ queued = [id \in Id |-> 0]
    /\ asked = 0
    /\ written = [id \in Id |-> <<>>]
    /\ failed = {}
    /\ dropped = {}
    /\ leaked = 0

Ready == {id \in Id : buf[id] # <<>>}

----------------------------------------------------------------------------
\* DoQueue

\* Mutant: a batch needs one circuit more.
TransmitMore == pc' = IF ct' > BatchSize THEN "dequeue" ELSE "select"

\* for sq.ct >= sq.batchSize { sq.dequeue() }
Transmit == pc' = IF ct' >= BatchSize THEN "dequeue" ELSE "select"

\* Mutant: the counter is incremented for every message.
PushCounted(id, remove, report) ==
    /\ ct' = ct + 1
    /\ buf' = [buf EXCEPT ![id] =
                 Append(@, [n |-> queued[id] + 1, remove |-> remove,
                            report |-> report])]
    /\ queued' = [queued EXCEPT ![id] = @ + 1]

\* A message is put at the end of its circuit's buffer.
Push(id, remove, report) ==
    /\ ct' = IF buf[id] = <<>> THEN ct + 1 ELSE ct
    /\ buf' = [buf EXCEPT ![id] =
                 Append(@, [n |-> queued[id] + 1, remove |-> remove,
                            report |-> report])]
    /\ queued' = [queued EXCEPT ![id] = @ + 1]

\* EnqueueMsg, or Close with a last message.
EnqueueMsg(id, remove, report) ==
    /\ pc = "select"
    /\ asked < MaxMsgs
    /\ asked' = asked + 1
    /\ Push(id, remove, report)
    /\ Transmit
    /\ UNCHANGED <<workVars, errVars, written, lossVars>>

\* The numbers of the messages in a sequence.
Numbers(id, s) == {<<id, s[i].n>> : i \in 1 .. Len(s)}

\* Mutant: the counter is decremented whether or not a message was ready.
CloseCounted(id) ==
    /\ pc = "select"
    /\ buf' = [buf EXCEPT ![id] = <<>>]
    /\ ct' = ct - 1
    /\ dropped' = dropped \cup Numbers(id, buf[id])
    /\ UNCHANGED <<queued, leaked>>
    /\ Transmit
    /\ UNCHANGED <<workVars, errVars, asked, written, failed>>

\* Close without a message: the buffer is deleted, ct stays as it is.
CloseAtOnce(id) ==
    /\ pc = "select"
    /\ buf' = [buf EXCEPT ![id] = <<>>]
    /\ dropped' = dropped \cup Numbers(id, buf[id])
    /\ leaked' = IF buf[id] = <<>> THEN leaked ELSE leaked + 1
    /\ UNCHANGED <<ct, queued>>
    /\ Transmit
    /\ UNCHANGED <<workVars, errVars, asked, written, failed>>

\* <-kill, from RouterContext.Close.
KillQueue ==
    /\ pc = "select"
    /\ pc' = "killed"
    /\ UNCHANGED <<queueVars, workVars, errVars, asked, written, lossVars>>

----------------------------------------------------------------------------
\* dequeue and its workers

\* Any batchSize ids of the shuffled array get a worker.  The array has ct
\* places; when fewer buffers are ready, a place left 0 may be among them.
Dequeue ==
    /\ pc = "dequeue"
    /\ \E B \in SUBSET Ready :
         /\ Cardinality(B) = BatchSize
         /\ batch' = B
         /\ worker' = [id \in Id |-> IF id \in B THEN "writing" ELSE "none"]
    /\ pc' = "collect"
    /\ UNCHANGED <<queueVars, errVars, asked, written, lossVars>>

\* sq.sendBuffer[0].Front() of a place left 0, or ids[pi[i]] past its end.
Panic ==
    /\ pc = "dequeue"
    /\ Cardinality(Ready) # ct
    /\ pc' = "panicked"
    /\ UNCHANGED <<queueVars, workVars, errVars, asked, written, lossVars>>

\* senderWorker writes the first message, or fails by its deadline.
Write(id) ==
    /\ pc = "collect"
    /\ worker[id] = "writing"
    /\ LET m == Head(buf[id])
       IN  \/ /\ worker' = [worker EXCEPT ![id] = "result"]
              /\ written' = [written EXCEPT ![id] = Append(@, m.n)]
              /\ UNCHANGED failed
           \/ /\ worker' = [worker EXCEPT ![id] = "reporting"]
              /\ failed' = failed \cup {<<id, m.n>>}
              /\ UNCHANGED written
    /\ UNCHANGED <<pc, queueVars, batch, errVars, asked, dropped, leaked>>

\* Mutant: the last message of the buffer is removed, not the first.
CollectLast(id) ==
    /\ pc = "collect"
    /\ worker[id] = "result"
    /\ buf' = [buf EXCEPT ![id] = SubSeq(@, 1, Len(@) - 1)]
    /\ ct' = IF buf'[id] = <<>> THEN ct - 1 ELSE ct
    /\ worker' = [worker EXCEPT ![id] = "none"]
    /\ batch' = batch \ {id}
    /\ IF batch' = {} THEN Transmit ELSE UNCHANGED pc
    /\ UNCHANGED <<queued, errVars, asked, written, failed, dropped, leaked>>

\* Mutant: a circuit that was closed stays counted.
CollectClosed(id) ==
    /\ pc = "collect"
    /\ worker[id] = "result"
    /\ buf' = [buf EXCEPT ![id] = IF Head(@).remove THEN <<>> ELSE Tail(@)]
    /\ ct' = IF buf'[id] = <<>> /\ ~Head(buf[id]).remove THEN ct - 1 ELSE ct
    /\ dropped' = IF Head(buf[id]).remove
                  THEN dropped \cup Numbers(id, Tail(buf[id])) ELSE dropped
    /\ worker' = [worker EXCEPT ![id] = "none"]
    /\ batch' = batch \ {id}
    /\ IF batch' = {} THEN Transmit ELSE UNCHANGED pc
    /\ UNCHANGED <<queued, errVars, asked, written, failed, leaked>>

\* res := <-ch: the message is removed, with the buffer if it was the last.
Collect(id) ==
    /\ pc = "collect"
    /\ worker[id] = "result"
    /\ buf' = [buf EXCEPT ![id] = IF Head(@).remove THEN <<>> ELSE Tail(@)]
    /\ ct' = IF buf'[id] = <<>> THEN ct - 1 ELSE ct
    /\ dropped' = IF Head(buf[id]).remove
                  THEN dropped \cup Numbers(id, Tail(buf[id])) ELSE dropped
    /\ worker' = [worker EXCEPT ![id] = "none"]
    /\ batch' = batch \ {id}
    /\ IF batch' = {} THEN Transmit ELSE UNCHANGED pc
    /\ UNCHANGED <<queued, errVars, asked, written, failed, leaked>>

----------------------------------------------------------------------------
\* DoQueueErrorHandler

\* Mutant: the worker returns after it has reported its error.
HandlerReceiveOnly(id) ==
    /\ handling
    /\ handler = NoError
    /\ worker[id] = "reporting"
    /\ worker' = [worker EXCEPT ![id] = "none"]
    /\ handler' = IF Head(buf[id]).report THEN id ELSE NoError
    /\ UNCHANGED <<pc, queueVars, batch, handling, asked, written, lossVars>>

\* err := <-sq.err; without a connection to report to it is only logged.
HandlerReceive(id) ==
    /\ handling
    /\ handler = NoError
    /\ worker[id] = "reporting"
    /\ worker' = [worker EXCEPT ![id] = "result"]
    /\ handler' = IF Head(buf[id]).report THEN id ELSE NoError
    /\ UNCHANGED <<pc, queueVars, batch, handling, asked, written, lossVars>>

\* queue.EnqueueMsg: blocks until DoQueue is back in its select.
HandlerEnqueue ==
    /\ handler # NoError
    /\ pc = "select"
    /\ Push(handler, FALSE, FALSE)
    /\ Transmit
    /\ handler' = NoError
    /\ UNCHANGED <<workVars, handling, asked, written, lossVars>>

\* <-kill: RouterContext.Close kills the handlers after the queues.
KillHandler ==
    /\ pc = "killed"
    /\ handling
    /\ handler = NoError
    /\ handling' = FALSE
    /\ UNCHANGED <<pc, queueVars, workVars, handler, asked, written, lossVars>>

----------------------------------------------------------------------------
Next ==
    \/ \E id \in Id :
         \/ \E remove, report \in BOOLEAN : EnqueueMsg(id, remove, report)
         \/ CloseAtOnce(id)
         \/ Write(id) \/ Collect(id) \/ HandlerReceive(id)
    \/ Dequeue \/ Panic \/ HandlerEnqueue \/ KillQueue \/ KillHandler

Spec == Init /\ [][Next]_vars

\* Goroutines that can run do; writes end by their deadline; senders blocked
\* on a channel are served in their order, so the error handler gets its
\* turn.  Nobody has to queue, close or kill.
Fairness ==
    /\ \A id \in Id :
         /\ WF_vars(Write(id))
         /\ WF_vars(Collect(id))
         /\ WF_vars(HandlerReceive(id))
    /\ WF_vars(Dequeue \/ Panic)
    /\ SF_vars(HandlerEnqueue)

FairSpec == Spec /\ Fairness

----------------------------------------------------------------------------
\* Properties

\* ct is the number of buffers with messages plus the number of times Close
\* deleted a buffer that still held messages: the only uncounted change.
CtExact == ct = Cardinality(Ready) + leaked

\* A circuit's messages are written in the order they were queued and never
\* twice, though the worker only looks at the message and dequeue removes
\* the one it finds when the result comes.
InOrder ==
    \A id \in Id : \A i, j \in 1 .. Len(written[id]) :
        i < j => written[id][i] < written[id][j]

\* A message that DoQueue took is still in its buffer until its worker has
\* written it or failed to, or Close deletes its buffer: none disappears.
Accounted ==
    \A id \in Id : \A n \in 1 .. queued[id] :
        \/ <<id, n>> \in Numbers(id, buf[id])
        \/ \E i \in 1 .. Len(written[id]) : written[id][i] = n
        \/ <<id, n>> \in failed \cup dropped

\* dequeue panics only after Close deleted a buffer that held messages.
PanicsOnlyAfterLeak == pc = "panicked" => leaked > 0

\* DoQueue waits for more messages only while fewer than batchSize circuits
\* have one ready.
PromptBatch == pc = "select" => Cardinality(Ready) < BatchSize

\* A batch is finished, unless a second write fails while the error handler
\* is still waiting to queue the error of a first.
BatchCompletes ==
    pc = "collect" ~>
        \/ pc # "collect"
        \/ handler # NoError /\ \E id \in Id : worker[id] = "reporting"

\* Queue's comment: "Current number of buffers with messages ready."
CtCountsReady == ct = Cardinality(Ready)

\* DoQueueErrorHandler's comment: "handles errors produced by DoQueue by
\* enqueing onto queue a directive containing the error message".
ErrorsHandled ==
    \A id \in Id : worker[id] = "reporting" ~> worker[id] # "reporting"

=============================================================================
