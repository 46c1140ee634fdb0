-------------------------------- MODULE Ipc --------------------------------
(***************************************************************************)
(* Inter-processor calls of the cpvmm hypervisor: ipc/ipc.c, ipc/ipc_api.c, *)
(* vmx/vmx_nmi.c and the interruptible lock of utils/lock.c.               *)
(*                                                                         *)
(* A CPU runs a handler on others by putting a message in each one's queue *)
(* and raising an NMI (a SIPI when the target waits for one), then waits   *)
(* for an acknowledgement per target, serving its own queue meanwhile and  *)
(* signalling again after a timeout.  stop_all_cpus is such a call whose   *)
(* handler spins until start_all_cpus.                                     *)
(*                                                                         *)
(* A CPU is in its guest when its call stack is empty; otherwise the stack *)
(* (top first) holds the calls in progress, so that a handler run from a   *)
(* wait loop nests as it does on the real stack.  Every section under a    *)
(* queue's data_lock is one step.  Of the NMI counters the code only       *)
(* compares differences: extra is received - sent, foreign is the number   *)
(* waiting minus the number of IPC NMIs waiting.                           *)
(***************************************************************************)
EXTENDS Integers, Sequences, FiniteSets, FiniteSetsExt, SequencesExt

CONSTANTS
    NumCpus,    \* num_of_host_processors
    Workloads   \* the choices at start-up: the CPUs that came up, the calls each
                \* CPU makes, and the bounds on calls per CPU (ops), INITs (inits),
                \* platform NMIs (platform), and timeouts that expire while the
                \* target is already on its way (early)

Cpus == 0 .. NumCpus - 1
CallKinds == {"async", "sync", "stop"}

ASSUME IpcAssumption ==
    /\ NumCpus \in Nat \ {0}
    /\ \A w \in Workloads :
         /\ w.calls \in [Cpus -> SUBSET CallKinds]
         /\ w.running \subseteq Cpus /\ 0 \in w.running
         /\ w.left.ops \in [Cpus -> Nat]
         /\ {w.left.inits, w.left.platform, w.left.early} \subseteq Nat

VARIABLES
    ipcCalls,       \* the kinds of call each CPU makes (fixed)
    activity,       \* cpu_activity_state
    queue,          \* message_queue of each CPU
    ack,            \* ipc_ack_array[sender][target]
    extra,          \* num_received_nmi - num_of_sent_ipc_nmi
    foreign,        \* NMIS_WAITING - IPC_NMIS_WAITING
    blocked,        \* num_blocked_nmi_injections_to_guest
    pendingNmi,     \* nmi_array
    latch,          \* the CPU's one-deep NMI latch
    nmiFs,          \* FS # 0: an NMI was taken since the last VM exit
    window,         \* the NMI-window control of the VMCS
    stack,          \* calls in progress, top first
    stopFlag,       \* context->stop of the stop-all context
    stopLock,       \* owner of stop_lock, or NoCpu
    ipcLeft         \* what remains of the bounds

nmiVars == <<extra, foreign, blocked, pendingNmi, latch, nmiFs, window>>
ipcVars == <<ipcCalls, activity, queue, ack, nmiVars, stack, stopFlag, stopLock, ipcLeft>>

NoCpu == NumCpus
StopLockFree == stopLock = NoCpu
Destinations(c) == Cpus \ {c}
Running(c) == activity[c] # "not_active"

(* Frames of the call stack. *)
SendFrame(kind, todo) == [k |-> "send", type |-> kind, todo |-> todo, enq |-> {}, acc |-> {}]
AllFrame(why) == [k |-> "all", why |-> why, first |-> TRUE, last |-> FALSE]
RunFrame(m) == [k |-> "run", msg |-> m]
PlainFrame(name) == [k |-> name]

Top(c) == Head(stack[c])
At(c, name) == stack[c] # <<>> /\ Top(c).k = name
Push(c, f) == stack' = [stack EXCEPT ![c] = <<f>> \o @]
Become(c, f) == stack' = [stack EXCEPT ![c] = <<f>> \o Tail(@)]
Pop(c) == stack' = [stack EXCEPT ![c] = Tail(@)]

(* A CPU parked in wait-for-SIPI leaves its guest only for a SIPI. *)
WaitsForSipi(c) == activity[c] = "sipi" /\ stack[c] = <<>>
InGuest(c) == activity[c] = "active" /\ stack[c] = <<>>

IpcInit ==
    /\ \E w \in Workloads :
         /\ ipcCalls = w.calls
         /\ ipcLeft = w.left
         /\ activity = [c \in Cpus |-> IF c \in w.running THEN "active" ELSE "not_active"]
    /\ queue = [c \in Cpus |-> <<>>]
    /\ ack = [c \in Cpus |-> [d \in Cpus |-> 0]]
    /\ extra = [c \in Cpus |-> 0]
    /\ foreign = [c \in Cpus |-> 0]
    /\ blocked = [c \in Cpus |-> 0]
    /\ pendingNmi = [c \in Cpus |-> FALSE]
    /\ latch = [c \in Cpus |-> FALSE]
    /\ nmiFs = [c \in Cpus |-> FALSE]
    /\ window = [c \in Cpus |-> FALSE]
    /\ stack = [c \in Cpus |-> <<>>]
    /\ stopFlag = FALSE
    /\ stopLock = NoCpu

-----------------------------------------------------------------------------
(* Sending. *)

(* ipc_execute_handler, ipc_execute_handler_sync and stop_all_cpus are called
   from a VM exit of the caller.  The destination is every other CPU (the
   shorthand all callers but one use); the acknowledgement row is cleared first. *)
IpcCall(c, kind) ==
    /\ InGuest(c)
    /\ kind \in ipcCalls[c]
    /\ ipcLeft.ops[c] > 0
    /\ ipcLeft' = [ipcLeft EXCEPT !.ops[c] = @ - 1]
    /\ Push(c, IF kind = "stop" THEN PlainFrame("lock_stop") ELSE SendFrame(kind, Destinations(c)))
    /\ ack' = IF kind = "stop" THEN ack ELSE [ack EXCEPT ![c] = [d \in Cpus |-> 0]]
    /\ UNCHANGED <<ipcCalls, activity, queue, extra, foreign, blocked, pendingNmi, latch,
                   nmiFs, window, stopFlag, stopLock>>

(* Raising the signal at d.  A SIPI to a CPU that is not parked is ignored;
   to a parked one it is an immediate VM exit. *)
SignalNmi(d) == latch' = [latch EXCEPT ![d] = TRUE]
CountSent(d) ==
    /\ extra' = [extra EXCEPT ![d] = @ - 1]
    /\ foreign' = [foreign EXCEPT ![d] = @ - 1]

Enqueue(d, m) == queue' = [queue EXCEPT ![d] = Append(@, m)]

(* ipc_preprocess_message: a start message is never queued; the others are
   unless the target never came up. *)
Queued(type, d) == type # "start" /\ Running(d)

(* One iteration of the destination loop of ipc_execute_send.  The signal is
   raised only when the queue was empty. *)
SendDst(c) ==
    /\ At(c, "send") /\ Top(c).todo # {}
    /\ LET f == Top(c)
           d == Min(f.todo)
           g == [f EXCEPT !.todo = @ \ {d}]
           m == [type |-> f.type, from |-> c]
           nmi == queue[d] = <<>> /\ activity[d] = "active"
           sipi == queue[d] = <<>> /\ WaitsForSipi(d)
           sent == [g EXCEPT !.enq = @ \cup {d}, !.acc = IF nmi THEN @ \cup {d} ELSE @]
       IN IF ~Queued(f.type, d)
          THEN Become(c, g) /\ UNCHANGED <<queue, extra, foreign, latch>>
          ELSE /\ Enqueue(d, m)
               /\ IF nmi THEN SignalNmi(d) /\ CountSent(d)
                         ELSE UNCHANGED <<latch, extra, foreign>>
               /\ IF sipi THEN stack' = [stack EXCEPT ![c] = <<sent>> \o Tail(@),
                                                      ![d] = <<AllFrame("sipi")>>]
                          ELSE Become(c, sent)
    /\ UNCHANGED <<ipcCalls, activity, ack, blocked, pendingNmi, nmiFs, window, stopFlag, stopLock, ipcLeft>>

Waiting(c) == At(c, "send") /\ Top(c).todo = {}
Received(c) == MapThenSumSet(LAMBDA d : ack[c][d], Cpus)

(* The timeout branch of the wait loop, for one silent target d.  Timeouts that
   expire although d is about to serve its queue are bounded by the workload's
   early; those that make up for a lost signal are not.  A faulty form: the
   signal is counted again and not raised. *)
OnItsWay(d) == stack[d] # <<>> \/ (InGuest(d) /\ (latch[d] \/ window[d]))

ResendCountsOnly(c, d) ==
    /\ Waiting(c)
    /\ d \in Top(c).enq /\ ack[c][d] = 0
    /\ ~OnItsWay(d)
    /\ IF activity[d] = "active" /\ d \notin Top(c).acc
       THEN Become(c, [Top(c) EXCEPT !.acc = @ \cup {d}]) /\ CountSent(d)
       ELSE UNCHANGED <<stack, extra, foreign>>
    /\ UNCHANGED <<ipcCalls, activity, queue, ack, blocked, pendingNmi, latch, nmiFs, window,
                   stopFlag, stopLock, ipcLeft>>
Resend(c, d) ==
    /\ Waiting(c)
    /\ d \in Top(c).enq /\ ack[c][d] = 0
    /\ IF OnItsWay(d) THEN /\ ipcLeft.early > 0
                           /\ ipcLeft' = [ipcLeft EXCEPT !.early = @ - 1]
                      ELSE UNCHANGED ipcLeft
    /\ IF activity[d] = "active"
       THEN /\ SignalNmi(d)
            /\ IF d \in Top(c).acc
               THEN UNCHANGED <<stack, extra, foreign>>
               ELSE Become(c, [Top(c) EXCEPT !.acc = @ \cup {d}]) /\ CountSent(d)
       ELSE /\ stack' = IF WaitsForSipi(d) THEN [stack EXCEPT ![d] = <<AllFrame("sipi")>>] ELSE stack
            /\ UNCHANGED <<extra, foreign, latch>>
    /\ UNCHANGED <<ipcCalls, activity, queue, ack, blocked, pendingNmi, nmiFs, window,
                   stopFlag, stopLock>>

(* ipc_execute_send returns; stop_all_cpus and start_all_cpus then release
   stop_lock, and the caller of the first goes on with the others stopped. *)
SendReturn(c) ==
    /\ Waiting(c)
    /\ Received(c) = Cardinality(Top(c).enq)
    /\ Become(c, PlainFrame(IF Top(c).type = "stop" THEN "stopped" ELSE "resume"))
    /\ stopLock' = IF Top(c).type \in {"stop", "start"} THEN NoCpu ELSE stopLock
    /\ UNCHANGED <<ipcCalls, activity, queue, ack, nmiVars, stopFlag, ipcLeft>>

(* execute_stop and execute_start once stop_lock is theirs.  Finding the
   context already stopped (already started) fails an assertion that is compiled
   out, and the call returns FALSE; the model keeps such a caller in bad_stop. *)
StopStart(c) ==
    /\ StopLockFree
    /\ \/ /\ At(c, "lock_stop") /\ ~stopFlag
          /\ stopFlag' = TRUE
          /\ Become(c, SendFrame("stop", Destinations(c)))
          /\ stopLock' = c
          /\ ack' = [ack EXCEPT ![c] = [d \in Cpus |-> 0]]
       \/ /\ At(c, "lock_start") /\ stopFlag
          /\ stopFlag' = FALSE
          /\ Become(c, SendFrame("start", Destinations(c)))
          /\ stopLock' = c
          /\ ack' = [ack EXCEPT ![c] = [d \in Cpus |-> 0]]
       \/ /\ \/ At(c, "lock_stop") /\ stopFlag
             \/ At(c, "lock_start") /\ ~stopFlag
          /\ Become(c, PlainFrame("bad_stop"))
          /\ UNCHANGED <<stopFlag, stopLock, ack>>
    /\ UNCHANGED <<ipcCalls, activity, queue, nmiVars, ipcLeft>>

(* Between the two calls the caller works on the shared tables, then starts. *)
CallStart(c) ==
    /\ At(c, "stopped")
    /\ Become(c, PlainFrame("lock_start"))
    /\ UNCHANGED <<ipcCalls, activity, queue, ack, nmiVars, stopFlag, stopLock, ipcLeft>>

-----------------------------------------------------------------------------
(* Serving the queue. *)

(* ipc_dequeue_message: the first message leaves the queue and an asynchronous
   sender is acknowledged before its handler runs.  A faulty form: any sender is. *)
DequeueAcknowledges(c) ==
    LET m == Head(queue[c])
    IN /\ queue' = [queue EXCEPT ![c] = Tail(@)]
       /\ ack' = [ack EXCEPT ![m.from][c] = @ + 1]
Dequeue(c) ==
    LET m == Head(queue[c])
    IN /\ queue' = [queue EXCEPT ![c] = Tail(@)]
       /\ ack' = IF m.type = "sync" THEN ack ELSE [ack EXCEPT ![m.from][c] = @ + 1]

(* The places that call ipc_process_one_ipc: the wait loop of a send, the spin
   on stop_lock, the spin of a stopped CPU. *)
Polls(c) ==
    \/ Waiting(c) /\ Received(c) # Cardinality(Top(c).enq)
    \/ (At(c, "lock_stop") \/ At(c, "lock_start")) /\ ~StopLockFree
    \/ At(c, "run") /\ Top(c).msg.type = "stop" /\ stopFlag

ProcessOne(c) ==
    /\ Polls(c)
    /\ queue[c] # <<>>
    /\ Dequeue(c)
    /\ Push(c, RunFrame(Head(queue[c])))
    /\ UNCHANGED <<ipcCalls, activity, nmiVars, stopFlag, stopLock, ipcLeft>>

(* ipc_process_all_ipc_messages: a look at the queue, then one message after
   another until the one that left the queue empty.  A queue found empty at a
   dequeue after the first look is a NULL message, which the code uses (the
   assertion before it is compiled out): the model stops the CPU in no_message. *)
ProcessAll(c) ==
    /\ At(c, "all")
    /\ ~Top(c).last
    /\ IF queue[c] # <<>>
       THEN /\ Dequeue(c)
            /\ stack' = [stack EXCEPT ![c] =
                  <<RunFrame(Head(queue[c])),
                    [Top(c) EXCEPT !.first = FALSE, !.last = Len(queue[c]) = 1]>> \o Tail(@)]
       ELSE /\ IF Top(c).first THEN Become(c, [Top(c) EXCEPT !.last = TRUE])
                               ELSE Become(c, PlainFrame("no_message"))
            /\ UNCHANGED <<queue, ack>>
    /\ UNCHANGED <<ipcCalls, activity, nmiVars, stopFlag, stopLock, ipcLeft>>

(* A handler returns: stop_cpu_handler once the flag is down, any other when
   it is done.  A synchronous sender is acknowledged now. *)
HandlerReturn(c) ==
    /\ At(c, "run")
    /\ Top(c).msg.type = "stop" => ~stopFlag
    /\ ack' = IF Top(c).msg.type = "sync" THEN [ack EXCEPT ![Top(c).msg.from][c] = @ + 1] ELSE ack
    /\ Pop(c)
    /\ UNCHANGED <<ipcCalls, activity, queue, nmiVars, stopFlag, stopLock, ipcLeft>>

-----------------------------------------------------------------------------
(* NMI, NMI-window and SIPI exits. *)

CountReceived(c) ==
    /\ extra' = [extra EXCEPT ![c] = @ + 1]
    /\ foreign' = [foreign EXCEPT ![c] = @ + 1]

(* nmi_vmexit_handler, up to the dispatcher. *)
NmiVmexit(c) ==
    /\ InGuest(c) /\ latch[c]
    /\ latch' = [latch EXCEPT ![c] = FALSE]
    /\ CountReceived(c)
    /\ Push(c, AllFrame("nmi"))
    /\ UNCHANGED <<ipcCalls, activity, queue, ack, blocked, pendingNmi, nmiFs, window,
                   stopFlag, stopLock, ipcLeft>>

(* ipc_nmi_interrupt_handler: an NMI taken inside the hypervisor is counted and
   remembered in FS, to become an NMI window at the next VM entry. *)
NmiInterrupt(c) ==
    /\ stack[c] # <<>> /\ latch[c]
    /\ latch' = [latch EXCEPT ![c] = FALSE]
    /\ CountReceived(c)
    /\ nmiFs' = [nmiFs EXCEPT ![c] = TRUE]
    /\ UNCHANGED <<ipcCalls, activity, queue, ack, blocked, pendingNmi, window, stack,
                   stopFlag, stopLock, ipcLeft>>

(* nmi_window_vmexit_handler, up to the dispatcher: the window is disabled. *)
NmiWindowVmexit(c) ==
    /\ InGuest(c) /\ window[c]
    /\ window' = [window EXCEPT ![c] = FALSE]
    /\ Push(c, AllFrame("window"))
    /\ UNCHANGED <<ipcCalls, activity, queue, ack, extra, foreign, blocked, pendingNmi, latch,
                   nmiFs, stopFlag, stopLock, ipcLeft>>

(* ipc_dispatcher takes an NMI for the platform's when neither a blocked
   injection nor the NMIs of the senders explain it. *)
PlatformsNmi(c) == blocked[c] = 0 /\ extra[c] # 0 /\ foreign[c] # 0

(* nmi_raise_this, nmi_clear_this *)
NmiArray(c, pending) == pendingNmi' = [pendingNmi EXCEPT ![c] = pending]

(* The rest of the two NMI exits: an NMI that belongs to the guest is injected
   if the guest can take it (inject). *)
Dispatched(c, inject) ==
    /\ At(c, "all") /\ Top(c).last /\ Top(c).why # "sipi"
    /\ LET raise == PlatformsNmi(c)
           exists == pendingNmi[c] \/ raise
           left == IF blocked[c] > 0 THEN blocked[c] - 1 ELSE 0
       IN /\ inject => exists
          /\ foreign' = [foreign EXCEPT ![c] = IF raise THEN @ - 1 ELSE @]
          /\ NmiArray(c, exists /\ ~inject)
          /\ blocked' = [blocked EXCEPT ![c] = IF exists /\ ~inject THEN left + 1 ELSE left]
          /\ window' = [window EXCEPT ![c] = (exists /\ ~inject) \/ (@ /\ Top(c).why = "nmi")]
    /\ Become(c, PlainFrame("resume"))
    /\ UNCHANGED <<ipcCalls, activity, queue, ack, extra, latch, nmiFs, stopFlag, stopLock, ipcLeft>>

(* The rest of ipc_sipi_vmexit_handler: the NMI counters are cleared. *)
SipiDone(c) ==
    /\ At(c, "all") /\ Top(c).last /\ Top(c).why = "sipi"
    /\ extra' = [extra EXCEPT ![c] = 0]
    /\ foreign' = [foreign EXCEPT ![c] = 0]
    /\ blocked' = [blocked EXCEPT ![c] = 0]
    /\ Become(c, PlainFrame("resume"))
    /\ UNCHANGED <<ipcCalls, activity, queue, ack, pendingNmi, latch, nmiFs, window,
                   stopFlag, stopLock, ipcLeft>>

(* INIT parks an application processor, the guest's SIPI wakes it; the IPC
   state follows in gcpu_process_activity_state_change, on the way back. *)
GuestInit(c) ==
    /\ InGuest(c) /\ c # 0 /\ ipcLeft.inits > 0
    /\ ipcLeft' = [ipcLeft EXCEPT !.inits = @ - 1]
    /\ Push(c, PlainFrame("to_sipi"))
    /\ UNCHANGED <<ipcCalls, activity, queue, ack, extra, foreign, blocked, pendingNmi, latch,
                   nmiFs, window, stopFlag, stopLock>>

GuestSipi(c) ==
    /\ WaitsForSipi(c)
    /\ Push(c, PlainFrame("to_active"))
    /\ UNCHANGED <<ipcCalls, activity, queue, ack, extra, foreign, blocked, pendingNmi, latch,
                   nmiFs, window, stopFlag, stopLock, ipcLeft>>

ChangeState(c) ==
    /\ \/ /\ At(c, "to_sipi")
          /\ activity' = [activity EXCEPT ![c] = "sipi"]
          /\ window' = [window EXCEPT ![c] = FALSE]
       \/ /\ At(c, "to_active")
          /\ activity' = [activity EXCEPT ![c] = "active"]
          /\ UNCHANGED window
    /\ Become(c, PlainFrame("resume"))
    /\ UNCHANGED <<ipcCalls, queue, ack, extra, foreign, blocked, pendingNmi, latch, nmiFs,
                   stopFlag, stopLock, ipcLeft>>

(* gcpu_resume: the NMI window is requested for an NMI that was taken or is
   still owed to the guest; the next VM exit loads FS = 0 again. *)
Resume(c) ==
    /\ At(c, "resume")
    /\ window' = [window EXCEPT ![c] = @ \/ nmiFs[c] \/ pendingNmi[c]]
    /\ nmiFs' = [nmiFs EXCEPT ![c] = FALSE]
    /\ Pop(c)
    /\ UNCHANGED <<ipcCalls, activity, queue, ack, extra, foreign, blocked, pendingNmi, latch,
                   stopFlag, stopLock, ipcLeft>>

(* An NMI of the platform itself. *)
PlatformNmi(c) ==
    /\ ipcLeft.platform > 0 /\ Running(c)
    /\ ipcLeft' = [ipcLeft EXCEPT !.platform = @ - 1]
    /\ SignalNmi(c)
    /\ UNCHANGED <<ipcCalls, activity, queue, ack, extra, foreign, blocked, pendingNmi, nmiFs, window,
                   stack, stopFlag, stopLock>>

(* Every CPU is in its guest, and nobody calls again. *)
IpcRest == (\A c \in Cpus : stack[c] = <<>>) /\ UNCHANGED ipcVars

-----------------------------------------------------------------------------
(* What a CPU does by itself once it is in the hypervisor. *)
CpuStep(c) ==
    \/ SendDst(c) \/ SendReturn(c) \/ StopStart(c) \/ CallStart(c)
    \/ ProcessOne(c) \/ ProcessAll(c) \/ HandlerReturn(c)
    \/ \E inject \in BOOLEAN : Dispatched(c, inject)
    \/ SipiDone(c) \/ ChangeState(c) \/ Resume(c)

(* What the processor makes it do. *)
NmiStep(c) == NmiVmexit(c) \/ NmiInterrupt(c) \/ NmiWindowVmexit(c)

IpcNext ==
    \E c \in Cpus :
        \/ \E kind \in CallKinds : IpcCall(c, kind)
        \/ CpuStep(c)
        \/ NmiStep(c)
        \/ \E d \in Cpus : Resend(c, d)
        \/ GuestInit(c) \/ GuestSipi(c) \/ PlatformNmi(c)
        \/ IpcRest

(* A CPU keeps running: in the hypervisor it goes on, in its guest it takes the
   NMIs it is sent; and a sender's timeout expires again and again. *)
IpcRuns(c) == CpuStep(c) \/ NmiVmexit(c) \/ NmiWindowVmexit(c)
Resends(c) == \E d \in Cpus : Resend(c, d)
IpcFairness == \A c \in Cpus : WF_ipcVars(IpcRuns(c)) /\ WF_ipcVars(Resends(c))

-----------------------------------------------------------------------------
IpcMessages == [type : CallKinds, from : Cpus]
IpcFrames ==
    [k : {"send"}, type : {"async", "sync", "stop", "start"}, todo : SUBSET Cpus,
     enq : SUBSET Cpus, acc : SUBSET Cpus]
    \cup [k : {"all"}, why : {"nmi", "window", "sipi"}, first : BOOLEAN, last : BOOLEAN]
    \cup [k : {"run"}, msg : IpcMessages]
    \cup [k : {"lock_stop", "lock_start", "stopped", "bad_stop", "no_message", "to_sipi", "to_active", "resume"}]

(* Types of the IPC state (ipc_state_init, ipc.c:710). *)
IpcTypeOK ==
    /\ ipcCalls \in [Cpus -> SUBSET CallKinds]
    /\ activity \in [Cpus -> {"not_active", "active", "sipi"}]
    /\ \A c \in Cpus : /\ queue[c] \in Seq(IpcMessages)
                       /\ stack[c] \in Seq(IpcFrames)
    /\ ack \in [Cpus -> [Cpus -> {0, 1}]]
    /\ extra \in [Cpus -> Int] /\ foreign \in [Cpus -> Int] /\ blocked \in [Cpus -> Nat]
    /\ pendingNmi \in [Cpus -> BOOLEAN] /\ latch \in [Cpus -> BOOLEAN]
    /\ nmiFs \in [Cpus -> BOOLEAN] /\ window \in [Cpus -> BOOLEAN]
    /\ stopFlag \in BOOLEAN /\ stopLock \in Cpus \cup {NoCpu}

Frames(c) == ToSet(stack[c])
RunsMessageOf(d, c, type) == \E f \in Frames(d) : f.k = "run" /\ f.msg = [type |-> type, from |-> c]

(* A message still queued, or a synchronous handler still running, has its
   sender waiting for it with that target's acknowledgement open: a send
   returns only when every target took the message (finished the handler), and
   no acknowledgement arrives in a later send's row (ipc.c:218, 261, 352). *)
OwnedBySender ==
    \A c, d \in Cpus :
        \A type \in CallKinds :
            (\/ Contains(queue[d], [type |-> type, from |-> c])
             \/ type = "sync" /\ RunsMessageOf(d, c, "sync"))
            => \E f \in Frames(c) : /\ f.k = "send" /\ f.type = type
                                    /\ d \in f.enq /\ ack[c][d] = 0

(* A queue never holds two messages of one sender, so the list of one element
   per processor never overflows (the assertion at ipc.c:234). *)
QueueFits ==
    \A d \in Cpus : \A i, j \in DOMAIN queue[d] :
        queue[d][i].from = queue[d][j].from => i = j

(* From the return of stop_all_cpus to start_all_cpus, every other CPU that ever
   came up is inside stop_cpu_handler, for this call or one it nests in
   (ipc_api.c:196-235): the caller has the machine to itself. *)
OthersStopped ==
    \A c, d \in Cpus :
        At(c, "stopped") /\ d # c /\ Running(d) =>
            \E f \in Frames(d) : f.k = "run" /\ f.msg.type = "stop"

(* stop_all_cpus never finds the machine stopped and start_all_cpus never finds
   it running (the assertions at ipc_api.c:224 and 254), however many CPUs call
   them at once. *)
StopsAlternate == \A c \in Cpus : ~At(c, "bad_stop")

(* The inter-processor calls of ipc.c and ipc_api.c: a message belongs to a send
   that still waits, a queue never overflows, and stopped means stopped. *)
CallsSound == OwnedBySender /\ QueueFits /\ OthersStopped /\ StopsAlternate

(* The dispatcher finds a message whenever it goes round its loop again: the
   assertion at ipc.c:332. *)
DispatcherFinds == \A c \in Cpus : ~At(c, "no_message")

Sending(c) == \E f \in Frames(c) : f.k = "send"

(* Every send returns, whatever the targets do meanwhile: senders wait for each
   other, targets go to wait-for-SIPI and come back, NMIs merge (ipc.c:261). *)
SendReturns == \A c \in Cpus : []<>~Sending(c)

-----------------------------------------------------------------------------
IpcSpec == IpcInit /\ [][IpcNext]_ipcVars

(* The workloads checked on three processors: the calls each of them makes,
   which of them came up, and how often INIT, platform NMIs and early timeouts
   happen. *)
Workload(calls, running, inits, platform, early) ==
    [calls |-> [c \in 0..2 |-> calls[c + 1]], running |-> running,
     left |-> [ops |-> [c \in 0..2 |-> 1], inits |-> inits, platform |-> platform, early |-> early]]

(* Three processors with two senders, or two with everything else. *)
CallWorkloads ==
    {Workload(<<{"async"}, {"sync"}, {}>>, {0, 1, 2}, 0, 0, 0),
     Workload(<<{"stop"}, {"stop"}, {}>>, {0, 1, 2}, 0, 0, 0),
     Workload(<<{"async", "sync"}, {"stop"}, {}>>, {0, 1}, 0, 0, 0),
     Workload(<<{"sync"}, {"async"}, {}>>, {0, 1}, 1, 1, 0),
     Workload(<<{"sync"}, {"async"}, {}>>, {0, 1}, 0, 0, 1)}

(* A processor that stops the others while one of them calls the other two. *)
StopAndCall == {Workload(<<{"stop"}, {"sync"}, {}>>, {0, 1, 2}, 0, 0, 0)}
=============================================================================
