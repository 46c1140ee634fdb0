--------------------------- MODULE HostedPrograms ---------------------------
(***************************************************************************)
(* The life cycle of hosted programs on a LinuxHost: starting, stopping,   *)
(* killing, waiting for and shutting down children, with the goroutines    *)
(* that the process factory and the host leave running for each child.     *)
(*                                                                         *)
(* Sources: go/tao/linux_host.go (StartHostedProgram .. Shutdown) and      *)
(* go/tao/linux_process_factory.go (Start, WaitChan, Kill, Stop).          *)
(*                                                                         *)
(* One call of StartHostedProgram is made for each member of Prog.  The    *)
(* lock hpm is held across several steps only by Shutdown; every other     *)
(* critical section is one action that needs the lock to be free.          *)
(***************************************************************************)
EXTENDS Naturals, FiniteSets

CONSTANTS
    Prog,     \* the hosted programs that may be started
    Hash,     \* the hashes of their executables
    HashOf,   \* the hash of each program's executable
    MaxExtensions   \* bound: calls of ExtendTaoName by one program

ASSUME HashAssumption == HashOf \in [Prog -> Hash]
ASSUME ExtensionsAssumption == MaxExtensions \in Nat

VARIABLES
    start,          \* progress of StartHostedProgram for each program
    proc,           \* the operating system's view of each process
    sig,            \* strongest signal sent to each process
    sigchld,        \* a SIGCHLD is on its way to the subscribers
    registered,     \* programs whose reaper is subscribed to SIGCHLD
    sc,             \* programs whose reaper has a SIGCHLD to receive
    reaper,         \* progress of the reaper goroutine of each program
    done,           \* programs whose Done channel is signalled and closed
    channel,        \* children whose Tao channel is open
    extending,      \* children with an ExtendTaoName call under way
    subprin,        \* ChildSubprin: the name under which a child is known
    hostedPrograms, \* the host's list of children
    waiter,         \* the goroutine that removes a child from the list
    client,         \* a WaitHostedProgram call for each program
    shutdown,       \* progress of Shutdown, which holds hpm while it runs
    pending,        \* children Shutdown still has to wait for or kill
    timeout,        \* Shutdown's ten second timer has fired
    asked,          \* history: programs started before Shutdown began
    early           \* history: programs that ended before Notify

osVars    == <<proc, sig, sigchld, early>>
sigVars   == <<registered, sc, reaper, done>>
nameVars  == <<channel, extending, subprin>>
listVars  == <<hostedPrograms, waiter, client>>
downVars  == <<shutdown, pending, timeout, asked>>
vars      == <<start, osVars, sigVars, nameVars, listVars, downVars>>

\* A child's name: the hash of its binary, and how often it was extended.
\* (nextChildID is never set, so no numeric id appears in a name.)
Name == Hash \X (0 .. MaxExtensions)

TypeOK ==
    /\ start \in [Prog -> {"idle", "created", "spawned", "running",
                           "returned", "failed"}]
    /\ proc \in [Prog -> {"none", "running", "zombie", "gone"}]
    /\ sig \in [Prog -> {"none", "term", "kill"}]
    /\ sigchld \in BOOLEAN
    /\ registered \in SUBSET Prog
    /\ sc \in SUBSET Prog
    /\ reaper \in [Prog -> {"none", "signal", "wait", "reaped", "finished"}]
    /\ done \in SUBSET Prog
    /\ channel \in SUBSET Prog
    /\ extending \in SUBSET Prog
    /\ subprin \in [Prog -> Name]
    /\ hostedPrograms \in SUBSET Prog
    /\ waiter \in [Prog -> {"none", "waiting", "finished"}]
    /\ client \in [Prog -> {"idle", "blocked", "returned", "nosuch"}]
    /\ shutdown \in {"idle", "waiting", "reaping", "returned", "exited"}
    /\ pending \in SUBSET Prog
    /\ timeout \in BOOLEAN
    /\ asked \in SUBSET Prog
    /\ early \in SUBSET Prog

Init ==
    /\ start = [p \in Prog |-> "idle"]
    /\ proc = [p \in Prog |-> "none"]
    /\ sig = [p \in Prog |-> "none"]
    /\ sigchld = FALSE
    /\ registered = {}
    /\ sc = {}
    /\ reaper = [p \in Prog |-> "none"]
    /\ done = {}
    /\ channel = {}
    /\ extending = {}
    /\ subprin = [p \in Prog |-> <<HashOf[p], 0>>]
    /\ hostedPrograms = {}
    /\ waiter = [p \in Prog |-> "none"]
    /\ client = [p \in Prog |-> "idle"]
    /\ shutdown = "idle"
    /\ pending = {}
    /\ timeout = FALSE
    /\ asked = {}
    /\ early = {}

\* The linux_host process still runs, and so do its goroutines.
Alive == shutdown # "exited"

\* hpm can be taken: Shutdown is the only caller that keeps it over steps.
Unlocked == shutdown \in {"idle", "returned"}

----------------------------------------------------------------------------
\* Starting a program

\* StartHostedProgram up to the guard's answer: the program is created and
\* authorized, or the call fails.
NewHostedProgram(p) ==
    /\ Alive
    /\ start[p] = "idle"
    /\ \E s \in {"created", "failed"} : start' = [start EXCEPT ![p] = s]
    /\ UNCHANGED <<osVars, sigVars, nameVars, listVars, downVars>>

\* prog.Start() up to Cmd.Start: the process runs, or the call fails.
CmdStart(p) ==
    /\ Alive
    /\ start[p] = "created"
    /\ \/ /\ start' = [start EXCEPT ![p] = "spawned"]
          /\ proc' = [proc EXCEPT ![p] = "running"]
       \/ /\ start' = [start EXCEPT ![p] = "failed"]
          /\ UNCHANGED proc
    /\ UNCHANGED <<sig, sigchld, early, sigVars, nameVars, listVars, downVars>>

\* The rest of prog.Start(): subscribe to SIGCHLD, leave a reaper behind and
\* return the channel, which StartHostedProgram starts to serve.
Notify(p) ==
    /\ Alive
    /\ start[p] = "spawned"
    /\ start' = [start EXCEPT ![p] = "running"]
    /\ registered' = registered \cup {p}
    /\ reaper' = [reaper EXCEPT ![p] = "signal"]
    /\ channel' = channel \cup {p}
    /\ UNCHANGED <<osVars, sc, done, extending, subprin, listVars, downVars>>

\* Mutant: the child is not appended to the list.
AddUnlisted(p) ==
    /\ start[p] = "running"
    /\ Unlocked
    /\ start' = [start EXCEPT ![p] = "returned"]
    /\ waiter' = [waiter EXCEPT ![p] = "waiting"]
    /\ UNCHANGED <<osVars, sigVars, nameVars, hostedPrograms, client, downVars>>

\* The rest of StartHostedProgram: list the child, leave a waiter behind.
AddHostedProgram(p) ==
    /\ start[p] = "running"
    /\ Unlocked
    /\ start' = [start EXCEPT ![p] = "returned"]
    /\ hostedPrograms' = hostedPrograms \cup {p}
    /\ waiter' = [waiter EXCEPT ![p] = "waiting"]
    /\ UNCHANGED <<osVars, sigVars, nameVars, client, downVars>>

----------------------------------------------------------------------------
\* The process, its reaper and its waiter

\* The process ends, by itself or because of a signal.
Exit(p) ==
    /\ proc[p] = "running"
    /\ proc' = [proc EXCEPT ![p] = "zombie"]
    /\ sigchld' = TRUE
    /\ early' = IF p \in registered THEN early ELSE early \cup {p}
    /\ UNCHANGED <<start, sig, sigVars, nameVars, listVars, downVars>>

\* Mutant: only one of the subscribers is told.
DispatchToOne ==
    /\ Alive
    /\ sigchld
    /\ sigchld' = FALSE
    /\ sc' = sc \cup {p \in registered : p = CHOOSE q \in registered : TRUE}
    /\ UNCHANGED <<start, proc, sig, early, registered, reaper, done,
                   nameVars, listVars, downVars>>

\* The Go runtime hands the signal to the channels subscribed by now;
\* signals that meet no subscriber are dropped, several become one, and a
\* reaper that has had its signal reads no other.
DispatchSignal ==
    /\ Alive
    /\ sigchld
    /\ sigchld' = FALSE
    /\ sc' = sc \cup {p \in registered : reaper[p] = "signal"}
    /\ UNCHANGED <<start, proc, sig, early, registered, reaper, done,
                   nameVars, listVars, downVars>>

\* Mutant: Done is signalled before Cmd.Wait.
ReceiveAndSignalDone(p) ==
    /\ Alive
    /\ reaper[p] = "signal"
    /\ p \in sc
    /\ sc' = sc \ {p}
    /\ done' = done \cup {p}
    /\ reaper' = [reaper EXCEPT ![p] = "wait"]
    /\ UNCHANGED <<start, osVars, registered, nameVars, listVars, downVars>>

\* <-sc: any child's SIGCHLD lets the reaper go on to Cmd.Wait.
ReceiveSignal(p) ==
    /\ Alive
    /\ reaper[p] = "signal"
    /\ p \in sc
    /\ sc' = sc \ {p}
    /\ reaper' = [reaper EXCEPT ![p] = "wait"]
    /\ UNCHANGED <<start, osVars, registered, done, nameVars, listVars,
                   downVars>>

\* Cmd.Wait and signal.Stop: the pid is given back to the system.
CmdWait(p) ==
    /\ Alive
    /\ reaper[p] = "wait"
    /\ proc[p] = "zombie"
    /\ proc' = [proc EXCEPT ![p] = "gone"]
    /\ registered' = registered \ {p}
    /\ reaper' = [reaper EXCEPT ![p] = "reaped"]
    /\ UNCHANGED <<start, sig, sigchld, early, sc, done, nameVars, listVars,
                   downVars>>

\* p.Done <- true; close(p.Done): nobody blocks on WaitChan any more.
SignalDone(p) ==
    /\ Alive
    /\ reaper[p] = "reaped"
    /\ reaper' = [reaper EXCEPT ![p] = "finished"]
    /\ done' = done \cup {p}
    /\ UNCHANGED <<start, osVars, registered, sc, nameVars, listVars, downVars>>

\* Mutant: the goroutine does not wait for the child.
RemoveAtOnce(p) ==
    /\ waiter[p] = "waiting"
    /\ Unlocked
    /\ hostedPrograms' = hostedPrograms \ {p}
    /\ waiter' = [waiter EXCEPT ![p] = "finished"]
    /\ UNCHANGED <<start, osVars, sigVars, nameVars, client, downVars>>

\* Mutant: Done is not closed, so that the first receiver takes the signal.
RemoveAndConsume(p) ==
    /\ waiter[p] = "waiting"
    /\ p \in done
    /\ Unlocked
    /\ done' = done \ {p}
    /\ hostedPrograms' = hostedPrograms \ {p}
    /\ waiter' = [waiter EXCEPT ![p] = "finished"]
    /\ UNCHANGED <<start, osVars, registered, sc, reaper, nameVars, client,
                   downVars>>

\* The goroutine StartHostedProgram leaves behind drops the child.
RemoveExited(p) ==
    /\ waiter[p] = "waiting"
    /\ p \in done
    /\ Unlocked
    /\ hostedPrograms' = hostedPrograms \ {p}
    /\ waiter' = [waiter EXCEPT ![p] = "finished"]
    /\ UNCHANGED <<start, osVars, sigVars, nameVars, client, downVars>>

----------------------------------------------------------------------------
\* Operations of the child and of the administrator

\* A child's ExtendTaoName request is read from its channel ...
ExtendRequest(p) ==
    /\ Alive
    /\ p \in channel
    /\ p \notin extending
    /\ subprin[p][2] < MaxExtensions
    /\ extending' = extending \cup {p}
    /\ UNCHANGED <<start, osVars, sigVars, channel, subprin, listVars, downVars>>

\* Mutant: the extension is appended twice.
ExtendTwice(p) ==
    /\ Alive
    /\ p \in extending
    /\ extending' = extending \ {p}
    /\ subprin' = [subprin EXCEPT ![p] = <<subprin[p][1], subprin[p][2] + 2>>]
    /\ UNCHANGED <<start, osVars, sigVars, channel, listVars, downVars>>

\* ... and its goroutine has assigned child.ChildSubprin, without any lock.
ExtendTaoName(p) ==
    /\ Alive
    /\ p \in extending
    /\ extending' = extending \ {p}
    /\ subprin' = [subprin EXCEPT ![p] = <<subprin[p][1], subprin[p][2] + 1>>]
    /\ UNCHANGED <<start, osVars, sigVars, channel, listVars, downVars>>

\* The children a comparison of ChildSubprin with n may pick: a read that
\* races with ExtendTaoName may see the old name, the new one or neither.
Matches(n) ==
    {P \in SUBSET hostedPrograms :
        \A p \in hostedPrograms \ extending : p \in P <=> subprin[p] = n}

\* The effect of sending signal s to the processes in P.
Signal(P, s) ==
    sig' = [p \in Prog |->
              IF p \in P /\ proc[p] = "running" /\ sig[p] # "kill"
              THEN s ELSE sig[p]]

StopHostedProgram(n) ==
    /\ Unlocked
    /\ \E P \in Matches(n) : Signal(P, "term") /\ channel' = channel \ P
    /\ UNCHANGED <<start, proc, sigchld, early, sigVars, extending, subprin,
                   listVars, downVars>>

KillHostedProgram(n) ==
    /\ Unlocked
    /\ \E P \in Matches(n) : Signal(P, "kill") /\ channel' = channel \ P
    /\ UNCHANGED <<start, proc, sigchld, early, sigVars, extending, subprin,
                   listVars, downVars>>

\* WaitHostedProgram finds the child by its pid and by the name that
\* StartHostedProgram returned, or fails with "no such hosted program".
WaitHostedProgram(p) ==
    /\ client[p] = "idle"
    /\ start[p] = "returned"
    /\ Unlocked
    /\ \E P \in Matches(<<HashOf[p], 0>>) :
         client' = [client EXCEPT ![p] = IF p \in P THEN "blocked" ELSE "nosuch"]
    /\ UNCHANGED <<start, osVars, sigVars, nameVars, hostedPrograms, waiter,
                   downVars>>

\* <-p.Cmd.WaitChan(); return the exit status.
WaitReturn(p) ==
    /\ Alive
    /\ client[p] = "blocked"
    /\ p \in done
    /\ client' = [client EXCEPT ![p] = "returned"]
    /\ UNCHANGED <<start, osVars, sigVars, nameVars, hostedPrograms, waiter,
                   downVars>>

----------------------------------------------------------------------------
\* Shutdown

\* Take hpm and ask every child to stop.
ShutdownStop ==
    /\ shutdown = "idle"
    /\ shutdown' = "waiting"
    /\ Signal(hostedPrograms, "term")
    /\ pending' = hostedPrograms
    /\ asked' = {p \in Prog : start[p] = "returned"}
    /\ UNCHANGED <<start, proc, sigchld, early, sigVars, nameVars, listVars,
                   timeout>>

\* The timer goroutine: timeout <- true; close(timeout).
Timeout ==
    /\ Alive
    /\ shutdown # "idle"
    /\ ~timeout
    /\ timeout' = TRUE
    /\ UNCHANGED <<start, osVars, sigVars, nameVars, listVars, shutdown,
                   pending, asked>>

\* Mutant: children that remain are asked to stop once more, not killed.
ShutdownWaitOrStop(p) ==
    /\ shutdown = "waiting"
    /\ p \in pending
    /\ \/ p \in done /\ UNCHANGED sig
       \/ timeout /\ Signal({p}, "term")
    /\ pending' = pending \ {p}
    /\ UNCHANGED <<start, proc, sigchld, early, sigVars, nameVars, listVars,
                   shutdown, timeout, asked>>

\* The select of the wait loop: the child is done, or it is killed.
ShutdownWaitOrKill(p) ==
    /\ shutdown = "waiting"
    /\ p \in pending
    /\ \/ p \in done /\ UNCHANGED sig
       \/ timeout /\ Signal({p}, "kill")
    /\ pending' = pending \ {p}
    /\ UNCHANGED <<start, proc, sigchld, early, sigVars, nameVars, listVars,
                   shutdown, timeout, asked>>

ShutdownWaited ==
    /\ shutdown = "waiting"
    /\ pending = {}
    /\ shutdown' = "reaping"
    /\ UNCHANGED <<start, osVars, sigVars, nameVars, listVars, pending,
                   timeout, asked>>

\* Mutant: Shutdown does not wait for the children it killed.
ShutdownReturnAtOnce ==
    /\ shutdown = "reaping"
    /\ hostedPrograms' = {}
    /\ shutdown' = "returned"
    /\ UNCHANGED <<start, osVars, sigVars, nameVars, waiter, client, pending,
                   timeout, asked>>

\* Every child has been reaped: forget them all and release hpm.
ShutdownReturn ==
    /\ shutdown = "reaping"
    /\ hostedPrograms \subseteq done
    /\ hostedPrograms' = {}
    /\ shutdown' = "returned"
    /\ UNCHANGED <<start, osVars, sigVars, nameVars, waiter, client, pending,
                   timeout, asked>>

\* The admin server's Done channel makes Serve return and linux_host exit.
HostExit ==
    /\ shutdown = "returned"
    /\ shutdown' = "exited"
    /\ UNCHANGED <<start, osVars, sigVars, nameVars, listVars, pending,
                   timeout, asked>>

----------------------------------------------------------------------------
Starter(p) ==
    NewHostedProgram(p) \/ CmdStart(p) \/ Notify(p) \/ AddHostedProgram(p)
Reaper(p) ==
    ReceiveSignal(p) \/ CmdWait(p) \/ SignalDone(p)
Shutdown ==
    \/ ShutdownStop
    \/ \E p \in Prog : ShutdownWaitOrKill(p)
    \/ ShutdownWaited
    \/ ShutdownReturn
    \/ HostExit

Next ==
    \/ \E p \in Prog :
         \/ Starter(p) \/ Exit(p) \/ Reaper(p) \/ RemoveExited(p)
         \/ ExtendRequest(p) \/ ExtendTaoName(p)
         \/ WaitHostedProgram(p) \/ WaitReturn(p)
    \/ \E n \in Name : StopHostedProgram(n) \/ KillHostedProgram(n)
    \/ DispatchSignal \/ Timeout
    \/ Shutdown

Spec == Init /\ [][Next]_vars

\* The scheduler runs every goroutine that can run, timers fire, signals are
\* dispatched, and a process that was sent SIGKILL dies.  Programs that were
\* only sent SIGTERM may ignore it, and nobody has to call anything.
Fairness ==
    /\ \A p \in Prog :
         /\ WF_vars(Notify(p))
         /\ WF_vars(AddHostedProgram(p))
         /\ WF_vars(sig[p] = "kill" /\ Exit(p))
         /\ WF_vars(Reaper(p))
         /\ WF_vars(WaitReturn(p))
         /\ WF_vars(ShutdownWaitOrKill(p))
    /\ WF_vars(DispatchSignal)
    /\ WF_vars(Timeout)
    /\ WF_vars(ShutdownWaited)
    /\ WF_vars(ShutdownReturn)
    /\ WF_vars(HostExit)

FairSpec == Spec /\ Fairness

----------------------------------------------------------------------------
\* Properties

\* A program that StartHostedProgram returned to its caller and that still
\* runs is in hostedPrograms, so that Stop, Kill, List and Shutdown reach it:
\* the waiter goroutine never drops a child that is not dead, and Shutdown
\* forgets no child it has not reaped.
Reachable ==
    \A p \in Prog :
        start[p] = "returned" /\ proc[p] = "running" => p \in hostedPrograms

\* Once Shutdown has returned, every program whose StartHostedProgram call
\* had returned before Shutdown took hpm is dead and reaped.
ShutdownComplete ==
    shutdown \in {"returned", "exited"} =>
        \A p \in asked : proc[p] = "gone" /\ p \in done

\* A caller for whom WaitHostedProgram returned finds the program reaped, so
\* that ExitStatus has a ProcessState to report.
WaitMeansReaped ==
    \A p \in Prog : client[p] = "returned" => proc[p] = "gone"

\* WaitHostedProgram, called with the pid and name that StartHostedProgram
\* returned, fails only for a program that was reaped or that has asked for
\* an extension of its name in the meantime.
WaitFailsForCause ==
    \A p \in Prog : client[p] = "nosuch" =>
        p \in done \/ p \in extending \/ subprin[p][2] > 0

\* A child that was subscribed to SIGCHLD when it ended is reaped and its
\* WaitChan is signalled, unless linux_host exits first.
ReapedIfSubscribed ==
    \A p \in Prog :
        (proc[p] = "zombie" /\ p \notin early) ~> (p \in done \/ ~Alive)

\* Shutdown gets through, and linux_host exits, when no child in the list
\* ended before its reaper had subscribed.
ShutdownTerminates ==
    (shutdown = "waiting" /\ hostedPrograms \cap early = {}) ~> ~Alive

\* A blocked WaitHostedProgram call is answered once the program is killed.
WaitAnswered ==
    \A p \in Prog :
        (client[p] = "blocked" /\ sig[p] = "kill" /\ p \notin early) ~>
            (client[p] = "returned" \/ ~Alive)

\* HostedProcess.Start's comment: "Reap the child when the process dies."
ReapedWhenDead ==
    \A p \in Prog :
        (proc[p] = "zombie" /\ start[p] = "returned") ~>
            (proc[p] = "gone" \/ ~Alive)

=============================================================================
