------------------------------- MODULE Console -------------------------------
(***************************************************************************)
(* The monitor's console: vmm_io.c over the serial driver vmm_serial.c.    *)
(* Locked prints take printf_lock, which is a count: an unlocked print,    *)
(* meant for exception handlers, does not wait for it but adds itself, so  *)
(* that no locked print starts until it is done, and stops the locked      *)
(* print under way with puts_lock.  The driver keeps chars_in_tx_fifo, its *)
(* own estimate of what the transmit FIFO holds, to use the FIFO's depth.  *)
(*                                                                         *)
(* An unlocked print runs as a thread of its own: it may interrupt a       *)
(* locked one on the same processor or run beside it on another.  The      *)
(* statistics counters of the driver are left out.                         *)
(***************************************************************************)
EXTENDS Integers, Sequences, FiniteSets

CONSTANTS Printers,    \* threads that use the locked calls
          Handlers,    \* threads that use the unlocked calls
          HwFifo,      \* hw_fifo_size
          StopLimit,   \* hw_handshake_stopped_limit
          TextLen,     \* characters of a text
          PortTypes,   \* debug-port types the loader may ask for
          MaxPrints,   \* bound: calls a thread makes
          MaxStops     \* bound: times the handshake line changes

ASSUME ConsoleAssumption == HwFifo \in Nat \ {0} /\ StopLimit \in Nat /\ Printers \cap Handlers = {}

VARIABLE con           \* lock, driver, line, output, and where each thread is

Threads == Printers \cup Handlers
LockedCalls == {"puts", "printf", "putc"}
UnlockedCalls == {"puts_nolock", "putc_nolock"}
Idle == [at |-> "idle", call |-> "none", left |-> <<>>, i |-> 0]

ConInit ==
  con = [port |-> "unset", ready |-> FALSE, lock |-> 0, buffer |-> "none",
         est |-> 0, putsLock |-> FALSE, stopped |-> 0,
         fifo |-> 0, go |-> TRUE, changes |-> 0, lost |-> FALSE, handled |-> FALSE, out |-> <<>>,
         done |-> [t \in Threads |-> 0], th |-> [t \in Threads |-> Idle]]

(* vmm_debug_port_init_params and vmm_serial_new: the FIFO is taken to be
   full, which forces polling before the first character. *)
InitParams(type) ==
  /\ con.port = "unset"
  /\ con' = [con EXCEPT !.port = type, !.est = IF type = "serial" THEN HwFifo ELSE @]
(* vmm_io_init: vmm_serial_init programs the device and resets its FIFO. *)
IoInit ==
  /\ con.port # "unset" /\ ~con.ready
  /\ con' = [con EXCEPT !.ready = TRUE, !.fifo = 0]

(* The UART and the far side: a character leaves, or the handshake line, which
   only a waiting thread reads, changes. *)
Drain == con.fifo > 0 /\ con' = [con EXCEPT !.fifo = @ - 1]
LineChanges == /\ con.changes < MaxStops
               /\ \E t \in Threads : con.th[t].at \in {"poll", "waitEmpty", "waitAgain"}
               /\ con' = [con EXCEPT !.go = ~@, !.changes = @ + 1]

Move(t, at) == [con EXCEPT !.th[t].at = at]

(* is_hw_tx_handshake_go in automatic mode: its answer, and its count of
   consecutive stops, which beyond the limit turns the answer into go. *)
Forced == con.stopped >= StopLimit
HandshakeGo == con.go \/ Forced
Stopped == IF con.go THEN 0
           ELSE IF con.stopped = StopLimit THEN con.stopped + 1
           ELSE IF Forced THEN con.stopped
           ELSE con.stopped + 1

(* A call begins: what it prints is a text, and for puts an end of line. *)
Call(t, call) ==
  /\ con.ready /\ con.th[t] = Idle /\ con.done[t] < MaxPrints
  /\ call \in IF t \in Printers THEN LockedCalls ELSE UnlockedCalls
  /\ LET left == CASE call \in {"puts", "puts_nolock"} -> <<TextLen, 2>>
                   [] call = "printf" -> <<TextLen>>
                   [] OTHER -> <<1>>
         at == IF t \in Printers THEN "lock"
               ELSE IF con.port # "serial" THEN "idle"
               ELSE IF call = "puts_nolock" THEN "force" ELSE "waitEmpty"
     IN con' = [con EXCEPT !.th[t] = IF at = "idle" THEN Idle
                                     ELSE [at |-> at, call |-> call, left |-> left, i |-> 0],
                           !.done[t] = @ + 1]

(* raw_lock, raw_force_lock and raw_unlock. *)
RawLock(t) ==
  /\ con.th[t].at = "lock" /\ con.lock = 0
  /\ con' = [Move(t, IF con.th[t].call = "printf" THEN "format"
                     ELSE IF con.port = "serial" THEN "poll" ELSE "unlock") EXCEPT !.lock = 1]
RawForceLockStores(t) ==
  con.th[t].at = "force" /\ con' = [Move(t, "block") EXCEPT !.lock = 1]
RawForceLock(t) ==
  con.th[t].at = "force" /\ con' = [Move(t, "block") EXCEPT !.lock = @ + 1]
RawUnlock(t) ==
  /\ con.th[t].at = "unlock"
  /\ LET more == con.th[t].call = "puts_nolock" /\ con.th[t].left # <<>>
     IN con' = [con EXCEPT !.th[t] = IF more THEN [@ EXCEPT !.at = "force"] ELSE Idle, !.lock = @ - 1]
(* vmm_printf_int formats into the one static buffer. *)
Format(t) ==
  /\ con.th[t].at = "format"
  /\ con' = [Move(t, IF con.port = "serial" THEN "poll" ELSE "unlock") EXCEPT !.buffer = t]

(* vmm_serial_putc waits for room by its own estimate, the line and puts_lock. *)
SerialPoll(t) ==
  /\ con.th[t].at = "poll"
  /\ LET est == IF con.fifo = 0 THEN 0 ELSE con.est
         ready == HandshakeGo /\ est < HwFifo /\ ~con.putsLock
     IN con' = [Move(t, IF ready THEN "write" ELSE "poll") EXCEPT !.est = est, !.stopped = Stopped]

(* A character goes to the transmit register; a full FIFO drops it.  Of the
   output the model keeps the pieces the locked calls left in it. *)
Emit(t, s) ==
  LET text == IF s.th[t].call = "printf" THEN s.buffer ELSE t
      piece == [by |-> t, call |-> s.done[t], text |-> text]
      goesOn == s.out # <<>> /\ s.out[Len(s.out)] = piece
  IN [s EXCEPT !.fifo = IF @ < HwFifo THEN @ + 1 ELSE @, !.lost = @ \/ con.fifo >= HwFifo,
               !.handled = @ \/ t \in Handlers,
               !.out = IF t \in Printers /\ ~goesOn THEN Append(@, piece) ELSE @]
(* The loop over a string's characters, and over the strings of the call. *)
NextChar(s, t, again, over) ==
  LET w == s.th[t]
  IN IF w.i + 1 < Head(w.left) THEN [s EXCEPT !.th[t].i = @ + 1, !.th[t].at = again]
     ELSE [s EXCEPT !.th[t] = [w EXCEPT !.i = 0, !.left = Tail(@),
                                        !.at = IF over = again /\ Tail(w.left) = <<>> THEN "unlock" ELSE over]]
SerialPutc(t) ==
  /\ con.th[t].at = "write"
  /\ con' = NextChar([Emit(t, con) EXCEPT !.est = @ + 1], t, "poll", "poll")

(* vmm_serial_puts_nolock blocks the locked print for the string. *)
Block(t) == con.th[t].at = "block" /\ con' = [Move(t, "waitEmpty") EXCEPT !.putsLock = TRUE]
Unblock(t) == con.th[t].at = "unblock" /\ con' = [Move(t, "unlock") EXCEPT !.putsLock = FALSE]
(* vmm_serial_putc_nolock waits for an empty FIFO before and after; the line
   is read in the first wait only when the FIFO is empty. *)
WaitEmpty(t) ==
  /\ con.th[t].at = "waitEmpty" /\ con.fifo = 0
  /\ con' = [Move(t, IF HandshakeGo THEN "writeNow" ELSE "waitEmpty") EXCEPT !.stopped = Stopped]
PutcNolock(t) ==
  con.th[t].at = "writeNow" /\ con' = [Emit(t, con) EXCEPT !.th[t].at = "waitAgain"]
WaitAgain(t) ==
  /\ con.th[t].at = "waitAgain"
  /\ LET s == [con EXCEPT !.stopped = Stopped]
     IN con' = IF ~(HandshakeGo /\ con.fifo = 0) THEN s
               ELSE IF con.th[t].call = "putc_nolock" THEN [s EXCEPT !.th[t] = Idle]
               ELSE NextChar(s, t, "waitEmpty", "unblock")

ConRest == (\A t \in Threads : con.th[t] = Idle /\ con.done[t] = MaxPrints) /\ UNCHANGED con

ConNext ==
  \/ \E type \in PortTypes : InitParams(type)
  \/ IoInit \/ Drain \/ LineChanges \/ ConRest
  \/ \E t \in Threads :
       \/ \E call \in LockedCalls \cup UnlockedCalls : Call(t, call)
       \/ RawLock(t) \/ RawForceLock(t) \/ RawUnlock(t) \/ Format(t)
       \/ SerialPoll(t) \/ SerialPutc(t)
       \/ Block(t) \/ Unblock(t) \/ WaitEmpty(t) \/ PutcNolock(t) \/ WaitAgain(t)

ConSpec == ConInit /\ [][ConNext]_con

(* Types of the console record. *)
ConTypeOK ==
  /\ con.lock \in 0..Cardinality(Threads) /\ con.fifo \in 0..HwFifo
  /\ con.stopped \in 0..(StopLimit + 1) /\ con.est \in 0..HwFifo

InLock == {"format", "poll", "write"}
Holders == {t \in Threads : \/ con.th[t].at \in InLock \cup {"unlock", "block", "unblock"}
                            \/ /\ con.th[t].call = "puts_nolock"
                               /\ con.th[t].at \in {"waitEmpty", "writeNow", "waitAgain"}}
(* The count in printf_lock is the number of prints inside it, so the forced
   locks of handlers never let two locked prints in; a locked print comes out
   in one piece among the locked ones, and from its own text although all
   share the format buffer; and without handlers no character meets a full
   FIFO (raw_lock to raw_unlock, vmm_printf_int, vmm_serial_putc). *)
ConsoleSound ==
  /\ con.lock = Cardinality(Holders)
  /\ Cardinality({t \in Printers : con.th[t].at \in InLock \cup {"unlock"}}) <= 1
  /\ \A i, j \in DOMAIN con.out : i # j => con.out[i].by # con.out[j].by \/ con.out[i].call # con.out[j].call
  /\ \A i \in DOMAIN con.out : con.out[i].text = con.out[i].by
  /\ con.lost => con.handled
=============================================================================
