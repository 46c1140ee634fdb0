------------------------------- MODULE TaoRpc -------------------------------
(***************************************************************************)
(* The stub a hosted C++ program calls its Tao host through               *)
(* (tao/tao_rpc.cc over tao/message_channel.cc and                        *)
(* tao/fd_message_channel.cc).  A call writes a header frame and a body   *)
(* frame to a pipe, blocks for a header frame and a body frame, and       *)
(* checks that they answer it.  There is no timeout and no retry: a call  *)
(* that fails half way leaves either a closed channel or a channel on     *)
(* which the next call must still find its own answer.                    *)
(*                                                                         *)
(* The host (a Go net/rpc server) is external: it answers each request    *)
(* with a header and a body, an error with an error header and a blank    *)
(* body, may leave a field out, and may exit between any two frames.      *)
(***************************************************************************)
EXTENDS Integers, Sequences

CONSTANTS RpcOps,      \* the operations of the stub
          MaxRpcCalls  \* bound: calls made in one behaviour

ASSUME TaoRpcAssumption == RpcOps # {} /\ MaxRpcCalls \in Nat

VARIABLE tr            \* the stub, its channel and the host, one record

(* The answers that the callers of Request ask for. *)
WantsData == {"GetTaoName", "GetRandomBytes", "GetSharedSecret", "Attest",
              "Seal", "Unseal", "RollbackProtectedSeal",
              "RollbackProtectedUnseal"}
WantsPolicy == {"Unseal", "RollbackProtectedUnseal"}

(* One frame: what was marshalled into it and for which request. *)
ReqHeader(op, seq) == [kind |-> "header", op |-> op, seq |-> seq, error |-> FALSE, fields |-> {}]
Body(op, seq, fields) == [kind |-> "body", op |-> op, seq |-> seq, error |-> FALSE, fields |-> fields]
RespHeader(op, seq, error) == [kind |-> "header", op |-> op, seq |-> seq, error |-> error, fields |-> {}]
NoFrame == Body("none", 0, {})
RpcResult(ok, own) == [ok |-> ok, own |-> own]

RpcInit ==
  tr = [pc |-> "idle", op |-> "none", lastSeq |-> 0, header |-> NoFrame,
        open |-> TRUE,                       \* the program's descriptors
        up |-> TRUE,                         \* the host's end of the pipes
        toHost |-> <<>>, toProgram |-> <<>>,
        pending |-> NoFrame,                 \* the body the host still writes
        result |-> RpcResult(FALSE, TRUE)]

(* FDMessageChannel::FDClose: both descriptors go, and what is in flight
   with them. *)
FDClose(s) == [s EXCEPT !.open = FALSE, !.toHost = <<>>, !.toProgram = <<>>]

Return(s, ok, own) == [s EXCEPT !.pc = "idle", !.op = "none", !.header = NoFrame,
                                !.result = RpcResult(ok, own)]

(* FDMessageChannel::SendData under SendString and SendMessage: a closed
   channel refuses; a failed or a short write closes the channel. *)
SendMessage(s, frame, next) ==
  \/ /\ s.open /\ s.up
     /\ tr' = [s EXCEPT !.toHost = Append(@, frame), !.pc = next]
  \/ /\ s.open
     /\ tr' = Return(FDClose(s), FALSE, TRUE)
  \/ /\ ~s.open
     /\ tr' = Return(s, FALSE, TRUE)

(* TaoRPC::Request, its first half: a new sequence number, then the header
   and the body.  The stub's operations differ only in what they ask for. *)
RequestStart(op) ==
  /\ tr.pc = "idle" /\ tr.lastSeq < MaxRpcCalls
  /\ LET s == [tr EXCEPT !.op = op, !.lastSeq = @ + 1]
     IN SendMessage(s, ReqHeader(op, s.lastSeq), "send_body")

RequestBody ==
  /\ tr.pc = "send_body"
  /\ SendMessage(tr, Body(tr.op, tr.lastSeq, {"data"}), "receive_header")

(* FDMessageChannel::ReceivePartialData under ReceiveData: a read that
   finds the other end closed, or fails, closes the channel. *)
ReceiveFails ==
  /\ tr.open
  /\ tr.toProgram = <<>> /\ ~tr.up
  /\ tr' = Return(FDClose(tr), FALSE, TRUE)

ReadError ==
  /\ tr.open
  /\ tr' = Return(FDClose(tr), FALSE, TRUE)

(* MessageChannel::ReceiveMessage of a header: the operation and the
   sequence number are required fields, so no body and no blank message
   parses as a header, and a frame that does not parse closes the channel. *)
ReceiveHeader ==
  /\ tr.open /\ tr.toProgram # <<>>
  /\ LET f == Head(tr.toProgram)
         s == [tr EXCEPT !.toProgram = Tail(@)]
     IN tr' = IF f.kind # "header" THEN Return(FDClose(s), FALSE, TRUE)
              ELSE [s EXCEPT !.header = f,
                             !.pc = IF f.error THEN "discard" ELSE "receive_body"]

RequestHeader == tr.pc = "receive_header" /\ (ReceiveHeader \/ ReceiveFails \/ ReadError)

(* The error path of Request: the blank body is read and dropped, whatever
   reading it returns. *)
DiscardBody ==
  /\ tr.open /\ tr.toProgram # <<>>
  /\ tr' = Return([tr EXCEPT !.toProgram = Tail(@)], FALSE, TRUE)

LeaveBody ==
  /\ tr.pc = "discard" /\ tr' = Return(tr, FALSE, TRUE)

RequestDiscard == tr.pc = "discard" /\ (DiscardBody \/ ReceiveFails \/ ReadError)

(* The checks at the end of Request, in their order.  A header read as a
   body parses: its operation takes the place of the data. *)
Accepts(h, f) ==
  /\ h.op = tr.op
  /\ h.seq = tr.lastSeq
  /\ tr.op \in WantsData => ("data" \in f.fields \/ f.kind = "header")
  /\ tr.op \in WantsPolicy => "policy" \in f.fields

ReceiveBody ==
  /\ tr.open /\ tr.toProgram # <<>>
  /\ LET f == Head(tr.toProgram)
     IN tr' = Return([tr EXCEPT !.toProgram = Tail(@)], Accepts(tr.header, f),
                     f.kind = "body" /\ f.op = tr.op /\ f.seq = tr.lastSeq)

RequestEnd == tr.pc = "receive_body" /\ (ReceiveBody \/ ReceiveFails \/ ReadError)

(* The host's side of the pipe: net/rpc reads a request and answers it, one
   frame at a time. *)
HostAnswers(error, fields) ==
  /\ tr.up /\ tr.pending = NoFrame /\ Len(tr.toHost) >= 2
  /\ LET q == Head(tr.toHost)
     IN tr' = [tr EXCEPT !.toHost = SubSeq(@, 3, Len(@)),
                         !.toProgram = IF tr.open THEN Append(@, RespHeader(q.op, q.seq, error)) ELSE @,
                         !.pending = Body(q.op, q.seq, IF error THEN {} ELSE fields)]

HostFinishes ==
  /\ tr.up /\ tr.pending # NoFrame
  /\ tr' = [tr EXCEPT !.pending = NoFrame,
                      !.toProgram = IF tr.open THEN Append(@, tr.pending) ELSE @]

HostExits ==
  /\ tr.up
  /\ tr' = [tr EXCEPT !.up = FALSE, !.pending = NoFrame, !.toHost = <<>>]

RpcRest == tr.pc = "idle" /\ tr.lastSeq = MaxRpcCalls /\ UNCHANGED tr

RpcNext ==
  \/ \E op \in RpcOps : RequestStart(op)
  \/ RequestBody
  \/ RequestHeader
  \/ RequestDiscard
  \/ RequestEnd
  \/ \E error \in BOOLEAN, fields \in SUBSET {"data", "policy"} : HostAnswers(error, fields)
  \/ HostFinishes
  \/ HostExits
  \/ RpcRest

RpcSpec == RpcInit /\ [][RpcNext]_tr

RpcFrames == [kind : {"header", "body"}, op : RpcOps \cup {"none"}, seq : 0..MaxRpcCalls,
           error : BOOLEAN, fields : SUBSET {"data", "policy"}]

(* Types of the stub's record. *)
RpcTypeOK ==
  /\ tr.pc \in {"idle", "send_body", "receive_header", "discard", "receive_body"}
  /\ tr.lastSeq \in 0..MaxRpcCalls /\ tr.open \in BOOLEAN /\ tr.up \in BOOLEAN
  /\ {tr.header, tr.pending} \subseteq RpcFrames
  /\ tr.toHost \in Seq(RpcFrames) /\ tr.toProgram \in Seq(RpcFrames)

(* A call that reports success returns the body the host wrote for that
   very call, and between calls an open channel is aligned: nothing of an
   earlier call, successful or failed, is left on it, written or still to be
   written, while the host is there.  (TaoRPC::Request reads the body even
   after an error header, and every failed read or write closes the
   channel.) *)
RpcInStep ==
  /\ tr.result.ok => tr.result.own
  /\ tr.pc = "idle" /\ tr.open /\ tr.up =>
       tr.toHost = <<>> /\ tr.toProgram = <<>> /\ tr.pending = NoFrame
=============================================================================
