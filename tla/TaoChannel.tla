----------------------------- MODULE TaoChannel -----------------------------
(***************************************************************************)
(* The TLS channels of the C++ support library (tao_support/              *)
(* ssl_helpers.cc and the TaoChannel of taosupport.cc): one server that   *)
(* serves its connections one after the other, clients that connect to    *)
(* it under a verification mode, and messages framed by a 4-byte length.  *)
(*                                                                         *)
(* A C++ peer writes length and message as one TLS record, a Go peer as   *)
(* two; SslMessageRead has to put a message together from either without  *)
(* a buffer that outlives the call.  External: OpenSSL (handshake,        *)
(* records, certificate verification) and the Go peers' writes.           *)
(***************************************************************************)
EXTENDS Integers, Sequences, FiniteSets

CONSTANTS ChannelConfigs, \* server and clients of the behaviours examined
          Sizes,          \* message lengths
          ReadSize,       \* the size the readers pass (BUFSIZE)
          MaxSends        \* bound: messages per direction of a connection

VARIABLE ch               \* the server and its clients, one record

LengthSize == 4           \* sizeof(int)

VerifyModes == {"NO_SERVER_VERIFY_NO_CLIENT_AUTH", "NO_SERVER_VERIFY_NO_CLIENT_VERIFY",
                "SERVER_VERIFY_NO_CLIENT_VERIFY", "SERVER_VERIFY_CLIENT_VERIFY"}

ChanClients == DOMAIN ch.config.clients
Conf(c) == ch.config.clients[c]
NoClient == "none"

ASSUME TaoChannelAssumption ==
  /\ Sizes \subseteq Nat /\ ReadSize \in Nat /\ MaxSends \in Nat
  /\ \A f \in ChannelConfigs : NoClient \notin DOMAIN f.clients

(* A direction of a connection: the records in flight, the messages written
   and the messages read. *)
NoTraffic == [records |-> <<>>, sent |-> <<>>, got |-> <<>>]

ChannelInit ==
  \E f \in ChannelConfigs :
    ch = [config |-> f, listening |-> FALSE, serving |-> NoClient,
          state |-> [c \in DOMAIN f.clients |-> "closed"],
          peer |-> [c \in DOMAIN f.clients |-> "none"],
          up |-> [c \in DOMAIN f.clients |-> NoTraffic],
          down |-> [c \in DOMAIN f.clients |-> NoTraffic]]

(* SslChannel::InitServerSslChannel with CreateServerSocket. *)
InitServerSslChannel ==
  /\ ~ch.listening
  /\ ch.config.server.key /\ ch.config.server.mode \in VerifyModes
  /\ ch' = [ch EXCEPT !.listening = TRUE]

(* CreateClientSocket: refused while nobody listens. *)
CreateClientSocket(c) ==
  /\ ch.state[c] = "closed"
  /\ ch.listening
  /\ ch' = [ch EXCEPT !.state[c] = IF Conf(c).key /\ Conf(c).mode \in VerifyModes
                                   THEN "connecting" ELSE "failed"]

(* The verification each side asks of the handshake: what
   InitServerSslChannel sets up ... *)
ServerVerifies(mode) == mode = "SERVER_VERIFY_CLIENT_VERIFY"

(* ... and InitClientSslChannel, which presents no certificate at all under
   the first mode and switches verification off again under the second. *)
ClientVerifies(mode) ==
  mode \in {"SERVER_VERIFY_NO_CLIENT_VERIFY", "SERVER_VERIFY_CLIENT_VERIFY"}
ClientPresents(mode) == mode # "NO_SERVER_VERIFY_NO_CLIENT_AUTH"

Handshake(srv, cl) ==
  /\ ServerVerifies(srv.mode) => ClientPresents(cl.mode) /\ cl.issuer = srv.policy
  /\ ClientVerifies(cl.mode) => srv.issuer = cl.policy

(* ServerLoop: accept a connection, shake hands, hand it to the handler; a
   connection whose handshake fails is dropped and the loop goes on. *)
ServerAccept(c) ==
  /\ ch.listening /\ ch.serving = NoClient /\ ch.state[c] = "connecting"
  /\ ch' = IF Handshake(ch.config.server, Conf(c))
           THEN [ch EXCEPT !.serving = c, !.state[c] = "open",
                           !.peer[c] = ch.config.server.issuer]
           ELSE [ch EXCEPT !.state[c] = "failed"]

(* SslMessageWrite: length and message in one record; the caller takes a
   message of length 0 for a failure.  A Go peer writes the length, then
   the message. *)
Record(id, head, n) == [id |-> id, head |-> head, n |-> n]
SslMessageWrite(d, n) ==
  LET id == Len(d.sent) + 1
  IN [d EXCEPT !.records = Append(@, Record(id, TRUE, LengthSize + n)),
               !.sent = Append(@, n)]
GoMessageWrite(d, n) ==
  LET id == Len(d.sent) + 1
      rest == IF n = 0 THEN <<>> ELSE <<Record(id, FALSE, n)>>
  IN [d EXCEPT !.records = Append(@, Record(id, TRUE, LengthSize)) \o rest,
               !.sent = Append(@, n)]

SmallerOf(a, b) == IF a < b THEN a ELSE b

(* SSL_read of at most size bytes: never more than one record. *)
Taken(d, size) == SmallerOf(size, Head(d.records).n)
SslRead(d, size) ==
  IF Taken(d, size) = Head(d.records).n THEN [d EXCEPT !.records = Tail(@)]
  ELSE [d EXCEPT !.records = <<Record(Head(@).id, FALSE, Head(@).n - Taken(d, size))>> \o Tail(@)]

(* What a reader gets: the message whole, or a wrong one. *)
WholeMessage(id) == id
Garbled == 0

(* SslMessageRead.  With only the length in the first record a second read
   fetches the message; otherwise the message is taken to be in the first
   record.  A message of length 0 makes the read return 0. *)
SslMessageReadOneRecord(d, size) ==
  LET r == Head(d.records) IN
    [SslRead(d, size) EXCEPT
       !.got = Append(@, IF r.head /\ Taken(d, size) = LengthSize + d.sent[r.id]
                         THEN WholeMessage(r.id) ELSE Garbled)]

SslMessageRead(d, size) ==
  LET r == Head(d.records)
      first == SslRead(d, size)
      length == d.sent[r.id]
      second == SslRead(first, length)
  IN IF ~r.head THEN [first EXCEPT !.got = Append(@, Garbled)]
     ELSE IF Taken(d, size) # LengthSize
       THEN [first EXCEPT !.got = Append(@, IF Taken(d, size) = LengthSize + length
                                            THEN WholeMessage(r.id) ELSE Garbled)]
     ELSE IF length = 0 THEN first
     ELSE [second EXCEPT !.got = Append(@, IF Head(first.records).id = r.id
                                              /\ Taken(first, length) = length
                                           THEN WholeMessage(r.id) ELSE Garbled)]

(* SslMessageRead blocks while the record it needs is not there. *)
Readable(d) ==
  /\ d.records # <<>>
  /\ LET r == Head(d.records)
     IN r.head /\ r.n = LengthSize /\ d.sent[r.id] > 0 => Len(d.records) > 1

ChannelWrite(go, d, n) == IF go THEN GoMessageWrite(d, n) ELSE SslMessageWrite(d, n)

(* TaoChannel::SendRequest and GetRequest on the client's side, the
   handler's read and write on the server's. *)
SendRequest(c, n) ==
  /\ ch.state[c] = "open" /\ Len(ch.up[c].sent) < MaxSends
  /\ ch' = [ch EXCEPT !.up[c] = ChannelWrite(Conf(c).go, @, n)]
ServerReads ==
  /\ ch.serving # NoClient /\ Readable(ch.up[ch.serving])
  /\ ch' = [ch EXCEPT !.up[ch.serving] = SslMessageRead(@, ReadSize)]
ServerWrites(n) ==
  /\ ch.serving # NoClient /\ Len(ch.down[ch.serving].sent) < MaxSends
  /\ ch' = [ch EXCEPT !.down[ch.serving] = ChannelWrite(ch.config.server.go, @, n)]
GetRequest(c) ==
  /\ ch.state[c] = "open" /\ Readable(ch.down[c])
  /\ ch' = [ch EXCEPT !.down[c] = SslMessageRead(@, ReadSize)]

(* SslChannel::Close by the client; the handler returns and the server
   accepts again. *)
CloseTaoChannel(c) ==
  /\ ch.state[c] = "open"
  /\ ch' = [ch EXCEPT !.state[c] = "done", !.serving = NoClient]

ChannelRest == (\A c \in ChanClients : ch.state[c] \in {"done", "failed"}) /\ UNCHANGED ch

ChannelNext ==
  \/ InitServerSslChannel
  \/ \E c \in ChanClients :
       \/ CreateClientSocket(c) \/ ServerAccept(c) \/ GetRequest(c) \/ CloseTaoChannel(c)
       \/ \E n \in Sizes : SendRequest(c, n)
  \/ ServerReads
  \/ \E n \in Sizes : ServerWrites(n)
  \/ ChannelRest

ChannelSpec == ChannelInit /\ [][ChannelNext]_ch

(* Types of the channel's record. *)
ChannelTypeOK ==
  /\ ch.serving \in ChanClients \cup {NoClient}
  /\ \A c \in ChanClients :
       /\ ch.state[c] \in {"closed", "connecting", "open", "done", "failed"}
       /\ Len(ch.up[c].sent) <= MaxSends /\ Len(ch.down[c].sent) <= MaxSends

(* All messages of a direction fit the reader's buffer with their length. *)
Fits(d) == \A k \in DOMAIN d.sent : LengthSize + d.sent[k] <= ReadSize

(* What was read of a direction: non-empty messages, in the order written and
   with none left out; the readers report an empty one as a failure. *)
InOrderWhole(d) ==
  /\ \A i \in DOMAIN d.got : d.got[i] \in DOMAIN d.sent /\ d.sent[d.got[i]] > 0
  /\ \A i, j \in DOMAIN d.got : i < j => d.got[i] < d.got[j]
  /\ \A i \in DOMAIN d.got, k \in DOMAIN d.sent :
       k < d.got[i] /\ d.sent[k] > 0 => \E j \in DOMAIN d.got : d.got[j] = k

(* On an open channel each side that asked for verification is connected to
   a peer certified by its own policy key, whatever the other side's mode
   is; at most one connection is served at a time; and every message that
   fits the reader's buffer with its length is read whole, once and in
   order, whether the peer sends one record per message or two
   (InitServerSslChannel, InitClientSslChannel, SslMessageRead). *)
ChannelSound ==
  /\ \A c \in ChanClients : ch.state[c] = "open" =>
       /\ ch.serving = c
       /\ ServerVerifies(ch.config.server.mode) => Conf(c).issuer = ch.config.server.policy
       /\ ClientVerifies(Conf(c).mode) => ch.config.server.issuer = Conf(c).policy
  /\ \A c \in ChanClients : /\ Fits(ch.up[c]) => InOrderWhole(ch.up[c])
                            /\ Fits(ch.down[c]) => InOrderWhole(ch.down[c])
=============================================================================
