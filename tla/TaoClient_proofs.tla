-------------------------- MODULE TaoClient_proofs --------------------------
(***************************************************************************)
(* The C++ Tao client.  TaoRpc, for any operations and any number of calls *)
(* through one channel: a call returns its own answer, and what a call     *)
(* leaves behind never reaches the next.  TaoClient, for any starts, kills *)
(* and policy keys: keys, certificate and name belong together.            *)
(* TaoChannel, for any peers and messages: only whole messages, in order,  *)
(* from a peer that was verified.                                          *)
(***************************************************************************)
EXTENDS TaoClient, TLAPS

Frames ==
    [kind : {"header", "body"}, op : RpcOps \cup {"none"}, seq : Nat, error : BOOLEAN,
     fields : SUBSET {"data", "policy"}]
Rpcs ==
    [pc : {"idle", "send_body", "receive_header", "discard", "receive_body"},
     op : RpcOps \cup {"none"}, lastSeq : Nat, header : Frames, open : BOOLEAN, up : BOOLEAN,
     toHost : Seq(Frames), toProgram : Seq(Frames), pending : Frames,
     result : [ok : BOOLEAN, own : BOOLEAN]]

Fields == SUBSET {"data", "policy"}

\* The four frames of a call.
AskHeader(s) == ReqHeader(s.op, s.lastSeq)
AskBody(s) == Body(s.op, s.lastSeq, {"data"})
TellHeader(s, e) == RespHeader(s.op, s.lastSeq, e)
TellBody(s, f) == Body(s.op, s.lastSeq, f)

\* What is on the way: nothing, the question, half of the answer, or all of it.
Nothing(s) == s.toHost = <<>> /\ s.toProgram = <<>> /\ s.pending = NoFrame
Question(s) ==
    /\ s.up /\ s.toHost = <<AskHeader(s), AskBody(s)>> /\ s.toProgram = <<>> /\ s.pending = NoFrame
HalfAnswer(s) ==
    /\ s.toHost = <<>> /\ \E e \in BOOLEAN : s.toProgram = <<TellHeader(s, e)>>
    /\ IF s.up THEN \E f \in Fields : s.pending = TellBody(s, f) ELSE s.pending = NoFrame
Answer(s) ==
    /\ s.toHost = <<>> /\ s.pending = NoFrame
    /\ \E e \in BOOLEAN, f \in Fields : s.toProgram = <<TellHeader(s, e), TellBody(s, f)>>
BodyToCome(s) ==
    /\ s.toHost = <<>> /\ s.toProgram = <<>> /\ s.up
    /\ \E f \in Fields : s.pending = TellBody(s, f)
BodyThere(s) ==
    /\ s.toHost = <<>> /\ s.pending = NoFrame
    /\ \E f \in Fields : s.toProgram = <<TellBody(s, f)>>

\* The channel carries what the call under way has left on it, and nothing of
\* an earlier one.
Aligned(s) ==
    /\ s.pc # "idle" => s.open /\ s.op \in RpcOps /\ s.lastSeq >= 1
    /\ s.pc = "idle" => /\ s.toHost = <<>> /\ s.toProgram = <<>>
                        /\ s.open => s.pending = NoFrame
    /\ s.pc = "send_body" =>
          \/ s.up /\ s.toHost = <<AskHeader(s)>> /\ s.toProgram = <<>> /\ s.pending = NoFrame
          \/ ~s.up /\ Nothing(s)
    /\ s.pc = "receive_header" =>
          \/ Question(s) \/ HalfAnswer(s) \/ Answer(s)
          \/ ~s.up /\ Nothing(s)
    /\ s.pc \in {"discard", "receive_body"} =>
          \/ BodyToCome(s) \/ BodyThere(s)
          \/ ~s.up /\ Nothing(s)
    /\ s.result.ok => s.result.own

RpcInv == tr \in Rpcs /\ Aligned(tr)

\* The types and fields of the frames.
LEMMA HeaderTypes ==
  ASSUME NEW op \in RpcOps \cup {"none"}, NEW n \in Nat, NEW e \in BOOLEAN
  PROVE  /\ RespHeader(op, n, e) \in Frames
         /\ RespHeader(op, n, e).kind = "header" /\ RespHeader(op, n, e).error = e
  <1>1. {} \in SUBSET {"data", "policy"}
    OBVIOUS
  <1> QED BY <1>1 DEF RespHeader, Frames

\* and of those of a question,
LEMMA AskTypes ==
  ASSUME NEW op \in RpcOps \cup {"none"}, NEW n \in Nat
  PROVE  ReqHeader(op, n) \in Frames /\ ReqHeader(op, n).op = op /\ ReqHeader(op, n).seq = n
  <1>1. {} \in SUBSET {"data", "policy"}
    OBVIOUS
  <1> QED BY <1>1 DEF ReqHeader, Frames

\* of a body,
LEMMA BodyTypes ==
  ASSUME NEW op \in RpcOps \cup {"none"}, NEW n \in Nat, NEW f \in Fields
  PROVE  /\ Body(op, n, f) \in Frames /\ Body(op, n, f).kind = "body"
         /\ Body(op, n, f).op = op /\ Body(op, n, f).seq = n
  BY DEF Body, Frames, Fields

\* and of what stands for none.
LEMMA NoFrameType == NoFrame \in Frames
  <1>1. {} \in SUBSET {"data", "policy"}
    OBVIOUS
  <1> QED BY <1>1 DEF NoFrame, Body, Frames

\* A frame at the end of a pipe.
LEMMA AppendFacts ==
  ASSUME NEW s \in Seq(Frames), NEW b \in Frames
  PROVE  /\ Append(s, b) \in Seq(Frames) /\ Len(Append(s, b)) = Len(s) + 1
         /\ \A i \in 1..Len(s) : Append(s, b)[i] = s[i]
         /\ Append(s, b)[Len(s) + 1] = b
  OBVIOUS

\* A pipe with two frames is neither empty nor holds one.
LEMMA TooLong ==
  ASSUME NEW s \in Seq(Frames), NEW a \in Frames, Len(s) >= 2
  PROVE  s # <<>> /\ s # <<a>>
  <1>1. ASSUME s = <<>> PROVE FALSE
    <2>1. Len(s) = 0
      BY <1>1
    <2> QED BY <2>1
  <1>2. ASSUME s = <<a>> PROVE FALSE
    <2>1. Len(s) = 1
      BY <1>2
    <2> QED BY <2>1
  <1> QED BY <1>1, <1>2, Zenon

\* Sequences of the lengths that occur.
LEMMA ShortLists ==
  ASSUME NEW a \in Frames, NEW b \in Frames
  PROVE  /\ Append(<<>>, a) = <<a>> /\ Append(<<a>>, b) = <<a, b>>
         /\ <<a>> # <<>> /\ <<a, b>> # <<>> /\ <<a>> \in Seq(Frames) /\ <<a, b>> \in Seq(Frames)
         /\ Head(<<a>>) = a /\ Tail(<<a>>) = <<>> /\ Head(<<a, b>>) = a /\ Tail(<<a, b>>) = <<b>>
         /\ Len(<<>>) = 0 /\ Len(<<a>>) = 1 /\ Len(<<a, b>>) = 2
         /\ <<>> \in Seq(Frames)
  <1>1. <<>> \in Seq(Frames) /\ <<a>> \in Seq(Frames) /\ <<a, b>> \in Seq(Frames)
    OBVIOUS
  <1>2. Len(<<>>) = 0 /\ Len(<<a>>) = 1 /\ Len(<<a, b>>) = 2
    OBVIOUS
  <1>3. <<a>> # <<>> /\ <<a, b>> # <<>>
    BY <1>2
  <1>4. Append(<<>>, a) = <<a>>
    OBVIOUS
  <1>5. Append(<<a>>, b) = <<a, b>>
    <2> DEFINE s == <<a>>
               t == <<a, b>>
    <2>1. s \in Seq(Frames) /\ Len(s) = 1 /\ s[1] = a
      OBVIOUS
    <2>2. t \in Seq(Frames) /\ Len(t) = 2 /\ t[1] = a /\ t[2] = b
      OBVIOUS
    <2> HIDE DEF s, t
    <2>3. /\ Append(s, b) \in Seq(Frames) /\ Len(Append(s, b)) = Len(s) + 1
          /\ \A i \in 1..Len(s) : Append(s, b)[i] = s[i]
          /\ Append(s, b)[Len(s) + 1] = b
      BY <2>1, AppendFacts, Zenon
    <2>4. Append(s, b) = t
      BY <2>1, <2>2, <2>3
    <2> QED BY <2>4 DEF s, t
  <1>6. Head(<<a>>) = a /\ Head(<<a, b>>) = a
    OBVIOUS
  <1>7. Tail(<<a>>) = <<>>
    OBVIOUS
  <1>8. Tail(<<a, b>>) = <<b>>
    OBVIOUS
  <1> QED BY <1>1, <1>2, <1>3, <1>4, <1>5, <1>6, <1>7, <1>8

\* Nothing is left behind two frames.
LEMMA NothingIsLeft ==
  ASSUME NEW a \in Frames, NEW b \in Frames
  PROVE  SubSeq(<<a, b>>, 3, Len(<<a, b>>)) = <<>>
  <1>1. <<a, b>> \in Seq(Frames) /\ Len(<<a, b>>) = 2
    OBVIOUS
  <1> QED BY <1>1

----------------------------------------------------------------------------
\* A call that ends by closing the channel.
LEMMA ClosedCall ==
  ASSUME NEW s \in Rpcs, tr' = Return(FDClose(s), FALSE, TRUE)
  PROVE  RpcInv'
  <1> DEFINE no == FALSE
             yes == TRUE
             y == [s EXCEPT !.open = no, !.toHost = <<>>, !.toProgram = <<>>]
             z == [ok |-> no, own |-> yes]
             x == [y EXCEPT !.pc = "idle", !.op = "none", !.header = NoFrame, !.result = z]
  <1>1. no \in BOOLEAN /\ yes \in BOOLEAN /\ ~no /\ yes
    OBVIOUS
  <1>2. tr' = x
    BY DEF Return, FDClose, RpcResult
  <1>3. <<>> \in Seq(Frames) /\ NoFrame \in Frames
    BY NoFrameType
  <1> HIDE DEF no, yes
  <1>4. y \in Rpcs /\ ~y.open /\ y.toHost = <<>> /\ y.toProgram = <<>>
    BY <1>1, <1>3, Zenon DEF Rpcs
  <1> HIDE DEF y
  <1>5. z \in [ok : BOOLEAN, own : BOOLEAN] /\ ~z.ok
    BY <1>1
  <1> HIDE DEF z
  <1>6. /\ x \in Rpcs /\ x.pc = "idle" /\ ~x.open /\ x.toHost = <<>> /\ x.toProgram = <<>>
        /\ x.result = z
    BY <1>3, <1>4, <1>5, Zenon DEF Rpcs
  <1> HIDE DEF x
  <1>7. Aligned(x)
    BY <1>5, <1>6 DEF Aligned
  <1> QED BY <1>2, <1>6, <1>7, Zenon DEF RpcInv

\* A call that ends with nothing left on the channel.
LEMMA EndedCall ==
  ASSUME NEW s \in Rpcs, NEW ok \in BOOLEAN, NEW own \in BOOLEAN, tr' = Return(s, ok, own),
         ok => own, s.toHost = <<>>, s.toProgram = <<>>, s.open => s.pending = NoFrame
  PROVE  RpcInv'
  <1> DEFINE z == [ok |-> ok, own |-> own]
             x == [s EXCEPT !.pc = "idle", !.op = "none", !.header = NoFrame, !.result = z]
  <1>1. tr' = x
    BY DEF Return, RpcResult
  <1>2. NoFrame \in Frames
    BY NoFrameType
  <1>3. z \in [ok : BOOLEAN, own : BOOLEAN] /\ z.ok = ok /\ z.own = own
    OBVIOUS
  <1> HIDE DEF z
  <1>4. /\ x \in Rpcs /\ x.pc = "idle" /\ x.open = s.open /\ x.toHost = s.toHost
        /\ x.toProgram = s.toProgram /\ x.pending = s.pending /\ x.result = z
    BY <1>2, <1>3, Zenon DEF Rpcs
  <1> HIDE DEF x
  <1>5. Aligned(x)
    BY <1>3, <1>4 DEF Aligned
  <1> QED BY <1>1, <1>4, <1>5 DEF RpcInv

\* The header of the question.
LEMMA RequestStartInv ==
  ASSUME RpcInv, NEW op \in RpcOps, RequestStart(op)
  PROVE  RpcInv'
  <1> DEFINE n == tr.lastSeq + 1
             s == [tr EXCEPT !.op = op, !.lastSeq = n]
             a == ReqHeader(op, n)
  <1>1. tr \in Rpcs /\ Aligned(tr) /\ tr.pc = "idle" /\ tr.lastSeq \in Nat
    BY DEF RpcInv, RequestStart, Rpcs
  <1>2. n \in Nat /\ n >= 1
    BY <1>1
  <1>3. /\ tr.toHost = <<>> /\ tr.toProgram = <<>> /\ (tr.open => tr.pending = NoFrame)
        /\ (tr.result.ok => tr.result.own)
    BY <1>1 DEF Aligned
  <1>4. a \in Frames
    BY <1>2, AskTypes
  <1>5. SendMessage(s, ReqHeader(op, s.lastSeq), "send_body")
    BY DEF RequestStart
  <1> HIDE DEF n
  <1>6. /\ s \in Rpcs /\ s.op = op /\ s.lastSeq = n /\ s.pc = "idle" /\ s.open = tr.open /\ s.up = tr.up
        /\ s.toHost = <<>> /\ s.toProgram = <<>> /\ s.pending = tr.pending /\ s.result = tr.result
    BY <1>1, <1>2, <1>3, Zenon DEF Rpcs
  <1> HIDE DEF s
  <1>7. CASE s.open /\ s.up /\ tr' = [s EXCEPT !.toHost = Append(s.toHost, a), !.pc = "send_body"]
    <2> DEFINE x == [s EXCEPT !.toHost = <<a>>, !.pc = "send_body"]
    <2>1. tr' = x /\ <<a>> \in Seq(Frames)
      BY <1>4, <1>6, <1>7, ShortLists
    <2> HIDE DEF a
    <2>2. /\ x \in Rpcs /\ x.pc = "send_body" /\ x.toHost = <<a>> /\ x.toProgram = <<>>
          /\ x.pending = s.pending /\ x.open = s.open /\ x.up = s.up /\ x.op = op /\ x.lastSeq = n
          /\ x.result = s.result
      BY <1>6, <2>1, Zenon DEF Rpcs
    <2> HIDE DEF x
    <2>3. AskHeader(x) = a
      BY <2>2 DEF AskHeader, a
    <2>4. Aligned(x)
      BY <1>2, <1>3, <1>6, <1>7, <2>2, <2>3 DEF Aligned
    <2> QED BY <2>1, <2>2, <2>4 DEF RpcInv
  <1>8. CASE tr' = Return(FDClose(s), FALSE, TRUE)
    BY <1>6, <1>8, ClosedCall, Zenon
  <1>9. CASE ~s.open /\ tr' = Return(s, FALSE, TRUE)
    BY <1>6, <1>9, EndedCall, Zenon
  <1> QED BY <1>5, <1>6, <1>7, <1>8, <1>9, Zenon DEF SendMessage

\* Its body.
LEMMA RequestBodyInv ==
  ASSUME RpcInv, RequestBody
  PROVE  RpcInv'
  <1> DEFINE a == AskHeader(tr)
             b == AskBody(tr)
  <1>1. /\ tr \in Rpcs /\ Aligned(tr) /\ tr.pc = "send_body" /\ tr.lastSeq \in Nat /\ tr.op \in RpcOps
        /\ SendMessage(tr, b, "receive_header")
    BY DEF RpcInv, RequestBody, Rpcs, Aligned, AskBody
  <1>2. tr.open /\ tr.lastSeq >= 1 /\ (tr.result.ok => tr.result.own)
    BY <1>1 DEF Aligned
  <1>3. a \in Frames /\ b \in Frames
    <2>1. {"data"} \in Fields
      BY DEF Fields
    <2> QED BY <1>1, <2>1, AskTypes, BodyTypes DEF AskHeader, AskBody
  <1>4. CASE tr.up /\ tr' = [tr EXCEPT !.toHost = Append(@, b), !.pc = "receive_header"]
    <2> DEFINE x == [tr EXCEPT !.toHost = <<a, b>>, !.pc = "receive_header"]
    <2>1. tr.toHost = <<a>> /\ tr.toProgram = <<>> /\ tr.pending = NoFrame
      BY <1>1, <1>4 DEF Aligned
    <2>2. tr' = x /\ <<a, b>> \in Seq(Frames)
      BY <1>3, <1>4, <2>1, ShortLists, Zenon
    <2>3. AskHeader(tr) = a /\ AskBody(tr) = b
      OBVIOUS
    <2> HIDE DEF a, b
    <2>4. /\ x \in Rpcs /\ x.pc = "receive_header" /\ x.toHost = <<a, b>> /\ x.toProgram = <<>>
          /\ x.pending = NoFrame /\ x.open = tr.open /\ x.up = tr.up /\ x.op = tr.op
          /\ x.lastSeq = tr.lastSeq /\ x.result = tr.result
      BY <1>1, <2>1, <2>2, Zenon DEF Rpcs
    <2> HIDE DEF x
    <2>5. AskHeader(x) = a /\ AskBody(x) = b
      BY <2>3, <2>4 DEF AskHeader, AskBody
    <2>6. Question(x)
      BY <1>4, <2>4, <2>5 DEF Question
    <2>7. Aligned(x)
      BY <1>1, <1>2, <2>4, <2>6 DEF Aligned
    <2> QED BY <2>2, <2>4, <2>7 DEF RpcInv
  <1>5. CASE tr' = Return(FDClose(tr), FALSE, TRUE)
    BY <1>1, <1>5, ClosedCall, Zenon
  <1> QED BY <1>1, <1>2, <1>4, <1>5, Zenon DEF SendMessage

\* What is at the front when the header is read, and what is left behind it.
LEMMA ReceiveHeaderInv ==
  ASSUME RpcInv, tr.pc = "receive_header", ReceiveHeader
  PROVE  RpcInv'
  <1>1. /\ tr \in Rpcs /\ Aligned(tr) /\ tr.open /\ tr.toProgram # <<>>
        /\ tr.lastSeq \in Nat /\ tr.lastSeq >= 1 /\ tr.op \in RpcOps
        /\ (tr.result.ok => tr.result.own)
    BY DEF RpcInv, ReceiveHeader, Aligned, Rpcs
  <1>2. HalfAnswer(tr) \/ Answer(tr)
    BY <1>1 DEF Aligned, Question, Nothing
  <1>3. PICK e \in BOOLEAN : \/ tr.toProgram = <<TellHeader(tr, e)>>
                             \/ \E f \in Fields : tr.toProgram = <<TellHeader(tr, e), TellBody(tr, f)>>
    BY <1>2 DEF HalfAnswer, Answer
  <1> DEFINE h == TellHeader(tr, e)
             rest == Tail(tr.toProgram)
             to == IF e THEN "discard" ELSE "receive_body"
             x == [tr EXCEPT !.toProgram = rest, !.header = h, !.pc = to]
  <1>4. h \in Frames /\ h.kind = "header" /\ h.error = e
    BY <1>1, HeaderTypes DEF TellHeader
  <1>5. \A f \in Fields : TellBody(tr, f) \in Frames
    BY <1>1, BodyTypes DEF TellBody
  <1>6. Head(tr.toProgram) = h /\ rest \in Seq(Frames)
    BY <1>3, <1>4, <1>5, ShortLists, Zenon
  <1>7. tr' = x
    <2> DEFINE y == [tr EXCEPT !.toProgram = rest]
    <2>1. tr' = [y EXCEPT !.header = h, !.pc = IF h.error THEN "discard" ELSE "receive_body"]
      BY <1>4, <1>6, Zenon DEF ReceiveHeader
    <2> QED BY <1>4, <2>1
  <1>8. to \in {"discard", "receive_body"}
    OBVIOUS
  <1>9. \/ tr.toProgram = <<h>> /\ rest = <<>>
        \/ \E f \in Fields : tr.toProgram = <<h, TellBody(tr, f)>> /\ rest = <<TellBody(tr, f)>>
    BY <1>3, <1>4, <1>5, ShortLists, Zenon
  <1>10. \A f \in Fields : <<h>> # <<h, TellBody(tr, f)>>
    BY <1>4, <1>5
  <1> HIDE DEF to, rest, h
  <1>11. /\ x \in Rpcs /\ x.pc = to /\ x.toHost = tr.toHost /\ x.toProgram = rest
         /\ x.pending = tr.pending /\ x.open = tr.open /\ x.up = tr.up /\ x.op = tr.op
         /\ x.lastSeq = tr.lastSeq /\ x.result = tr.result
    BY <1>1, <1>4, <1>6, <1>8, Zenon DEF Rpcs
  <1> HIDE DEF x
  <1>12. \A f \in Fields : TellBody(x, f) = TellBody(tr, f)
    BY <1>11 DEF TellBody
  <1>13. BodyToCome(x) \/ BodyThere(x) \/ (~x.up /\ Nothing(x))
    <2>1. CASE HalfAnswer(tr)
      <3>1. rest = <<>>
        <4>1. PICK d \in BOOLEAN : tr.toProgram = <<TellHeader(tr, d)>>
          BY <2>1 DEF HalfAnswer
        <4>2. TellHeader(tr, d) \in Frames
          BY <1>1, HeaderTypes DEF TellHeader
        <4> QED BY <4>1, <4>2, ShortLists DEF rest
      <3> QED BY <2>1, <3>1, <1>11, <1>12 DEF HalfAnswer, BodyToCome, Nothing
    <2>2. CASE Answer(tr)
      <3>1. PICK d \in BOOLEAN, f \in Fields : tr.toProgram = <<TellHeader(tr, d), TellBody(tr, f)>>
        BY <2>2 DEF Answer
      <3>2. TellHeader(tr, d) \in Frames
        BY <1>1, HeaderTypes DEF TellHeader
      <3>3. rest = <<TellBody(tr, f)>>
        BY <1>5, <3>1, <3>2, ShortLists DEF rest
      <3> QED BY <2>2, <3>3, <1>11, <1>12 DEF Answer, BodyThere
    <2> QED BY <1>2, <2>1, <2>2
  <1>14. Aligned(x)
    BY <1>1, <1>8, <1>11, <1>13 DEF Aligned
  <1> QED BY <1>7, <1>11, <1>14 DEF RpcInv

\* A body at the front is this call's.
LEMMA BodyAtFront ==
  ASSUME RpcInv, tr.pc \in {"discard", "receive_body"}, tr.toProgram # <<>>
  PROVE  /\ tr.toHost = <<>> /\ tr.pending = NoFrame /\ Tail(tr.toProgram) = <<>>
         /\ \E f \in Fields : Head(tr.toProgram) = TellBody(tr, f) /\ TellBody(tr, f) \in Frames
  <1>1. BodyThere(tr) /\ tr.lastSeq \in Nat /\ tr.op \in RpcOps
    BY DEF RpcInv, Aligned, Rpcs, BodyToCome, Nothing
  <1>2. PICK f \in Fields : tr.toProgram = <<TellBody(tr, f)>>
    BY <1>1 DEF BodyThere
  <1>3. TellBody(tr, f) \in Frames
    BY <1>1, BodyTypes DEF TellBody
  <1> QED BY <1>1, <1>2, <1>3, ShortLists DEF BodyThere

\* The program reads a header, discards a body or reads it.
LEMMA ReadsInv ==
  ASSUME RpcInv, RequestHeader \/ RequestDiscard \/ RequestEnd
  PROVE  RpcInv'
  <1>1. tr \in Rpcs
    BY DEF RpcInv
  <1>2. CASE ReceiveFails \/ ReadError
    BY <1>1, <1>2, ClosedCall, Zenon DEF ReceiveFails, ReadError
  <1>3. CASE tr.pc = "receive_header" /\ ReceiveHeader
    BY <1>3, ReceiveHeaderInv
  <1>4. ASSUME tr.pc \in {"discard", "receive_body"}, tr.toProgram # <<>>,
               NEW ok \in BOOLEAN, NEW own \in BOOLEAN, ok => own,
               tr' = Return([tr EXCEPT !.toProgram = Tail(@)], ok, own)
        PROVE  RpcInv'
    <2> DEFINE s == [tr EXCEPT !.toProgram = <<>>]
    <2>1. tr.toHost = <<>> /\ tr.pending = NoFrame /\ Tail(tr.toProgram) = <<>>
      BY <1>4, BodyAtFront
    <2>2. tr' = Return(s, ok, own)
      BY <1>4, <2>1
    <2>3. s \in Rpcs /\ s.toHost = <<>> /\ s.toProgram = <<>> /\ s.pending = NoFrame
      BY <1>1, <2>1 DEF Rpcs
    <2> HIDE DEF s
    <2> QED BY <1>4, <2>2, <2>3, EndedCall, Zenon
  <1>5. CASE tr.pc = "discard" /\ DiscardBody
    BY <1>4, <1>5, Zenon DEF DiscardBody
  <1>6. CASE tr.pc = "receive_body" /\ ReceiveBody
    <2> DEFINE f == Head(tr.toProgram)
               ok == Accepts(tr.header, f)
               own == f.kind = "body" /\ f.op = tr.op /\ f.seq = tr.lastSeq
    <2>1. tr.toProgram # <<>> /\ tr' = Return([tr EXCEPT !.toProgram = Tail(@)], ok, own)
      BY <1>6 DEF ReceiveBody
    <2>2. ok \in BOOLEAN /\ own \in BOOLEAN
      BY DEF Accepts
    <2>3. PICK g \in Fields : f = TellBody(tr, g)
      BY <1>6, <2>1, BodyAtFront
    <2>4. tr.op \in RpcOps /\ tr.lastSeq \in Nat
      BY <1>6 DEF RpcInv, Aligned, Rpcs
    <2>5. own
      BY <2>3, <2>4, BodyTypes DEF TellBody
    <2> HIDE DEF ok, own
    <2> QED BY <1>4, <1>6, <2>1, <2>2, <2>5, Zenon
  <1> QED BY <1>2, <1>3, <1>5, <1>6 DEF RequestHeader, RequestDiscard, RequestEnd

\* The host reads a whole question and writes the answer's header.
LEMMA HostAnswersInv ==
  ASSUME RpcInv, NEW error \in BOOLEAN, NEW fields \in Fields, HostAnswers(error, fields)
  PROVE  RpcInv'
  <1> DEFINE a == AskHeader(tr)
             b == AskBody(tr)
             h == TellHeader(tr, error)
             g == IF error THEN {} ELSE fields
             p == TellBody(tr, g)
             x == [tr EXCEPT !.toHost = <<>>, !.toProgram = <<h>>, !.pending = p]
  <1>1. /\ tr \in Rpcs /\ Aligned(tr) /\ tr.up /\ tr.pending = NoFrame /\ Len(tr.toHost) >= 2
        /\ tr.op \in RpcOps \cup {"none"} /\ tr.lastSeq \in Nat
    BY DEF RpcInv, HostAnswers, Rpcs
  <1>2. g \in Fields /\ {"data"} \in Fields
    BY DEF Fields
  <1> HIDE DEF g
  <1>3. a \in Frames /\ b \in Frames /\ h \in Frames /\ p \in Frames /\ a.op = tr.op /\ a.seq = tr.lastSeq
    <2>1. a \in Frames /\ a.op = tr.op /\ a.seq = tr.lastSeq
      BY <1>1, AskTypes DEF AskHeader
    <2>2. h \in Frames
      BY <1>1, HeaderTypes DEF TellHeader
    <2>3. b \in Frames
      BY <1>1, <1>2, BodyTypes DEF AskBody
    <2>4. p \in Frames
      BY <1>1, <1>2, BodyTypes DEF TellBody
    <2> QED BY <2>1, <2>2, <2>3, <2>4
  <1>4. tr.pc = "receive_header" /\ Question(tr)
    <2>1. tr.toHost # <<>> /\ tr.toHost # <<a>>
      <3>1. tr.toHost \in Seq(Frames)
        BY <1>1 DEF Rpcs
      <3> QED BY <1>1, <1>3, <3>1, TooLong, Zenon
    <2>2. tr.pc \in {"idle", "send_body", "receive_header", "discard", "receive_body"}
      BY <1>1 DEF Rpcs
    <2> QED BY <1>1, <2>1, <2>2 DEF Aligned, Nothing, HalfAnswer, Answer, BodyToCome, BodyThere
  <1>5. tr.toHost = <<a, b>> /\ tr.toProgram = <<>> /\ tr.open /\ tr.op \in RpcOps /\ tr.lastSeq >= 1
    BY <1>1, <1>4 DEF Question, Aligned
  <1>6. SubSeq(tr.toHost, 3, Len(tr.toHost)) = <<>> /\ Head(tr.toHost) = a /\ Append(tr.toProgram, h) = <<h>>
    BY <1>3, <1>5, ShortLists, NothingIsLeft
  <1>7. tr' = x
    BY <1>3, <1>5, <1>6, Zenon DEF HostAnswers, TellHeader, TellBody, g
  <1>8. <<h>> \in Seq(Frames) /\ <<>> \in Seq(Frames)
    BY <1>3
  <1>9. h = TellHeader(tr, error) /\ p = TellBody(tr, g)
    OBVIOUS
  <1> HIDE DEF a, b, h, p
  <1>10. /\ x \in Rpcs /\ x.pc = tr.pc /\ x.toHost = <<>> /\ x.toProgram = <<h>>
         /\ x.pending = p /\ x.open = tr.open /\ x.up = tr.up /\ x.op = tr.op
         /\ x.lastSeq = tr.lastSeq /\ x.result = tr.result
    BY <1>1, <1>3, <1>8, Zenon DEF Rpcs
  <1> HIDE DEF x
  <1>11. h = TellHeader(x, error) /\ p = TellBody(x, g)
    BY <1>9, <1>10 DEF TellHeader, TellBody
  <1>12. HalfAnswer(x)
    BY <1>1, <1>2, <1>10, <1>11 DEF HalfAnswer
  <1>13. Aligned(x)
    BY <1>1, <1>4, <1>5, <1>10, <1>12 DEF Aligned
  <1> QED BY <1>7, <1>10, <1>13 DEF RpcInv

\* It writes the body.
LEMMA HostFinishesInv ==
  ASSUME RpcInv, HostFinishes
  PROVE  RpcInv'
  <1> DEFINE p == tr.pending
             w == IF tr.open THEN Append(tr.toProgram, p) ELSE tr.toProgram
             x == [tr EXCEPT !.pending = NoFrame, !.toProgram = w]
  <1>1. tr \in Rpcs /\ Aligned(tr) /\ tr.up /\ p # NoFrame /\ p \in Frames /\ tr' = x
    BY DEF RpcInv, HostFinishes, Rpcs
  <1>2. /\ NoFrame \in Frames /\ tr.toProgram \in Seq(Frames) /\ tr.lastSeq \in Nat
        /\ tr.op \in RpcOps \cup {"none"}
        /\ tr.pc \in {"idle", "send_body", "receive_header", "discard", "receive_body"}
    BY <1>1, NoFrameType DEF Rpcs
  <1>3. w \in Seq(Frames)
    BY <1>1, <1>2
  <1> HIDE DEF w
  <1>4. /\ x \in Rpcs /\ x.pc = tr.pc /\ x.toHost = tr.toHost /\ x.toProgram = w
        /\ x.pending = NoFrame /\ x.open = tr.open /\ x.up = tr.up /\ x.op = tr.op
        /\ x.lastSeq = tr.lastSeq /\ x.result = tr.result
    BY <1>1, <1>2, <1>3, Zenon DEF Rpcs
  <1> HIDE DEF x
  <1>5. \A e, f : TellHeader(x, e) = TellHeader(tr, e) /\ TellBody(x, f) = TellBody(tr, f)
    BY <1>4 DEF TellHeader, TellBody
  <1>6. CASE tr.pc = "idle"
    BY <1>1, <1>4, <1>6 DEF Aligned, RpcInv, w
  <1>7. CASE tr.pc = "send_body"
    BY <1>1, <1>7 DEF Aligned
  <1>8. CASE tr.pc = "receive_header"
    <2>1. tr.open /\ HalfAnswer(tr)
      BY <1>1, <1>8 DEF Aligned, Question, Answer, Nothing
    <2>2. PICK e \in BOOLEAN, f \in Fields : tr.toProgram = <<TellHeader(tr, e)>> /\ p = TellBody(tr, f)
      BY <1>1, <2>1 DEF HalfAnswer
    <2>3. TellHeader(tr, e) \in Frames
      BY <1>2, HeaderTypes, Zenon DEF TellHeader
    <2>4. w = <<TellHeader(tr, e), TellBody(tr, f)>>
      BY <1>1, <2>1, <2>2, <2>3, ShortLists, Zenon DEF w
    <2>5. Answer(x)
      BY <1>4, <1>5, <2>1, <2>4 DEF Answer, HalfAnswer
    <2>6. Aligned(x)
      BY <1>1, <1>4, <1>8, <2>5 DEF Aligned
    <2> QED BY <1>1, <1>4, <2>6 DEF RpcInv
  <1>9. CASE tr.pc \in {"discard", "receive_body"}
    <2>1. tr.open /\ BodyToCome(tr)
      BY <1>1, <1>9 DEF Aligned, BodyThere, Nothing
    <2>2. PICK f \in Fields : tr.toProgram = <<>> /\ p = TellBody(tr, f)
      BY <1>1, <2>1 DEF BodyToCome
    <2>3. w = <<TellBody(tr, f)>>
      BY <1>1, <2>1, <2>2, ShortLists DEF w
    <2>4. BodyThere(x)
      BY <1>4, <1>5, <2>1, <2>3 DEF BodyThere, BodyToCome
    <2>5. Aligned(x)
      BY <1>1, <1>4, <1>9, <2>4 DEF Aligned
    <2> QED BY <1>1, <1>4, <2>5 DEF RpcInv
  <1> QED BY <1>2, <1>6, <1>7, <1>8, <1>9

\* It goes: what it had written is still to be read.
LEMMA HostExitsInv ==
  ASSUME RpcInv, HostExits
  PROVE  RpcInv'
  <1> DEFINE no == FALSE
             x == [tr EXCEPT !.up = no, !.pending = NoFrame, !.toHost = <<>>]
  <1>1. tr \in Rpcs /\ Aligned(tr) /\ tr' = x
    BY DEF RpcInv, HostExits
  <1>2. NoFrame \in Frames /\ <<>> \in Seq(Frames)
    BY NoFrameType
  <1>3. no \in BOOLEAN /\ ~no
    OBVIOUS
  <1> HIDE DEF no
  <1>4. /\ x \in Rpcs /\ x.pc = tr.pc /\ x.toHost = <<>> /\ x.toProgram = tr.toProgram
        /\ x.pending = NoFrame /\ x.open = tr.open /\ x.up = no /\ x.op = tr.op
        /\ x.lastSeq = tr.lastSeq /\ x.result = tr.result
    BY <1>1, <1>2, <1>3, Zenon DEF Rpcs
  <1> HIDE DEF x
  <1>5. \A e, f : TellHeader(x, e) = TellHeader(tr, e) /\ TellBody(x, f) = TellBody(tr, f)
    BY <1>4 DEF TellHeader, TellBody
  <1>6. /\ HalfAnswer(tr) => HalfAnswer(x)
        /\ Answer(tr) => Answer(x)
        /\ BodyThere(tr) => BodyThere(x)
        /\ tr.toProgram = <<>> => Nothing(x)
    BY <1>3, <1>4, <1>5 DEF HalfAnswer, Answer, BodyThere, Nothing
  <1>7. Aligned(x)
    <2>1. tr.pc \in {"idle", "send_body", "receive_header", "discard", "receive_body"}
      BY <1>1 DEF Rpcs
    <2>2. CASE tr.pc = "idle"
      BY <1>1, <1>4, <2>2 DEF Aligned
    <2>3. CASE tr.pc = "send_body"
      BY <1>1, <1>3, <1>4, <1>6, <2>3 DEF Aligned, Nothing
    <2>4. CASE tr.pc = "receive_header"
      BY <1>1, <1>3, <1>4, <1>6, <2>4 DEF Aligned, Question, Nothing
    <2>5. CASE tr.pc \in {"discard", "receive_body"}
      BY <1>1, <1>3, <1>4, <1>6, <2>5 DEF Aligned, BodyToCome, Nothing
    <2> QED BY <2>1, <2>2, <2>3, <2>4, <2>5
  <1> QED BY <1>1, <1>4, <1>7 DEF RpcInv

\* A channel starts aligned,
LEMMA RpcInitInv ==
  ASSUME RpcInit
  PROVE  RpcInv
  <1> DEFINE no == FALSE
             yes == TRUE
             z == [ok |-> no, own |-> yes]
             x == [pc |-> "idle", op |-> "none", lastSeq |-> 0, header |-> NoFrame,
                   open |-> yes, up |-> yes, toHost |-> <<>>, toProgram |-> <<>>,
                   pending |-> NoFrame, result |-> z]
  <1>1. tr = x
    BY DEF RpcInit, RpcResult
  <1>2. NoFrame \in Frames /\ <<>> \in Seq(Frames)
    BY NoFrameType
  <1>3. no \in BOOLEAN /\ yes \in BOOLEAN /\ ~no
    OBVIOUS
  <1> HIDE DEF no, yes
  <1>4. z \in [ok : BOOLEAN, own : BOOLEAN] /\ ~z.ok
    BY <1>3
  <1> HIDE DEF z
  <1>5. x \in Rpcs
    BY <1>2, <1>3, <1>4 DEF Rpcs
  <1>6. Aligned(x)
    BY <1>4 DEF Aligned
  <1> QED BY <1>1, <1>5, <1>6 DEF RpcInv

\* and every step leaves it aligned.
LEMMA RpcNextInv ==
  ASSUME RpcInv, [RpcNext]_tr
  PROVE  RpcInv'
  <1>1. CASE UNCHANGED tr
    BY <1>1 DEF RpcInv
  <1>2. ASSUME NEW op \in RpcOps, RequestStart(op) PROVE RpcInv'
    BY <1>2, RequestStartInv
  <1>3. ASSUME NEW error \in BOOLEAN, NEW fields \in SUBSET {"data", "policy"}, HostAnswers(error, fields)
        PROVE  RpcInv'
    BY <1>3, HostAnswersInv DEF Fields
  <1>4. CASE RequestBody
    BY <1>4, RequestBodyInv
  <1>5. CASE RequestHeader \/ RequestDiscard \/ RequestEnd
    BY <1>5, ReadsInv
  <1>6. CASE HostFinishes \/ HostExits
    BY <1>6, HostFinishesInv, HostExitsInv
  <1> QED BY <1>1, <1>2, <1>3, <1>4, <1>5, <1>6 DEF RpcNext, RpcRest

(***************************************************************************)
(* For any operations and any number of calls through one channel, with a  *)
(* host that may answer with an error, leave fields out or exit between    *)
(* any two frames: a call of TaoRPC::Request that succeeds returns the     *)
(* body the host wrote for it, and between calls an open channel carries   *)
(* nothing of an earlier one.                                              *)
(***************************************************************************)
THEOREM CallsStayInStep == RpcSpec => []RpcInStep
  <1>1. RpcInit => RpcInv
    BY RpcInitInv
  <1>2. RpcInv /\ [RpcNext]_tr => RpcInv'
    BY RpcNextInv
  <1>3. RpcInv => RpcInStep
    BY DEF RpcInv, Aligned, RpcInStep
  <1> QED BY <1>1, <1>2, <1>3, PTL DEF RpcSpec

----------------------------------------------------------------------------
(***************************************************************************)
(* TaoClient.                                                              *)
(***************************************************************************)
ClientNames == Seq(PolicyCerts \cup {"none"})
Certs == [key : Nat, name : ClientNames, issuer : PolicyCerts \cup {"none", "host"}]
Datas == [sign : Nat, crypt : Nat, cert : Certs, chain : Seq(PolicyCerts)]
KeyFiles == [state : {"missing", "empty", "torn", "sealed"}, for : ClientNames, data : Datas]
Early == {"down", "read_config", "extend", "name"}
Making == {"attest", "request", "collect"}
Saving == {"creat_keys", "write_keys", "creat_cert", "write_cert", "fill"}
Progs ==
    [pc : Early \cup {"read_keys", "recover", "init_keys", "polling", "running"} \cup Making \cup Saving,
     policy : PolicyCerts \cup {"none"}, name : ClientNames, sign : Nat, crypt : Nat, verify : Nat,
     delegation : Certs, certificate : Certs, cert : Certs, chain : Seq(PolicyCerts),
     blob : KeyFiles, data : Datas]
Clients ==
    [prog : Progs, hostName : ClientNames, policy : PolicyCerts, keyFile : KeyFiles,
     certFile : Certs, keySets : Nat, starts : Nat, rotations : Nat]

\* Keys and certificate that were made together, for a name.
Good(d, name) == Belongs(d, name) /\ d.sign # NoKey
GoodFile(f) == f.state = "sealed" => Good(f.data, f.for)

\* What the object holds at each step of InitTao.
ProgInv(p, host) ==
    /\ p.pc \notin Early => p.name = host
    /\ p.pc = "recover" => GoodFile(p.blob)
    /\ p.pc \in Making => p.crypt = p.sign /\ p.verify = p.sign /\ p.sign # NoKey
    /\ p.pc = "request" => p.delegation.key = p.sign /\ p.delegation.name = host
    /\ p.pc = "collect" => p.cert.key = p.sign /\ p.cert.name = host
    /\ p.pc \in {"creat_keys", "write_keys"} => GoodFile(p.blob)
    /\ p.pc \in Saving => Good(p.data, host)
    /\ p.pc = "running" => /\ p.certificate.key = p.sign /\ p.verify = p.sign /\ p.crypt = p.sign
                           /\ p.sign # NoKey /\ p.certificate.name = host

ClientInv ==
    /\ tc \in Clients
    /\ ProgInv(tc.prog, tc.hostName)
    /\ GoodFile(tc.keyFile)

\* The values an object, a file and a certificate start from.
LEMMA Blanks ==
  /\ NoCert \in Certs /\ NoData \in Datas
  /\ \A st \in {"missing", "empty", "torn", "sealed"} :
        FileState(st) \in KeyFiles /\ FileState(st).state = st
  /\ <<>> \in Seq(PolicyCerts) /\ <<>> \in ClientNames
  <1>1. <<"none">> \in ClientNames /\ <<>> \in ClientNames /\ <<>> \in Seq(PolicyCerts)
    BY DEF ClientNames
  <1>2. NoCert \in Certs
    BY <1>1 DEF NoCert, Certs, NoKey
  <1>3. NoData \in Datas
    BY <1>1, <1>2 DEF NoData, Datas, NoKey
  <1> QED BY <1>1, <1>2, <1>3 DEF FileState, KeyFiles

\* The data of a program that starts.
LEMMA NewProgram ==
  ASSUME NEW pc \in {"down", "read_config"}
  PROVE  NewProgramData(pc) \in Progs /\ NewProgramData(pc).pc = pc
         /\ \A host : ProgInv(NewProgramData(pc), host)
  <1> DEFINE n == NewProgramData(pc)
  <1>1. <<"none">> \in ClientNames
    BY DEF ClientNames
  <1>2. NoKeyFile \in KeyFiles
    BY Blanks DEF NoKeyFile
  <1>3. n \in Progs /\ n.pc = pc
    BY <1>1, <1>2, Blanks DEF NewProgramData, Progs, Early, NoKey
  <1> HIDE DEF n
  <1>4. \A host : ProgInv(n, host)
    BY <1>3 DEF ProgInv, Early, Making, Saving
  <1> QED BY <1>3, <1>4 DEF n

\* A step that changes the object only.
LEMMA ObjectStep ==
  ASSUME ClientInv, NEW p \in Progs, tc' = [tc EXCEPT !.prog = p], ProgInv(p, tc.hostName)
  PROVE  ClientInv'
  <1> DEFINE x == [tc EXCEPT !.prog = p]
  <1>1. tc \in Clients /\ GoodFile(tc.keyFile)
    BY DEF ClientInv
  <1>2. x \in Clients /\ x.prog = p /\ x.hostName = tc.hostName /\ x.keyFile = tc.keyFile
    BY <1>1 DEF Clients
  <1> QED BY <1>1, <1>2 DEF ClientInv

\* A program that fails or is killed leaves its files as they are.
LEMMA FailedInit ==
  ASSUME ClientInv, tc' = InitTaoFails(tc)
  PROVE  ClientInv'
  BY NewProgram, ObjectStep DEF InitTaoFails, Prog

\* A start, and the steps up to the name.
LEMMA NameInv ==
  ASSUME ClientInv, StartClient \/ ReadConfig \/ ExtendTaoName \/ GetTaoName
  PROVE  ClientInv'
  <1>1. tc \in Clients /\ ProgInv(tc.prog, tc.hostName) /\ GoodFile(tc.keyFile)
    BY DEF ClientInv
  <1>2. tc.prog \in Progs /\ tc.hostName \in ClientNames /\ tc.policy \in PolicyCerts
    BY <1>1 DEF Clients
  <1>3. CASE tc' = InitTaoFails(tc)
    BY <1>3, FailedInit
  <1>4. CASE StartClient
    <2> DEFINE p == NewProgramData("read_config")
               n == tc.starts + 1
               x == [tc EXCEPT !.prog = p, !.hostName = <<>>, !.starts = n]
    <2>1. tc' = x /\ p \in Progs /\ ProgInv(p, <<>>) /\ <<>> \in ClientNames
      BY <1>4, NewProgram, Blanks DEF StartClient
    <2>2. n \in Nat
      BY <1>1 DEF Clients
    <2> HIDE DEF p, n
    <2>3. x \in Clients /\ x.prog = p /\ x.hostName = <<>> /\ x.keyFile = tc.keyFile
      BY <1>1, <2>1, <2>2, Zenon DEF Clients
    <2> HIDE DEF x
    <2> QED BY <1>1, <2>1, <2>3 DEF ClientInv
  <1>5. CASE ReadConfig
    <2> DEFINE p == [tc.prog EXCEPT !.policy = tc.policy, !.pc = "extend"]
    <2>1. p \in Progs /\ p.pc = "extend"
      BY <1>2, Zenon DEF Progs, Early
    <2>2. ProgInv(p, tc.hostName)
      BY <2>1 DEF ProgInv, Early, Making, Saving
    <2>3. CASE tc' = [tc EXCEPT !.prog.policy = tc.policy, !.prog.pc = "extend"]
      <3>1. tc' = [tc EXCEPT !.prog = p]
        BY <1>1, <1>2, <2>3, Zenon DEF Clients, Progs
      <3> QED BY <2>1, <2>2, <3>1, ObjectStep
    <2> QED BY <1>3, <1>5, <2>3 DEF ReadConfig, OrFails
  <1>6. CASE ExtendTaoName
    <2> DEFINE p == [tc.prog EXCEPT !.pc = "name"]
               h == Append(tc.hostName, tc.prog.policy)
               x == [tc EXCEPT !.hostName = h, !.prog = p]
    <2>1. p \in Progs /\ p.pc = "name"
      BY <1>2 DEF Progs, Early
    <2>2. h \in ClientNames
      BY <1>2 DEF Progs, ClientNames
    <2>3. ProgInv(p, h)
      BY <2>1 DEF ProgInv, Early, Making, Saving
    <2>4. CASE tc' = [tc EXCEPT !.hostName = h, !.prog.pc = "name"]
      <3>1. tc' = x
        BY <1>1, <1>2, <2>4 DEF Clients, Progs
      <3> HIDE DEF p, h
      <3>2. x \in Clients /\ x.prog = p /\ x.hostName = h /\ x.keyFile = tc.keyFile
        BY <1>1, <2>1, <2>2, Zenon DEF Clients
      <3> QED BY <1>1, <2>3, <3>1, <3>2 DEF ClientInv
    <2> QED BY <1>3, <1>6, <2>4 DEF ExtendTaoName, OrFails
  <1>7. CASE GetTaoName
    <2> DEFINE p == [tc.prog EXCEPT !.name = tc.hostName, !.pc = "read_keys"]
    <2>1. p \in Progs /\ p.pc = "read_keys" /\ p.name = tc.hostName
      BY <1>2, Zenon DEF Progs
    <2>2. ProgInv(p, tc.hostName)
      BY <2>1 DEF ProgInv, Early, Making, Saving
    <2>3. CASE tc' = [tc EXCEPT !.prog.name = tc.hostName, !.prog.pc = "read_keys"]
      <3>1. tc' = [tc EXCEPT !.prog = p]
        BY <1>1, <1>2, <2>3, Zenon DEF Clients, Progs
      <3> QED BY <2>1, <2>2, <3>1, ObjectStep
    <2> QED BY <1>3, <1>7, <2>3 DEF GetTaoName, OrFails
  <1> QED BY <1>4, <1>5, <1>6, <1>7

\* The key file is read, and unsealed.
LEMMA RecoverInv ==
  ASSUME ClientInv, ReadKeyFile \/ RecoverProgramData
  PROVE  ClientInv'
  <1>1. tc \in Clients /\ ProgInv(tc.prog, tc.hostName) /\ GoodFile(tc.keyFile)
    BY DEF ClientInv
  <1>2. tc.prog \in Progs /\ tc.keyFile \in KeyFiles
    BY <1>1 DEF Clients
  <1>3. CASE ReadKeyFile
    <2>1. tc.prog.pc = "read_keys" /\ tc.prog.name = tc.hostName
      BY <1>1, <1>3 DEF ReadKeyFile, ClientAt, ProgInv, Early
    <2>2. CASE tc' = Go(tc, "init_keys")
      <3> DEFINE p == [tc.prog EXCEPT !.pc = "init_keys"]
      <3>1. p \in Progs /\ p.pc = "init_keys" /\ p.name = tc.hostName
        BY <1>2, <2>1 DEF Progs
      <3>2. ProgInv(p, tc.hostName)
        BY <3>1 DEF ProgInv, Early, Making, Saving
      <3>3. tc' = [tc EXCEPT !.prog = p]
        BY <1>1, <1>2, <2>2 DEF Go, Clients, Progs
      <3> QED BY <3>1, <3>2, <3>3, ObjectStep
    <2>3. CASE tc' = [tc EXCEPT !.prog.blob = tc.keyFile, !.prog.pc = "recover"]
      <3> DEFINE p == [tc.prog EXCEPT !.blob = tc.keyFile, !.pc = "recover"]
      <3>1. p \in Progs /\ p.pc = "recover" /\ p.name = tc.hostName /\ p.blob = tc.keyFile
        BY <1>2, <2>1, Zenon DEF Progs
      <3>2. ProgInv(p, tc.hostName)
        BY <1>1, <3>1 DEF ProgInv, Early, Making, Saving
      <3>3. tc' = [tc EXCEPT !.prog = p]
        BY <1>1, <1>2, <2>3, Zenon DEF Clients, Progs
      <3> QED BY <3>1, <3>2, <3>3, ObjectStep
    <2> QED BY <1>3, <2>2, <2>3 DEF ReadKeyFile
  <1>4. CASE RecoverProgramData
    <2> DEFINE b == tc.prog.blob
               p == [tc.prog EXCEPT !.data = b.data, !.pc = "fill"]
    <2>1. tc.prog.pc = "recover" /\ tc.prog.name = tc.hostName /\ GoodFile(b) /\ b \in KeyFiles
      BY <1>1, <1>2, <1>4 DEF RecoverProgramData, ClientAt, ProgInv, Early, Progs
    <2>2. CASE /\ b.state = "sealed" /\ b.for = tc.hostName
               /\ tc' = [tc EXCEPT !.prog.data = b.data, !.prog.pc = "fill"]
      <3>1. b.data \in Datas /\ Good(b.data, tc.hostName)
        BY <2>1, <2>2 DEF KeyFiles, GoodFile
      <3>2. p \in Progs /\ p.pc = "fill" /\ p.name = tc.hostName /\ p.data = b.data
        BY <1>2, <2>1, <3>1, Zenon DEF Progs, Saving
      <3>3. ProgInv(p, tc.hostName)
        BY <3>1, <3>2 DEF ProgInv, Early, Making, Saving
      <3>4. tc' = [tc EXCEPT !.prog = p]
        BY <1>1, <1>2, <2>2, Zenon DEF Clients, Progs
      <3> QED BY <3>2, <3>3, <3>4, ObjectStep
    <2> QED BY <1>4, <2>2, FailedInit DEF RecoverProgramData
  <1> QED BY <1>3, <1>4

\* New keys, the attestation and the certificate.
LEMMA MakeKeysInv ==
  ASSUME ClientInv, GenerateKeys \/ AttestKey \/ RequestDomainServiceCert
  PROVE  ClientInv'
  <1>1. tc \in Clients /\ ProgInv(tc.prog, tc.hostName) /\ GoodFile(tc.keyFile)
    BY DEF ClientInv
  <1>2. /\ tc.prog \in Progs /\ tc.policy \in PolicyCerts /\ tc.keySets \in Nat
        /\ tc.prog.verify \in Nat /\ tc.prog.name \in ClientNames /\ tc.prog.delegation \in Certs
        /\ tc.prog.chain \in Seq(PolicyCerts)
    BY <1>1 DEF Clients, Progs
  <1>3. CASE GenerateKeys
    <2> DEFINE k == tc.keySets + 1
               p == [tc.prog EXCEPT !.sign = k, !.crypt = k, !.verify = k, !.pc = "attest"]
               x == [tc EXCEPT !.keySets = k, !.prog = p]
    <2>1. k \in Nat /\ k # NoKey
      BY <1>2 DEF NoKey
    <2>2. tc' = [tc EXCEPT !.keySets = k, !.prog.sign = k, !.prog.crypt = k,
                           !.prog.verify = k, !.prog.pc = "attest"]
      BY <1>3 DEF GenerateKeys
    <2>3. tc.prog.name = tc.hostName
      BY <1>1, <1>3 DEF GenerateKeys, ClientAt, ProgInv, Early
    <2> HIDE DEF k
    <2>4. p \in Progs /\ p.pc = "attest" /\ p.sign = k /\ p.crypt = k /\ p.verify = k /\ p.name = tc.hostName
      BY <1>2, <2>1, <2>3, Zenon DEF Progs, Making
    <2>5. ProgInv(p, tc.hostName)
      BY <2>1, <2>4 DEF ProgInv, Early, Making, Saving
    <2>6. tc' = x
      BY <1>1, <1>2, <2>2, Zenon DEF Clients, Progs
    <2> HIDE DEF p
    <2>7. x \in Clients /\ x.prog = p /\ x.hostName = tc.hostName /\ x.keyFile = tc.keyFile
      BY <1>1, <2>1, <2>4, Zenon DEF Clients
    <2> QED BY <1>1, <2>5, <2>6, <2>7 DEF ClientInv
  <1>4. CASE AttestKey
    <2> DEFINE d == [key |-> tc.prog.verify, name |-> tc.prog.name, issuer |-> "host"]
               p == [tc.prog EXCEPT !.delegation = d, !.pc = "request"]
    <2>1. /\ tc.prog.name = tc.hostName /\ tc.prog.crypt = tc.prog.sign
          /\ tc.prog.verify = tc.prog.sign /\ tc.prog.sign # NoKey
      BY <1>1, <1>4 DEF AttestKey, ClientAt, ProgInv, Early, Making
    <2>2. d \in Certs /\ d.key = tc.prog.verify /\ d.name = tc.prog.name
      BY <1>2 DEF Certs
    <2>3. CASE tc' = [tc EXCEPT !.prog.delegation = d, !.prog.pc = "request"]
      <3> HIDE DEF d
      <3>1. /\ p \in Progs /\ p.pc = "request" /\ p.name = tc.hostName /\ p.sign = tc.prog.sign
            /\ p.crypt = tc.prog.crypt /\ p.verify = tc.prog.verify /\ p.delegation = d
        BY <1>2, <2>1, <2>2, Zenon DEF Progs, Making
      <3>2. ProgInv(p, tc.hostName)
        BY <2>1, <2>2, <3>1 DEF ProgInv, Early, Making, Saving
      <3>3. tc' = [tc EXCEPT !.prog = p]
        BY <1>1, <1>2, <2>3, Zenon DEF Clients, Progs
      <3> QED BY <3>1, <3>2, <3>3, ObjectStep
    <2> QED BY <1>4, <2>3, FailedInit DEF AttestKey, OrFails
  <1>5. CASE RequestDomainServiceCert
    <2> DEFINE d == tc.prog.delegation
               c == [key |-> d.key, name |-> d.name, issuer |-> tc.policy]
               l == Append(tc.prog.chain, tc.policy)
               p == [tc.prog EXCEPT !.cert = c, !.certificate = c, !.chain = l, !.pc = "collect"]
               q == [tc.prog EXCEPT !.pc = "polling"]
    <2>1. /\ tc.prog.name = tc.hostName /\ tc.prog.crypt = tc.prog.sign
          /\ tc.prog.verify = tc.prog.sign /\ tc.prog.sign # NoKey
          /\ d.key = tc.prog.sign /\ d.name = tc.hostName
      BY <1>1, <1>5 DEF RequestDomainServiceCert, ClientAt, ProgInv, Early, Making
    <2>2. c \in Certs /\ c.key = d.key /\ c.name = d.name
      BY <1>2 DEF Certs
    <2>3. l \in Seq(PolicyCerts)
      BY <1>2
    <2>4. CASE tc' = [tc EXCEPT !.prog.cert = c, !.prog.certificate = c, !.prog.chain = l,
                                !.prog.pc = "collect"]
      <3> HIDE DEF c, l
      <3>1. /\ p \in Progs /\ p.pc = "collect" /\ p.name = tc.hostName /\ p.sign = tc.prog.sign
            /\ p.crypt = tc.prog.crypt /\ p.verify = tc.prog.verify /\ p.cert = c
        BY <1>2, <2>1, <2>2, <2>3, Zenon DEF Progs, Making
      <3>2. ProgInv(p, tc.hostName)
        BY <2>1, <2>2, <3>1 DEF ProgInv, Early, Making, Saving
      <3>3. tc' = [tc EXCEPT !.prog = p]
        BY <1>1, <1>2, <2>4, Zenon DEF Clients, Progs
      <3> QED BY <3>1, <3>2, <3>3, ObjectStep
    <2>5. CASE tc' = Go(tc, "polling")
      <3>1. q \in Progs /\ q.pc = "polling" /\ q.name = tc.hostName
        BY <1>2, <2>1 DEF Progs
      <3>2. ProgInv(q, tc.hostName)
        BY <3>1 DEF ProgInv, Early, Making, Saving
      <3>3. tc' = [tc EXCEPT !.prog = q]
        BY <1>1, <1>2, <2>5 DEF Go, Clients, Progs
      <3> QED BY <3>1, <3>2, <3>3, ObjectStep
    <2> QED BY <1>5, <2>4, <2>5, FailedInit DEF RequestDomainServiceCert, OrFails
  <1> QED BY <1>3, <1>4, <1>5

\* Keys and certificate are sealed together.
LEMMA SaveInv ==
  ASSUME ClientInv, SaveProgramData
  PROVE  ClientInv'
  <1> DEFINE d == CollectProgramData
             f == Sealed(tc.hostName, d)
             p == [tc.prog EXCEPT !.data = d, !.blob = f, !.pc = "creat_keys"]
  <1>1. tc \in Clients /\ ProgInv(tc.prog, tc.hostName) /\ tc.prog \in Progs /\ tc.hostName \in ClientNames
    BY DEF ClientInv, Clients
  <1>2. /\ tc.prog.name = tc.hostName /\ tc.prog.crypt = tc.prog.sign /\ tc.prog.sign # NoKey
        /\ tc.prog.cert.key = tc.prog.sign /\ tc.prog.cert.name = tc.hostName
    BY <1>1 DEF SaveProgramData, ClientAt, ProgInv, Early, Making
  <1>3. d \in Datas /\ Good(d, tc.hostName)
    BY <1>1, <1>2 DEF CollectProgramData, Datas, Progs, Good, Belongs
  <1>4. CASE tc' = [tc EXCEPT !.prog.data = d, !.prog.blob = f, !.prog.pc = "creat_keys"]
    <2> HIDE DEF d
    <2>1. f \in KeyFiles /\ GoodFile(f)
      BY <1>1, <1>3 DEF Sealed, KeyFiles, GoodFile
    <2> HIDE DEF f
    <2>2. /\ p \in Progs /\ p.pc = "creat_keys" /\ p.name = tc.hostName /\ p.data = d /\ p.blob = f
      BY <1>1, <1>2, <1>3, <2>1, Zenon DEF Progs, Saving
    <2>3. ProgInv(p, tc.hostName)
      BY <1>3, <2>1, <2>2 DEF ProgInv, Early, Making, Saving
    <2>4. tc' = [tc EXCEPT !.prog = p]
      BY <1>1, <1>4, Zenon DEF Clients, Progs
    <2> QED BY <2>2, <2>3, <2>4, ObjectStep
  <1> QED BY <1>4, FailedInit DEF SaveProgramData, OrFails

\* A step of the object together with one of the files.
LEMMA FileStep ==
  ASSUME ClientInv, NEW q \in {"write_keys", "creat_cert", "write_cert", "fill"},
         NEW f \in KeyFiles, NEW c \in Certs, GoodFile(f),
         tc.prog.pc \in Saving, q = "write_keys" => tc.prog.pc = "creat_keys",
         tc' = [tc EXCEPT !.keyFile = f, !.certFile = c, !.prog.pc = q]
  PROVE  ClientInv'
  <1> DEFINE p == [tc.prog EXCEPT !.pc = q]
             x == [tc EXCEPT !.keyFile = f, !.certFile = c, !.prog = p]
  <1>1. tc \in Clients /\ ProgInv(tc.prog, tc.hostName) /\ tc.prog \in Progs
    BY DEF ClientInv, Clients
  <1>2. /\ tc.prog.name = tc.hostName /\ Good(tc.prog.data, tc.hostName)
        /\ (q = "write_keys" => GoodFile(tc.prog.blob))
    BY <1>1 DEF ProgInv, Early, Saving
  <1>3. /\ p \in Progs /\ p.pc = q /\ p.name = tc.hostName /\ p.data = tc.prog.data
        /\ p.blob = tc.prog.blob
    BY <1>1, <1>2 DEF Progs, Saving
  <1>4. ProgInv(p, tc.hostName)
    BY <1>2, <1>3 DEF ProgInv, Early, Making, Saving
  <1>5. tc' = x
    BY <1>1 DEF Clients, Progs
  <1> HIDE DEF p
  <1>6. x \in Clients /\ x.prog = p /\ x.hostName = tc.hostName /\ x.keyFile = f
    BY <1>1, <1>3, Zenon DEF Clients
  <1> QED BY <1>4, <1>5, <1>6, Zenon DEF ClientInv

\* The files are written: each may be left empty or cut short.
LEMMA WriteInv ==
  ASSUME ClientInv, CreatKeyFile \/ WriteKeyFile \/ CreatCertFile \/ WriteCertFile
  PROVE  ClientInv'
  <1>1. /\ tc \in Clients /\ ProgInv(tc.prog, tc.hostName) /\ GoodFile(tc.keyFile)
        /\ tc.keyFile \in KeyFiles /\ tc.certFile \in Certs /\ tc.prog \in Progs
        /\ tc.prog.cert \in Certs /\ tc.prog.blob \in KeyFiles
    BY DEF ClientInv, Clients, Progs
  <1>2. /\ EmptyKeyFile \in KeyFiles /\ GoodFile(EmptyKeyFile) /\ TornKeyFile \in KeyFiles
        /\ GoodFile(TornKeyFile) /\ NoCert \in Certs
    BY Blanks DEF EmptyKeyFile, TornKeyFile, GoodFile
  <1>3. CASE tc' = InitTaoFails(tc)
    BY <1>3, FailedInit
  <1>4. CASE /\ tc.prog.pc = "creat_keys"
             /\ tc' = [tc EXCEPT !.keyFile = EmptyKeyFile, !.prog.pc = "write_keys"]
    <2>1. tc' = [tc EXCEPT !.keyFile = EmptyKeyFile, !.certFile = tc.certFile, !.prog.pc = "write_keys"]
      BY <1>1, <1>4, Zenon DEF Clients
    <2>2. tc.prog.pc \in Saving
      BY <1>4 DEF Saving
    <2> QED BY <1>1, <1>2, <1>4, <2>1, <2>2, FileStep, Zenon
  <1>5. CASE WriteKeyFile
    <2>1. tc.prog.pc = "write_keys" /\ tc.prog.pc \in Saving /\ GoodFile(tc.prog.blob)
      BY <1>1, <1>5 DEF WriteKeyFile, ClientAt, ProgInv, Saving
    <2>2. PICK f \in {tc.prog.blob, TornKeyFile} : tc' = [tc EXCEPT !.keyFile = f, !.prog.pc = "creat_cert"]
      BY <1>5, Zenon DEF WriteKeyFile
    <2>3. f \in KeyFiles /\ GoodFile(f)
      BY <1>1, <1>2, <2>1
    <2>4. tc' = [tc EXCEPT !.keyFile = f, !.certFile = tc.certFile, !.prog.pc = "creat_cert"]
      BY <1>1, <2>2, Zenon DEF Clients
    <2> QED BY <1>1, <2>1, <2>3, <2>4, FileStep, Zenon
  <1>6. CASE tc.prog.pc = "creat_cert" /\ tc' = [tc EXCEPT !.certFile = NoCert, !.prog.pc = "write_cert"]
    <2>1. tc' = [tc EXCEPT !.keyFile = tc.keyFile, !.certFile = NoCert, !.prog.pc = "write_cert"]
      BY <1>1, <1>6, Zenon DEF Clients
    <2>2. tc.prog.pc \in Saving
      BY <1>6 DEF Saving
    <2> QED BY <1>1, <1>2, <2>1, <2>2, FileStep, Zenon
  <1>7. CASE WriteCertFile
    <2>1. tc.prog.pc \in Saving
      BY <1>7 DEF WriteCertFile, ClientAt, Saving
    <2>2. PICK c \in {tc.prog.cert, NoCert} : tc' = [tc EXCEPT !.certFile = c, !.prog.pc = "fill"]
      BY <1>7, Zenon DEF WriteCertFile
    <2>3. tc' = [tc EXCEPT !.keyFile = tc.keyFile, !.certFile = c, !.prog.pc = "fill"]
      BY <1>1, <2>2, Zenon DEF Clients
    <2> QED BY <1>1, <1>2, <2>1, <2>2, <2>3, FileStep, Zenon
  <1> QED BY <1>3, <1>4, <1>5, <1>6, <1>7 DEF CreatKeyFile, CreatCertFile, OrFails, ClientAt

\* The object is filled from the data that was saved or restored.
LEMMA FillInv ==
  ASSUME ClientInv, FillProgramData
  PROVE  ClientInv'
  <1> DEFINE d == tc.prog.data
             l == tc.prog.chain \o d.chain
             p == [tc.prog EXCEPT !.sign = d.sign, !.crypt = d.crypt, !.verify = d.sign,
                                  !.certificate = d.cert, !.chain = l, !.pc = "running"]
  <1>1. tc \in Clients /\ ProgInv(tc.prog, tc.hostName) /\ tc.prog \in Progs /\ d \in Datas
    BY DEF ClientInv, Clients, Progs
  <1>2. tc.prog.name = tc.hostName /\ Good(d, tc.hostName)
    BY <1>1 DEF FillProgramData, ClientAt, ProgInv, Early, Saving
  <1>3. /\ d.sign \in Nat /\ d.crypt \in Nat /\ d.cert \in Certs /\ d.chain \in Seq(PolicyCerts)
        /\ tc.prog.chain \in Seq(PolicyCerts)
    BY <1>1 DEF Datas, Progs
  <1>4. l \in Seq(PolicyCerts)
    BY <1>3
  <1>5. tc' = [tc EXCEPT !.prog.sign = d.sign, !.prog.crypt = d.crypt, !.prog.verify = d.sign,
                         !.prog.certificate = d.cert, !.prog.chain = l, !.prog.pc = "running"]
    BY DEF FillProgramData
  <1> HIDE DEF d, l
  <1>6. /\ p \in Progs /\ p.pc = "running" /\ p.name = tc.hostName /\ p.sign = d.sign
        /\ p.crypt = d.crypt /\ p.verify = d.sign /\ p.certificate = d.cert
    BY <1>1, <1>2, <1>3, <1>4, Zenon DEF Progs
  <1>7. ProgInv(p, tc.hostName)
    BY <1>2, <1>6 DEF ProgInv, Good, Belongs, Early, Making, Saving
  <1>8. tc' = [tc EXCEPT !.prog = p]
    BY <1>1, <1>5, Zenon DEF Clients, Progs
  <1> QED BY <1>6, <1>7, <1>8, ObjectStep

\* The domain's key is replaced.
LEMMA RotateInv ==
  ASSUME ClientInv, RotatePolicy
  PROVE  ClientInv'
  <1> DEFINE n == tc.rotations + 1
  <1>1. tc \in Clients /\ ProgInv(tc.prog, tc.hostName) /\ GoodFile(tc.keyFile) /\ n \in Nat
    BY DEF ClientInv, Clients
  <1>2. PICK r \in PolicyCerts : tc' = [tc EXCEPT !.policy = r, !.rotations = n]
    BY Zenon DEF RotatePolicy
  <1> HIDE DEF n
  <1>3. tc' \in Clients /\ tc'.prog = tc.prog /\ tc'.hostName = tc.hostName /\ tc'.keyFile = tc.keyFile
    BY <1>1, <1>2, Zenon DEF Clients
  <1> QED BY <1>1, <1>3 DEF ClientInv

\* The first start finds no files,
LEMMA ClientInitInv ==
  ASSUME TaoClientInit
  PROVE  ClientInv
  <1> DEFINE p == NewProgramData("down")
  <1>1. p \in Progs /\ ProgInv(p, <<>>)
    BY NewProgram
  <1>2. NoKeyFile \in KeyFiles /\ GoodFile(NoKeyFile)
    BY Blanks DEF NoKeyFile, GoodFile
  <1>3. /\ tc = [prog |-> p, hostName |-> <<>>, policy |-> FirstPolicy, keyFile |-> NoKeyFile,
                 certFile |-> NoCert, keySets |-> 0, starts |-> 0, rotations |-> 0]
    BY DEF TaoClientInit
  <1> HIDE DEF p
  <1>4. tc \in Clients /\ tc.prog = p /\ tc.hostName = <<>> /\ tc.keyFile = NoKeyFile
    BY <1>1, <1>2, <1>3, Blanks, TaoClientAssumption DEF Clients
  <1> QED BY <1>1, <1>2, <1>4 DEF ClientInv

\* and every step leaves keys, files and name together.
LEMMA ClientNextInv ==
  ASSUME ClientInv, [TaoClientNext]_tc
  PROVE  ClientInv'
  <1>1. CASE UNCHANGED tc
    BY <1>1 DEF ClientInv
  <1>2. CASE StartClient \/ ReadConfig \/ ExtendTaoName \/ GetTaoName
    BY <1>2, NameInv
  <1>3. CASE ReadKeyFile \/ RecoverProgramData
    BY <1>3, RecoverInv
  <1>4. CASE GenerateKeys \/ AttestKey \/ RequestDomainServiceCert
    BY <1>4, MakeKeysInv
  <1>5. CASE SaveProgramData
    BY <1>5, SaveInv
  <1>6. CASE CreatKeyFile \/ WriteKeyFile \/ CreatCertFile \/ WriteCertFile
    BY <1>6, WriteInv
  <1>7. CASE FillProgramData
    BY <1>7, FillInv
  <1>8. CASE ProgramKilled
    BY <1>8, FailedInit DEF ProgramKilled
  <1>9. CASE RotatePolicy
    BY <1>9, RotateInv
  <1> QED BY <1>1, <1>2, <1>3, <1>4, <1>5, <1>6, <1>7, <1>8, <1>9 DEF TaoClientNext, TaoClientRest

(***************************************************************************)
(* For any policy certificates and any number of starts, kills, key sets   *)
(* and rotations of the policy key: a program for which InitTao returned   *)
(* true holds one set of keys, a certificate of exactly these keys and of  *)
(* the name it runs under, and what its key file would restore belongs     *)
(* together in the same way.                                               *)
(***************************************************************************)
THEOREM KeysGoTogether == TaoClientSpec => []KeysBelong
  <1>1. TaoClientInit => ClientInv
    BY ClientInitInv
  <1>2. ClientInv /\ [TaoClientNext]_tc => ClientInv'
    BY ClientNextInv
  <1>3. ClientInv => KeysBelong
    BY DEF ClientInv, ProgInv, GoodFile, Good, KeysBelong, ClientAt
  <1> QED BY <1>1, <1>2, <1>3, PTL DEF TaoClientSpec

-----------------------------------------------------------------------------
(* The channel *)

\* Types of the state.
Records == [id : Nat, head : BOOLEAN, n : Nat]
Directions == [records : Seq(Records), sent : Seq(Nat), got : Seq(Nat)]
ChanStates == {"closed", "connecting", "open", "done", "failed"}
ChannelsOf(f) ==
  [config : {f}, listening : BOOLEAN, serving : DOMAIN f.clients \cup {NoClient},
   state : [DOMAIN f.clients -> ChanStates],
   peer : [DOMAIN f.clients -> {"none", f.server.issuer}],
   up : [DOMAIN f.clients -> Directions], down : [DOMAIN f.clients -> Directions]]

\* A record that holds the length of a message and nothing of the message.
Headless(d, r) == r.head /\ r.n = LengthSize /\ d.sent[r.id] > 0

\* What a record may hold.
Framed(d, r) ==
  /\ r.id \in DOMAIN d.sent
  /\ r.head => r.n \in {LengthSize, LengthSize + d.sent[r.id]}
  /\ ~r.head => r.n = d.sent[r.id] /\ r.n > 0

\* What comes after it.
Follows(d, r, s) ==
  IF Headless(d, r) THEN s.id = r.id /\ ~s.head ELSE s.id = r.id + 1 /\ s.head

\* The messages up to k were read: all of them, in their order.
ReadUpTo(d, k) ==
  /\ \A i \in DOMAIN d.got : d.got[i] \in 1..k /\ d.sent[d.got[i]] > 0
  /\ \A i, j \in DOMAIN d.got : i < j => d.got[i] < d.got[j]
  /\ \A m \in 1..k : d.sent[m] > 0 => \E i \in DOMAIN d.got : d.got[i] = m

\* The messages before the first record were read, and the records are those
\* of the messages after them, in order.
Lined(d) ==
  /\ \A i \in DOMAIN d.records : Framed(d, d.records[i])
  /\ \A i \in DOMAIN d.records : i + 1 \in DOMAIN d.records => Follows(d, d.records[i], d.records[i + 1])
  /\ d.records # <<>> =>
       /\ d.records[1].head /\ ReadUpTo(d, d.records[1].id - 1)
       /\ d.records[Len(d.records)].id = Len(d.sent)
  /\ d.records = <<>> => ReadUpTo(d, Len(d.sent))

\* The last of them is whole.
Whole(d) == Lined(d) /\ (d.records # <<>> => ~Headless(d, d.records[Len(d.records)]))

\* What holds of each direction, and of the connections.
DirectionInv(d) ==
  /\ \A i \in DOMAIN d.records : d.records[i].id \in DOMAIN d.sent
  /\ Fits(d) => Whole(d)

ChannelInv ==
  /\ ch.config \in ChannelConfigs /\ ch \in ChannelsOf(ch.config)
  /\ \A c \in ChanClients :
       /\ ch.state[c] = "open" <=> ch.serving = c
       /\ ch.state[c] = "open" => Handshake(ch.config.server, Conf(c))
       /\ DirectionInv(ch.up[c]) /\ DirectionInv(ch.down[c])

\* e is d with one more message.
Sends(d, e, n) == e.sent = Append(d.sent, n) /\ e.got = d.got
\* The records of e are those of d and one more.
Adds(d, e, r) == e.records = Append(d.records, r)

\* One more message leaves what was framed and read as it was.
LEMMA SentMore ==
  ASSUME NEW d \in Directions, NEW e \in Directions, NEW n \in Nat,
         Sends(d, e, n)
  PROVE  /\ Len(e.sent) = Len(d.sent) + 1 /\ e.sent[Len(e.sent)] = n
         /\ \A k \in DOMAIN d.sent : k \in DOMAIN e.sent /\ e.sent[k] = d.sent[k]
         /\ \A r \in Records : Framed(d, r) => Framed(e, r) /\ (Headless(e, r) <=> Headless(d, r))
         /\ \A k \in 0..Len(d.sent) : ReadUpTo(d, k) => ReadUpTo(e, k)
         /\ Fits(e) => Fits(d)
  <1>1. d.sent \in Seq(Nat) /\ e.sent \in Seq(Nat) /\ d.got \in Seq(Nat) /\ e.got = d.got
    BY DEF Directions, Sends
  <1>2. Len(e.sent) = Len(d.sent) + 1 /\ e.sent[Len(e.sent)] = n
    BY <1>1 DEF Sends
  <1>3. \A k \in DOMAIN d.sent : k \in DOMAIN e.sent /\ e.sent[k] = d.sent[k]
    BY <1>1 DEF Sends
  <1>4. \A r \in Records : Framed(d, r) => Framed(e, r) /\ (Headless(e, r) <=> Headless(d, r))
    BY <1>3 DEF Framed, Headless
  <1>5. \A k \in 0..Len(d.sent) : ReadUpTo(d, k) => ReadUpTo(e, k)
    <2> SUFFICES ASSUME NEW k \in 0..Len(d.sent), ReadUpTo(d, k) PROVE ReadUpTo(e, k)
      OBVIOUS
    <2>1. \A m \in 1..k : m \in DOMAIN d.sent
      BY <1>1
    <2>2. \A i \in DOMAIN e.got : e.got[i] \in 1..k /\ e.sent[e.got[i]] > 0
      BY <1>1, <1>3, <2>1 DEF ReadUpTo
    <2>3. \A m \in 1..k : e.sent[m] > 0 => \E i \in DOMAIN e.got : e.got[i] = m
      BY <1>1, <1>3, <2>1 DEF ReadUpTo
    <2> QED BY <1>1, <2>2, <2>3 DEF ReadUpTo
  <1>6. Fits(e) => Fits(d)
    BY <1>3 DEF Fits
  <1> QED BY <1>2, <1>3, <1>4, <1>5, <1>6

\* Where the one more record is.
LEMMA OneMore ==
  ASSUME NEW d \in Directions, NEW e, NEW r \in Records, Adds(d, e, r)
  PROVE  /\ Len(e.records) = Len(d.records) + 1 /\ e.records[Len(d.records) + 1] = r
         /\ DOMAIN e.records = 1..(Len(d.records) + 1)
         /\ \A i \in 1..Len(d.records) : e.records[i] = d.records[i] /\ d.records[i] \in Records
  BY DEF Adds, Directions

\* What was read is read no matter what is sent later.
LEMMA Before ==
  ASSUME NEW k \in Nat, NEW x \in 1..k
  PROVE  x - 1 \in 0..k
  OBVIOUS

\* The first record of a message.
LEMMA WriteHead ==
  ASSUME NEW d \in Directions, NEW n \in Nat, Whole(d),
         NEW m \in {LengthSize, LengthSize + n},
         NEW e \in Directions, Sends(d, e, n), Adds(d, e, Record(Len(d.sent) + 1, TRUE, m))
  PROVE  Lined(e) /\ e.records[Len(e.records)] = Record(Len(e.sent), TRUE, m)
  <1> DEFINE r == Record(Len(d.sent) + 1, TRUE, m)
             l == Len(d.records)
  <1>1. /\ d.sent \in Seq(Nat) /\ d.records \in Seq(Records) /\ l \in Nat /\ Len(d.sent) \in Nat
        /\ LengthSize \in Nat /\ m \in Nat
    BY DEF Directions, LengthSize
  <1>3. /\ Len(e.sent) = Len(d.sent) + 1 /\ e.sent[Len(e.sent)] = n /\ e.sent \in Seq(Nat)
        /\ \A s \in Records : Framed(d, s) => Framed(e, s) /\ (Headless(e, s) <=> Headless(d, s))
        /\ \A k \in 0..Len(d.sent) : ReadUpTo(d, k) => ReadUpTo(e, k)
    BY SentMore, Zenon DEF Directions
  <1>4. r \in Records /\ r.id = Len(e.sent) /\ r.head /\ r.n = m /\ Adds(d, e, r)
    BY <1>1, <1>3 DEF Record, Records
  <1> HIDE DEF r
  <1>5. /\ Len(e.records) = l + 1 /\ e.records[l + 1] = r /\ DOMAIN e.records = 1..(l + 1)
        /\ \A i \in 1..l : e.records[i] = d.records[i] /\ d.records[i] \in Records
    BY <1>1, <1>4, OneMore, Zenon
  <1> HIDE DEF l
  <1>50. l = Len(d.records) /\ DOMAIN d.records = 1..l /\ DOMAIN d.sent = 1..Len(d.sent)
        /\ (d.records = <<>> <=> l = 0) /\ (e.records # <<>>)
    BY <1>1, <1>5 DEF l
  <1>51. Framed(e, r)
    <2>1. r.id \in DOMAIN e.sent /\ e.sent[r.id] = n
      BY <1>1, <1>3, <1>4
    <2> QED BY <1>1, <1>4, <2>1 DEF Framed
  <1>6. ASSUME NEW i \in 1..(l + 1) PROVE Framed(e, e.records[i])
    <2>1. CASE i = l + 1
      BY <1>5, <1>51, <2>1
    <2>2. CASE i \in 1..l
      BY <1>3, <1>5, <1>50, <2>2, Zenon DEF Whole, Lined
    <2> QED BY <1>1, <2>1, <2>2
  <1>7. ASSUME NEW i \in 1..l PROVE Follows(e, e.records[i], e.records[i + 1])
    <2>1. /\ d.records[i] \in Records /\ e.records[i] = d.records[i]
          /\ (Headless(e, d.records[i]) <=> Headless(d, d.records[i]))
      <3>1. Framed(d, d.records[i])
        BY <1>50 DEF Whole, Lined
      <3> QED BY <1>3, <1>5, <3>1
    <2>2. CASE i < l
      <3>1. i + 1 \in 1..l
        BY <1>1, <2>2
      <3>2. Follows(d, d.records[i], d.records[i + 1])
        BY <1>50, <3>1 DEF Whole, Lined
      <3>3. e.records[i + 1] = d.records[i + 1]
        BY <1>5, <3>1
      <3> QED BY <2>1, <3>2, <3>3 DEF Follows
    <2>3. CASE i = l
      <3>1. ~Headless(d, d.records[i]) /\ d.records[i].id = Len(d.sent)
        BY <1>50, <2>3 DEF Whole, Lined
      <3>2. e.records[i + 1] = r
        BY <1>5, <2>3
      <3> QED BY <1>3, <1>4, <2>1, <3>1, <3>2 DEF Follows
    <2> QED BY <1>1, <2>2, <2>3
  <1>8. e.records[1].head /\ ReadUpTo(e, e.records[1].id - 1)
    <2>1. CASE l = 0
      <3>1. e.records[1] = r /\ r.id - 1 = Len(d.sent) /\ d.records = <<>>
        BY <1>1, <1>3, <1>4, <1>5, <1>50, <2>1
      <3>2. ReadUpTo(d, Len(d.sent))
        BY <3>1 DEF Whole, Lined
      <3>3. Len(d.sent) \in 0..Len(d.sent)
        BY <1>1
      <3> QED BY <1>3, <1>4, <3>1, <3>2, <3>3
    <2>2. CASE l > 0
      <3>1. 1 \in 1..l /\ d.records # <<>>
        BY <1>1, <1>50, <2>2
      <3>2. /\ e.records[1] = d.records[1] /\ d.records[1].head /\ d.records[1] \in Records
            /\ ReadUpTo(d, d.records[1].id - 1) /\ d.records[1].id \in DOMAIN d.sent
        BY <1>5, <1>50, <3>1 DEF Whole, Lined, Framed
      <3>3. d.records[1].id - 1 \in 0..Len(d.sent)
        <4>1. d.records[1].id \in 1..Len(d.sent)
          BY <1>50, <3>2
        <4> QED BY <1>1, <4>1, Before
      <3> QED BY <1>3, <3>2, <3>3
    <2> QED BY <1>1, <2>1, <2>2
  <1>9. r = Record(Len(e.sent), TRUE, m)
    BY <1>3 DEF r
  <1>10. ASSUME NEW i \in DOMAIN e.records, i + 1 \in DOMAIN e.records PROVE i \in 1..l
    BY <1>1, <1>5, <1>10
  <1> QED BY <1>4, <1>5, <1>50, <1>6, <1>7, <1>8, <1>9, <1>10, Zenon DEF Lined

\* The second one, of a peer that writes two.
LEMMA WriteBody ==
  ASSUME NEW d \in Directions, Lined(d), d.records # <<>>, Headless(d, d.records[Len(d.records)]),
         NEW e \in Directions, e.sent = d.sent, e.got = d.got,
         Adds(d, e, Record(Len(d.sent), FALSE, d.sent[Len(d.sent)]))
  PROVE  Whole(e)
  <1> DEFINE r == Record(Len(d.sent), FALSE, d.sent[Len(d.sent)])
             l == Len(d.records)
  <1>1. d.sent \in Seq(Nat) /\ d.records \in Seq(Records) /\ l \in Nat /\ Len(d.sent) \in Nat
    BY DEF Directions
  <1>2. /\ l > 0 /\ l = Len(d.records) /\ DOMAIN d.records = 1..l
        /\ l \in 1..l /\ 1 \in 1..l /\ d.records[l] \in Records
    BY <1>1
  <1>3. /\ Framed(d, d.records[l]) /\ Headless(d, d.records[l]) /\ d.records[l].id = Len(d.sent)
    BY <1>2 DEF Lined
  <1>4. Len(d.sent) \in DOMAIN d.sent /\ d.sent[Len(d.sent)] \in Nat /\ d.sent[Len(d.sent)] > 0
    BY <1>1, <1>3 DEF Framed, Headless
  <1>5. /\ r \in Records /\ r.id = Len(d.sent) /\ ~r.head /\ r.n = d.sent[Len(d.sent)]
        /\ Adds(d, e, r)
    BY <1>1, <1>4 DEF Record, Records
  <1> HIDE DEF r
  <1>6. /\ Len(e.records) = l + 1 /\ e.records[l + 1] = r /\ DOMAIN e.records = 1..(l + 1)
        /\ \A i \in 1..l : e.records[i] = d.records[i]
    BY <1>1, <1>5, OneMore
  <1> HIDE DEF l
  <1>7. \A s : (Framed(e, s) <=> Framed(d, s)) /\ (Headless(e, s) <=> Headless(d, s))
    BY DEF Framed, Headless
  <1>8. ReadUpTo(e, d.records[1].id - 1) /\ d.records[1].head
    BY <1>2 DEF Lined, ReadUpTo
  <1>9. Framed(e, r) /\ ~Headless(e, r)
    BY <1>4, <1>5 DEF Framed, Headless
  <1>10. ASSUME NEW i \in 1..(l + 1) PROVE Framed(e, e.records[i])
    <2>1. CASE i = l + 1
      BY <1>6, <1>9, <2>1
    <2>2. CASE i \in 1..l
      BY <1>2, <1>6, <1>7, <2>2 DEF Lined
    <2> QED BY <1>1, <1>2, <2>1, <2>2
  <1>11. ASSUME NEW i \in 1..l PROVE Follows(e, e.records[i], e.records[i + 1])
    <2>1. CASE i < l
      <3>1. i + 1 \in 1..l
        BY <1>1, <1>2, <2>1
      <3>2. Follows(d, d.records[i], d.records[i + 1])
        BY <1>2, <3>1, Zenon DEF Lined
      <3>3. e.records[i] = d.records[i] /\ e.records[i + 1] = d.records[i + 1]
        BY <1>6, <3>1
      <3> QED BY <1>7, <3>2, <3>3 DEF Follows
    <2>2. CASE i = l
      BY <1>3, <1>5, <1>6, <1>7, <2>2 DEF Follows
    <2> QED BY <1>1, <1>2, <2>1, <2>2
  <1>12. e.records # <<>> /\ e.records[1] = d.records[1]
    BY <1>1, <1>2, <1>6
  <1>13. ASSUME NEW i \in DOMAIN e.records, i + 1 \in DOMAIN e.records PROVE i \in 1..l
    BY <1>1, <1>2, <1>6, <1>13
  <1> QED BY <1>1, <1>5, <1>6, <1>8, <1>9, <1>10, <1>11, <1>12, <1>13 DEF Whole, Lined

\* A read of the first q records of a message, all of it.
LEMMA ReadWhole ==
  ASSUME NEW d \in Directions, Whole(d), NEW q \in Nat, q >= 1, q <= Len(d.records),
         ~Headless(d, d.records[q]),
         NEW e \in Directions, e.sent = d.sent, ReadUpTo(e, d.records[q].id),
         Len(e.records) = Len(d.records) - q,
         \A i \in 1..Len(e.records) : e.records[i] = d.records[i + q]
  PROVE  Whole(e)
  <1> DEFINE l == Len(d.records)
             k == Len(e.records)
  <1>1. /\ d.records \in Seq(Records) /\ e.records \in Seq(Records) /\ l \in Nat /\ k \in Nat
        /\ DOMAIN d.records = 1..l /\ DOMAIN e.records = 1..k /\ k = l - q /\ q <= l
        /\ (e.records = <<>> <=> k = 0) /\ d.records # <<>>
        /\ \A i \in 1..l : d.records[i] \in Records
    BY DEF Directions
  <1>2. /\ \A i \in 1..k : e.records[i] = d.records[i + q]
        /\ l = Len(d.records) /\ k = Len(e.records)
    OBVIOUS
  <1> HIDE DEF l, k
  <1>3. \A i \in 1..k : i + q \in 1..l
    BY <1>1
  <1>4. \A s : (Framed(e, s) <=> Framed(d, s)) /\ (Headless(e, s) <=> Headless(d, s))
    BY DEF Framed, Headless
  <1>5. ASSUME NEW i \in 1..k PROVE Framed(e, e.records[i])
    BY <1>1, <1>2, <1>3, <1>4, Zenon DEF Whole, Lined
  <1>6. ASSUME NEW i \in 1..k, i + 1 \in 1..k PROVE Follows(e, e.records[i], e.records[i + 1])
    <2>1. i + q \in 1..l /\ (i + q) + 1 \in 1..l /\ (i + q) + 1 = (i + 1) + q
      <3>1. i \in Nat /\ i >= 1 /\ i + 1 <= k /\ k = l - q /\ l \in Nat /\ q \in Nat /\ q >= 1
        BY <1>1, <1>6
      <3> QED BY <3>1
    <2>2. Follows(d, d.records[i + q], d.records[(i + q) + 1])
      BY <1>1, <2>1, Zenon DEF Whole, Lined
    <2>3. e.records[i] = d.records[i + q]
      BY <1>2
    <2>4. e.records[i + 1] = d.records[(i + q) + 1]
      <3>1. e.records[i + 1] = d.records[(i + 1) + q]
        BY <1>2, <1>6, Zenon
      <3> QED BY <2>1, <3>1
    <2> QED BY <1>4, <2>2, <2>3, <2>4 DEF Follows
  <1>7. CASE k = 0
    <2>1. q = l
      BY <1>1, <1>7
    <2>2. d.records[q].id = Len(d.sent)
      BY <1>1, <1>2, <2>1 DEF Whole, Lined
    <2> QED BY <1>1, <1>5, <1>6, <1>7, <2>2 DEF Whole, Lined
  <1>8. CASE k > 0
    <2>1. 1 \in 1..k /\ k \in 1..k /\ q \in 1..l /\ q + 1 \in 1..l /\ k + q = l /\ 1 + q = q + 1
      BY <1>1, <1>8
    <2>2. e.records[1] = d.records[q + 1] /\ e.records[k] = d.records[l]
      BY <1>2, <2>1, Zenon
    <2>3. d.records[q + 1].head /\ d.records[q + 1].id = d.records[q].id + 1
      BY <1>1, <2>1, Zenon DEF Whole, Lined, Follows
    <2>4. d.records[q].id \in Nat /\ (d.records[q].id + 1) - 1 = d.records[q].id
      <3>1. d.records[q] \in Records
        BY <1>1, <2>1
      <3>2. d.records[q].id \in Nat
        BY <3>1 DEF Records
      <3> QED BY <3>2
    <2>5. d.records[l].id = Len(d.sent) /\ ~Headless(d, d.records[l])
      BY <1>1, <1>2 DEF Whole, Lined
    <2>6. e.records # <<>>
      BY <1>1, <1>8
    <2>7. ReadUpTo(e, e.records[1].id - 1)
      BY <2>2, <2>3, <2>4
    <2> QED BY <1>1, <1>2, <1>4, <1>5, <1>6, <2>2, <2>3, <2>5, <2>6, <2>7, Zenon DEF Whole, Lined
  <1> QED BY <1>1, <1>7, <1>8

\* The message after those read is read, or reported empty.
LEMMA ReadOn ==
  ASSUME NEW d \in Directions, NEW k \in Nat, k >= 1, ReadUpTo(d, k - 1), k <= Len(d.sent),
         NEW e \in Directions, e.sent = d.sent,
         IF d.sent[k] = 0 THEN e.got = d.got ELSE e.got = Append(d.got, k)
  PROVE  ReadUpTo(e, k)
  <1>1. d.sent \in Seq(Nat) /\ d.got \in Seq(Nat) /\ d.sent[k] \in Nat
    BY DEF Directions
  <1>2. \A m \in 1..k : m = k \/ m \in 1..(k - 1)
    OBVIOUS
  <1>3. CASE d.sent[k] = 0
    <2>1. e.got = d.got
      BY <1>3
    <2> QED BY <1>2, <1>3, <2>1 DEF ReadUpTo
  <1>4. CASE d.sent[k] # 0
    <2> DEFINE l == Len(d.got)
    <2>1. e.got = Append(d.got, k) /\ d.sent[k] > 0 /\ l \in Nat
      BY <1>1, <1>4
    <2>2. /\ DOMAIN e.got = 1..(l + 1) /\ DOMAIN d.got = 1..l /\ e.got[l + 1] = k
          /\ \A i \in 1..l : e.got[i] = d.got[i]
      BY <1>1, <2>1
    <2> HIDE DEF l
    <2>3. \A i \in 1..(l + 1) : i = l + 1 \/ i \in 1..l
      BY <2>1
    <2>4. ASSUME NEW i \in 1..(l + 1) PROVE e.got[i] \in 1..k /\ e.sent[e.got[i]] > 0
      BY <2>1, <2>2, <2>3 DEF ReadUpTo
    <2>5. ASSUME NEW i \in 1..(l + 1), NEW j \in 1..(l + 1), i < j PROVE e.got[i] < e.got[j]
      <3>1. i \in 1..l
        BY <2>1, <2>5
      <3>2. d.got[i] \in 1..(k - 1)
        BY <2>2, <3>1 DEF ReadUpTo
      <3>3. CASE j = l + 1
        BY <2>2, <3>1, <3>2, <3>3
      <3>4. CASE j \in 1..l
        BY <2>2, <2>5, <3>1, <3>4 DEF ReadUpTo
      <3> QED BY <2>3, <3>3, <3>4
    <2>6. ASSUME NEW m \in 1..k, e.sent[m] > 0 PROVE \E i \in 1..(l + 1) : e.got[i] = m
      <3>1. CASE m = k
        <4>1. l + 1 \in 1..(l + 1)
          BY <2>1
        <4> QED BY <2>2, <3>1, <4>1
      <3>2. CASE m \in 1..(k - 1)
        <4>1. PICK i \in 1..l : d.got[i] = m
          BY <2>2, <2>6, <3>2 DEF ReadUpTo
        <4>2. i \in 1..(l + 1)
          BY <2>1
        <4> QED BY <2>2, <4>1, <4>2
      <3> QED BY <1>2, <3>1, <3>2
    <2> QED BY <2>2, <2>4, <2>5, <2>6 DEF ReadUpTo
  <1> QED BY <1>3, <1>4

\* One read of a record.
LEMMA ReadRecord ==
  ASSUME NEW d \in Directions, d.records # <<>>, NEW size \in Nat,
         \A i \in DOMAIN d.records : d.records[i].id \in DOMAIN d.sent
  PROVE  /\ SslRead(d, size) \in Directions
         /\ SslRead(d, size).sent = d.sent /\ SslRead(d, size).got = d.got
         /\ \A i \in DOMAIN SslRead(d, size).records : SslRead(d, size).records[i].id \in DOMAIN d.sent
         /\ Head(d.records) \in Records /\ Head(d.records).id \in DOMAIN d.sent
         /\ Taken(d, size) \in Nat
         /\ Head(d.records).n <= size => /\ Taken(d, size) = Head(d.records).n
                                         /\ SslRead(d, size).records = Tail(d.records)
         /\ Taken(d, size) # Head(d.records).n => SslRead(d, size).records # <<>>
  <1> DEFINE h == Head(d.records)
             rest == Tail(d.records)
             left == Record(h.id, FALSE, h.n - Taken(d, size))
  <1>1. d.records \in Seq(Records) /\ d.sent \in Seq(Nat) /\ d.got \in Seq(Nat)
    BY DEF Directions
  <1>2. h \in Records /\ h = d.records[1] /\ 1 \in DOMAIN d.records
    BY <1>1
  <1>3. h.id \in DOMAIN d.sent /\ h.id \in Nat /\ h.n \in Nat
    BY <1>2 DEF Records
  <1>4. rest \in Seq(Records) /\ \A i \in DOMAIN rest : i + 1 \in DOMAIN d.records /\ rest[i] = d.records[i + 1]
    BY <1>1
  <1>5. Taken(d, size) \in Nat /\ Taken(d, size) <= h.n /\ (h.n <= size => Taken(d, size) = h.n)
    BY <1>3 DEF Taken, SmallerOf
  <1>6. left \in Records /\ left.id = h.id
    BY <1>3, <1>5 DEF Record, Records
  <1> HIDE DEF left, rest, h
  <1>7. CASE Taken(d, size) = h.n
    <2>1. SslRead(d, size) = [d EXCEPT !.records = rest]
      BY <1>7 DEF SslRead, h, rest
    <2>2. SslRead(d, size) \in Directions /\ SslRead(d, size).records = rest
          /\ SslRead(d, size).sent = d.sent /\ SslRead(d, size).got = d.got
      BY <1>1, <1>4, <2>1, Zenon DEF Directions
    <2> QED BY <1>2, <1>3, <1>4, <1>5, <1>7, <2>2 DEF h, rest
  <1>8. CASE Taken(d, size) # h.n
    <2> DEFINE all == <<left>> \o rest
    <2>1. SslRead(d, size) = [d EXCEPT !.records = all]
      BY <1>8 DEF SslRead, h, rest, left
    <2>2. /\ all \in Seq(Records) /\ all # <<>>
          /\ \A i \in DOMAIN all : all[i] = left \/ \E j \in DOMAIN rest : all[i] = rest[j]
      BY <1>4, <1>6
    <2> HIDE DEF all
    <2>3. SslRead(d, size) \in Directions /\ SslRead(d, size).records = all
          /\ SslRead(d, size).sent = d.sent /\ SslRead(d, size).got = d.got
      BY <1>1, <2>1, <2>2, Zenon DEF Directions
    <2>4. \A i \in DOMAIN all : all[i].id \in DOMAIN d.sent
      BY <1>3, <1>4, <1>6, <2>2
    <2>5. ~(h.n <= size)
      BY <1>5, <1>8
    <2> QED BY <1>2, <1>3, <1>5, <2>2, <2>3, <2>4, <2>5 DEF h
  <1> QED BY <1>7, <1>8

\* A message is read, whole or not.
LEMMA MessageTypes ==
  ASSUME NEW d \in Directions, Readable(d),
         \A i \in DOMAIN d.records : d.records[i].id \in DOMAIN d.sent
  PROVE  LET e == SslMessageRead(d, ReadSize)
         IN /\ e \in Directions /\ e.sent = d.sent
            /\ \A i \in DOMAIN e.records : e.records[i].id \in DOMAIN d.sent
  <1> DEFINE e == SslMessageRead(d, ReadSize)
             r == Head(d.records)
             first == SslRead(d, ReadSize)
             length == d.sent[r.id]
             second == SslRead(first, length)
  <1>1. d.records # <<>> /\ ReadSize \in Nat /\ d.sent \in Seq(Nat) /\ d.records \in Seq(Records)
    BY TaoChannelAssumption DEF Readable, Directions
  <1>2. /\ first \in Directions /\ first.sent = d.sent /\ first.got = d.got
        /\ \A i \in DOMAIN first.records : first.records[i].id \in DOMAIN d.sent
        /\ r \in Records /\ r.id \in DOMAIN d.sent
        /\ Taken(d, ReadSize) # r.n => first.records # <<>>
        /\ r.n <= ReadSize => first.records = Tail(d.records)
        /\ r.n <= ReadSize => Taken(d, ReadSize) = r.n
    BY <1>1, ReadRecord, Zenon
  <1>3. length \in Nat /\ r.id \in Nat /\ r.n \in Nat
    BY <1>1, <1>2 DEF Records
  <1>4. \A x \in Nat : /\ Append(first.got, x) \in Seq(Nat)
                       /\ [first EXCEPT !.got = Append(@, x)] \in Directions
                       /\ [first EXCEPT !.got = Append(@, x)].sent = d.sent
                       /\ [first EXCEPT !.got = Append(@, x)].records = first.records
    <2> SUFFICES ASSUME NEW x \in Nat, NEW g, g = Append(first.got, x)
                 PROVE  /\ g \in Seq(Nat)
                        /\ [first EXCEPT !.got = g] \in Directions
                        /\ [first EXCEPT !.got = g].sent = d.sent
                        /\ [first EXCEPT !.got = g].records = first.records
      BY Zenon
    <2> HIDE DEF first
    <2>1. first.got \in Seq(Nat)
      BY <1>2 DEF Directions
    <2>2. g \in Seq(Nat)
      BY <2>1
    <2> QED BY <1>2, <2>2, Zenon DEF Directions
  <1>5. WholeMessage(r.id) \in Nat /\ Garbled \in Nat
    BY <1>3 DEF WholeMessage, Garbled
  <1> HIDE DEF first, length
  <1>6. CASE ~r.head
    <2>1. e = [first EXCEPT !.got = Append(@, Garbled)]
      BY <1>6 DEF SslMessageRead, first
    <2> QED BY <1>2, <1>4, <1>5, <2>1
  <1>7. CASE r.head /\ Taken(d, ReadSize) # LengthSize
    <2>1. PICK x \in {WholeMessage(r.id), Garbled} : e = [first EXCEPT !.got = Append(@, x)]
      BY <1>7 DEF SslMessageRead, first
    <2>2. x \in Nat
      BY <1>5, <2>1
    <2> QED BY <1>2, <1>4, <2>1, <2>2
  <1>8. CASE r.head /\ Taken(d, ReadSize) = LengthSize /\ length = 0
    <2>1. e = first
      BY <1>8 DEF SslMessageRead, first, length
    <2> QED BY <1>2, <2>1
  <1>9. CASE r.head /\ Taken(d, ReadSize) = LengthSize /\ length # 0
    <2>1. first.records # <<>>
      <3>1. CASE r.n <= ReadSize
        <4>1. r.n = LengthSize /\ length > 0
          BY <1>2, <1>3, <1>9, <3>1
        <4>2. Len(d.records) > 1
          BY <1>9, <4>1 DEF Readable, length
        <4> DEFINE t == Tail(d.records)
                   l == Len(d.records)
        <4>3. Len(t) = l - 1 /\ l \in Nat /\ l > 1
          BY <1>1, <4>2
        <4> HIDE DEF t, l
        <4>4. t # <<>>
          BY <4>3
        <4> QED BY <1>2, <3>1, <4>4, Zenon DEF t
      <3>2. CASE ~(r.n <= ReadSize)
        <4>1. Taken(d, ReadSize) # r.n
          BY <1>1, <1>3, <3>2 DEF Taken, SmallerOf
        <4> QED BY <1>2, <4>1
      <3> QED BY <3>1, <3>2
    <2>2. /\ second \in Directions /\ second.sent = d.sent /\ second.got = d.got
          /\ \A i \in DOMAIN second.records : second.records[i].id \in DOMAIN d.sent
      BY <1>2, <1>3, <2>1, ReadRecord, Zenon
    <2>3. PICK x \in {WholeMessage(r.id), Garbled} : e = [second EXCEPT !.got = Append(@, x)]
      BY <1>9, Zenon DEF SslMessageRead, first, length
    <2> HIDE DEF second, e
    <2>4. x \in Nat
      BY <1>5, <2>3
    <2>5. Append(second.got, x) \in Seq(Nat)
      BY <2>2, <2>4 DEF Directions
    <2>6. e \in Directions /\ e.sent = second.sent /\ e.records = second.records
      BY <2>2, <2>3, <2>5, Zenon DEF Directions
    <2> QED BY <2>2, <2>6 DEF e
  <1> QED BY <1>6, <1>7, <1>8, <1>9

\* A whole message is read.
LEMMA MessageWhole ==
  ASSUME NEW d \in Directions, Readable(d), Whole(d), Fits(d)
  PROVE  Whole(SslMessageRead(d, ReadSize))
  <1> DEFINE e == SslMessageRead(d, ReadSize)
             r == Head(d.records)
             s == d.records[2]
             first == SslRead(d, ReadSize)
             length == d.sent[r.id]
             second == SslRead(first, length)
             l == Len(d.records)
  <1>1. /\ d.records # <<>> /\ ReadSize \in Nat /\ d.sent \in Seq(Nat) /\ d.records \in Seq(Records)
        /\ LengthSize \in Nat
    BY TaoChannelAssumption DEF Readable, Directions, LengthSize
  <1>2. /\ l \in Nat /\ l >= 1 /\ DOMAIN d.records = 1..l /\ r = d.records[1] /\ r \in Records
        /\ r.id \in Nat /\ r.n \in Nat
    <2>1. l \in Nat /\ l >= 1 /\ DOMAIN d.records = 1..l /\ r = d.records[1]
      BY <1>1
    <2>2. r \in Records
      BY <1>1, <2>1
    <2> HIDE DEF r
    <2>3. r.id \in Nat /\ r.n \in Nat
      BY <2>2 DEF Records
    <2> QED BY <2>1, <2>2, <2>3
  <1>3. /\ \A i \in DOMAIN d.records : d.records[i].id \in DOMAIN d.sent
        /\ Framed(d, r) /\ r.head /\ ReadUpTo(d, r.id - 1)
    BY <1>1, <1>2 DEF Whole, Lined, Framed
  <1>4. /\ r.id \in DOMAIN d.sent /\ length \in Nat /\ r.id >= 1 /\ r.id <= Len(d.sent)
        /\ r.n \in {LengthSize, LengthSize + length}
    <2>1. r.id \in DOMAIN d.sent /\ r.n \in {LengthSize, LengthSize + length}
      BY <1>3 DEF Framed
    <2> HIDE DEF r
    <2>2. length \in Nat /\ r.id \in 1..Len(d.sent)
      BY <1>1, <2>1
    <2> QED BY <2>1, <2>2
  <1>5. r.n <= ReadSize /\ length <= ReadSize
    <2>1. LengthSize + length <= ReadSize
      BY <1>4 DEF Fits
    <2> HIDE DEF length, r
    <2> QED BY <1>1, <1>2, <1>4, <2>1
  <1>6. /\ first \in Directions /\ first.sent = d.sent /\ first.got = d.got
        /\ \A i \in DOMAIN first.records : first.records[i].id \in DOMAIN d.sent
        /\ Taken(d, ReadSize) = r.n /\ first.records = Tail(d.records)
    BY <1>1, <1>3, <1>5, ReadRecord, Zenon
  <1>7. Len(first.records) = l - 1 /\ \A i \in 1..(l - 1) : first.records[i] = d.records[i + 1]
    BY <1>1, <1>6
  <1>8. WholeMessage(r.id) = r.id
    BY DEF WholeMessage
  <1>9. e \in Directions /\ e.sent = d.sent
    BY <1>3, MessageTypes
  <1> HIDE DEF first, length, l, e, r, s
  <1>10. CASE r.n # LengthSize
    <2>1. r.n = LengthSize + length /\ length # 0
      BY <1>1, <1>4, <1>10
    <2>2. e = [first EXCEPT !.got = Append(@, r.id)]
      BY <1>3, <1>6, <1>8, <1>10, <2>1 DEF SslMessageRead, first, length, e, r, s
    <2>3. e.records = first.records /\ e.got = Append(d.got, r.id)
      BY <1>6, <2>2 DEF Directions
    <2>4. ReadUpTo(e, r.id)
      BY <1>2, <1>3, <1>4, <1>9, <2>1, <2>3, ReadOn, Zenon DEF length, r
    <2>5. ~Headless(d, r)
      BY <1>10 DEF Headless
    <2>6. Len(e.records) = Len(d.records) - 1 /\ \A i \in 1..Len(e.records) : e.records[i] = d.records[i + 1]
      BY <1>7, <2>3 DEF l
    <2>7. 1 <= Len(d.records)
      BY <1>2 DEF l
    <2>8. 1 \in Nat /\ 1 >= 1
      OBVIOUS
    <2>9. ~Headless(d, d.records[1]) /\ ReadUpTo(e, d.records[1].id)
      BY <1>2, <2>4, <2>5
    <2>10. Whole(e)
      BY <1>9, <2>6, <2>7, <2>8, <2>9, ReadWhole, Zenon
    <2> QED BY <2>10 DEF e
  <1>11. CASE r.n = LengthSize /\ length = 0
    <2>2. e = first
      BY <1>3, <1>6, <1>11 DEF SslMessageRead, first, length, e, r, s
    <2>4. ReadUpTo(e, r.id)
      BY <1>2, <1>3, <1>4, <1>6, <1>9, <1>11, <2>2, ReadOn DEF length, r
    <2>5. ~Headless(d, r)
      BY <1>11 DEF Headless, length, r
    <2>6. Len(e.records) = Len(d.records) - 1 /\ \A i \in 1..Len(e.records) : e.records[i] = d.records[i + 1]
      BY <1>7, <2>2 DEF l
    <2>7. 1 <= Len(d.records)
      BY <1>2 DEF l
    <2>8. 1 \in Nat /\ 1 >= 1
      OBVIOUS
    <2>9. ~Headless(d, d.records[1]) /\ ReadUpTo(e, d.records[1].id)
      BY <1>2, <2>4, <2>5
    <2>10. Whole(e)
      BY <1>9, <2>6, <2>7, <2>8, <2>9, ReadWhole, Zenon
    <2> QED BY <2>10 DEF e
  <1>12. CASE r.n = LengthSize /\ length # 0
    <2>1. Headless(d, r)
      BY <1>3, <1>4, <1>12 DEF Headless, length, r
    <2>2. l # 1
      BY <1>1, <1>2, <2>1 DEF Whole, l
    <2>3. l >= 2 /\ 1 \in 1..l /\ 2 \in 1..l /\ 1 + 1 = 2
      BY <1>2, <2>2
    <2>4. Follows(d, r, s) /\ Framed(d, s) /\ s \in Records
      <3>1. s \in Records /\ 1 + 1 \in DOMAIN d.records /\ 1 \in DOMAIN d.records /\ d.records[1 + 1] = s
        BY <1>1, <1>2, <2>3 DEF s
      <3> QED BY <1>2, <2>3, <3>1, Zenon DEF Whole, Lined
    <2>5. s.id = r.id /\ ~s.head /\ s.n = length
      BY <2>1, <2>4 DEF Follows, Framed, length, r
    <2>6. first.records # <<>> /\ Head(first.records) = s
      <3>1. 1 \in 1..(l - 1) /\ first.records[1] = d.records[1 + 1]
        BY <1>2, <1>7, <2>3
      <3>2. first.records \in Seq(Records)
        BY <1>6, Zenon DEF Directions
      <3> DEFINE f == first.records
      <3>3. f \in Seq(Records) /\ Len(f) # 0 /\ f[1] = s
        BY <1>2, <1>7, <2>3, <3>1, <3>2 DEF s
      <3> HIDE DEF f
      <3>4. f # <<>> /\ Head(f) = f[1]
        BY <3>3
      <3> QED BY <3>3, <3>4 DEF f
    <2>7. /\ second \in Directions /\ second.sent = d.sent /\ second.got = d.got
          /\ Taken(first, length) = length /\ second.records = Tail(first.records)
      <3>1. Head(first.records).n <= length
        BY <1>4, <2>5, <2>6
      <3>2. Head(first.records).n = length
        BY <2>5, <2>6
      <3>3. \A i \in DOMAIN first.records : first.records[i].id \in DOMAIN first.sent
        BY <1>6
      <3> QED BY <1>4, <1>6, <2>6, <3>1, <3>2, <3>3, ReadRecord, Zenon
    <2>8. Len(second.records) = l - 2 /\ \A i \in 1..(l - 2) : second.records[i] = first.records[i + 1]
      <3>1. first.records \in Seq(Records)
        BY <1>6, Zenon DEF Directions
      <3>2. /\ Len(second.records) = Len(first.records) - 1
            /\ \A i \in 1..(Len(first.records) - 1) : second.records[i] = first.records[i + 1]
        BY <2>6, <2>7, <3>1
      <3>3. Len(first.records) - 1 = l - 2
        BY <1>2, <1>7
      <3> QED BY <3>2, <3>3
    <2>9. e = [second EXCEPT !.got = Append(@, r.id)]
      BY <1>3, <1>6, <1>8, <1>12, <2>5, <2>6, <2>7, Zenon DEF SslMessageRead, first, length, e, r, s
    <2> HIDE DEF second
    <2>10. e.records = second.records /\ e.got = Append(d.got, r.id)
      BY <2>7, <2>9 DEF Directions
    <2>11. ReadUpTo(e, r.id)
      BY <1>2, <1>3, <1>4, <1>9, <1>12, <2>10, ReadOn, Zenon DEF length, r
    <2>12. ~Headless(d, s)
      BY <2>5 DEF Headless
    <2>13. ASSUME NEW i \in 1..(l - 2) PROVE e.records[i] = d.records[i + 2]
      <3>1. i + 1 \in 1..(l - 1) /\ (i + 1) + 1 = i + 2
        BY <1>2, <2>3
      <3>2. first.records[i + 1] = d.records[(i + 1) + 1]
        BY <1>7, <3>1
      <3> QED BY <2>8, <2>10, <3>1, <3>2
    <2>14. Len(e.records) = Len(d.records) - 2 /\ 2 <= Len(d.records)
      BY <2>3, <2>8, <2>10 DEF l
    <2>15. \A i \in 1..Len(e.records) : e.records[i] = d.records[i + 2]
      BY <2>8, <2>10, <2>13
    <2>16. ReadUpTo(e, d.records[2].id) /\ ~Headless(d, d.records[2])
      BY <2>5, <2>11, <2>12 DEF s
    <2>17. 2 \in Nat /\ 2 >= 1
      OBVIOUS
    <2> QED BY <1>9, <2>14, <2>15, <2>16, <2>17, ReadWhole DEF e
  <1> QED BY <1>10, <1>11, <1>12 DEF e

\* Either peer's write of a message.
LEMMA MessageWritten ==
  ASSUME NEW d \in Directions, NEW n \in Nat, NEW go, DirectionInv(d)
  PROVE  ChannelWrite(go, d, n) \in Directions /\ DirectionInv(ChannelWrite(go, d, n))
  <1> DEFINE id == Len(d.sent) + 1
             sent == Append(d.sent, n)
             one == Record(id, TRUE, LengthSize + n)
             head == Record(id, TRUE, LengthSize)
             body == Record(id, FALSE, n)
             two == Append(d.records, head)
             e == [d EXCEPT !.records = Append(@, one), !.sent = Append(@, n)]
             f == [d EXCEPT !.records = Append(@, head), !.sent = Append(@, n)]
             g == [f EXCEPT !.records = Append(@, body)]
  <1>1. /\ d.sent \in Seq(Nat) /\ d.records \in Seq(Records) /\ d.got \in Seq(Nat)
        /\ id \in Nat /\ LengthSize \in Nat /\ sent \in Seq(Nat)
    BY DEF Directions, LengthSize
  <1>2. /\ id \in DOMAIN sent /\ sent[id] = n /\ Len(sent) = id
        /\ \A k \in DOMAIN d.sent : k \in DOMAIN sent
    BY <1>1
  <1>3. /\ one \in Records /\ head \in Records /\ body \in Records
        /\ one.id = id /\ head.id = id /\ body.id = id
    BY <1>1 DEF Record, Records
  <1>4. /\ Append(d.records, one) \in Seq(Records) /\ two \in Seq(Records) /\ Append(two, body) \in Seq(Records)
    <2> HIDE DEF one, head, body
    <2>1. Append(d.records, one) \in Seq(Records) /\ two \in Seq(Records)
      BY <1>1, <1>3
    <2> HIDE DEF two
    <2> QED BY <1>3, <2>1
  <1> HIDE DEF id, sent, one, head, body, two
  <1>5. /\ e \in Directions /\ e.records = Append(d.records, one) /\ e.sent = sent /\ e.got = d.got
        /\ f \in Directions /\ f.records = two /\ f.sent = sent /\ f.got = d.got
    BY <1>1, <1>4, Zenon DEF Directions, sent, two
  <1> HIDE DEF e, f
  <1>6. g \in Directions /\ g.records = Append(two, body) /\ g.sent = sent /\ g.got = d.got
    BY <1>4, <1>5, Zenon DEF Directions
  <1> HIDE DEF g
  <1>7. Sends(d, e, n) /\ Sends(d, f, n) /\ Adds(d, e, one) /\ Adds(d, f, head) /\ Adds(f, g, body)
    BY <1>5, <1>6 DEF Sends, Adds, sent, two
  <1>8. \A i \in DOMAIN d.records : d.records[i].id \in DOMAIN sent
    BY <1>2 DEF DirectionInv
  <1>9. ASSUME NEW r \in Records, r.id = id, NEW x \in Directions, NEW y, Adds(x, y, r), y.sent = sent,
               \A i \in DOMAIN x.records : x.records[i].id \in DOMAIN sent
        PROVE  \A i \in DOMAIN y.records : y.records[i].id \in DOMAIN y.sent
    <2> SUFFICES ASSUME NEW i \in DOMAIN y.records PROVE y.records[i].id \in DOMAIN sent
      BY <1>9
    <2> DEFINE l == Len(x.records)
    <2>1. /\ y.records[l + 1] = r /\ DOMAIN y.records = 1..(l + 1)
          /\ \A j \in 1..l : y.records[j] = x.records[j]
      BY <1>9, OneMore
    <2>2. x.records \in Seq(Records) /\ l \in Nat /\ DOMAIN x.records = 1..l
      BY DEF Directions
    <2> HIDE DEF l
    <2>3. i = l + 1 \/ i \in 1..l
      BY <2>1, <2>2
    <2> QED BY <1>2, <1>9, <2>1, <2>2, <2>3, Zenon
  <1>10. \A i \in DOMAIN e.records : e.records[i].id \in DOMAIN e.sent
    BY <1>3, <1>5, <1>7, <1>8, <1>9
  <1>11. \A i \in DOMAIN f.records : f.records[i].id \in DOMAIN f.sent
    BY <1>3, <1>5, <1>7, <1>8, <1>9
  <1>12. \A i \in DOMAIN g.records : g.records[i].id \in DOMAIN g.sent
    BY <1>3, <1>5, <1>6, <1>7, <1>9, <1>11
  <1>13. ASSUME NEW x \in Directions, Sends(d, x, n), Fits(x) PROVE Whole(d)
    <2>1. Fits(d)
      BY <1>13, SentMore
    <2> QED BY <2>1 DEF DirectionInv
  <1>14. ASSUME NEW x \in Directions, Fits(x), NEW m \in {LengthSize, LengthSize + n},
                Sends(d, x, n), Adds(d, x, Record(id, TRUE, m))
         PROVE  /\ Lined(x) /\ x.records # <<>>
                /\ x.records[Len(x.records)] = Record(Len(x.sent), TRUE, m)
    <2>1. Lined(x) /\ x.records[Len(x.records)] = Record(Len(x.sent), TRUE, m)
      BY <1>13, <1>14, WriteHead, Zenon DEF id
    <2>2. Record(id, TRUE, m) \in Records
      BY <1>1 DEF Record, Records
    <2>3. DOMAIN x.records = 1..(Len(d.records) + 1)
      BY <1>14, <2>2, OneMore, Zenon
    <2>4. Len(d.records) \in Nat
      BY <1>1
    <2> QED BY <2>1, <2>3, <2>4
  <1>15. CASE ~go
    <2>1. ChannelWrite(go, d, n) = e
      BY <1>15 DEF ChannelWrite, SslMessageWrite, e, one, id
    <2>2. ASSUME Fits(e) PROVE Whole(e)
      <3>1. /\ Lined(e) /\ e.records[Len(e.records)] = Record(id, TRUE, LengthSize + n)
        BY <1>2, <1>5, <1>7, <1>14, <2>2, Zenon DEF one
      <3>2. ~Headless(e, Record(id, TRUE, LengthSize + n))
        BY <1>1, <1>2, <1>5 DEF Headless, Record
      <3> QED BY <3>1, <3>2, Zenon DEF Whole
    <2> QED BY <1>5, <1>10, <2>1, <2>2 DEF DirectionInv
  <1>16. CASE go /\ n = 0
    <2>1. ChannelWrite(go, d, n) = f
      <3>1. two \o <<>> = two
        BY <1>4
      <3> QED BY <1>16, <3>1 DEF ChannelWrite, GoMessageWrite, f, two, head, id
    <2>2. ASSUME Fits(f) PROVE Whole(f)
      <3>1. /\ Lined(f) /\ f.records[Len(f.records)] = Record(id, TRUE, LengthSize)
        BY <1>2, <1>5, <1>7, <1>14, <2>2, Zenon DEF head
      <3>2. ~Headless(f, Record(id, TRUE, LengthSize))
        BY <1>1, <1>2, <1>5, <1>16 DEF Headless, Record
      <3> QED BY <3>1, <3>2, Zenon DEF Whole
    <2> QED BY <1>5, <1>11, <2>1, <2>2 DEF DirectionInv
  <1>17. CASE go /\ n # 0
    <2>1. ChannelWrite(go, d, n) = g
      <3>1. two \o <<body>> = Append(two, body)
        BY <1>3, <1>4
      <3>2. ChannelWrite(go, d, n) = [d EXCEPT !.records = two \o <<body>>, !.sent = sent]
        BY <1>17 DEF ChannelWrite, GoMessageWrite, two, head, id, body, sent
      <3>3. f = [d EXCEPT !.records = two, !.sent = sent]
        BY DEF f, two, sent
      <3>4. g = [d EXCEPT !.records = Append(two, body), !.sent = sent]
        BY <3>3, Zenon DEF g, Directions
      <3> QED BY <3>1, <3>2, <3>4, Zenon
    <2>2. ASSUME Fits(g) PROVE Whole(g)
      <3>1. Fits(f)
        BY <1>5, <1>6, <2>2 DEF Fits
      <3>2. /\ Lined(f) /\ f.records # <<>> /\ f.records[Len(f.records)] = Record(id, TRUE, LengthSize)
        BY <1>2, <1>5, <1>7, <1>14, <3>1, Zenon DEF head
      <3>3. Headless(f, Record(id, TRUE, LengthSize))
        BY <1>1, <1>2, <1>5, <1>17 DEF Headless, Record
      <3>4. body = Record(Len(f.sent), FALSE, f.sent[Len(f.sent)])
        BY <1>2, <1>5, Zenon DEF body
      <3> QED BY <1>5, <1>6, <1>7, <3>2, <3>3, <3>4, WriteBody, Zenon
    <2> QED BY <1>6, <1>12, <2>1, <2>2 DEF DirectionInv
  <1> QED BY <1>15, <1>16, <1>17

\* The reader's read of one.
LEMMA MessageTaken ==
  ASSUME NEW d \in Directions, Readable(d), DirectionInv(d)
  PROVE  SslMessageRead(d, ReadSize) \in Directions /\ DirectionInv(SslMessageRead(d, ReadSize))
  <1> DEFINE e == SslMessageRead(d, ReadSize)
  <1>1. /\ e \in Directions /\ e.sent = d.sent
        /\ \A i \in DOMAIN e.records : e.records[i].id \in DOMAIN e.sent
    BY MessageTypes DEF DirectionInv
  <1>2. Fits(d) => Whole(e)
    BY MessageWhole DEF DirectionInv
  <1> HIDE DEF e
  <1>3. Fits(e) => Fits(d)
    BY <1>1 DEF Fits
  <1> QED BY <1>1, <1>2, <1>3 DEF DirectionInv, e

\* What was read of a direction in which everything fits.
LEMMA ReadInOrder ==
  ASSUME NEW d \in Directions, Whole(d)
  PROVE  InOrderWhole(d)
  <1>1. PICK k \in 0..Len(d.sent) : ReadUpTo(d, k)
    <2>1. d.sent \in Seq(Nat) /\ Len(d.sent) \in Nat /\ d.records \in Seq(Records)
      BY DEF Directions
    <2>2. CASE d.records = <<>>
      BY <2>1, <2>2 DEF Whole, Lined
    <2>3. CASE d.records # <<>>
      <3>1. 1 \in DOMAIN d.records /\ d.records[1].id \in 1..Len(d.sent)
        BY <2>1, <2>3 DEF Whole, Lined, Framed
      <3>2. d.records[1].id - 1 \in 0..Len(d.sent)
        BY <2>1, <3>1, Before
      <3> QED BY <2>3, <3>2 DEF Whole, Lined
    <2> QED BY <2>2, <2>3
  <1>2. d.sent \in Seq(Nat) /\ d.got \in Seq(Nat) /\ \A m \in 1..k : m \in DOMAIN d.sent
    BY <1>1 DEF Directions
  <1>3. \A i \in DOMAIN d.got, m \in DOMAIN d.sent : m < d.got[i] => m \in 1..k
    <2> SUFFICES ASSUME NEW i \in DOMAIN d.got, NEW m \in DOMAIN d.sent, m < d.got[i]
                 PROVE  m \in 1..k
      OBVIOUS
    <2>1. d.got[i] \in 1..k
      BY <1>1 DEF ReadUpTo
    <2>2. m \in Nat /\ m >= 1 /\ k \in Nat
      BY <1>1, <1>2
    <2> QED BY <2>1, <2>2
  <1>4. \A i \in DOMAIN d.got : d.got[i] \in DOMAIN d.sent /\ d.sent[d.got[i]] > 0
    BY <1>1, <1>2 DEF ReadUpTo
  <1> QED BY <1>1, <1>3, <1>4 DEF ReadUpTo, InOrderWhole

\* A step that changes a direction.
LEMMA DirectionStep ==
  ASSUME ChannelInv, NEW up, NEW down,
         ch' = [ch EXCEPT !.up = up, !.down = down],
         up \in [ChanClients -> Directions], down \in [ChanClients -> Directions],
         \A c \in ChanClients : DirectionInv(up[c]) /\ DirectionInv(down[c])
  PROVE  ChannelInv'
  <1>1. ch \in ChannelsOf(ch.config) /\ ch.config \in ChannelConfigs
    BY DEF ChannelInv
  <1>2. /\ ch' \in ChannelsOf(ch.config) /\ ch'.config = ch.config
        /\ ch'.state = ch.state /\ ch'.serving = ch.serving /\ ch'.up = up /\ ch'.down = down
    BY <1>1, Zenon DEF ChannelsOf, ChanClients
  <1> QED BY <1>1, <1>2 DEF ChannelInv, ChanClients, Conf

\* A channel starts with nothing sent.
LEMMA ChannelStarts ==
  ASSUME ChannelInit PROVE ChannelInv
  <1>1. PICK f \in ChannelConfigs :
    ch = [config |-> f, listening |-> FALSE, serving |-> NoClient,
          state |-> [c \in DOMAIN f.clients |-> "closed"],
          peer |-> [c \in DOMAIN f.clients |-> "none"],
          up |-> [c \in DOMAIN f.clients |-> NoTraffic],
          down |-> [c \in DOMAIN f.clients |-> NoTraffic]]
    BY Zenon DEF ChannelInit
  <1>2. /\ NoTraffic \in Directions /\ NoTraffic.records = <<>> /\ NoTraffic.sent = <<>> /\ NoTraffic.got = <<>>
    BY DEF NoTraffic, Directions
  <1>3. DirectionInv(NoTraffic)
    BY <1>2 DEF DirectionInv, Whole, Lined, ReadUpTo
  <1>4. ch.config = f /\ ch \in ChannelsOf(f)
    BY <1>1, <1>2 DEF ChannelsOf, ChanStates
  <1>5. ASSUME NEW c \in ChanClients
        PROVE  /\ ch.state[c] # "open" /\ ch.serving # c
               /\ ch.up[c] = NoTraffic /\ ch.down[c] = NoTraffic
    BY <1>1, TaoChannelAssumption DEF ChanClients
  <1> QED BY <1>3, <1>4, <1>5 DEF ChannelInv

\* The types every action starts from.
LEMMA ChannelTypes ==
  ASSUME ChannelInv
  PROVE  /\ ch \in ChannelsOf(ch.config) /\ NoClient \notin ChanClients
         /\ ch.state \in [ChanClients -> ChanStates] /\ ch.serving \in ChanClients \cup {NoClient}
         /\ ch.peer \in [ChanClients -> {"none", ch.config.server.issuer}]
         /\ ch.up \in [ChanClients -> Directions] /\ ch.down \in [ChanClients -> Directions]
         /\ \A c \in ChanClients : /\ ch.state[c] = "open" <=> ch.serving = c
                                  /\ ch.state[c] = "open" => Handshake(ch.config.server, Conf(c))
                                  /\ DirectionInv(ch.up[c]) /\ DirectionInv(ch.down[c])
  <1>1. ch \in ChannelsOf(ch.config) /\ ch.config \in ChannelConfigs
    BY DEF ChannelInv
  <1>3. NoClient \notin ChanClients
    BY <1>1, TaoChannelAssumption DEF ChanClients
  <1>4. /\ ch.state \in [ChanClients -> ChanStates] /\ ch.serving \in ChanClients \cup {NoClient}
        /\ ch.peer \in [ChanClients -> {"none", ch.config.server.issuer}]
        /\ ch.up \in [ChanClients -> Directions] /\ ch.down \in [ChanClients -> Directions]
    BY <1>1 DEF ChannelsOf, ChanClients
  <1> QED BY <1>1, <1>3, <1>4 DEF ChannelInv

\* A step that leaves the directions alone.
StateTo(b, srv, st, p) ==
  ch' = [ch EXCEPT !.listening = b, !.serving = srv, !.state = st, !.peer = p]

\* Such a step in its four pieces.
MovesTo(b, srv, st, p) ==
  /\ StateTo(b, srv, st, p)
  /\ b \in BOOLEAN /\ st \in [ChanClients -> ChanStates] /\ srv \in ChanClients \cup {NoClient}
  /\ p \in [ChanClients -> {"none", ch.config.server.issuer}]
  /\ \A c \in ChanClients : st[c] = "open" <=> srv = c
  /\ \A c \in ChanClients : st[c] = "open" => Handshake(ch.config.server, Conf(c))

\* Such a step keeps the invariant.
LEMMA StateStep ==
  ASSUME ChannelInv, NEW st, NEW srv, NEW p, NEW b, MovesTo(b, srv, st, p)
  PROVE  ChannelInv'
  <1>1. ch \in ChannelsOf(ch.config) /\ ch.config \in ChannelConfigs
    BY DEF ChannelInv
  <1>2. /\ ch' \in ChannelsOf(ch.config)
        /\ ch'.config = ch.config /\ ch'.state = st /\ ch'.serving = srv /\ ch'.up = ch.up /\ ch'.down = ch.down
    BY <1>1, Zenon DEF ChannelsOf, ChanClients, StateTo, MovesTo
  <1> QED BY <1>1, <1>2 DEF ChannelInv, ChanClients, Conf, MovesTo

\* Connecting, accepting, verifying, failing and closing are such steps.
LEMMA ConnectionStep ==
  ASSUME ChannelInv, NEW c \in ChanClients,
         CreateClientSocket(c) \/ ServerAccept(c) \/ CloseTaoChannel(c)
  PROVE  ChannelInv'
  <1>1. /\ ch \in ChannelsOf(ch.config) /\ ch.listening \in BOOLEAN /\ NoClient \notin ChanClients
        /\ ch.state \in [ChanClients -> ChanStates] /\ ch.serving \in ChanClients \cup {NoClient}
        /\ ch.peer \in [ChanClients -> {"none", ch.config.server.issuer}]
    BY ChannelTypes DEF ChannelsOf
  <1>2. \A k \in ChanClients : ch.state[k] = "open" <=> ch.serving = k
    BY DEF ChannelInv
  <1>3. \A k \in ChanClients : ch.state[k] = "open" => Handshake(ch.config.server, Conf(k))
    BY DEF ChannelInv
  <1>4. ASSUME NEW x \in ChanStates, x # "open", ch.state[c] # "open", ch' = [ch EXCEPT !.state[c] = x]
        PROVE  ChannelInv'
    <2> DEFINE st == [ch.state EXCEPT ![c] = x]
    <2>1. StateTo(ch.listening, ch.serving, st, ch.peer)
      BY <1>1, <1>4, Zenon DEF ChannelsOf, StateTo
    <2>2. st \in [ChanClients -> ChanStates] /\ \A k \in ChanClients : st[k] = "open" <=> ch.state[k] = "open"
      BY <1>1, <1>4
    <2> HIDE DEF st
    <2>3. \A k \in ChanClients : st[k] = "open" <=> ch.serving = k
      BY <1>2, <2>2
    <2>4. \A k \in ChanClients : st[k] = "open" => Handshake(ch.config.server, Conf(k))
      BY <1>3, <2>2
    <2>10. MovesTo(ch.listening, ch.serving, st, ch.peer)
      BY <1>1, <2>1, <2>2, <2>3, <2>4, Zenon DEF MovesTo
    <2> QED BY <2>10, StateStep
  <1>5. CASE CreateClientSocket(c)
    <2>1. PICK x \in {"connecting", "failed"} : ch' = [ch EXCEPT !.state[c] = x]
      BY <1>5 DEF CreateClientSocket
    <2>2. x \in ChanStates /\ x # "open" /\ ch.state[c] # "open"
      BY <1>5 DEF CreateClientSocket, ChanStates
    <2> QED BY <1>4, <2>1, <2>2
  <1>6. CASE ServerAccept(c) /\ ~Handshake(ch.config.server, Conf(c))
    <2>1. ch' = [ch EXCEPT !.state[c] = "failed"] /\ ch.state[c] # "open"
      BY <1>6 DEF ServerAccept
    <2>2. "failed" \in ChanStates
      BY DEF ChanStates
    <2> QED BY <1>4, <2>1, <2>2
  <1>7. CASE ServerAccept(c) /\ Handshake(ch.config.server, Conf(c))
    <2> DEFINE st == [ch.state EXCEPT ![c] = "open"]
               p == [ch.peer EXCEPT ![c] = ch.config.server.issuer]
    <2>1. StateTo(ch.listening, c, st, p)
      BY <1>1, <1>7, Zenon DEF ServerAccept, ChannelsOf, StateTo
    <2>2. st \in [ChanClients -> ChanStates] /\ p \in [ChanClients -> {"none", ch.config.server.issuer}]
      BY <1>1 DEF ChanStates
    <2>3. \A k \in ChanClients : ch.state[k] # "open"
      <3>1. ch.serving = NoClient
        BY <1>7 DEF ServerAccept
      <3> QED BY <1>1, <1>2, <3>1
    <2>4. \A k \in ChanClients : st[k] = "open" <=> c = k
      BY <1>1, <2>3
    <2> HIDE DEF st, p
    <2>5. \A k \in ChanClients : st[k] = "open" => Handshake(ch.config.server, Conf(k))
      BY <1>7, <2>4
    <2>6. c \in ChanClients \cup {NoClient}
      OBVIOUS
    <2>10. MovesTo(ch.listening, c, st, p)
      BY <1>1, <2>1, <2>2, <2>4, <2>5, <2>6, Zenon DEF MovesTo
    <2> QED BY <2>10, StateStep
  <1>8. CASE CloseTaoChannel(c)
    <2> DEFINE st == [ch.state EXCEPT ![c] = "done"]
    <2>1. StateTo(ch.listening, NoClient, st, ch.peer)
      BY <1>1, <1>8, Zenon DEF CloseTaoChannel, ChannelsOf, StateTo
    <2>2. st \in [ChanClients -> ChanStates]
      BY <1>1 DEF ChanStates
    <2>3. ch.serving = c
      BY <1>2, <1>8 DEF CloseTaoChannel
    <2>4. \A k \in ChanClients : st[k] # "open"
      BY <1>1, <1>2, <2>3
    <2> HIDE DEF st
    <2>5. \A k \in ChanClients : st[k] = "open" <=> NoClient = k
      BY <1>1, <2>4
    <2>6. \A k \in ChanClients : st[k] = "open" => Handshake(ch.config.server, Conf(k))
      BY <2>4
    <2>7. NoClient \in ChanClients \cup {NoClient}
      OBVIOUS
    <2>10. MovesTo(ch.listening, NoClient, st, ch.peer)
      BY <1>1, <2>1, <2>2, <2>5, <2>6, <2>7, Zenon DEF MovesTo
    <2> QED BY <2>10, StateStep
  <1> QED BY <1>5, <1>6, <1>7, <1>8

\* A step that changes one direction of one connection keeps the invariant.
LEMMA TrafficStep ==
  ASSUME ChannelInv, NEW c \in ChanClients, NEW d \in Directions, DirectionInv(d),
         ch' = [ch EXCEPT !.up[c] = d] \/ ch' = [ch EXCEPT !.down[c] = d]
  PROVE  ChannelInv'
  <1>0. /\ ch.up \in [ChanClients -> Directions] /\ ch.down \in [ChanClients -> Directions]
        /\ ch \in ChannelsOf(ch.config)
    BY ChannelTypes
  <1>5. \A k \in ChanClients : DirectionInv(ch.up[k]) /\ DirectionInv(ch.down[k])
    BY DEF ChannelInv
  <1>1. [ch.up EXCEPT ![c] = d] \in [ChanClients -> Directions]
    BY <1>0
  <1>2. [ch.down EXCEPT ![c] = d] \in [ChanClients -> Directions]
    BY <1>0
  <1>3. CASE ch' = [ch EXCEPT !.up[c] = d]
    <2> DEFINE up == [ch.up EXCEPT ![c] = d]
    <2>1. ch' = [ch EXCEPT !.up = up, !.down = ch.down]
      BY <1>0, <1>3, Zenon DEF ChannelsOf
    <2>2. \A k \in ChanClients : DirectionInv(up[k]) /\ DirectionInv(ch.down[k])
      <3>1. \A k \in ChanClients : up[k] = d \/ up[k] = ch.up[k]
        BY <1>0
      <3> QED BY <1>5, <3>1, Zenon
    <2> HIDE DEF up
    <2> QED BY <1>0, <1>1, <2>1, <2>2, DirectionStep, Zenon DEF up
  <1>4. CASE ch' = [ch EXCEPT !.down[c] = d]
    <2> DEFINE down == [ch.down EXCEPT ![c] = d]
    <2>1. ch' = [ch EXCEPT !.up = ch.up, !.down = down]
      BY <1>0, <1>4, Zenon DEF ChannelsOf
    <2>2. \A k \in ChanClients : DirectionInv(ch.up[k]) /\ DirectionInv(down[k])
      <3>1. \A k \in ChanClients : down[k] = d \/ down[k] = ch.down[k]
        BY <1>0
      <3> QED BY <1>5, <3>1, Zenon
    <2> HIDE DEF down
    <2> QED BY <1>0, <1>2, <2>1, <2>2, DirectionStep, Zenon DEF down
  <1> QED BY <1>3, <1>4

\* So does every step.
LEMMA ChannelKeeps ==
  ASSUME ChannelInv, ChannelNext PROVE ChannelInv'
  <1>0. /\ ch \in ChannelsOf(ch.config) /\ NoClient \notin ChanClients
        /\ ch.state \in [ChanClients -> ChanStates] /\ ch.serving \in ChanClients \cup {NoClient}
        /\ ch.peer \in [ChanClients -> {"none", ch.config.server.issuer}]
        /\ ch.up \in [ChanClients -> Directions] /\ ch.down \in [ChanClients -> Directions]
    BY ChannelTypes
  <1>10. \A k \in ChanClients : DirectionInv(ch.up[k]) /\ DirectionInv(ch.down[k])
    BY DEF ChannelInv
  <1>1. CASE InitServerSslChannel
    <2>1. StateTo(TRUE, ch.serving, ch.state, ch.peer)
      BY <1>0, <1>1, Zenon DEF InitServerSslChannel, ChannelsOf, StateTo
    <2>2. \A c \in ChanClients : ch.state[c] = "open" <=> ch.serving = c
      BY DEF ChannelInv
    <2>3. \A c \in ChanClients : ch.state[c] = "open" => Handshake(ch.config.server, Conf(c))
      BY DEF ChannelInv
    <2>4. TRUE \in BOOLEAN
      OBVIOUS
    <2>10. MovesTo(TRUE, ch.serving, ch.state, ch.peer)
      BY <1>0, <2>1, <2>2, <2>3, <2>4, Zenon DEF MovesTo
    <2> QED BY <2>10, StateStep, Zenon
  <1>2. CASE \E c \in ChanClients : CreateClientSocket(c) \/ ServerAccept(c) \/ CloseTaoChannel(c)
    BY <1>2, ConnectionStep
  <1>3. ASSUME NEW c \in ChanClients, NEW n \in Sizes, SendRequest(c, n) PROVE ChannelInv'
    <2>1. n \in Nat /\ ch.up[c] \in Directions /\ DirectionInv(ch.up[c])
      BY <1>0, <1>10, TaoChannelAssumption
    <2>2. /\ ChannelWrite(Conf(c).go, ch.up[c], n) \in Directions
          /\ DirectionInv(ChannelWrite(Conf(c).go, ch.up[c], n))
      BY <2>1, MessageWritten
    <2>3. ch' = [ch EXCEPT !.up[c] = ChannelWrite(Conf(c).go, ch.up[c], n)]
      BY <1>0, <1>3 DEF SendRequest
    <2> QED BY <2>2, <2>3, TrafficStep, Zenon
  <1>4. ASSUME NEW c \in ChanClients, GetRequest(c) PROVE ChannelInv'
    <2>1. ch.down[c] \in Directions /\ DirectionInv(ch.down[c]) /\ Readable(ch.down[c])
      BY <1>0, <1>4, <1>10 DEF GetRequest
    <2>2. /\ SslMessageRead(ch.down[c], ReadSize) \in Directions
          /\ DirectionInv(SslMessageRead(ch.down[c], ReadSize))
      BY <2>1, MessageTaken
    <2>3. ch' = [ch EXCEPT !.down[c] = SslMessageRead(ch.down[c], ReadSize)]
      BY <1>0, <1>4, <1>10 DEF GetRequest
    <2> QED BY <2>2, <2>3, TrafficStep, Zenon
  <1>5. CASE ServerReads
    <2> DEFINE c == ch.serving
    <2>1. /\ c \in ChanClients /\ ch.up[c] \in Directions /\ DirectionInv(ch.up[c])
          /\ Readable(ch.up[c])
      BY <1>0, <1>5, <1>10 DEF ServerReads
    <2>2. /\ SslMessageRead(ch.up[c], ReadSize) \in Directions
          /\ DirectionInv(SslMessageRead(ch.up[c], ReadSize))
      BY <2>1, MessageTaken
    <2>3. ch' = [ch EXCEPT !.up[c] = SslMessageRead(ch.up[c], ReadSize)]
      BY <1>0, <1>5, <1>10 DEF ServerReads
    <2> QED BY <2>1, <2>2, <2>3, TrafficStep, Zenon
  <1>6. ASSUME NEW n \in Sizes, ServerWrites(n) PROVE ChannelInv'
    <2> DEFINE c == ch.serving
               go == ch.config.server.go
    <2>1. n \in Nat /\ c \in ChanClients /\ ch.down[c] \in Directions /\ DirectionInv(ch.down[c])
      BY <1>0, <1>6, <1>10, TaoChannelAssumption DEF ServerWrites
    <2>2. /\ ChannelWrite(go, ch.down[c], n) \in Directions
          /\ DirectionInv(ChannelWrite(go, ch.down[c], n))
      BY <2>1, MessageWritten
    <2>3. ch' = [ch EXCEPT !.down[c] = ChannelWrite(go, ch.down[c], n)]
      BY <1>0, <1>6 DEF ServerWrites
    <2> QED BY <2>1, <2>2, <2>3, TrafficStep, Zenon
  <1>7. CASE ChannelRest
    BY <1>7 DEF ChannelRest, ChannelInv, ChanClients, Conf
  <1> QED BY <1>1, <1>2, <1>3, <1>4, <1>5, <1>6, <1>7 DEF ChannelNext

(***************************************************************************)
(* For any channels, sizes and numbers of messages: a program gets whole   *)
(* messages in the order in which they were sent while each of them fits   *)
(* what the reader asks for, and a peer is served only when verification   *)
(* demanded of it succeeded.                                               *)
(***************************************************************************)
THEOREM ChannelsCarryMessages == ChannelSpec => []ChannelSound
  <1>1. ChannelInit => ChannelInv
    BY ChannelStarts
  <1>2. ChannelInv /\ [ChannelNext]_ch => ChannelInv'
    <2>1. CASE ChannelNext
      BY <2>1, ChannelKeeps
    <2>2. CASE UNCHANGED ch
      BY <2>2 DEF ChannelInv, ChanClients, Conf
    <2> QED BY <2>1, <2>2
  <1>3. ChannelInv => ChannelSound
    <2> SUFFICES ASSUME ChannelInv, NEW c \in ChanClients
                 PROVE  /\ ch.state[c] = "open" =>
                           /\ ch.serving = c
                           /\ ServerVerifies(ch.config.server.mode) => Conf(c).issuer = ch.config.server.policy
                           /\ ClientVerifies(Conf(c).mode) => ch.config.server.issuer = Conf(c).policy
                        /\ Fits(ch.up[c]) => InOrderWhole(ch.up[c])
                        /\ Fits(ch.down[c]) => InOrderWhole(ch.down[c])
      BY DEF ChannelSound
    <2>1. /\ ch.state[c] = "open" => ch.serving = c /\ Handshake(ch.config.server, Conf(c))
          /\ ch.up[c] \in Directions /\ ch.down[c] \in Directions
          /\ DirectionInv(ch.up[c]) /\ DirectionInv(ch.down[c])
      <3>1. ch.up \in [ChanClients -> Directions] /\ ch.down \in [ChanClients -> Directions]
        BY ChannelTypes
      <3> QED BY <3>1 DEF ChannelInv
    <2>2. /\ Fits(ch.up[c]) => InOrderWhole(ch.up[c])
          /\ Fits(ch.down[c]) => InOrderWhole(ch.down[c])
      BY <2>1, ReadInOrder DEF DirectionInv
    <2> QED BY <2>1, <2>2 DEF Handshake
  <1> QED BY <1>1, <1>2, <1>3, PTL DEF ChannelSpec

(***************************************************************************)
(* The three together: what the program built on the client relies on.     *)
(***************************************************************************)
THEOREM TaoClientIsSound == RpcSpec /\ TaoClientSpec /\ ChannelSpec => []TaoClientSound
  BY CallsStayInStep, KeysGoTogether, ChannelsCarryMessages, PTL DEF TaoClientSound
=============================================================================
