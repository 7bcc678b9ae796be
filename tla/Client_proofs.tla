---------------------------- MODULE Client_proofs ----------------------------
(***************************************************************************)
(* Proofs about module Client, for requests and replies of any length, any *)
(* number of calls, any buffers and any cuts of the two streams: the       *)
(* answers belong to their calls as long as nothing was cut short, and the *)
(* prompt is only reached by a client that the server has logged in.       *)
(***************************************************************************)
EXTENDS Client, SequenceTheorems, TLAPS

-----------------------------------------------------------------------------
(* Sequences that are cut and put together again *)

\* The two parts of a sequence that is cut behind its k-th element.
LEMMA Cuts ==
    ASSUME NEW S, NEW q \in Seq(S), NEW k \in 0 .. Len(q)
    PROVE  /\ SubSeq(q, 1, k) \in Seq(S) /\ Len(SubSeq(q, 1, k)) = k
           /\ SubSeq(q, k + 1, Len(q)) \in Seq(S) /\ Len(SubSeq(q, k + 1, Len(q))) = Len(q) - k
           /\ \A i \in 1 .. k : SubSeq(q, 1, k)[i] = q[i]
           /\ \A i \in 1 .. (Len(q) - k) : SubSeq(q, k + 1, Len(q))[i] = q[k + i]
<1>1. PICK n \in Nat : n = Len(q)
  OBVIOUS
<1>2. \A i \in 1 .. n : q[i] \in S
  BY <1>1
<1>3. k \in Nat /\ k <= n /\ k + 1 \in Int
  BY <1>1
<1>4. (\A i \in 1 .. k : q[i] \in S) /\ \A i \in (k + 1) .. n : q[i] \in S
  BY <1>2, <1>3
<1>5. /\ SubSeq(q, 1, k) \in Seq(S)
      /\ Len(SubSeq(q, 1, k)) = IF 1 <= k THEN k - 1 + 1 ELSE 0
      /\ \A i \in 1 .. (k - 1 + 1) : SubSeq(q, 1, k)[i] = q[1 + i - 1]
  BY <1>3, <1>4, SubSeqProperties
<1>6. PICK m \in Nat : m = k + 1
  BY <1>3
<1>7. /\ SubSeq(q, m, n) \in Seq(S)
      /\ Len(SubSeq(q, m, n)) = IF m <= n THEN n - m + 1 ELSE 0
      /\ \A i \in 1 .. (n - m + 1) : SubSeq(q, m, n)[i] = q[m + i - 1]
  BY <1>3, <1>4, <1>6, SubSeqProperties
<1>8. Len(SubSeq(q, 1, k)) = k /\ \A i \in 1 .. k : SubSeq(q, 1, k)[i] = q[i]
  <2>1. k - 1 + 1 = k /\ \A i \in 1 .. k : 1 + i - 1 = i
    BY <1>3
  <2>2. (IF 1 <= k THEN k - 1 + 1 ELSE 0) = k
    BY <1>3
  <2> QED BY <1>5, <2>1, <2>2
<1>9. Len(SubSeq(q, m, n)) = n - k /\ \A i \in 1 .. (n - k) : SubSeq(q, m, n)[i] = q[k + i]
  <2>1. n - m + 1 = n - k /\ \A i \in 1 .. (n - k) : m + i - 1 = k + i
    BY <1>3, <1>6
  <2>2. (IF m <= n THEN n - m + 1 ELSE 0) = n - k
    BY <1>3, <1>6
  <2> QED BY <1>7, <2>1, <2>2
<1> QED BY <1>1, <1>5, <1>6, <1>7, <1>8, <1>9

\* What moves from the front of one buffer to the end of the one before it.
LEMMA Moves ==
    ASSUME NEW S, NEW p \in Seq(S), NEW q \in Seq(S), NEW k \in 0 .. Len(q)
    PROVE  (p \o SubSeq(q, 1, k)) \o SubSeq(q, k + 1, Len(q)) = p \o q
<1>1. PICK a, b : a = SubSeq(q, 1, k) /\ b = SubSeq(q, k + 1, Len(q))
  OBVIOUS
<1>2. /\ a \in Seq(S) /\ Len(a) = k /\ b \in Seq(S) /\ Len(b) = Len(q) - k
      /\ \A i \in 1 .. k : a[i] = q[i]
      /\ \A i \in 1 .. (Len(q) - k) : b[i] = q[k + i]
  BY <1>1, Cuts
<1>3. a \o b = q
  <2>1. a \o b \in Seq(S) /\ Len(a \o b) = Len(a) + Len(b)
    BY <1>2, ConcatProperties
  <2>2. PICK n \in Nat : n = Len(q)
    OBVIOUS
  <2>3. Len(a \o b) = n /\ k \in Nat /\ k <= n
    BY <1>2, <2>1, <2>2
  <2>4. ASSUME NEW i \in 1 .. n PROVE (a \o b)[i] = q[i]
    <3>1. (a \o b)[i] = IF i <= Len(a) THEN a[i] ELSE b[i - Len(a)]
      BY <1>2, <2>1, <2>3, ConcatProperties
    <3>2. CASE i <= k
      BY <1>2, <2>3, <3>1, <3>2
    <3>3. CASE i > k
      <4>1. i - k \in 1 .. (n - k) /\ k + (i - k) = i /\ ~(i <= k)
        BY <2>3, <3>3
      <4> QED BY <1>2, <2>2, <3>1, <4>1
    <3> QED BY <2>3, <3>2, <3>3
  <2> QED BY <2>1, <2>2, <2>3, <2>4, SeqEqual
<1>4. (p \o a) \o b = p \o (a \o b)
  BY SMTT(60), <1>2, ConcatAssociative
<1> QED BY <1>1, <1>3, <1>4

\* What is behind both parts does not matter.  Named, so that they stay opaque.
Cat(p, q)     == p \o q
Cat3(p, q, r) == p \o (q \o r)

\* How three parts are grouped does not matter.
LEMMA CatAssociative ==
    ASSUME NEW S, NEW p \in Seq(S), NEW q \in Seq(S), NEW r \in Seq(S)
    PROVE  Cat3(p, q, r) = Cat(Cat(p, q), r)
BY SMTT(60), ConcatAssociative DEF Cat, Cat3

\* Moving tokens from one buffer to the one before it leaves the whole stream as it is.
LEMMA Regroup ==
    ASSUME NEW S, NEW p \in Seq(S), NEW q \in Seq(S), NEW p1 \in Seq(S), NEW q1 \in Seq(S),
           NEW r \in Seq(S), Cat(p1, q1) = Cat(p, q)
    PROVE  Cat3(p1, q1, r) = Cat3(p, q, r)
BY CatAssociative

\* A stream is empty when its parts are.
LEMMA EmptyParts ==
    ASSUME NEW S, NEW p \in Seq(S), NEW q \in Seq(S)
    PROVE  p \o q = <<>> <=> p = <<>> /\ q = <<>>
<1>1. Len(p \o q) = Len(p) + Len(q) /\ Len(p) \in Nat /\ Len(q) \in Nat
  OBVIOUS
<1>2. /\ p = <<>> <=> Len(p) = 0
      /\ q = <<>> <=> Len(q) = 0
  OBVIOUS
<1>3. p \o q = <<>> <=> Len(p \o q) = 0
  OBVIOUS
<1> QED BY <1>1, <1>2, <1>3

\* An empty part adds nothing.
LEMMA EmptyEnds ==
    ASSUME NEW S, NEW p \in Seq(S)
    PROVE  p \o <<>> = p /\ <<>> \o p = p
BY ConcatEmptySeq

-----------------------------------------------------------------------------
(* Types *)

Results == {Nothing, Err, Null, Other, Hang} \cup
               [type : {"Answer"}, call : 0 .. MaxCalls, ok : BOOLEAN]

\* TypeOK in three parts: the streams, the library's and the program's.
StreamsOK ==
    /\ builder \in Seq(ReqToken) /\ toServer \in Seq(ReqToken) /\ srvbox \in Seq(ReqToken)
    /\ read_buf \in Seq(ReplyToken) /\ toClient \in Seq(ReplyToken) /\ inbox \in Seq(ReplyToken)
BufferOK == read_cap \in Nat /\ Len(read_buf) <= read_cap
ProgramOK ==
    /\ phase \in Phases /\ fd \in {"none", "open", "closed"}
    /\ received \in BOOLEAN /\ clean \in BOOLEAN
    /\ calls \in 0 .. MaxCalls /\ ooms \in 0 .. MaxOom
    /\ result \in Results
    /\ tcp \in {"new", "connecting", "up", "refused", "rst", "closed"}
    /\ srv \in [alive : BOOLEAN, auth : BOOLEAN]

\* The type invariant, split by who changes what.
LEMMA TypeParts == TypeOK <=> StreamsOK /\ BufferOK /\ ProgramOK
BY DEF TypeOK, StreamsOK, BufferOK, ProgramOK, Results

\* A request is req_len tokens and never empty.
LEMMA RequestTyped ==
    ASSUME NEW n \in 1 .. MaxCalls
    PROVE  Request(n) \in Seq(ReqToken) /\ Len(Request(n)) = req_len /\ Request(n) # <<>>
<1>1. req_len \in Nat \ {0}
  BY ClientAssumption
<1>2. \A i \in 1 .. req_len : [call |-> n, i |-> i] \in ReqToken
  BY DEF ReqToken
<1>3. PICK f : f = Request(n)
  OBVIOUS
<1>4. f \in [1 .. req_len -> ReqToken]
  BY <1>2, <1>3 DEF Request
<1>5. f \in Seq(ReqToken) /\ Len(f) = req_len
  BY <1>1, <1>4
<1>6. f # <<>>
  BY <1>1, <1>5
<1> QED BY <1>3, <1>5, <1>6

\* A reply is reply_len tokens and never empty.
LEMMA ReplyTyped ==
    ASSUME NEW n \in 0 .. MaxCalls, NEW ok \in BOOLEAN
    PROVE  /\ Reply(n, ok) \in Seq(ReplyToken) /\ Len(Reply(n, ok)) = reply_len /\ Reply(n, ok) # <<>>
           /\ \A i \in 1 .. reply_len : Reply(n, ok)[i] = [call |-> n, ok |-> ok, i |-> i]
<1>1. reply_len \in Nat \ {0}
  BY ClientAssumption
<1>2. \A i \in 1 .. reply_len : [call |-> n, ok |-> ok, i |-> i] \in ReplyToken
  BY DEF ReplyToken
<1>3. PICK f : f = Reply(n, ok)
  OBVIOUS
<1>4. f \in [1 .. reply_len -> ReplyToken] /\ \A i \in 1 .. reply_len : f[i] = [call |-> n, ok |-> ok, i |-> i]
  BY <1>2, <1>3 DEF Reply
<1>5. f \in Seq(ReplyToken) /\ Len(f) = reply_len
  BY <1>1, <1>4
<1>6. f # <<>>
  BY <1>1, <1>5
<1> QED BY <1>3, <1>4, <1>5, <1>6

\* The server takes what it reads for one of the calls or for none.
LEMMA AskTyped == ASSUME NEW buf \in Seq(ReqToken), buf # <<>> PROVE Asks(buf) \in 0 .. MaxCalls
<1>1. Head(buf) \in ReqToken
  OBVIOUS
<1>2. Head(buf).call \in 0 .. MaxCalls
  BY <1>1 DEF ReqToken
<1>3. MaxCalls \in Nat
  BY ClientAssumption
<1> QED BY <1>2, <1>3 DEF Asks, Nobody

\* What parse_from_server gives is a result.
LEMMA ParseTyped ==
    ASSUME NEW buf \in Seq(ReplyToken), NEW r \in parse_from_server(buf)
    PROVE  r \in Results
<1>1. CASE r \in {Null, Other, Hang}
  BY <1>1 DEF Results
<1>2. CASE r \notin {Null, Other, Hang}
  <2>1. buf # <<>> /\ r = Answer(Head(buf).call, Head(buf).ok)
    BY <1>2 DEF parse_from_server
  <2>2. Head(buf) \in ReplyToken
    BY <2>1
  <2>3. Head(buf).call \in 0 .. MaxCalls /\ Head(buf).ok \in BOOLEAN
    BY <2>2 DEF ReplyToken
  <2>4. r \in [type : {"Answer"}, call : 0 .. MaxCalls, ok : BOOLEAN]
    BY <2>1, <2>3 DEF Answer
  <2> QED BY <2>4 DEF Results
<1> QED BY <1>1, <1>2

\* The smaller of two numbers.
LEMMA SmallerOfTwo ==
    ASSUME NEW x \in Nat, NEW y \in Nat
    PROVE  Min({x, y}) \in {x, y} /\ Min({x, y}) <= x /\ Min({x, y}) <= y
<1>1. \E m \in {x, y} : \A j \in {x, y} : m <= j
  <2>1. CASE x <= y
    BY <2>1
  <2>2. CASE y <= x
    BY <2>2
  <2> QED BY <2>1, <2>2
<1> QED BY <1>1 DEF Min

\* hilexi_write's write takes the front of the builder.
WriteMoves(k) ==
    /\ builder' = SubSeq(builder, k + 1, Len(builder))
    /\ IF srv.alive
       THEN toServer' = toServer \o SubSeq(builder, 1, k) /\ UNCHANGED tcp
       ELSE tcp' \in {"up", "rst"} /\ UNCHANGED toServer

\* A write() moves a beginning of the builder to the socket.
LEMMA WriteCut ==
    ASSUME TypeOK, WriteSome
    PROVE  \E k \in 0 .. Len(builder) : WriteMoves(k)
<1>1. builder \in Seq(ReqToken) /\ toServer \in Seq(ReqToken) /\ srvbox \in Seq(ReqToken)
  BY DEF TypeOK
<1>2. Len(builder) \in Nat /\ SndSpace \in Nat
  <2>1. snd_cap \in Nat /\ Len(toServer) \in Nat /\ Len(srvbox) \in Nat
    BY <1>1, ClientAssumption
  <2>2. SndSpace \in Int /\ SndSpace > 0
    BY <2>1 DEF SndSpace, WriteSome
  <2> QED BY <1>1, <2>2
<1>3. PICK k : k = Min({SndSpace, Len(builder)})
  OBVIOUS
<1>4. k \in 0 .. Len(builder)
  BY <1>2, <1>3, SmallerOfTwo
<1>5. WriteMoves(k)
  BY <1>3 DEF WriteSome, WriteMoves
<1> QED BY <1>4, <1>5

\* hilexi_read's read takes the front of what has arrived.
ReadMoves(k) ==
    /\ read_buf' = read_buf \o SubSeq(inbox, 1, k)
    /\ inbox' = SubSeq(inbox, k + 1, Len(inbox))

\* A read() moves at least one token, and no more than was asked for.
LEMMA ReadCut ==
    ASSUME TypeOK, ReadData
    PROVE  \E k \in 1 .. Len(inbox) : k <= Asked /\ ReadMoves(k)
<1>1. read_buf \in Seq(ReplyToken) /\ inbox \in Seq(ReplyToken) /\ read_cap \in Nat
  BY DEF TypeOK
<1>2. Len(inbox) \in Nat /\ Len(inbox) # 0 /\ Asked \in Nat /\ Asked # 0
  <2>1. Len(read_buf) \in Nat /\ Len(inbox) \in Nat /\ inbox # <<>> /\ Asked > 0
    BY <1>1 DEF ReadData
  <2>2. Len(inbox) # 0
    BY <1>1, <2>1
  <2> QED BY <1>1, <2>1, <2>2 DEF Asked
<1>3. PICK k : k = Min({Asked, Len(inbox)})
  OBVIOUS
<1>4. k \in {Asked, Len(inbox)} /\ k <= Asked /\ k <= Len(inbox)
  BY <1>2, <1>3, SmallerOfTwo
<1>5. k \in 1 .. Len(inbox)
  BY <1>2, <1>4
<1>6. ReadMoves(k)
  BY <1>3 DEF ReadData, ReadMoves
<1> QED BY <1>4, <1>5, <1>6

streamVars == <<builder, toServer, srvbox, read_buf, toClient, inbox>>

\* hilexi_close leaves nothing.
AllEmpty ==
    /\ builder' = <<>> /\ toServer' = <<>> /\ srvbox' = <<>>
    /\ read_buf' = <<>> /\ toClient' = <<>> /\ inbox' = <<>>

\* How a step changes the streams.
StreamSteps ==
    \/ UNCHANGED streamVars
    \/ AllEmpty
    \/ \E n \in 1 .. MaxCalls :
          builder' = builder \o Request(n) /\ UNCHANGED <<toServer, srvbox, read_buf, toClient, inbox>>
    \/ CallAddFails
    \/ WriteSome
    \/ builder' = <<>> /\ UNCHANGED <<toServer, srvbox, read_buf, toClient, inbox>>
    \/ ReadData
    \/ read_buf' = <<>> /\ UNCHANGED <<builder, toServer, srvbox, toClient, inbox>>
    \/ DeliverToServer \/ DeliverToClient \/ ServerAnswers \/ ServerDies

\* The server's answer, with what it says of the login.
LEMMA AnswersBoolean ==
    ASSUME TypeOK, ServerAnswers
    PROVE  \E ok \in BOOLEAN :
              /\ toClient' = toClient \o Reply(Asks(srvbox), ok)
              /\ srv' = [srv EXCEPT !.auth = @ \/ (Asks(srvbox) = 1 /\ ok)]
              /\ Asks(srvbox) # 1 => (ok => srv.auth)
<1>1. srv.auth \in BOOLEAN
  BY DEF TypeOK
<1>2. PICK n : n = Asks(srvbox)
  OBVIOUS
<1>3. PICK ok \in IF n = 1 THEN BOOLEAN ELSE {srv.auth /\ n # Nobody} :
         /\ toClient' = toClient \o Reply(n, ok)
         /\ srv' = [srv EXCEPT !.auth = @ \/ (n = 1 /\ ok)]
  BY <1>2 DEF ServerAnswers
<1>4. ok \in BOOLEAN /\ (n # 1 => (ok => srv.auth))
  BY <1>1, <1>3, Zenon
<1> QED BY <1>2, <1>3, <1>4

\* The steps that touch the streams are these.
LEMMA StepsOnStreams == TypeOK /\ [Next]_vars => StreamSteps
<1> SUFFICES ASSUME TypeOK, [Next]_vars PROVE StreamSteps
  OBVIOUS
<1>1. calls \in 0 .. MaxCalls /\ MaxCalls \in Nat
  BY ClientAssumption DEF TypeOK
<1>2. ASSUME hilexi_new \/ WriteKills \/ realloc_read_buf \/ ReadFails \/ LocalLine \/ Established
      PROVE  StreamSteps
  BY <1>2 DEF hilexi_new, NewOk, NewFails, WriteKills, realloc_read_buf, GrowOk, GrowFails, ReadFails,
      LocalLine, Established, libVars, netVars, streamVars, StreamSteps
<1>3. ASSUME LoginDone \/ ExitLine \/ AuthAddFails PROVE StreamSteps
  BY <1>3 DEF LoginDone, ExitLine, AuthAddFails, Exit, hilexi_close, libVars, netVars, streamVars, StreamSteps, AllEmpty
<1>4. ASSUME FirstConnect \/ NextConnect PROVE StreamSteps
  <2>1. CASE Exit
    BY <2>1 DEF Exit, hilexi_close, AllEmpty, StreamSteps
  <2>2. CASE UNCHANGED <<libVars, toServer, srvbox, toClient, inbox>>
    BY <2>2 DEF libVars, streamVars, StreamSteps
  <2>3. CASE Begins(Request(1)) /\ UNCHANGED <<read_buf, toServer, srvbox, toClient, inbox>>
    <3>1. 1 \in 1 .. MaxCalls /\ builder' = builder \o Request(1)
      BY <1>1, <2>3 DEF Begins
    <3> QED BY <2>3, <3>1 DEF StreamSteps
  <2> QED BY <1>4, <2>1, <2>2, <2>3 DEF FirstConnect, NextConnect, netVars
<1>5. ASSUME CallLine PROVE StreamSteps
  <2>1. calls + 1 \in 1 .. MaxCalls /\ builder' = builder \o Request(calls + 1)
    BY <1>1, <1>5 DEF CallLine, Begins
  <2> QED BY <1>5, <2>1 DEF CallLine, netVars, StreamSteps
<1>6. ASSUME WriteFails PROVE StreamSteps
  BY <1>6 DEF WriteFails, netVars, StreamSteps
<1>7. ASSUME ReadAgain \/ ReadEof PROVE StreamSteps
  BY <1>7 DEF ReadAgain, ReadEof, hilexi_parse, netVars, StreamSteps
<1>8. ASSUME UNCHANGED vars PROVE StreamSteps
  BY <1>8 DEF vars, libVars, netVars, streamVars, StreamSteps
<1> QED BY <1>2, <1>3, <1>4, <1>5, <1>6, <1>7, <1>8 DEF Next, ClientStep, StreamSteps

\* Builder, buffers and wire hold tokens of their own kind.
LEMMA StreamsNext == TypeOK /\ [Next]_vars => StreamsOK'
<1> SUFFICES ASSUME TypeOK, [Next]_vars PROVE StreamsOK'
  OBVIOUS
<1>1. StreamsOK /\ StreamSteps /\ calls \in 0 .. MaxCalls /\ MaxCalls \in Nat
  BY TypeParts, StepsOnStreams, ClientAssumption DEF TypeOK
<1>2. CASE UNCHANGED streamVars
  BY <1>1, <1>2 DEF StreamsOK, streamVars
<1>3. CASE AllEmpty
  BY <1>3 DEF StreamsOK, AllEmpty
<1>4. ASSUME NEW n \in 1 .. MaxCalls, builder' = builder \o Request(n),
             UNCHANGED <<toServer, srvbox, read_buf, toClient, inbox>>
      PROVE  StreamsOK'
  <2>1. builder' \in Seq(ReqToken)
    BY <1>1, <1>4, RequestTyped, ConcatProperties DEF StreamsOK
  <2> QED BY <1>1, <1>4, <2>1 DEF StreamsOK
<1>5. CASE CallAddFails
  <2>1. \/ \E k \in 0 .. (req_len - 1) : builder' = builder \o SubSeq(Request(calls + 1), 1, k)
        \/ builder' \in {builder, NoBuffer, Zeroed}
    BY <1>5 DEF CallAddFails
  <2>2. calls + 1 \in 1 .. MaxCalls /\ req_len \in Nat \ {0}
    BY <1>1, <1>5, ClientAssumption DEF CallAddFails
  <2>3. PICK q : q = Request(calls + 1)
    OBVIOUS
  <2>4. q \in Seq(ReqToken) /\ Len(q) = req_len
    BY <2>2, <2>3, RequestTyped
  <2>5. ASSUME NEW k \in 0 .. (req_len - 1), builder' = builder \o SubSeq(q, 1, k)
        PROVE  builder' \in Seq(ReqToken)
    <3>1. k \in 0 .. Len(q)
      BY <2>2, <2>4
    <3>2. SubSeq(q, 1, k) \in Seq(ReqToken)
      BY <2>4, <3>1, Cuts
    <3> QED BY <1>1, <2>5, <3>2, ConcatProperties DEF StreamsOK
  <2>6. NoBuffer \in Seq(ReqToken) /\ Zeroed \in Seq(ReqToken)
    <3>1. [call |-> 0, i |-> 0] \in ReqToken /\ [call |-> 0, i |-> 1] \in ReqToken
      BY <1>1, <2>2 DEF ReqToken
    <3> QED BY <3>1 DEF NoBuffer, Zeroed, Nobody
  <2>7. builder' \in Seq(ReqToken)
    BY <1>1, <2>1, <2>3, <2>5, <2>6 DEF StreamsOK
  <2> QED BY <1>1, <1>5, <2>7 DEF StreamsOK, CallAddFails, netVars
<1>6. CASE WriteSome
  <2>1. PICK k \in 0 .. Len(builder) : WriteMoves(k)
    BY <1>6, WriteCut
  <2>2. PICK a, b : a = SubSeq(builder, 1, k) /\ b = SubSeq(builder, k + 1, Len(builder))
    OBVIOUS
  <2>3. a \in Seq(ReqToken) /\ b \in Seq(ReqToken)
    BY <1>1, <2>2, Cuts DEF StreamsOK
  <2>4. toServer \o a \in Seq(ReqToken)
    BY <1>1, <2>3, ConcatProperties DEF StreamsOK
  <2>5. builder' = b /\ toServer' \in {toServer, toServer \o a}
    BY <2>1, <2>2 DEF WriteMoves
  <2> QED BY <1>1, <1>6, <2>3, <2>4, <2>5 DEF StreamsOK, WriteSome
<1>7. CASE builder' = <<>> /\ UNCHANGED <<toServer, srvbox, read_buf, toClient, inbox>>
  BY <1>1, <1>7 DEF StreamsOK
<1>8. CASE ReadData
  <2>1. PICK k \in 1 .. Len(inbox) : ReadMoves(k)
    BY <1>8, ReadCut
  <2>2. inbox \in Seq(ReplyToken) /\ k \in 0 .. Len(inbox)
    BY <1>1 DEF StreamsOK
  <2>3. SubSeq(inbox, 1, k) \in Seq(ReplyToken) /\ SubSeq(inbox, k + 1, Len(inbox)) \in Seq(ReplyToken)
    BY <2>2, Cuts
  <2>4. read_buf' \in Seq(ReplyToken) /\ inbox' \in Seq(ReplyToken)
    BY <1>1, <2>1, <2>3, ConcatProperties DEF StreamsOK, ReadMoves
  <2> QED BY <1>1, <1>8, <2>4 DEF StreamsOK, ReadData
<1>9. CASE read_buf' = <<>> /\ UNCHANGED <<builder, toServer, srvbox, toClient, inbox>>
  BY <1>1, <1>9 DEF StreamsOK
<1>10. CASE DeliverToServer
  <2>1. PICK k \in 1 .. Len(toServer) : /\ srvbox' = srvbox \o SubSeq(toServer, 1, k)
                                        /\ toServer' = SubSeq(toServer, k + 1, Len(toServer))
    BY <1>10 DEF DeliverToServer
  <2>2. toServer \in Seq(ReqToken) /\ k \in 0 .. Len(toServer)
    BY <1>1 DEF StreamsOK
  <2>3. SubSeq(toServer, 1, k) \in Seq(ReqToken) /\ SubSeq(toServer, k + 1, Len(toServer)) \in Seq(ReqToken)
    BY <2>2, Cuts
  <2>4. srvbox' \in Seq(ReqToken) /\ toServer' \in Seq(ReqToken)
    BY <1>1, <2>1, <2>3, ConcatProperties DEF StreamsOK
  <2> QED BY <1>1, <1>10, <2>4 DEF StreamsOK, DeliverToServer, libVars
<1>11. CASE DeliverToClient
  <2>1. PICK k \in 1 .. Len(toClient) : /\ inbox' = inbox \o SubSeq(toClient, 1, k)
                                        /\ toClient' = SubSeq(toClient, k + 1, Len(toClient))
    BY <1>11 DEF DeliverToClient
  <2>2. toClient \in Seq(ReplyToken) /\ k \in 0 .. Len(toClient)
    BY <1>1 DEF StreamsOK
  <2>3. SubSeq(toClient, 1, k) \in Seq(ReplyToken) /\ SubSeq(toClient, k + 1, Len(toClient)) \in Seq(ReplyToken)
    BY <2>2, Cuts
  <2>4. inbox' \in Seq(ReplyToken) /\ toClient' \in Seq(ReplyToken)
    BY <1>1, <2>1, <2>3, ConcatProperties DEF StreamsOK
  <2> QED BY <1>1, <1>11, <2>4 DEF StreamsOK, DeliverToClient, libVars
<1>12. CASE ServerAnswers
  <2>1. PICK ok \in BOOLEAN : toClient' = toClient \o Reply(Asks(srvbox), ok)
    BY <1>12, AnswersBoolean DEF ServerAnswers
  <2>2. Asks(srvbox) \in 0 .. MaxCalls
    BY <1>1, <1>12, AskTyped DEF ServerAnswers, StreamsOK
  <2>3. Reply(Asks(srvbox), ok) \in Seq(ReplyToken)
    BY <2>2, ReplyTyped
  <2>4. toClient' \in Seq(ReplyToken)
    BY <1>1, <2>1, <2>3, ConcatProperties DEF StreamsOK
  <2>5. srvbox' = <<>> /\ UNCHANGED <<builder, toServer, read_buf, inbox>>
    BY <1>12 DEF ServerAnswers, libVars
  <2> QED BY <1>1, <2>4, <2>5 DEF StreamsOK
<1>13. CASE ServerDies
  <2>1. toClient' = toClient \/ toClient' \in Prefixes(toClient)
    BY <1>13 DEF ServerDies
  <2>2. toClient' \in Seq(ReplyToken)
    <3>1. CASE toClient' \in Prefixes(toClient)
      <4>1. PICK k \in 0 .. Len(toClient) : toClient' = SubSeq(toClient, 1, k)
        BY <3>1 DEF Prefixes
      <4> QED BY <1>1, <4>1, Cuts DEF StreamsOK
    <3> QED BY <1>1, <2>1, <3>1 DEF StreamsOK
  <2>3. srvbox' = <<>> /\ toServer' = <<>> /\ UNCHANGED <<builder, read_buf, inbox>>
    BY <1>13 DEF ServerDies, libVars
  <2> QED BY <1>1, <2>2, <2>3 DEF StreamsOK
<1> QED BY <1>1, <1>2, <1>3, <1>4, <1>5, <1>6, <1>7, <1>8, <1>9, <1>10, <1>11, <1>12, <1>13 DEF StreamSteps

\* What was read fits the read buffer, through every growth.
LEMMA BufferNext == TypeOK /\ [Next]_vars => BufferOK'
<1> SUFFICES ASSUME TypeOK, [Next]_vars PROVE BufferOK'
  OBVIOUS
<1>1. read_cap \in Nat /\ Len(read_buf) <= read_cap /\ read_buf \in Seq(ReplyToken)
  BY DEF TypeOK
<1>2. CASE UNCHANGED <<read_cap, read_buf>>
  BY <1>1, <1>2 DEF BufferOK
<1>3. CASE UNCHANGED read_cap /\ read_buf' = <<>>
  <2>1. Len(read_buf') = 0
    BY <1>3
  <2> QED BY <1>1, <1>3, <2>1 DEF BufferOK
<1>4. CASE GrowOk
  <2>1. read_cap' = 2 * read_cap /\ read_buf' = read_buf
    BY <1>4 DEF GrowOk
  <2>2. Len(read_buf) \in Nat
    BY <1>1
  <2> QED BY <1>1, <2>1, <2>2 DEF BufferOK
<1>5. CASE ReadData
  <2>1. PICK k \in 1 .. Len(inbox) : k <= Asked /\ ReadMoves(k)
    BY <1>5, ReadCut
  <2>2. inbox \in Seq(ReplyToken) /\ k \in 0 .. Len(inbox)
    BY DEF TypeOK
  <2>3. PICK a : a = SubSeq(inbox, 1, k)
    OBVIOUS
  <2>4. a \in Seq(ReplyToken) /\ Len(a) = k
    BY <2>2, <2>3, Cuts
  <2>5. Len(read_buf') = Len(read_buf) + k
    BY <1>1, <2>1, <2>3, <2>4, ConcatProperties DEF ReadMoves
  <2>6. k <= read_cap - Len(read_buf) /\ Len(read_buf) \in Nat /\ k \in Nat
    BY <1>1, <2>1, <2>2 DEF Asked
  <2>7. read_cap' = read_cap
    BY <1>5 DEF ReadData
  <2> QED BY <1>1, <2>5, <2>6, <2>7 DEF BufferOK
<1>6. \/ UNCHANGED <<read_cap, read_buf>>
      \/ UNCHANGED read_cap /\ read_buf' = <<>>
      \/ GrowOk \/ ReadData
  <2>1. ASSUME hilexi_new \/ WriteSome \/ WriteFails \/ WriteKills \/ GrowFails \/ ReadFails PROVE UNCHANGED <<read_cap, read_buf>>
    BY <2>1 DEF hilexi_new, NewOk, NewFails, WriteSome, WriteFails, WriteKills, GrowFails, ReadFails, libVars
  <2>2. ASSUME FirstConnect \/ NextConnect \/ LoginDone \/ ExitLine \/ AuthAddFails
        PROVE  UNCHANGED <<read_cap, read_buf>> \/ (UNCHANGED read_cap /\ read_buf' = <<>>)
    BY <2>2 DEF FirstConnect, NextConnect, LoginDone, ExitLine, AuthAddFails, Exit, hilexi_close, libVars
  <2>3. ASSUME LocalLine \/ CallLine \/ CallAddFails \/ Established \/ DeliverToServer \/ DeliverToClient
               \/ ServerAnswers \/ ServerDies
        PROVE  UNCHANGED <<read_cap, read_buf>>
    BY <2>3 DEF LocalLine, CallLine, CallAddFails, Established, DeliverToServer, DeliverToClient,
        ServerAnswers, ServerDies, libVars
  <2>4. ASSUME ReadAgain \/ ReadEof PROVE UNCHANGED read_cap /\ read_buf' = <<>>
    BY <2>4 DEF ReadAgain, ReadEof, hilexi_parse
  <2>5. ASSUME UNCHANGED vars PROVE UNCHANGED <<read_cap, read_buf>>
    BY <2>5 DEF vars, libVars
  <2> QED BY <2>1, <2>2, <2>3, <2>4, <2>5 DEF Next, ClientStep, realloc_read_buf
<1> QED BY <1>2, <1>3, <1>4, <1>5, <1>6

\* Nobody's answer, and what the library returns, are results.
LEMMA ResultsAre == {Nothing, Err, Null, Other, Hang} \subseteq Results
BY DEF Results

\* A call that returns r.
LEMMA ReturnTyped ==
    ASSUME ProgramOK, NEW r \in Results, Return(r), UNCHANGED <<fd, received, calls, tcp, srv>>,
           clean' \in BOOLEAN, ooms' \in 0 .. MaxOom
    PROVE  ProgramOK'
<1>1. result' \in Results /\ phase' \in Phases
  BY DEF Return, Phases, Stopped, Calling
<1> QED BY <1>1 DEF ProgramOK

\* The program's own variables keep their types.
LEMMA ProgramNext == TypeOK /\ [Next]_vars => ProgramOK'
<1> SUFFICES ASSUME TypeOK, [Next]_vars PROVE ProgramOK'
  OBVIOUS
<1>1. ProgramOK /\ StreamsOK
  BY TypeParts
<1>2. ooms \in 0 .. MaxOom /\ MaxOom \in Nat /\ calls \in 0 .. MaxCalls /\ MaxCalls \in Nat
  BY ClientAssumption DEF TypeOK
<1>3. CanFail => ooms' \in 0 .. MaxOom
  BY <1>2 DEF CanFail
<1>4. ASSUME hilexi_new PROVE ProgramOK'
  BY <1>1, <1>3, <1>4 DEF hilexi_new, NewOk, NewFails, ProgramOK, netVars, Phases, Stopped, Calling
<1>5. ASSUME Exit, UNCHANGED <<result, calls, srv, ooms, clean>> PROVE ProgramOK'
  BY <1>1, <1>5 DEF Exit, hilexi_close, ProgramOK, Phases, Stopped
<1>6. ASSUME NEW q, Begins(q), phase' = "write", clean' = Quiet, UNCHANGED <<fd, received, srv, ooms>>,
             tcp' \in {tcp, "up"}
      PROVE  ProgramOK'
  <2>1. calls' \in 0 .. MaxCalls
    BY <1>2, <1>6 DEF Begins
  <2>2. result' \in Results /\ clean' \in BOOLEAN
    BY <1>6, ResultsAre DEF Begins, Quiet
  <2> QED BY <1>1, <1>6, <2>1, <2>2 DEF ProgramOK, Phases, Calling
<1>7. ASSUME FirstConnect \/ NextConnect PROVE ProgramOK'
  <2>1. CASE Exit /\ UNCHANGED <<result, calls, clean>>
    BY <1>5, <1>7, <2>1 DEF FirstConnect, NextConnect
  <2>2. CASE tcp' \in {tcp, "up"} /\ phase' = "write" /\ Begins(Request(1)) /\ clean' = Quiet /\ UNCHANGED <<fd, received>>
    BY <1>6, <1>7, <2>2 DEF FirstConnect, NextConnect
  <2>3. CASE tcp' = "connecting" /\ UNCHANGED <<phase, libVars, result, calls, clean>>
    BY <1>1, <1>7, <2>3 DEF FirstConnect, NextConnect, ProgramOK, libVars
  <2> QED BY <1>7, <2>1, <2>2, <2>3 DEF FirstConnect, NextConnect, netVars
<1>8. ASSUME LoginDone \/ ExitLine PROVE ProgramOK'
  <2>1. CASE phase' = "prompt" /\ UNCHANGED <<libVars, netVars, result, calls, srv, ooms, clean>>
    BY <1>1, <2>1 DEF ProgramOK, libVars, netVars, Phases
  <2> QED BY <1>5, <1>8, <2>1 DEF LoginDone, ExitLine
<1>22. ASSUME AuthAddFails PROVE ProgramOK'
  <2>1. calls' \in 0 .. MaxCalls /\ ooms' \in 0 .. MaxOom /\ result' \in Results
    BY <1>2, <1>3, <1>22, ResultsAre DEF AuthAddFails
  <2> QED BY <1>1, <1>22, <2>1 DEF AuthAddFails, Exit, hilexi_close, ProgramOK, Phases, Stopped
<1>9. ASSUME LocalLine PROVE ProgramOK'
  BY <1>1, <1>9, ResultsAre DEF LocalLine, ProgramOK, libVars, netVars
<1>10. ASSUME CallLine PROVE ProgramOK'
  BY <1>6, <1>10 DEF CallLine, netVars
<1>11. ASSUME CallAddFails PROVE ProgramOK'
  <2>1. calls' \in 0 .. MaxCalls /\ ooms' \in 0 .. MaxOom /\ result' \in Results
    BY <1>2, <1>3, <1>11, ResultsAre DEF CallAddFails
  <2> QED BY <1>1, <1>11, <2>1 DEF CallAddFails, ProgramOK, netVars
<1>12. ASSUME WriteSome PROVE ProgramOK'
  <2>1. PICK k : WriteMoves(k)
    BY <1>12, WriteCut
  <2>2. tcp' \in {tcp, "up", "rst"} /\ phase' \in Phases /\ received' = FALSE
    BY <1>12, <2>1 DEF WriteMoves, WriteSome, Phases, Calling
  <2> QED BY <1>1, <1>12, <2>2 DEF WriteSome, ProgramOK
<1>13. ASSUME WriteFails \/ ReadFails PROVE ProgramOK'
  <2>1. /\ Return(Err) /\ UNCHANGED <<fd, received, calls, tcp, srv, ooms>> /\ clean' = FALSE
    BY <1>13 DEF WriteFails, ReadFails, netVars, libVars
  <2> QED BY <1>1, <1>2, <2>1, ReturnTyped, ResultsAre
<1>14. ASSUME WriteKills PROVE ProgramOK'
  BY <1>1, <1>14 DEF WriteKills, ProgramOK, netVars, libVars, Phases, Stopped
<1>15. ASSUME realloc_read_buf PROVE ProgramOK'
  <2>1. CASE GrowOk
    BY <1>1, <2>1 DEF GrowOk, ProgramOK, netVars
  <2>2. CASE GrowFails
    <3>1. Return(Err) /\ UNCHANGED <<fd, received, calls, tcp, srv>> /\ clean' = FALSE /\ CanFail
      BY <2>2 DEF GrowFails, netVars, libVars
    <3> QED BY <1>1, <1>3, <3>1, ReturnTyped, ResultsAre
  <2> QED BY <1>15, <2>1, <2>2 DEF realloc_read_buf
<1>16. ASSUME ReadData PROVE ProgramOK'
  BY <1>1, <1>16 DEF ReadData, ProgramOK
<1>17. ASSUME ReadAgain \/ ReadEof PROVE ProgramOK'
  <2>1. hilexi_parse /\ UNCHANGED <<fd, received, calls, tcp, srv, ooms>>
    BY <1>17 DEF ReadAgain, ReadEof, netVars
  <2>2. clean' \in BOOLEAN
    BY <1>1, <1>17 DEF ReadAgain, ReadEof, ProgramOK
  <2>3. PICK r \in parse_from_server(read_buf) : Return(r)
    BY <2>1 DEF hilexi_parse
  <2>4. r \in Results
    BY <1>1, <2>3, ParseTyped DEF StreamsOK
  <2> QED BY <1>1, <1>2, <2>1, <2>2, <2>3, <2>4, ReturnTyped
<1>18. ASSUME Established \/ DeliverToServer \/ DeliverToClient PROVE ProgramOK'
  BY <1>1, <1>18 DEF Established, DeliverToServer, DeliverToClient, ProgramOK, libVars
<1>19. ASSUME ServerAnswers PROVE ProgramOK'
  <2>1. PICK ok \in BOOLEAN : srv' = [srv EXCEPT !.auth = @ \/ (Asks(srvbox) = 1 /\ ok)]
    BY <1>19, AnswersBoolean
  <2>2. srv' \in [alive : BOOLEAN, auth : BOOLEAN]
    BY <1>1, <2>1 DEF ProgramOK
  <2>3. clean' \in BOOLEAN
    BY <1>19 DEF ServerAnswers
  <2> QED BY <1>1, <1>19, <2>2, <2>3 DEF ServerAnswers, ProgramOK, libVars
<1>20. ASSUME ServerDies PROVE ProgramOK'
  <2>1. srv' \in [alive : BOOLEAN, auth : BOOLEAN] /\ tcp' \in {tcp, "rst"}
    BY <1>20 DEF ServerDies
  <2> QED BY <1>1, <1>20, <2>1 DEF ServerDies, ProgramOK, libVars
<1>21. ASSUME UNCHANGED vars PROVE ProgramOK'
  BY <1>1, <1>21 DEF vars, ProgramOK, libVars, netVars
<1> QED BY <1>4, <1>7, <1>8, <1>9, <1>10, <1>11, <1>12, <1>13, <1>14, <1>15, <1>16, <1>17, <1>18, <1>19,
           <1>20, <1>21, <1>22 DEF Next, ClientStep

\* The program starts well-typed.
LEMMA TypeInit == Init => TypeOK
<1> SUFFICES ASSUME Init PROVE TypeOK
  OBVIOUS
<1>1. StreamsOK
  BY DEF Init, StreamsOK
<1>2. BufferOK
  <2>1. Len(read_buf) = 0 /\ read_cap \in Nat
    BY ClientAssumption DEF Init
  <2> QED BY <2>1 DEF BufferOK
<1>3. ProgramOK
  <2>1. srv \in [alive : BOOLEAN, auth : BOOLEAN]
    BY DEF Init
  <2>2. calls \in 0 .. MaxCalls /\ ooms \in 0 .. MaxOom
    BY ClientAssumption DEF Init
  <2>3. result \in Results /\ phase \in Phases
    BY ResultsAre DEF Init, Phases
  <2> QED BY <2>1, <2>2, <2>3 DEF Init, ProgramOK
<1> QED BY <1>1, <1>2, <1>3, TypeParts

\* Every step keeps the types.
LEMMA TypeNext == TypeOK /\ [Next]_vars => TypeOK'
<1>1. StreamsOK' /\ BufferOK' /\ ProgramOK' => TypeOK'
  BY TypeParts, PTL
<1> QED BY <1>1, StreamsNext, BufferNext, ProgramNext

\* The library's variables keep their types, and what it has read never exceeds its
\* buffer (hilexi.c, hilexi_read).
THEOREM ClientTypeCorrect == Spec => []TypeOK
<1> QED BY TypeInit, TypeNext, PTL DEF Spec

-----------------------------------------------------------------------------
(* The login *)

LoggedIn == srv.auth \/ ~srv.alive

\* Something in q says that a request was accepted.
Says(q) == \E i \in DOMAIN q : q[i].ok
Said    == Says(read_buf) \/ Says(inbox) \/ Says(toClient)

\* The inductive invariant about the login: the server has accepted AUTH before
\* anything says so, and before the library makes another request.
LoginOK ==
    /\ phase \in {"start", "connect"} => calls = 0
    /\ Said => LoggedIn
    /\ result.type = "Answer" /\ result.ok => LoggedIn
    /\ phase = "prompt" => LoggedIn
    /\ phase \in Calling /\ calls # 1 => LoggedIn
    /\ phase \in Calling => calls # 0

\* A stream says OK when one of its parts does; cutting it invents no OK.
LEMMA SaysParts ==
    ASSUME NEW S, NEW p \in Seq(S), NEW q \in Seq(S)
    PROVE  /\ Says(p \o q) => Says(p) \/ Says(q)
           /\ \A k \in 0 .. Len(q) : Says(SubSeq(q, 1, k)) \/ Says(SubSeq(q, k + 1, Len(q))) => Says(q)
           /\ ~Says(<<>>)
<1>1. ASSUME Says(p \o q) PROVE Says(p) \/ Says(q)
  <2>1. PICK r : r = p \o q
    OBVIOUS
  <2>2. r \in Seq(S) /\ Len(r) = Len(p) + Len(q)
        /\ \A i \in 1 .. Len(r) : r[i] = IF i <= Len(p) THEN p[i] ELSE q[i - Len(p)]
    BY <2>1, ConcatProperties
  <2>3. PICK i \in DOMAIN r : r[i].ok
    BY <1>1, <2>1 DEF Says
  <2>4. i \in 1 .. Len(r) /\ Len(p) \in Nat /\ Len(q) \in Nat
    BY <2>2
  <2>5. CASE i <= Len(p)
    <3>1. i \in DOMAIN p /\ r[i] = p[i]
      BY <2>2, <2>4, <2>5
    <3> QED BY <2>3, <3>1 DEF Says
  <2>6. CASE ~(i <= Len(p))
    <3>1. i - Len(p) \in 1 .. Len(q) /\ r[i] = q[i - Len(p)]
      BY <2>2, <2>4, <2>6
    <3>2. i - Len(p) \in DOMAIN q
      BY <3>1
    <3> QED BY <2>3, <3>1, <3>2 DEF Says
  <2> QED BY <2>5, <2>6
<1>2. ASSUME NEW k \in 0 .. Len(q), Says(SubSeq(q, 1, k)) PROVE Says(q)
  <2>1. PICK r : r = SubSeq(q, 1, k)
    OBVIOUS
  <2>2. r \in Seq(S) /\ Len(r) = k /\ \A i \in 1 .. k : r[i] = q[i]
    BY <2>1, Cuts
  <2>3. PICK i \in DOMAIN r : r[i].ok
    BY <1>2, <2>1 DEF Says
  <2>4. i \in 1 .. k /\ i \in DOMAIN q
    BY <2>2
  <2> QED BY <2>2, <2>3, <2>4 DEF Says
<1>3. ASSUME NEW k \in 0 .. Len(q), Says(SubSeq(q, k + 1, Len(q))) PROVE Says(q)
  <2>1. PICK r : r = SubSeq(q, k + 1, Len(q))
    OBVIOUS
  <2>2. r \in Seq(S) /\ Len(r) = Len(q) - k /\ \A i \in 1 .. (Len(q) - k) : r[i] = q[k + i]
    BY <2>1, Cuts
  <2>3. PICK i \in DOMAIN r : r[i].ok
    BY <1>3, <2>1 DEF Says
  <2>4. i \in 1 .. (Len(q) - k) /\ Len(q) \in Nat
    BY <2>2
  <2>5. k + i \in 1 .. Len(q)
    BY <2>4
  <2>6. k + i \in DOMAIN q
    BY <2>5
  <2> QED BY <2>2, <2>3, <2>4, <2>6 DEF Says
<1> QED BY <1>1, <1>2, <1>3 DEF Says

\* A login is lost only with the server.
LEMMA LoggedInStays == TypeOK /\ [Next]_vars /\ LoggedIn => LoggedIn'
<1> SUFFICES ASSUME TypeOK, [Next]_vars, LoggedIn PROVE LoggedIn'
  OBVIOUS
<1>1. srv \in [alive : BOOLEAN, auth : BOOLEAN]
  BY DEF TypeOK
<1>2. CASE srv' = srv
  BY <1>2 DEF LoggedIn
<1>3. CASE ServerAnswers
  <2>1. PICK ok \in BOOLEAN : srv' = [srv EXCEPT !.auth = @ \/ (Asks(srvbox) = 1 /\ ok)]
    BY <1>3, AnswersBoolean
  <2>2. srv'.alive = srv.alive /\ srv'.auth = (srv.auth \/ (Asks(srvbox) = 1 /\ ok))
    BY <1>1, <2>1
  <2> QED BY <2>2 DEF LoggedIn
<1>4. CASE ServerDies
  <2>1. srv'.alive = FALSE
    BY <1>4 DEF ServerDies
  <2> QED BY <2>1 DEF LoggedIn
<1>5. srv' = srv \/ ServerAnswers \/ ServerDies
  <2>1. ASSUME ClientStep PROVE srv' = srv
    BY <2>1 DEF ClientStep, hilexi_new, NewOk, NewFails, FirstConnect, NextConnect, AuthAddFails, LoginDone, WriteSome,
        WriteFails, WriteKills, realloc_read_buf, GrowOk, GrowFails, ReadData, ReadAgain, ReadEof, ReadFails
  <2>2. ASSUME LocalLine \/ ExitLine \/ CallLine \/ CallAddFails \/ Established \/ DeliverToServer
               \/ DeliverToClient
        PROVE  srv' = srv
    BY <2>2 DEF LocalLine, ExitLine, CallLine, CallAddFails, Established, DeliverToServer, DeliverToClient
  <2>3. ASSUME UNCHANGED vars PROVE srv' = srv
    BY <2>3 DEF vars
  <2> QED BY <2>1, <2>2, <2>3 DEF Next
<1> QED BY <1>2, <1>3, <1>4, <1>5

\* An OK is only sent by a server that has accepted AUTH, or accepts it now.
LEMMA SaidNext == TypeOK /\ LoginOK /\ [Next]_vars => (Said' => LoggedIn')
<1> SUFFICES ASSUME TypeOK, LoginOK, [Next]_vars, Said' PROVE LoggedIn'
  OBVIOUS
<1>1. StreamsOK /\ StreamSteps /\ (Said => LoggedIn')
  BY TypeParts, StepsOnStreams, LoggedInStays DEF LoginOK
<1>2. read_buf \in Seq(ReplyToken) /\ toClient \in Seq(ReplyToken) /\ inbox \in Seq(ReplyToken)
  BY <1>1 DEF StreamsOK
<1>3. SUFFICES ASSUME ~LoggedIn' PROVE Said
  BY <1>1
<1>4. ~Says(<<>>)
  BY DEF Says
<1>5. CASE UNCHANGED <<read_buf, inbox, toClient>>
  BY <1>5 DEF Said, Says
<1>6. CASE AllEmpty
  BY <1>4, <1>6 DEF Said, AllEmpty
<1>7. CASE ReadData
  <2>1. PICK k \in 1 .. Len(inbox) : ReadMoves(k)
    BY <1>7, ReadCut
  <2>2. k \in 0 .. Len(inbox)
    OBVIOUS
  <2>3. PICK a, b : a = SubSeq(inbox, 1, k) /\ b = SubSeq(inbox, k + 1, Len(inbox))
    OBVIOUS
  <2>4. a \in Seq(ReplyToken)
    BY <1>2, <2>2, <2>3, Cuts
  <2>5. read_buf' = read_buf \o a /\ inbox' = b /\ toClient' = toClient
    BY <1>7, <2>1, <2>3 DEF ReadMoves, ReadData
  <2>6. Says(a) \/ Says(b) => Says(inbox)
    BY <1>2, <2>2, <2>3, SaysParts
  <2>7. Says(read_buf \o a) => Says(read_buf) \/ Says(a)
    BY <1>2, <2>4, SaysParts
  <2>8. Says(read_buf)' = Says(read_buf \o a) /\ Says(inbox)' = Says(b) /\ Says(toClient)' = Says(toClient)
    BY <2>5 DEF Says
  <2> QED BY <2>6, <2>7, <2>8 DEF Said
<1>8. CASE read_buf' = <<>> /\ UNCHANGED <<toClient, inbox>>
  BY <1>4, <1>8 DEF Said, Says
<1>9. CASE DeliverToClient
  <2>1. PICK k \in 1 .. Len(toClient) : /\ inbox' = inbox \o SubSeq(toClient, 1, k)
                                        /\ toClient' = SubSeq(toClient, k + 1, Len(toClient))
    BY <1>9 DEF DeliverToClient
  <2>2. k \in 0 .. Len(toClient)
    OBVIOUS
  <2>3. PICK a, b : a = SubSeq(toClient, 1, k) /\ b = SubSeq(toClient, k + 1, Len(toClient))
    OBVIOUS
  <2>4. a \in Seq(ReplyToken)
    BY <1>2, <2>2, <2>3, Cuts
  <2>5. inbox' = inbox \o a /\ toClient' = b /\ read_buf' = read_buf
    BY <1>9, <2>1, <2>3 DEF DeliverToClient, libVars
  <2>6. Says(a) \/ Says(b) => Says(toClient)
    BY <1>2, <2>2, <2>3, SaysParts
  <2>7. Says(inbox \o a) => Says(inbox) \/ Says(a)
    BY <1>2, <2>4, SaysParts
  <2>8. Says(inbox)' = Says(inbox \o a) /\ Says(toClient)' = Says(b) /\ Says(read_buf)' = Says(read_buf)
    BY <2>5 DEF Says
  <2> QED BY <2>6, <2>7, <2>8 DEF Said
<1>10. CASE ServerAnswers
  <2>1. PICK ok \in BOOLEAN :
           /\ toClient' = toClient \o Reply(Asks(srvbox), ok)
           /\ srv' = [srv EXCEPT !.auth = @ \/ (Asks(srvbox) = 1 /\ ok)]
           /\ Asks(srvbox) # 1 => (ok => srv.auth)
    BY <1>10, AnswersBoolean
  <2>2. srv \in [alive : BOOLEAN, auth : BOOLEAN]
    BY DEF TypeOK
  <2>3. ok => LoggedIn'
    <3>1. srv'.auth = (srv.auth \/ (Asks(srvbox) = 1 /\ ok))
      BY <2>1, <2>2
    <3> QED BY <2>1, <3>1 DEF LoggedIn
  <2>4. PICK r : r = Reply(Asks(srvbox), ok)
    OBVIOUS
  <2>5. Asks(srvbox) \in 0 .. MaxCalls
    BY <1>1, <1>10, AskTyped DEF ServerAnswers, StreamsOK
  <2>6. /\ r \in Seq(ReplyToken) /\ Len(r) = reply_len
        /\ \A i \in 1 .. reply_len : r[i] = [call |-> Asks(srvbox), ok |-> ok, i |-> i]
    BY <2>4, <2>5, ReplyTyped
  <2>7. Says(r) => ok
    <3>1. DOMAIN r = 1 .. reply_len
      BY <2>6
    <3> QED BY <2>6, <3>1 DEF Says
  <2>8. Says(toClient \o r) => Says(toClient) \/ Says(r)
    BY <1>2, <2>6, SaysParts
  <2>9. Says(toClient)' = Says(toClient \o r) /\ Says(inbox)' = Says(inbox) /\ Says(read_buf)' = Says(read_buf)
    BY <1>10, <2>1, <2>4 DEF ServerAnswers, libVars, Says
  <2> QED BY <1>3, <2>3, <2>7, <2>8, <2>9 DEF Said
<1>11. CASE ServerDies
  <2>1. srv'.alive = FALSE
    BY <1>11 DEF ServerDies
  <2> QED BY <1>3, <2>1 DEF LoggedIn
<1>12. CASE CallAddFails \/ WriteSome \/ DeliverToServer
  BY <1>5, <1>12 DEF CallAddFails, WriteSome, DeliverToServer, netVars, libVars
<1> QED BY <1>1, <1>5, <1>6, <1>7, <1>8, <1>9, <1>10, <1>11, <1>12 DEF StreamSteps, streamVars

\* The results that are no answer.
LEMMA NoAnswers ==
    /\ Nothing.type # "Answer" /\ Err.type # "Answer" /\ Null.type # "Answer"
    /\ Other.type # "Answer" /\ Hang.type # "Answer"
    /\ Err # Hang /\ Null # Hang /\ Nothing # Null /\ Nothing # Other /\ Nothing # Hang
    /\ Err # Null /\ Err # Other
BY DEF Nothing, Err, Null, Other, Hang

\* What is parsed from the buffer says no more than the buffer.
LEMMA ParsedIsSaid ==
    ASSUME NEW buf \in Seq(ReplyToken), NEW r \in parse_from_server(buf), r.type = "Answer", r.ok
    PROVE  Says(buf)
<1>1. buf # <<>> /\ r = Answer(Head(buf).call, Head(buf).ok)
  BY NoAnswers DEF parse_from_server
<1>2. r.ok = Head(buf).ok
  BY <1>1 DEF Answer
<1>3. Head(buf) = buf[1] /\ 1 \in DOMAIN buf
  BY <1>1
<1> QED BY <1>2, <1>3 DEF Says

\* Every step keeps the login invariant.
LEMMA LoginNext == TypeOK /\ LoginOK /\ [Next]_vars => LoginOK'
<1> SUFFICES ASSUME TypeOK, LoginOK, [Next]_vars PROVE LoginOK'
  OBVIOUS
<1>1. (Said' => LoggedIn') /\ (LoggedIn => LoggedIn')
  BY SaidNext, LoggedInStays
<1>2. calls \in 0 .. MaxCalls /\ read_buf \in Seq(ReplyToken)
  BY DEF TypeOK
<1>3. ASSUME UNCHANGED <<phase, result, calls>> PROVE LoginOK'
  BY <1>1, <1>3 DEF LoginOK
<1>4. ASSUME phase' \in Stopped, UNCHANGED <<result, calls>> PROVE LoginOK'
  BY <1>1, <1>4 DEF LoginOK, Stopped, Calling
<1>5. ASSUME hilexi_new PROVE LoginOK'
  BY <1>1, <1>4, <1>5 DEF hilexi_new, NewOk, NewFails, LoginOK, Stopped, Calling
<1>6. ASSUME FirstConnect \/ NextConnect PROVE LoginOK'
  <2>1. CASE Exit /\ UNCHANGED <<result, calls>>
    BY <1>4, <2>1 DEF Exit, Stopped
  <2>2. CASE UNCHANGED <<phase, result, calls>>
    BY <1>3, <2>2
  <2>3. CASE phase = "connect" /\ phase' = "write" /\ Begins(Request(1))
    <3>1. calls' = 1 /\ result' = Nothing
      BY <2>3 DEF Begins, LoginOK
    <3> QED BY <1>1, <2>3, <3>1, NoAnswers DEF LoginOK
  <2> QED BY <1>6, <2>1, <2>2, <2>3 DEF FirstConnect, NextConnect
<1>15. ASSUME AuthAddFails PROVE LoginOK'
  <2>1. phase' = "exited" /\ result' = Err
    BY <1>15 DEF AuthAddFails, Exit
  <2> QED BY <1>1, <2>1, NoAnswers DEF LoginOK, Calling
<1>7. ASSUME LoginDone PROVE LoginOK'
  <2>1. CASE result.type = "Answer" /\ result.ok
    <3>1. LoggedIn' /\ phase' = "prompt" /\ UNCHANGED result
      BY <1>1, <1>7, <2>1 DEF LoginDone, LoginOK
    <3> QED BY <3>1 DEF LoginOK, Calling
  <2>2. CASE ~(result.type = "Answer" /\ result.ok)
    BY <1>4, <1>7, <2>2 DEF LoginDone, Exit, Stopped
  <2> QED BY <2>1, <2>2
<1>8. ASSUME ExitLine \/ WriteKills PROVE LoginOK'
  BY <1>4, <1>8 DEF ExitLine, WriteKills, Exit, Stopped
<1>9. ASSUME LocalLine \/ CallLine \/ CallAddFails PROVE LoginOK'
  <2>1. /\ phase = "prompt" /\ phase' \in {"prompt", "write"} /\ result' \in {Nothing, Err}
    BY <1>9 DEF LocalLine, CallLine, CallAddFails, Begins
  <2>2. LoggedIn'
    BY <1>1, <2>1 DEF LoginOK
  <2>3. phase' = "write" => calls' # 0
    BY <1>2, <1>9, <2>1 DEF LocalLine, CallLine, CallAddFails, Begins
  <2> QED BY <2>1, <2>2, <2>3 DEF LoginOK, Calling
<1>10. ASSUME WriteSome PROVE LoginOK'
  <2>1. phase = "write" /\ phase' \in {"write", "read"} /\ UNCHANGED <<result, calls>>
    BY <1>10 DEF WriteSome
  <2> QED BY <1>1, <2>1 DEF LoginOK, Calling
<1>11. ASSUME NEW r, Return(r), phase \in Calling, UNCHANGED calls, r.type = "Answer" /\ r.ok => LoggedIn
       PROVE  LoginOK'
  <2>1. result' = r /\ phase' \in {"hung", "login", "prompt"} /\ (phase' = "prompt" => calls # 1)
    BY <1>11 DEF Return
  <2>2. calls # 1 => LoggedIn'
    BY <1>1, <1>11 DEF LoginOK
  <2>3. result'.type = "Answer" /\ result'.ok => LoggedIn'
    BY <1>1, <1>11, <2>1
  <2> QED BY <1>1, <2>1, <2>2, <2>3 DEF LoginOK, Calling
<1>12. ASSUME WriteFails \/ ReadFails \/ GrowFails PROVE LoginOK'
  <2>1. Return(Err) /\ phase \in Calling /\ UNCHANGED calls
    BY <1>12 DEF WriteFails, ReadFails, GrowFails, Reads, Calling
  <2> QED BY <1>11, <2>1, NoAnswers
<1>13. ASSUME ReadAgain \/ ReadEof PROVE LoginOK'
  <2>1. hilexi_parse /\ phase \in Calling /\ UNCHANGED calls
    BY <1>13 DEF ReadAgain, ReadEof, Reads, Calling
  <2>2. PICK r \in parse_from_server(read_buf) : Return(r)
    BY <2>1 DEF hilexi_parse
  <2>3. r.type = "Answer" /\ r.ok => LoggedIn
    BY <1>2, <2>2, ParsedIsSaid DEF LoginOK, Said
  <2> QED BY <1>11, <2>1, <2>2, <2>3
<1>14. ASSUME GrowOk \/ ReadData \/ Established \/ DeliverToServer \/ DeliverToClient \/ ServerAnswers
              \/ ServerDies \/ UNCHANGED vars
       PROVE  LoginOK'
  BY <1>3, <1>14 DEF GrowOk, ReadData, Established, DeliverToServer, DeliverToClient, ServerAnswers,
      ServerDies, vars
<1> QED BY <1>5, <1>6, <1>7, <1>8, <1>9, <1>10, <1>12, <1>13, <1>14, <1>15
    DEF Next, ClientStep, realloc_read_buf

\* Nobody has said anything at the start.
LEMMA LoginInit == Init => LoginOK
BY NoAnswers DEF Init, LoginOK, Said, Says, Calling

\* main's prompt is only reached by a connection that the server has logged in, or that
\* has since lost its server, however connect and AUTH were cut (lexi-cli.c, main;
\* hilexi.c, hilexi_authenticate).
THEOREM PromptMeansLoggedIn == Spec => []LoggedInOnBothSides
<1>1. LoginOK => LoggedInOnBothSides
  BY DEF LoginOK, LoggedInOnBothSides, LoggedIn
<1> QED BY <1>1, TypeInit, TypeNext, LoginInit, LoginNext, PTL DEF Spec

-----------------------------------------------------------------------------
(* Requests and answers *)

\* What is on its way to the server, and what is on its way back.
Asking  == srvbox \o (toServer \o builder)
Replied == read_buf \o (inbox \o toClient)

\* During a call that began with nothing under way and was not cut, there is either
\* its own request, of which a server that died leaves what was not written, or its
\* own answer.
InStep ==
    \/ /\ Replied = <<>>
       /\ srv.alive => Asking = Request(calls)
       /\ ~srv.alive => srvbox = <<>> /\ toServer = <<>>
    \/ Asking = <<>> /\ \E ok \in BOOLEAN : Replied = Reply(calls, ok)

\* Between calls.
Idle == {"start", "connect", "login", "prompt"}

\* The inductive invariant about requests and answers.
StepOK ==
    /\ phase = "read" => builder = <<>> /\ (received => read_buf # <<>>)
    /\ clean /\ phase \in Calling => InStep
    /\ clean /\ phase \in Idle => Quiet
    /\ AnswerIsOwn

\* What an empty stream says of the buffers it passes through.
EmptyStreams ==
    /\ Asking = <<>> <=> srvbox = <<>> /\ toServer = <<>> /\ builder = <<>>
    /\ Replied = <<>> <=> read_buf = <<>> /\ inbox = <<>> /\ toClient = <<>>
    /\ toServer = <<>> /\ builder = <<>> => Asking = srvbox
    /\ inbox = <<>> /\ toClient = <<>> => Replied = read_buf
    /\ read_buf = <<>> /\ inbox = <<>> => Replied = toClient
    /\ srvbox = <<>> /\ toServer = <<>> => Asking = builder

\* Which buffers are empty when a stream is, and which one it consists of then.
LEMMA EmptyAsking == StreamsOK => EmptyStreams
<1> SUFFICES ASSUME StreamsOK PROVE EmptyStreams
  OBVIOUS
<1>1. toServer \o builder \in Seq(ReqToken) /\ inbox \o toClient \in Seq(ReplyToken)
  BY ConcatProperties DEF StreamsOK
<1>2. Asking = <<>> <=> srvbox = <<>> /\ toServer \o builder = <<>>
  BY <1>1, EmptyParts DEF StreamsOK, Asking
<1>3. Replied = <<>> <=> read_buf = <<>> /\ inbox \o toClient = <<>>
  BY <1>1, EmptyParts DEF StreamsOK, Replied
<1>4. /\ toServer \o builder = <<>> <=> toServer = <<>> /\ builder = <<>>
      /\ inbox \o toClient = <<>> <=> inbox = <<>> /\ toClient = <<>>
  BY EmptyParts DEF StreamsOK
<1>5. srvbox \o <<>> = srvbox /\ read_buf \o <<>> = read_buf
  BY EmptyEnds DEF StreamsOK
<1>6. <<>> \o builder = builder /\ <<>> \o toClient = toClient
  BY EmptyEnds DEF StreamsOK
<1>7. toServer = <<>> /\ builder = <<>> => Asking = srvbox
  BY <1>4, <1>5 DEF Asking
<1>8. inbox = <<>> /\ toClient = <<>> => Replied = read_buf
  BY <1>4, <1>5 DEF Replied
<1>9. read_buf = <<>> /\ inbox = <<>> => Replied = toClient
  BY <1>6 DEF Replied
<1>10. srvbox = <<>> /\ toServer = <<>> => Asking = builder
  BY <1>6 DEF Asking
<1> QED BY <1>2, <1>3, <1>4, <1>7, <1>8, <1>9, <1>10 DEF EmptyStreams

\* The server understands a whole request, and the library a whole answer.
LEMMA AsksItsCall == ASSUME NEW n \in 1 .. MaxCalls PROVE Asks(Request(n)) = n
<1>1. PICK q : q = Request(n)
  OBVIOUS
<1>2. q \in Seq(ReqToken) /\ Len(q) = req_len /\ q # <<>> /\ req_len \in Nat \ {0}
  BY <1>1, RequestTyped, ClientAssumption
<1>3. SubSeq(q, 1, req_len) = q
  BY <1>2, SubSeqFull
<1>4. Head(q) = q[1] /\ 1 \in 1 .. req_len
  BY <1>2
<1>5. q[1] = [call |-> n, i |-> 1]
  BY <1>1, <1>4 DEF Request
<1>6. Head(q).call = n
  BY <1>4, <1>5
<1>7. Len(q) >= req_len
  BY <1>2
<1> QED BY <1>1, <1>3, <1>6, <1>7 DEF Asks

\* A buffer that holds one whole reply is parsed as that reply.
LEMMA ParsesItsAnswer ==
    ASSUME NEW n \in 0 .. MaxCalls, NEW ok \in BOOLEAN
    PROVE  parse_from_server(Reply(n, ok)) = {Answer(n, ok)}
<1>1. PICK q : q = Reply(n, ok)
  OBVIOUS
<1>2. /\ q \in Seq(ReplyToken) /\ Len(q) = reply_len /\ q # <<>> /\ reply_len \in Nat \ {0}
      /\ \A i \in 1 .. reply_len : q[i] = [call |-> n, ok |-> ok, i |-> i]
  BY <1>1, ReplyTyped, ClientAssumption
<1>3. Head(q) = q[1] /\ 1 \in 1 .. reply_len /\ ~(Len(q) < reply_len)
  BY <1>2
<1>4. Head(q) = [call |-> n, ok |-> ok, i |-> 1]
  BY <1>2, <1>3
<1>5. Head(q).call = n /\ Head(q).ok = ok /\ Head(q).i = 1
  BY <1>4
<1> QED BY <1>1, <1>2, <1>3, <1>5 DEF parse_from_server

\* Nothing is under way when both streams are empty.
LEMMA QuietMeans == StreamsOK => (Quiet <=> Asking = <<>> /\ Replied = <<>>)
BY EmptyAsking DEF Quiet, EmptyStreams

\* Steps that leave the streams together as they are.
LEMMA StreamsMove ==
    ASSUME TypeOK, [Next]_vars
    PROVE  /\ DeliverToServer => Asking' = Asking /\ Replied' = Replied
           /\ DeliverToClient => Asking' = Asking /\ Replied' = Replied
           /\ ReadData => Asking' = Asking /\ Replied' = Replied /\ read_buf' # <<>>
           /\ WriteSome /\ srv.alive => Asking' = Asking /\ Replied' = Replied
<1>1. StreamsOK /\ StreamsOK'
  BY TypeParts, StreamsNext
<1>2. ASSUME DeliverToServer PROVE Asking' = Asking /\ Replied' = Replied
  <2>1. PICK k \in 1 .. Len(toServer) : /\ srvbox' = srvbox \o SubSeq(toServer, 1, k)
                                        /\ toServer' = SubSeq(toServer, k + 1, Len(toServer))
    BY <1>2 DEF DeliverToServer
  <2>2. UNCHANGED <<builder, read_buf, inbox, toClient>> /\ k \in 0 .. Len(toServer)
    BY <1>2 DEF DeliverToServer, libVars
  <2>3. Cat(srvbox', toServer') = Cat(srvbox, toServer)
    BY <1>1, <2>1, <2>2, Moves DEF StreamsOK, Cat
  <2>4. Cat3(srvbox', toServer', builder) = Cat3(srvbox, toServer, builder)
    BY <1>1, <2>3, Regroup DEF StreamsOK
  <2> QED BY <2>2, <2>4 DEF Asking, Replied, Cat3
<1>3. ASSUME DeliverToClient PROVE Asking' = Asking /\ Replied' = Replied
  <2>1. PICK k \in 1 .. Len(toClient) : /\ inbox' = inbox \o SubSeq(toClient, 1, k)
                                        /\ toClient' = SubSeq(toClient, k + 1, Len(toClient))
    BY <1>3 DEF DeliverToClient
  <2>2. UNCHANGED <<builder, toServer, srvbox, read_buf>> /\ k \in 0 .. Len(toClient)
    BY <1>3 DEF DeliverToClient, libVars
  <2>3. inbox' \o toClient' = inbox \o toClient
    BY <1>1, <2>1, <2>2, Moves DEF StreamsOK
  <2> QED BY <2>2, <2>3 DEF Asking, Replied
<1>4. ASSUME ReadData PROVE Asking' = Asking /\ Replied' = Replied /\ read_buf' # <<>>
  <2>1. PICK k \in 1 .. Len(inbox) : ReadMoves(k)
    BY <1>4, ReadCut
  <2>2. UNCHANGED <<builder, toServer, srvbox, toClient>> /\ k \in 0 .. Len(inbox)
    BY <1>4 DEF ReadData
  <2>3. Cat(read_buf', inbox') = Cat(read_buf, inbox)
    BY <1>1, <2>1, <2>2, Moves DEF StreamsOK, ReadMoves, Cat
  <2>4. Cat3(read_buf', inbox', toClient) = Cat3(read_buf, inbox, toClient)
    BY <1>1, <2>3, Regroup DEF StreamsOK
  <2>5. read_buf' # <<>>
    <3>1. PICK a : a = SubSeq(inbox, 1, k)
      OBVIOUS
    <3>2. a \in Seq(ReplyToken) /\ Len(a) = k /\ k # 0
      BY <1>1, <2>2, <3>1, Cuts DEF StreamsOK
    <3>3. a # <<>>
      BY <3>2
    <3>4. read_buf \o a # <<>>
      BY <1>1, <3>2, <3>3, EmptyParts DEF StreamsOK
    <3> QED BY <2>1, <3>1, <3>4 DEF ReadMoves
  <2> QED BY <2>2, <2>4, <2>5 DEF Asking, Replied, Cat3
<1>5. ASSUME WriteSome, srv.alive PROVE Asking' = Asking /\ Replied' = Replied
  <2>1. PICK k \in 0 .. Len(builder) : WriteMoves(k)
    BY <1>5, WriteCut
  <2>2. UNCHANGED <<srvbox, read_buf, toClient, inbox>>
    BY <1>5 DEF WriteSome
  <2>3. toServer' \o builder' = toServer \o builder
    BY <1>1, <1>5, <2>1, Moves DEF StreamsOK, WriteMoves
  <2> QED BY <2>2, <2>3 DEF Asking, Replied
<1> QED BY <1>2, <1>3, <1>4, <1>5

\* The state of a call that goes on.
LEMMA InStepStays ==
    ASSUME InStep, Asking' = Asking, Replied' = Replied, UNCHANGED <<calls, srv>>,
           ~srv.alive => UNCHANGED <<srvbox, toServer>>
    PROVE  InStep'
BY DEF InStep

\* A call that begins.
LEMMA CallBegins ==
    ASSUME TypeOK, StreamsOK', NEW n \in 1 .. MaxCalls, Begins(Request(n)), calls' = n, phase' = "write",
           clean' = Quiet, UNCHANGED <<toServer, srvbox, read_buf, toClient, inbox, srv>>
    PROVE  StepOK'
<1>1. StreamsOK
  BY TypeParts
<1>2. result' = Nothing /\ builder' = builder \o Request(n)
  BY DEF Begins
<1>3. AnswerIsOwn'
  BY <1>2, NoAnswers DEF AnswerIsOwn
<1>4. ASSUME Quiet PROVE InStep'
  <2>1. builder' = Request(n)
    BY <1>2, <1>4, RequestTyped, EmptyEnds DEF Quiet
  <2>2. EmptyStreams'
    BY EmptyAsking, PTL
  <2>3. srvbox' = <<>> /\ toServer' = <<>> /\ read_buf' = <<>> /\ toClient' = <<>> /\ inbox' = <<>>
    BY <1>4 DEF Quiet
  <2>4. Replied' = <<>> /\ Asking' = builder'
    BY <2>2, <2>3 DEF EmptyStreams
  <2> QED BY <2>1, <2>3, <2>4 DEF InStep
<1> QED BY <1>3, <1>4 DEF StepOK, Idle

\* A whole answer, or the end of the stream, ends a call.
LEMMA CallReturns ==
    ASSUME TypeOK, StepOK, ReadAgain \/ ReadEof, clean'
    PROVE  StepOK'
<1>1. StreamsOK /\ BufferOK /\ clean \in BOOLEAN /\ calls \in 0 .. MaxCalls
  BY TypeParts DEF TypeOK
<1>2. /\ phase = "read" /\ ~Full /\ hilexi_parse
      /\ UNCHANGED <<builder, calls, toServer, srvbox, toClient, inbox, srv>>
  BY DEF ReadAgain, ReadEof, Reads, netVars
<1>3. clean /\ InStep /\ builder = <<>> /\ (received => read_buf # <<>>)
  BY <1>2 DEF StepOK, Calling, ReadAgain, ReadEof
<1>4. inbox = <<>> /\ toClient = <<>> /\ (read_buf = <<>> => ~srv.alive)
  <2>1. CASE ReadAgain
    BY <1>3, <2>1 DEF ReadAgain
  <2>2. CASE ReadEof
    <3>1. Asked # 0
      <4>1. PICK l : l = Len(read_buf)
        OBVIOUS
      <4>2. l \in Nat /\ read_cap \in Nat /\ l # read_cap
        BY <1>1, <1>2, <4>1 DEF StreamsOK, BufferOK, Full
      <4> QED BY <4>1, <4>2 DEF Asked
    <3> QED BY <2>2, <3>1 DEF ReadEof, AtEof
  <2> QED BY <2>1, <2>2
<1>5. PICK r \in parse_from_server(read_buf) : Return(r)
  BY <1>2 DEF hilexi_parse
<1>6. Replied = read_buf /\ EmptyStreams
  BY <1>1, <1>4, EmptyAsking DEF EmptyStreams
<1>7. CASE read_buf = <<>>
  <2>1. ~srv.alive /\ r = Null
    BY <1>4, <1>5, <1>7 DEF parse_from_server
  <2>2. srvbox = <<>> /\ toServer = <<>>
    <3>1. CASE Asking = <<>>
      BY <1>6, <3>1 DEF EmptyStreams
    <3>2. CASE Asking # <<>>
      BY <1>3, <2>1, <3>2 DEF InStep
    <3> QED BY <3>1, <3>2
  <2>3. result' = Null /\ phase' \in {"login", "prompt"} /\ read_buf' = <<>>
    BY <1>2, <1>5, <2>1, NoAnswers DEF Return, hilexi_parse
  <2>4. Quiet'
    BY <1>2, <1>3, <1>4, <2>2, <2>3 DEF Quiet
  <2>5. AnswerIsOwn'
    BY <1>2, <2>1, <2>3, NoAnswers DEF AnswerIsOwn, Null, Other, Hang
  <2> QED BY <2>3, <2>4, <2>5 DEF StepOK, Calling
<1>8. CASE read_buf # <<>>
  <2>1. Asking = <<>> /\ \E ok \in BOOLEAN : Replied = Reply(calls, ok)
    BY <1>3, <1>6, <1>8 DEF InStep
  <2>2. PICK ok \in BOOLEAN : read_buf = Reply(calls, ok)
    BY <1>6, <2>1
  <2>3. r = Answer(calls, ok)
    BY <1>1, <1>5, <2>2, ParsesItsAnswer
  <2>4. r # Hang /\ r # Null /\ r # Other /\ r.call = calls
    BY <2>3, NoAnswers DEF Answer
  <2>5. result' = r /\ phase' \in {"login", "prompt"} /\ read_buf' = <<>>
    BY <1>2, <1>5, <2>4 DEF Return, hilexi_parse
  <2>6. srvbox = <<>> /\ toServer = <<>>
    BY <1>6, <2>1 DEF EmptyStreams
  <2>7. Quiet'
    BY <1>2, <1>3, <1>4, <2>5, <2>6 DEF Quiet
  <2>8. AnswerIsOwn'
    BY <1>2, <2>4, <2>5 DEF AnswerIsOwn
  <2> QED BY <2>5, <2>7, <2>8 DEF StepOK, Calling
<1> QED BY <1>7, <1>8

\* Every step keeps the invariant about requests and answers.
LEMMA StepNext == TypeOK /\ LoginOK /\ StepOK /\ [Next]_vars => StepOK'
<1> SUFFICES ASSUME TypeOK, LoginOK, StepOK, [Next]_vars PROVE StepOK'
  OBVIOUS
<1>1. /\ StreamsOK /\ StreamsOK' /\ EmptyStreams /\ clean \in BOOLEAN
      /\ calls \in 0 .. MaxCalls /\ MaxCalls \in Nat
  BY TypeParts, StreamsNext, EmptyAsking, ClientAssumption DEF TypeOK
<1>2. EmptyStreams'
  BY <1>1, EmptyAsking, PTL
<1>3. ASSUME UNCHANGED <<result, calls, clean>>, srv'.alive => srv.alive PROVE AnswerIsOwn'
  BY <1>3 DEF StepOK, AnswerIsOwn
<1>4. ASSUME ~clean', phase' # "read" PROVE StepOK'
  BY <1>4 DEF StepOK, AnswerIsOwn
<1>5. ASSUME phase' \in Stopped, UNCHANGED <<result, calls, clean, srv>> PROVE StepOK'
  BY <1>3, <1>5 DEF StepOK, Stopped, Calling, Idle
<1>6. ASSUME phase \in Idle, phase' \in Idle, UNCHANGED <<streamVars, calls, clean, srv>>,
             result' \in {result, Nothing, Err}
      PROVE  StepOK'
  <2>1. clean' => Quiet'
    BY <1>6 DEF StepOK, Quiet, streamVars
  <2>2. AnswerIsOwn'
    <3>1. CASE result' = result
      BY <1>3, <1>6, <3>1
    <3>2. CASE result' \in {Nothing, Err}
      BY <3>2, NoAnswers DEF AnswerIsOwn, Nothing, Err, Null, Other, Hang
    <3> QED BY <1>6, <3>1, <3>2
  <2> QED BY <1>6, <2>1, <2>2 DEF StepOK, Idle, Calling
<1>7. ASSUME hilexi_new PROVE StepOK'
  BY <1>5, <1>6, <1>7 DEF hilexi_new, NewOk, NewFails, netVars, streamVars, Stopped, Idle
<1>8. ASSUME FirstConnect \/ NextConnect PROVE StepOK'
  <2>1. phase = "connect" /\ UNCHANGED srv
    BY <1>8 DEF FirstConnect, NextConnect
  <2>2. CASE Exit /\ UNCHANGED <<result, calls, clean>>
    BY <1>5, <2>1, <2>2 DEF Exit, Stopped
  <2>3. CASE UNCHANGED <<phase, libVars, result, calls, toServer, srvbox, toClient, inbox, clean>>
    BY <1>6, <2>1, <2>3 DEF libVars, streamVars, Idle
  <2>4. CASE /\ phase' = "write" /\ Begins(Request(1)) /\ clean' = Quiet
             /\ UNCHANGED <<read_buf, toServer, srvbox, toClient, inbox>>
    <3>1. calls = 0
      BY <2>1 DEF LoginOK
    <3>2. calls' = 1 /\ 1 \in 1 .. MaxCalls
      BY <1>1, <2>4, <3>1 DEF Begins
    <3> QED BY <1>1, <2>1, <2>4, <3>2, CallBegins
  <2> QED BY <1>8, <2>2, <2>3, <2>4 DEF FirstConnect, NextConnect, netVars
<1>9. ASSUME LoginDone \/ ExitLine PROVE StepOK'
  <2>1. CASE Exit
    BY <1>5, <1>9, <2>1 DEF LoginDone, ExitLine, Exit, Stopped
  <2>2. CASE phase = "login" /\ phase' = "prompt" /\ UNCHANGED <<libVars, netVars>>
    BY <1>6, <1>9, <2>2 DEF LoginDone, ExitLine, libVars, netVars, streamVars, Idle
  <2> QED BY <1>9, <2>1, <2>2 DEF LoginDone, ExitLine
<1>24. ASSUME AuthAddFails PROVE StepOK'
  <2>1. phase' = "exited" /\ result' = Err
    BY <1>24 DEF AuthAddFails, Exit
  <2> QED BY <2>1, NoAnswers DEF StepOK, AnswerIsOwn, Calling, Idle
<1>10. ASSUME LocalLine PROVE StepOK'
  BY <1>6, <1>10 DEF LocalLine, libVars, netVars, streamVars, Idle
<1>11. ASSUME CallLine PROVE StepOK'
  <2>1. /\ Begins(Request(calls + 1)) /\ phase' = "write" /\ clean' = Quiet
        /\ UNCHANGED <<toServer, srvbox, read_buf, toClient, inbox, srv>>
    BY <1>11 DEF CallLine, netVars
  <2>2. calls' = calls + 1 /\ calls + 1 \in 1 .. MaxCalls
    BY <1>1, <2>1 DEF Begins
  <2> QED BY <1>1, <2>1, <2>2, CallBegins
<1>12. ASSUME CallAddFails PROVE StepOK'
  BY <1>4, <1>12 DEF CallAddFails
<1>13. ASSUME WriteFails \/ ReadFails \/ GrowFails PROVE StepOK'
  BY <1>4, <1>13 DEF WriteFails, ReadFails, GrowFails, Return
<1>14. ASSUME WriteKills PROVE StepOK'
  BY <1>5, <1>14 DEF WriteKills, Stopped
<1>15. ASSUME GrowOk PROVE StepOK'
  <2>1. phase = "read" /\ UNCHANGED <<phase, received, result, calls, srv, clean, streamVars>>
    BY <1>15 DEF GrowOk, netVars, streamVars
  <2>2. Asking' = Asking /\ Replied' = Replied /\ AnswerIsOwn'
    BY <1>3, <2>1 DEF Asking, Replied, streamVars
  <2>3. clean' => InStep'
    BY <2>1, <2>2, InStepStays DEF StepOK, Calling, streamVars
  <2> QED BY <2>1, <2>2, <2>3 DEF StepOK, Idle, streamVars
<1>16. ASSUME ReadData PROVE StepOK'
  <2>1. /\ phase = "read" /\ UNCHANGED <<phase, builder, result, calls, toServer, srvbox, srv, clean>>
    BY <1>16 DEF ReadData, Reads
  <2>2. Asking' = Asking /\ Replied' = Replied /\ read_buf' # <<>> /\ AnswerIsOwn'
    BY <1>3, <1>16, <2>1, StreamsMove
  <2>3. clean' => InStep'
    BY <2>1, <2>2, InStepStays DEF StepOK, Calling
  <2> QED BY <2>1, <2>2, <2>3 DEF StepOK, Idle
<1>17. ASSUME ReadAgain \/ ReadEof PROVE StepOK'
  <2>1. phase' # "read"
    BY <1>17 DEF ReadAgain, ReadEof, hilexi_parse, Return
  <2> QED BY <1>4, <1>17, <2>1, CallReturns
<1>18. ASSUME WriteSome PROVE StepOK'
  <2>1. /\ phase = "write" /\ phase' = (IF builder' = <<>> THEN "read" ELSE "write") /\ received' = FALSE
        /\ UNCHANGED <<result, calls, srvbox, toClient, inbox, read_buf, srv, clean>>
    BY <1>18 DEF WriteSome
  <2>2. ASSUME clean' PROVE InStep'
    <3>1. InStep
      BY <2>1, <2>2 DEF StepOK, Calling
    <3>2. CASE srv.alive
      BY <1>18, <2>1, <3>1, <3>2, StreamsMove, InStepStays
    <3>3. CASE ~srv.alive
      <4>1. toServer' = toServer /\ Replied' = Replied
        <5>1. PICK k : WriteMoves(k)
          BY <1>18, WriteCut
        <5> QED BY <2>1, <3>3, <5>1 DEF WriteMoves, Replied
      <4>2. CASE Asking = <<>>
        <5>1. builder = <<>> /\ srvbox = <<>> /\ toServer = <<>>
          BY <1>1, <4>2 DEF EmptyStreams
        <5>2. builder' = <<>>
          <6>1. PICK k \in 0 .. Len(builder) : WriteMoves(k)
            BY <1>18, WriteCut
          <6>2. k = 0 /\ Len(builder) = 0
            BY <5>1, <6>1
          <6>3. builder' \in Seq(ReqToken) /\ Len(builder') = 0
            BY <1>1, <6>1, <6>2, Cuts DEF WriteMoves, StreamsOK
          <6> QED BY <6>3
        <5>3. Asking' = <<>>
          BY <1>2, <2>1, <4>1, <5>1, <5>2 DEF EmptyStreams
        <5> QED BY <2>1, <3>1, <3>3, <4>1, <4>2, <5>1, <5>3 DEF InStep
      <4>3. CASE Asking # <<>>
        BY <2>1, <3>1, <3>3, <4>1, <4>3 DEF InStep
      <4> QED BY <4>2, <4>3
    <3> QED BY <3>2, <3>3
  <2>3. AnswerIsOwn'
    BY <1>3, <2>1
  <2> QED BY <2>1, <2>2, <2>3 DEF StepOK, Idle
<1>19. ASSUME UNCHANGED <<phase, received, result, calls, srv, clean, streamVars>> PROVE StepOK'
  <2>1. Asking' = Asking /\ Replied' = Replied /\ AnswerIsOwn'
    BY <1>3, <1>19 DEF Asking, Replied, streamVars
  <2>2. clean' /\ phase' \in Calling => InStep'
    BY <1>19, <2>1, InStepStays DEF StepOK, streamVars
  <2>3. clean' /\ phase' \in Idle => Quiet'
    BY <1>19 DEF StepOK, Quiet, streamVars
  <2> QED BY <1>19, <2>1, <2>2, <2>3 DEF StepOK, streamVars
<1>20. ASSUME Established \/ UNCHANGED vars PROVE StepOK'
  BY <1>19, <1>20 DEF Established, vars, libVars, netVars, streamVars
<1>21. ASSUME DeliverToServer \/ DeliverToClient PROVE StepOK'
  <2>1. UNCHANGED <<phase, builder, read_buf, received, result, calls, srv, clean>>
    BY <1>21 DEF DeliverToServer, DeliverToClient, libVars
  <2>2. Asking' = Asking /\ Replied' = Replied /\ AnswerIsOwn'
    BY <1>3, <1>21, <2>1, StreamsMove
  <2>3. Quiet => Quiet'
    <3>1. (Quiet <=> Asking = <<>> /\ Replied = <<>>) /\ (Quiet <=> Asking = <<>> /\ Replied = <<>>)'
      BY <1>1, QuietMeans, PTL
    <3> QED BY <2>2, <3>1
  <2>4. ASSUME ~srv.alive, InStep PROVE srvbox' = srvbox /\ toServer' = toServer
    <3>1. CASE DeliverToClient
      BY <3>1 DEF DeliverToClient
    <3>2. CASE DeliverToServer
      <4>1. toServer = <<>>
        BY <1>1, <2>4 DEF InStep, EmptyStreams
      <4>2. \A k \in 1 .. Len(toServer) : FALSE
        BY <4>1
      <4> QED BY <3>2, <4>2 DEF DeliverToServer
    <3> QED BY <1>21, <3>1, <3>2
  <2>5. clean' /\ phase' \in Calling => InStep'
    BY <2>1, <2>2, <2>4, InStepStays DEF StepOK
  <2> QED BY <2>1, <2>2, <2>3, <2>5 DEF StepOK
<1>22. ASSUME ServerAnswers PROVE StepOK'
  <2>1. /\ srv.alive /\ srvbox # <<>> /\ srvbox' = <<>>
        /\ clean' = (clean /\ toServer = <<>> /\ builder = <<>>)
        /\ UNCHANGED <<phase, builder, read_buf, received, result, calls, toServer, inbox>>
    BY <1>22 DEF ServerAnswers, libVars
  <2>2. PICK ok \in BOOLEAN :
           /\ toClient' = toClient \o Reply(Asks(srvbox), ok)
           /\ srv' = [srv EXCEPT !.auth = @ \/ (Asks(srvbox) = 1 /\ ok)]
    BY <1>22, AnswersBoolean
  <2>3. srv'.alive = srv.alive
    BY <2>2 DEF TypeOK
  <2>4. AnswerIsOwn'
    BY <2>1, <2>3 DEF StepOK, AnswerIsOwn
  <2>5. ASSUME clean' PROVE phase \notin Idle
    BY <2>1, <2>5 DEF StepOK, Quiet
  <2>6. ASSUME clean', phase \in Calling PROVE InStep'
    <3>1. InStep /\ toServer = <<>> /\ builder = <<>>
      BY <2>1, <2>6 DEF StepOK
    <3>2. Asking # <<>> /\ Asking = srvbox
      BY <1>1, <2>1, <3>1 DEF EmptyStreams
    <3>3. Replied = <<>> /\ srvbox = Request(calls)
      BY <2>1, <3>1, <3>2 DEF InStep
    <3>4. calls \in 1 .. MaxCalls
      <4>1. calls # 0
        BY <2>6 DEF LoginOK
      <4> QED BY <1>1, <4>1
    <3>5. Asks(srvbox) = calls
      BY <3>3, <3>4, AsksItsCall
    <3>6. read_buf = <<>> /\ inbox = <<>> /\ toClient = <<>>
      BY <1>1, <3>3 DEF EmptyStreams
    <3>7. toClient' = Reply(calls, ok)
      <4>1. PICK q : q = Reply(calls, ok)
        OBVIOUS
      <4>2. q \in Seq(ReplyToken)
        BY <1>1, <4>1, ReplyTyped
      <4> QED BY <2>2, <3>5, <3>6, <4>1, <4>2, EmptyEnds
    <3>8. Replied' = toClient' /\ Asking' = <<>>
      BY <1>2, <2>1, <3>1, <3>6 DEF EmptyStreams
    <3> QED BY <2>1, <3>7, <3>8 DEF InStep
  <2> QED BY <2>1, <2>4, <2>5, <2>6 DEF StepOK
<1>23. ASSUME ServerDies PROVE StepOK'
  <2>1. /\ srv'.alive = FALSE /\ srvbox' = <<>> /\ toServer' = <<>>
        /\ UNCHANGED <<phase, builder, read_buf, received, result, calls, inbox, clean>>
    BY <1>23 DEF ServerDies, libVars
  <2>2. AnswerIsOwn'
    BY <1>3, <2>1
  <2>3. toClient = <<>> => toClient' = <<>>
    <3>1. ASSUME toClient = <<>>, toClient' \in Prefixes(toClient) PROVE toClient' = <<>>
      <4>1. PICK k \in 0 .. Len(toClient) : toClient' = SubSeq(toClient, 1, k)
        BY <3>1 DEF Prefixes
      <4>2. k = 0
        BY <3>1, <4>1
      <4>3. toClient' \in Seq(ReplyToken) /\ Len(toClient') = 0
        BY <1>1, <4>1, <4>2, Cuts DEF StreamsOK
      <4> QED BY <4>3
    <3> QED BY <1>23, <3>1 DEF ServerDies
  <2>4. srvbox = <<>> /\ toServer = <<>> => toClient' = toClient
    <3>1. srvbox = <<>> /\ toServer = <<>> => srvbox \o toServer = <<>>
      BY <1>1, EmptyParts DEF StreamsOK
    <3> QED BY <1>23, <3>1 DEF ServerDies
  <2>5. Quiet => Quiet'
    BY <2>1, <2>3 DEF Quiet
  <2>6. ASSUME InStep PROVE InStep'
    <3>1. CASE Replied = <<>>
      <4>1. Replied' = <<>>
        BY <1>1, <1>2, <2>1, <2>3, <3>1 DEF EmptyStreams
      <4> QED BY <2>1, <4>1 DEF InStep
    <3>2. CASE Replied # <<>>
      <4>1. Asking = <<>> /\ \E ok \in BOOLEAN : Replied = Reply(calls, ok)
        BY <2>6, <3>2 DEF InStep
      <4>2. builder = <<>> /\ toClient' = toClient
        BY <1>1, <2>4, <4>1 DEF EmptyStreams
      <4>3. Asking' = <<>> /\ Replied' = Replied
        BY <1>2, <2>1, <4>2 DEF EmptyStreams, Replied
      <4> QED BY <2>1, <4>1, <4>3 DEF InStep
    <3> QED BY <3>1, <3>2
  <2> QED BY <2>1, <2>2, <2>5, <2>6 DEF StepOK
<1> QED BY <1>7, <1>8, <1>9, <1>10, <1>11, <1>12, <1>13, <1>14, <1>15, <1>16, <1>17, <1>18, <1>20, <1>21,
           <1>22, <1>23, <1>24 DEF Next, ClientStep, realloc_read_buf

\* It holds before the first call.
LEMMA StepInit == Init => StepOK
BY NoAnswers DEF Init, StepOK, AnswerIsOwn, Quiet, Calling, Nothing, Null, Other, Hang

\* A call that begins with nothing under way, and none of whose segments is cut short,
\* returns the answer to its own request, Null only when the server has gone, and never
\* hangs (hilexi.c, hilexi_write, hilexi_read and hilexi_parse), whatever became of the
\* calls before it.
THEOREM AnswersAreOwn == Spec => []AnswerIsOwn
<1>1. StepOK => AnswerIsOwn
  BY DEF StepOK
<1> QED BY <1>1, TypeInit, TypeNext, LoginInit, LoginNext, StepInit, StepNext, PTL DEF Spec

\* Such a call leaves nothing in the builder, in the read buffer or on the wire
\* (hilexi_write's builder_reset, hilexi_parse's read_pos = 0), so the next one begins
\* with nothing under way.
THEOREM CallsStayInStep == Spec => []StaysInStep
<1>1. StepOK => StaysInStep
  BY DEF StepOK, StaysInStep, Idle
<1> QED BY <1>1, TypeInit, TypeNext, LoginInit, LoginNext, StepInit, StepNext, PTL DEF Spec
=============================================================================
