--------------------------- MODULE Sessions_proofs ---------------------------
(***************************************************************************)
(* More about module Connections: which clients there are, what a client   *)
(* struct holds, what ends the process; that replies are whole and in      *)
(* order and a stop loses nothing; and that the server implements module   *)
(* Store.  The invariants ConnsOK, ClientsOK, OwnOK and StopOK of module   *)
(* Connections_proofs are shown to be preserved given Base, which is shown *)
(* there.                                                                  *)
(***************************************************************************)
EXTENDS Connections_proofs

\* A handler works on the client of descriptor fd: it leaves h in its struct and
\* s in its socket.
Touches(fd, h, s) ==
    /\ ClosesAt(fd)
    /\ heap' = [heap EXCEPT ![ClientAt(fd)] = h]
    /\ sock' = [sock EXCEPT ![file[fd]] = s]
    /\ h.fd = fd
    /\ s.state = sock[file[fd]].state /\ s.rst = sock[file[fd]].rst
    /\ s.nsegs = sock[file[fd]].nsegs
    /\ UNCHANGED <<file, backlog, clients, live, regfail, ooms>>

\* A read that fails leaves the struct's state alone.
LEMMA ReadErrorTouches ==
    ASSUME Base, NEW e \in fired, ReadsClient(e), ReadError(e)
    PROVE  \E h, s :
               LET g == heap[ClientAt(e.fd)]
                   t == sock[file[e.fd]]
               IN  /\ Touches(e.fd, h, s)
                   /\ h.view = g.view /\ h.builder = g.builder /\ h.write_size = g.write_size
                   /\ s.login = t.login /\ s.sent = t.sent /\ s.short = t.short
                   /\ s.database = t.database /\ s.replied = t.replied
                   /\ s.in = <<>> /\ t.err /\ s.err = FALSE
                   /\ UNCHANGED interest
<1> DEFINE c == file[e.fd]
           x == ClientAt(e.fd)
           h == [heap[x] EXCEPT !.read_buf = Received(e.fd), !.read_cap = GrownCap(e.fd)]
           s == [sock[c] EXCEPT !.in = <<>>, !.err = FALSE]
<1>1. PICK S : Shaped(S)
  BY DEF Base, ShapeOK
<1>2. ClosesAt(e.fd) /\ c \in Conns /\ x \in Cells /\ heap[x].fd = e.fd
  BY ReadContext DEF ClosesAt
<1>3. heap[x] \in ClientOf(S) /\ sock[c] \in SockOf(S) /\ heap \in [Cells -> ClientOf(S)]
      /\ sock \in [Conns -> SockOf(S)]
  BY <1>1, <1>2 DEF Shaped
<1>4. sock' = [sock EXCEPT ![c] = s] /\ heap' = [heap EXCEPT ![x] = h]
  <2>1. /\ heap' = [heap EXCEPT ![x].read_buf = Received(e.fd), ![x].read_cap = GrownCap(e.fd)]
        /\ sock' = [sock EXCEPT ![c].in = <<>>, ![c].err = FALSE]
    BY DEF ReadError
  <2> HIDE DEF c, x
  <2> QED BY <1>2, <1>3, <2>1
<1>5. /\ h.fd = heap[x].fd /\ h.view = heap[x].view /\ h.builder = heap[x].builder
      /\ h.write_size = heap[x].write_size
  <2> HIDE DEF x
  <2> QED BY <1>3 DEF ClientOf
<1>6. /\ s.state = sock[c].state /\ s.rst = sock[c].rst /\ s.nsegs = sock[c].nsegs
      /\ s.login = sock[c].login /\ s.sent = sock[c].sent /\ s.short = sock[c].short
      /\ s.database = sock[c].database /\ s.replied = sock[c].replied
      /\ s.in = <<>> /\ s.err = FALSE
  <2> DEFINE nil == <<>>
  <2>1. s = [sock[c] EXCEPT !.in = nil, !.err = FALSE]
    OBVIOUS
  <2> HIDE DEF c, nil, s
  <2>2. /\ s.state = sock[c].state /\ s.rst = sock[c].rst /\ s.nsegs = sock[c].nsegs
        /\ s.login = sock[c].login /\ s.sent = sock[c].sent /\ s.short = sock[c].short
        /\ s.database = sock[c].database /\ s.replied = sock[c].replied
        /\ s.in = nil /\ s.err = FALSE
    BY <1>3, <2>1 DEF SockOf
  <2> QED BY <2>2 DEF nil
<1>7. sock[c].err /\ UNCHANGED <<file, backlog, clients, live, regfail, ooms, interest>>
  BY DEF ReadError, evVars, auxVars
<1> HIDE DEF h, s
<1>8. Touches(e.fd, h, s)
  BY <1>2, <1>4, <1>5, <1>6, <1>7 DEF Touches
<1> QED BY <1>5, <1>6, <1>7, <1>8

\* A command from the client of fd is executed and answered: what is then in its
\* struct (h) and its socket (s).
Answers(fd, h, s) ==
    LET c   == file[fd]
        g   == heap[ClientAt(fd)]
        t   == sock[c]
        buf == Received(fd)
        cmd == parse(buf)
        n   == IF buf = <<>> THEN 0 ELSE Head(buf).n
    IN  /\ ~t.fin /\ ~t.rst
        /\ interest' = [interest EXCEPT ![fd] = @ \cup {EV_WRITE}]
        /\ \E o \in execute_cmd(st, g.view, cmd, Len(clients)) :
               /\ st' = o.st
               /\ last' = [conn |-> c, cmd |-> cmd, reply |-> o.reply]
               /\ h.view = o.client
               /\ h.builder = g.builder \o ReplyTokens(c, n, o.reply)
               /\ h.write_size = Len(h.builder) /\ h.read_buf = <<>>
               /\ s.login <=> (t.login \/ (cmd.type = "Auth" /\ o.reply.kind = "OK"))
               /\ s.database = Selected(t.database, cmd, o.reply)
               /\ s.replied = t.replied + Len(ReplyTokens(c, n, o.reply))
               /\ s.in = <<>> /\ s.sent = t.sent /\ s.short = t.short
               /\ s.err = t.err

\* A read that executes answers in the struct of its own connection.
LEMMA ReadExecutesTouches ==
    ASSUME Base, NEW e \in fired, ReadsClient(e), ReadExecutes(e)
    PROVE  \E h, s : Touches(e.fd, h, s) /\ Answers(e.fd, h, s)
<1> DEFINE c   == file[e.fd]
           x   == ClientAt(e.fd)
           buf == Received(e.fd)
           cmd == parse(buf)
           n   == IF buf = <<>> THEN 0 ELSE Head(buf).n
<1>1. PICK S : Shaped(S)
  BY DEF Base, ShapeOK
<1>2. ClosesAt(e.fd) /\ c \in Conns /\ x \in Cells /\ heap[x].fd = e.fd
  BY ReadContext DEF ClosesAt
<1>3. heap[x] \in ClientOf(S) /\ sock[c] \in SockOf(S)
  BY <1>1, <1>2 DEF Shaped
<1>4. /\ ~sock[c].fin /\ ~sock[c].rst
      /\ interest' = [interest EXCEPT ![e.fd] = @ \cup {EV_WRITE}]
  BY ReadExecutesEffect
<1>5. PICK o \in execute_cmd(st, heap[x].view, cmd, Len(clients)) :
          LET out == heap[x].builder \o ReplyTokens(c, n, o.reply)
          IN  /\ st' = o.st
              /\ last' = [conn |-> c, cmd |-> cmd, reply |-> o.reply]
              /\ heap' = [heap EXCEPT ![x] = [heap[x] EXCEPT
                     !.view = o.client,
                     !.builder = out,
                     !.write_size = Len(out),
                     !.read_cap = GrownCap(e.fd),
                     !.read_buf = <<>>]]
              /\ sock' = [sock EXCEPT ![c] = [sock[c] EXCEPT
                     !.in = <<>>,
                     !.login = @ \/ (cmd.type = "Auth" /\ o.reply.kind = "OK"),
                     !.database = Selected(@, cmd, o.reply),
                     !.replied = @ + Len(ReplyTokens(c, n, o.reply))]]
  BY ReadExecutesEffect
<1> DEFINE out == heap[x].builder \o ReplyTokens(c, n, o.reply)
           h == [heap[x] EXCEPT !.view = o.client, !.builder = out, !.write_size = Len(out),
                                !.read_cap = GrownCap(e.fd), !.read_buf = <<>>]
           s == [sock[c] EXCEPT
                     !.in = <<>>,
                     !.login = @ \/ (cmd.type = "Auth" /\ o.reply.kind = "OK"),
                     !.database = Selected(@, cmd, o.reply),
                     !.replied = @ + Len(ReplyTokens(c, n, o.reply))]
<1>6. /\ h.fd = e.fd /\ h.view = o.client /\ h.builder = out
      /\ h.write_size = Len(out) /\ h.read_buf = <<>>
  <2> DEFINE nil == <<>>
             w   == Len(out)
  <2>1. h = [heap[x] EXCEPT !.view = o.client, !.builder = out, !.write_size = w,
                            !.read_cap = GrownCap(e.fd), !.read_buf = nil]
    OBVIOUS
  <2> HIDE DEF nil, w, out, x, h
  <2>2. /\ h.fd = e.fd /\ h.view = o.client /\ h.builder = out
        /\ h.write_size = w /\ h.read_buf = nil
    BY <1>2, <1>3, <2>1 DEF ClientOf
  <2> QED BY <2>2 DEF nil, w
<1>7. /\ s.state = sock[c].state /\ s.rst = sock[c].rst /\ s.nsegs = sock[c].nsegs
      /\ s.login <=> (sock[c].login \/ (cmd.type = "Auth" /\ o.reply.kind = "OK"))
      /\ s.database = Selected(sock[c].database, cmd, o.reply)
      /\ s.replied = sock[c].replied + Len(ReplyTokens(c, n, o.reply))
      /\ s.in = <<>> /\ s.sent = sock[c].sent /\ s.short = sock[c].short
      /\ s.err = sock[c].err
  <2> DEFINE nil == <<>>
             l   == sock[c].login \/ (cmd.type = "Auth" /\ o.reply.kind = "OK")
             d   == Selected(sock[c].database, cmd, o.reply)
             k   == sock[c].replied + Len(ReplyTokens(c, n, o.reply))
  <2>1. s = [sock[c] EXCEPT !.in = nil, !.login = l, !.database = d, !.replied = k]
    OBVIOUS
  <2> HIDE DEF nil, l, d, k, c, s
  <2>2. /\ s.state = sock[c].state /\ s.rst = sock[c].rst /\ s.nsegs = sock[c].nsegs
        /\ s.login = l /\ s.database = d /\ s.replied = k
        /\ s.in = nil /\ s.sent = sock[c].sent /\ s.short = sock[c].short
        /\ s.err = sock[c].err
    BY <1>3, <2>1 DEF SockOf
  <2> QED BY <2>2 DEF nil, l, d, k
<1>8. UNCHANGED <<file, backlog, clients, live, regfail, ooms>>
  BY DEF ReadExecutes
<1>9. sock' = [sock EXCEPT ![c] = s] /\ heap' = [heap EXCEPT ![x] = h]
  BY SMTT(60), <1>5
<1> HIDE DEF h, s
<1>10. Touches(e.fd, h, s)
  BY <1>2, <1>6, <1>7, <1>8, <1>9 DEF Touches
<1>11. /\ st' = o.st
       /\ last' = [conn |-> c, cmd |-> cmd, reply |-> o.reply]
  BY <1>5
<1> HIDE DEF cmd, n, out
<1>12. /\ h.builder = heap[x].builder \o ReplyTokens(c, n, o.reply)
       /\ h.write_size = Len(h.builder)
  BY <1>6 DEF out
<1>13. \E oo \in execute_cmd(st, heap[x].view, cmd, Len(clients)) :
          /\ st' = oo.st
          /\ last' = [conn |-> c, cmd |-> cmd, reply |-> oo.reply]
          /\ h.view = oo.client
          /\ h.builder = heap[x].builder \o ReplyTokens(c, n, oo.reply)
          /\ h.write_size = Len(h.builder) /\ h.read_buf = <<>>
          /\ s.login <=> (sock[c].login \/ (cmd.type = "Auth" /\ oo.reply.kind = "OK"))
          /\ s.database = Selected(sock[c].database, cmd, oo.reply)
          /\ s.replied = sock[c].replied + Len(ReplyTokens(c, n, oo.reply))
          /\ s.in = <<>> /\ s.sent = sock[c].sent /\ s.short = sock[c].short
          /\ s.err = sock[c].err
  BY <1>6, <1>7, <1>11, <1>12, Zenon
<1>14. Answers(e.fd, h, s)
  BY <1>4, <1>13, Zenon DEF cmd, n, Answers
<1> QED BY <1>10, <1>14

\* What a step of the write handler does to the client's struct (g, then h) and
\* its socket (t, then s).
Finishes(h) ==
    /\ h.builder = <<>> /\ cur' = Idle
    /\ interest' = [interest EXCEPT ![cur.fd] = @ \ {EV_WRITE}]

HandsOver(g, h, t, s) ==
    \E k \in Nat \ {0} :
        /\ k <= g.write_size /\ cur.bytes_sent < g.write_size /\ ~t.rst
        /\ s.sent = t.sent \o SubSeq(g.builder, 1, k)
        /\ s.short <=> (t.short \/ k < g.write_size)
        /\ \/ cur.bytes_sent + k >= g.write_size /\ Finishes(h)
           \/ /\ cur.bytes_sent + k < g.write_size
              /\ h.builder = g.builder /\ UNCHANGED interest
              /\ cur'.bytes_sent = cur.bytes_sent + k /\ cur'.fd = cur.fd

Sends(g, h, t, s) ==
    /\ h.view = g.view /\ h.read_buf = g.read_buf /\ h.write_size = g.write_size
    /\ s.login = t.login /\ s.in = t.in /\ s.fin = t.fin
    /\ s.database = t.database /\ s.replied = t.replied
    /\ s.err => t.err
    /\ \/ /\ cur.bytes_sent >= g.write_size /\ Finishes(h)
          /\ s.sent = t.sent /\ s.short = t.short
       \/ HandsOver(g, h, t, s)
       \/ /\ h.builder = g.builder /\ cur' = Idle /\ UNCHANGED interest
          /\ s.sent = t.sent /\ s.short = t.short

\* A write sends from the struct of its own connection.
LEMMA WriteTouches ==
    ASSUME Base, WriteDone
    PROVE  \/ WriteKills
           \/ \E h, s : /\ Touches(cur.fd, h, s)
                        /\ Sends(heap[ClientAt(cur.fd)], h, sock[file[cur.fd]], s)
<1> DEFINE c == file[cur.fd]
           x == ClientAt(cur.fd)
           b == [heap[x] EXCEPT !.builder = <<>>]
<1>1. PICK S : Shaped(S)
  BY DEF Base, ShapeOK
<1>2. ClosesAt(cur.fd) /\ c \in Conns /\ x \in Cells /\ heap[x].fd = cur.fd
      /\ cur.fd \in Fds /\ interest[cur.fd] # {}
  BY WriteContext DEF ClosesAt, WriteDone
<1>3. /\ heap \in [Cells -> ClientOf(S)] /\ heap[x] \in ClientOf(S)
      /\ sock \in [Conns -> SockOf(S)] /\ sock[c] \in SockOf(S)
  BY <1>1, <1>2 DEF Shaped
<1>4. sock = [sock EXCEPT ![c] = sock[c]] /\ heap = [heap EXCEPT ![x] = heap[x]]
  <2> HIDE DEF c, x
  <2> QED BY <1>3
<1>5. /\ b.fd = cur.fd /\ b.view = heap[x].view /\ b.read_buf = heap[x].read_buf
      /\ b.write_size = heap[x].write_size /\ b.builder = <<>>
  <2> DEFINE nil == <<>>
  <2>1. b = [heap[x] EXCEPT !.builder = nil]
    OBVIOUS
  <2> HIDE DEF x, nil, b
  <2>2. /\ b.fd = cur.fd /\ b.view = heap[x].view /\ b.read_buf = heap[x].read_buf
        /\ b.write_size = heap[x].write_size /\ b.builder = nil
    BY <1>2, <1>3, <2>1 DEF ClientOf
  <2> QED BY <2>2 DEF nil
<1>6. ASSUME FinishesWrite(x) PROVE heap' = [heap EXCEPT ![x] = b] /\ Finishes(b)
  <2>1. interest' = [interest EXCEPT ![cur.fd] = @ \ {EV_WRITE}]
    BY <1>2, <1>6, FinishEffect DEF FinishesWrite, Base
  <2>2. heap' = [heap EXCEPT ![x] = b] /\ cur' = Idle
    BY <1>6 DEF FinishesWrite
  <2> QED BY <1>5, <2>1, <2>2 DEF Finishes
<1>7. UNCHANGED <<file, backlog, clients, live, regfail, ooms>>
  BY DEF WriteDone, WriteNothing, WriteSome, WriteReturns, WriteKills, kernelVars, heapVars,
         auxVars
<1> HIDE DEF b
<1>8. CASE WriteNothing
  <2>1. FinishesWrite(x) /\ sock' = sock /\ cur.bytes_sent >= heap[x].write_size
    BY <1>8 DEF WriteNothing, kernelVars
  <2>2. Touches(cur.fd, b, sock[c])
    BY <1>2, <1>4, <1>5, <1>6, <1>7, <2>1 DEF Touches
  <2>3. Sends(heap[x], b, sock[c], sock[c])
    BY SMTT(60), <1>5, <1>6, <2>1 DEF Sends
  <2> QED BY <2>2, <2>3
<1>9. CASE WriteSome
  <2> DEFINE size == heap[x].write_size
             k    == IF Space(c) < size THEN Space(c) ELSE size
             s    == [sock[c] EXCEPT !.sent = @ \o SubSeq(heap[x].builder, 1, k),
                                     !.short = @ \/ k < size]
  <2>1. /\ cur.bytes_sent < size /\ ~sock[c].rst /\ Space(c) > 0
        /\ sock' = [sock EXCEPT ![c].sent = @ \o SubSeq(heap[x].builder, 1, k),
                                ![c].short = @ \/ k < size]
        /\ \/ cur.bytes_sent + k >= size /\ FinishesWrite(x)
           \/ /\ ~(cur.bytes_sent + k >= size)
              /\ cur' = [cur EXCEPT !.bytes_sent = @ + k] /\ UNCHANGED <<evVars, heap>>
    BY <1>9 DEF WriteSome
  <2>2. size \in Nat /\ cur.bytes_sent \in Nat
    BY <1>3 DEF ClientOf, Base, ShapeOK
  <2>3. Space(c) \in Int
    <3>1. sock[c].taken \in Nat /\ Len(sock[c].sent) \in Nat
      BY <1>3 DEF SockOf
    <3> QED BY <3>1, ConnectionsAssumption DEF Space
  <2>4. k \in Nat \ {0} /\ k <= size
    <3> HIDE DEF size, c
    <3> QED BY <2>1, <2>2, <2>3
  <2>5. sock' = [sock EXCEPT ![c] = s]
    <3> HIDE DEF c, x, k, size
    <3> QED BY <1>2, <1>3, <2>1
  <2> DEFINE p == sock[c].sent \o SubSeq(heap[x].builder, 1, k)
             l == sock[c].short \/ k < size
  <2>6. /\ s.state = sock[c].state /\ s.rst = sock[c].rst /\ s.nsegs = sock[c].nsegs
        /\ s.login = sock[c].login /\ s.in = sock[c].in /\ s.fin = sock[c].fin
        /\ s.database = sock[c].database /\ s.replied = sock[c].replied
        /\ s.err = sock[c].err /\ s.sent = p /\ s.short = l
    <3>1. s = [sock[c] EXCEPT !.sent = p, !.short = l]
      OBVIOUS
    <3> HIDE DEF c, s, p, l
    <3> QED BY <1>3, <3>1 DEF SockOf
  <2> HIDE DEF s
  <2>7. CASE cur.bytes_sent + k >= size /\ FinishesWrite(x)
    <3>1. Touches(cur.fd, b, s)
      BY <1>2, <1>5, <1>6, <1>7, <2>5, <2>6, <2>7 DEF Touches
    <3>2. HandsOver(heap[x], b, sock[c], s)
      <4>1. Finishes(b) /\ cur.bytes_sent + k >= size
        BY <1>6, <2>7
      <4> HIDE DEF c, x, k
      <4> QED BY <2>1, <2>4, <2>6, <4>1 DEF HandsOver
    <3>3. Sends(heap[x], b, sock[c], s)
      BY <1>5, <2>6, <3>2 DEF Sends
    <3> QED BY <3>1, <3>3
  <2>8. CASE /\ ~(cur.bytes_sent + k >= size)
             /\ cur' = [cur EXCEPT !.bytes_sent = @ + k] /\ UNCHANGED <<evVars, heap>>
    <3>1. Touches(cur.fd, heap[x], s)
      BY <1>2, <1>4, <1>7, <2>5, <2>6, <2>8 DEF Touches
    <3>2. cur = [fd |-> cur.fd, mask |-> cur.mask, bytes_sent |-> cur.bytes_sent]
      BY DEF Base, DispatchOK
    <3>3. cur'.bytes_sent = cur.bytes_sent + k /\ cur'.fd = cur.fd /\ UNCHANGED interest
      BY <2>8, <3>2 DEF evVars
    <3>4. cur.bytes_sent + k < size
      <4> HIDE DEF k, size
      <4> QED BY <2>2, <2>4, <2>8
    <3>5. HandsOver(heap[x], heap[x], sock[c], s)
      <4> HIDE DEF c, x, k
      <4> QED BY <2>1, <2>4, <2>6, <3>3, <3>4 DEF HandsOver
    <3>6. Sends(heap[x], heap[x], sock[c], s)
      BY <2>6, <3>5 DEF Sends
    <3> QED BY SMTT(60), <3>1, <3>6
  <2> QED BY SMTT(60), <2>1, <2>7, <2>8
<1>10. CASE WriteReturns
  <2> DEFINE s == [sock[c] EXCEPT !.err = FALSE]
  <2>1. sock' = [sock EXCEPT ![c] = s] /\ UNCHANGED <<heap, interest>> /\ cur' = Idle
    BY <1>3, <1>10 DEF WriteReturns, heapVars, evVars
  <2>2. /\ s.state = sock[c].state /\ s.rst = sock[c].rst /\ s.nsegs = sock[c].nsegs
        /\ s.login = sock[c].login /\ s.in = sock[c].in /\ s.fin = sock[c].fin
        /\ s.database = sock[c].database /\ s.replied = sock[c].replied
        /\ s.err = FALSE /\ s.sent = sock[c].sent /\ s.short = sock[c].short
    <3> HIDE DEF c
    <3> QED BY <1>3 DEF SockOf
  <2> HIDE DEF s
  <2>3. Touches(cur.fd, heap[x], s)
    BY <1>2, <1>4, <1>7, <2>1, <2>2 DEF Touches
  <2>4. Sends(heap[x], heap[x], sock[c], s)
    BY <2>1, <2>2 DEF Sends
  <2> QED BY <2>3, <2>4
<1> QED BY <1>8, <1>9, <1>10 DEF WriteDone

\* What a peer does to the socket t of its connection.
Pushes(t, s) ==
    /\ s.state = t.state /\ s.login = t.login /\ s.sent = t.sent /\ s.short = t.short
    /\ s.database = t.database /\ s.replied = t.replied
    /\ t.rst => s.rst
    /\ (t.err => t.rst) => (s.err => s.rst)
    /\ t.fin => s.fin
    /\ \/ s.in = t.in /\ s.nsegs = t.nsegs
       \/ \E tk : tk.n = t.nsegs + 1 /\ s.in = Append(t.in, tk) /\ s.nsegs = t.nsegs + 1

Moves(c) == \E s : sock' = [sock EXCEPT ![c] = s] /\ Pushes(sock[c], s)

\* What peers may do to their sockets, and to nothing else.
LEMMA PeerPushes ==
    ASSUME Base, PeerStep
    PROVE  /\ alive
           /\ UNCHANGED <<heap, file, clients, live, regfail, ooms, interest, fired, cur, moved,
                          st, last, alive>>
           /\ \/ \E c \in Conns :
                     /\ sock[c].state = "new"
                     /\ sock' = [sock EXCEPT ![c].state = "backlog"]
                     /\ backlog' = Append(backlog, c)
              \/ \E c \in Conns : /\ sock[c].state \in {"backlog", "accepted"}
                                  /\ backlog' = backlog /\ Moves(c)
<1>1. UNCHANGED <<heap, file, clients, live, regfail, ooms, interest, fired, cur, moved, st,
                  last, alive>>
  BY ZenonT(60) DEF PeerStep, PeerConnect, PeerSend, PeerSendTail, PeerRecv, PeerShutdown, PeerReset,
         evVars, heapVars, loopVars, auxVars
<1>2. PICK S : sock \in [Conns -> SockOf(S)]
  BY DEF Base, ShapeOK, Shaped
<1>3. ASSUME NEW c \in Conns, PeerConnect(c)
      PROVE  /\ alive /\ sock[c].state = "new"
             /\ sock' = [sock EXCEPT ![c].state = "backlog"]
             /\ backlog' = Append(backlog, c)
  BY <1>3 DEF PeerConnect
<1> USE DEF Moves
<1>4. ASSUME NEW c \in Conns, NEW cmd \in CmdsTried, NEW part \in {"all", "head"},
             PeerSend(c, cmd, part)
      PROVE  Moves(c)
  <2> DEFINE tk == [n |-> sock[c].nsegs + 1, cmd |-> cmd, part |-> part]
             q  == Append(sock[c].in, tk)
             u  == IF part = "head" THEN cmd ELSE Illegal
             s  == [sock[c] EXCEPT !.nsegs = @ + 1, !.cut = u, !.in = q]
  <2>1. sock' = [sock EXCEPT ![c] = s]
    BY <1>2, <1>4 DEF PeerSend
  <2>2. tk.n = sock[c].nsegs + 1
    OBVIOUS
  <2>3. /\ s.state = sock[c].state /\ s.login = sock[c].login /\ s.sent = sock[c].sent
        /\ s.database = sock[c].database /\ s.replied = sock[c].replied
        /\ s.short = sock[c].short /\ s.rst = sock[c].rst /\ s.err = sock[c].err
        /\ s.fin = sock[c].fin /\ s.in = q /\ s.nsegs = sock[c].nsegs + 1
    <3>1. sock[c] \in SockOf(S)
      BY <1>2
    <3> HIDE DEF q, u
    <3> QED BY <3>1 DEF SockOf
  <2> HIDE DEF s, tk
  <2> QED BY <2>1, <2>2, <2>3 DEF Pushes
<1>5. ASSUME NEW c \in Conns, PeerSendTail(c) PROVE Moves(c)
  <2> DEFINE tk == [n |-> sock[c].nsegs + 1, cmd |-> sock[c].cut, part |-> "tail"]
             q  == Append(sock[c].in, tk)
             s  == [sock[c] EXCEPT !.cut = Illegal, !.nsegs = @ + 1, !.in = q]
  <2>1. sock' = [sock EXCEPT ![c] = s]
    BY <1>2, <1>5 DEF PeerSendTail
  <2>2. tk.n = sock[c].nsegs + 1
    OBVIOUS
  <2>3. /\ s.state = sock[c].state /\ s.login = sock[c].login /\ s.sent = sock[c].sent
        /\ s.database = sock[c].database /\ s.replied = sock[c].replied
        /\ s.short = sock[c].short /\ s.rst = sock[c].rst /\ s.err = sock[c].err
        /\ s.fin = sock[c].fin /\ s.in = q /\ s.nsegs = sock[c].nsegs + 1
    <3>1. sock[c] \in SockOf(S)
      BY <1>2
    <3> HIDE DEF q
    <3> QED BY <3>1 DEF SockOf
  <2> HIDE DEF s, tk
  <2> QED BY <2>1, <2>2, <2>3 DEF Pushes
<1>6. ASSUME NEW c \in Conns, PeerRecv(c) PROVE Moves(c)
  <2> DEFINE s == [sock[c] EXCEPT !.taken = Len(sock[c].sent)]
  <2>1. sock' = [sock EXCEPT ![c] = s]
    BY <1>2, <1>6 DEF PeerRecv
  <2>2. /\ s.state = sock[c].state /\ s.login = sock[c].login /\ s.sent = sock[c].sent
        /\ s.database = sock[c].database /\ s.replied = sock[c].replied
        /\ s.short = sock[c].short /\ s.rst = sock[c].rst /\ s.err = sock[c].err
        /\ s.fin = sock[c].fin /\ s.in = sock[c].in /\ s.nsegs = sock[c].nsegs
    BY <1>2 DEF SockOf
  <2> HIDE DEF s
  <2> QED BY <2>1, <2>2 DEF Pushes
<1>7. ASSUME NEW c \in Conns, PeerShutdown(c) PROVE Moves(c)
  <2> DEFINE s == [sock[c] EXCEPT !.fin = TRUE]
  <2>1. sock' = [sock EXCEPT ![c] = s]
    BY <1>2, <1>7 DEF PeerShutdown
  <2>2. /\ s.state = sock[c].state /\ s.login = sock[c].login /\ s.sent = sock[c].sent
        /\ s.database = sock[c].database /\ s.replied = sock[c].replied
        /\ s.short = sock[c].short /\ s.rst = sock[c].rst /\ s.err = sock[c].err
        /\ s.fin = TRUE /\ s.in = sock[c].in /\ s.nsegs = sock[c].nsegs
    BY <1>2 DEF SockOf
  <2> HIDE DEF s
  <2> QED BY <2>1, <2>2 DEF Pushes
<1>8. ASSUME NEW c \in Conns, PeerReset(c) PROVE Moves(c)
  <2> DEFINE s == [sock[c] EXCEPT !.rst = TRUE, !.err = TRUE, !.taken = Len(sock[c].sent)]
  <2>1. sock' = [sock EXCEPT ![c] = s]
    BY <1>2, <1>8 DEF PeerReset
  <2>2. /\ s.state = sock[c].state /\ s.login = sock[c].login /\ s.sent = sock[c].sent
        /\ s.database = sock[c].database /\ s.replied = sock[c].replied
        /\ s.short = sock[c].short /\ s.rst = TRUE /\ s.err = TRUE
        /\ s.fin = sock[c].fin /\ s.in = sock[c].in /\ s.nsegs = sock[c].nsegs
    BY <1>2 DEF SockOf
  <2> HIDE DEF s
  <2> QED BY <2>1, <2>2 DEF Pushes
<1>9. ASSUME NEW c \in Conns,
             \/ \E cmd \in CmdsTried, part \in {"all", "head"} : PeerSend(c, cmd, part)
             \/ PeerSendTail(c) \/ PeerRecv(c) \/ PeerShutdown(c) \/ PeerReset(c)
      PROVE  alive /\ sock[c].state \in {"backlog", "accepted"} /\ UNCHANGED backlog /\ Moves(c)
  <2>1. alive /\ sock[c].state \in {"backlog", "accepted"} /\ UNCHANGED backlog
    BY <1>9 DEF PeerSend, MaySend, PeerSendTail, PeerRecv, PeerShutdown, PeerReset, PeerOpen
  <2> HIDE DEF Moves
  <2> QED BY SMTT(60), <1>4, <1>5, <1>6, <1>7, <1>8, <1>9, <2>1
<1>10. PICK c \in Conns :
           \/ PeerConnect(c)
           \/ \E cmd \in CmdsTried, part \in {"all", "head"} : PeerSend(c, cmd, part)
           \/ PeerSendTail(c)
           \/ PeerRecv(c)
           \/ PeerShutdown(c)
           \/ PeerReset(c)
  BY DEF PeerStep
<1>11. alive
  BY <1>3, <1>9, <1>10
<1> HIDE DEF Moves
<1> DEFINE Joins == \E d \in Conns : /\ sock[d].state = "new"
                                     /\ sock' = [sock EXCEPT ![d].state = "backlog"]
                                     /\ backlog' = Append(backlog, d)
           Talks == \E d \in Conns : /\ sock[d].state \in {"backlog", "accepted"}
                                     /\ backlog' = backlog /\ Moves(d)
<1>12. Joins \/ Talks
  <2>1. CASE PeerConnect(c)
    BY <1>3, <2>1
  <2>2. CASE ~PeerConnect(c)
    BY <1>9, <1>10, <2>2
  <2> QED BY <2>1, <2>2
<1> QED BY SMTT(60), <1>1, <1>11, <1>12

\* Nothing happens to any connection or client.
Still == UNCHANGED <<sock, heap, backlog, file, clients, live, regfail, ooms, interest>>

\* The kinds of steps, as far as connections and clients go.
LEMMA Cases ==
    ASSUME Base, [Next]_vars
    PROVE  \/ Still
           \/ PeerStep
           \/ \E e \in fired : ReadsClient(e) /\ ReadError(e)
           \/ \E e \in fired : ReadsClient(e) /\ ReadExecutes(e)
           \/ WriteDone
           \/ \E fd \in Fds : ClosesAt(fd) /\ Closes(fd)
           \/ \E c \in Conns, fd \in Fds, x \in Cells : AcceptsAt(c, fd) /\ Adds(c, fd, x)
           \/ \E c \in Conns, fd \in Fds : AcceptsAt(c, fd) /\ Loses(c, fd)
           \/ regfail'
           \/ ServerStops
<1> DEFINE Goal ==
           \/ Still
           \/ PeerStep
           \/ \E e \in fired : ReadsClient(e) /\ ReadError(e)
           \/ \E e \in fired : ReadsClient(e) /\ ReadExecutes(e)
           \/ WriteDone
           \/ \E fd \in Fds : ClosesAt(fd) /\ Closes(fd)
           \/ \E c \in Conns, fd \in Fds, x \in Cells : AcceptsAt(c, fd) /\ Adds(c, fd, x)
           \/ \E c \in Conns, fd \in Fds : AcceptsAt(c, fd) /\ Loses(c, fd)
           \/ regfail'
           \/ ServerStops
<1> SUFFICES Goal
  OBVIOUS
<1>1. VectorOK
  BY DEF Base
<1>2. ASSUME NEW e \in fired, NEW c \in Conns, NEW fd \in Fds, Accepts(e, c, fd)
      PROVE  AcceptsAt(c, fd)
  BY <1>2, AcceptContext DEF AcceptsAt
<1>3. ASSUME NEW e \in fired, ReadsClient(e) PROVE ClosesAt(e.fd) /\ e.fd \in Fds
  BY <1>3, ReadContext DEF ClosesAt
<1>4. ASSUME NEW e \in fired, Accepted(e) PROVE Goal
  <2>1. ASSUME AcceptFails(e) PROVE Still
    BY <2>1 DEF AcceptFails, Still, evVars, kernelVars, heapVars, auxVars
  <2>2. ASSUME NEW c \in Conns, NEW fd \in Fds, AcceptCreateFails(e, c, fd)
        PROVE  AcceptsAt(c, fd) /\ Loses(c, fd)
    <3>1. PICK x : x \in Cells
      BY ConnectionsAssumption
    <3>2. Loses(c, fd)
      BY <1>1, <2>2, <3>1, LoseKind
    <3> QED BY <1>2, <2>2, <3>2 DEF AcceptCreateFails
  <2>3. ASSUME NEW c \in Conns, NEW fd \in Fds, NEW x \in Cells, AcceptOk(e, c, fd, x)
        PROVE  AcceptsAt(c, fd) /\ Adds(c, fd, x)
    BY <1>2, <2>3, AddKind DEF AcceptOk
  <2>4. ASSUME NEW c \in Conns, NEW fd \in Fds, NEW x \in Cells,
               AcceptRegisterFails(e, c, fd, x)
        PROVE  regfail'
    BY <2>4 DEF AcceptRegisterFails
  <2>5. ASSUME NEW c \in Conns, NEW fd \in Fds, NEW x \in Cells,
               AcceptPushFails(e, c, fd, x)
        PROVE  AcceptsAt(c, fd) /\ Loses(c, fd)
    BY <1>1, <1>2, <2>5, LoseKind DEF AcceptPushFails
  <2> QED BY <1>4, <2>1, <2>2, <2>3, <2>4, <2>5, Zenon DEF Accepted
<1>5. ASSUME NEW e \in fired, ReadDone(e) PROVE Goal
  <2>1. ReadsClient(e)
    BY <1>5 DEF ReadDone
  <2>2. CASE ReadGrowFails(e) \/ ReadEof(e)
    BY <1>3, <2>1, <2>2, CloseKind
  <2>3. CASE ReadError(e) \/ ReadExecutes(e)
    BY <2>1, <2>3
  <2> QED BY <1>5, <2>2, <2>3 DEF ReadDone
<1>6. CASE ev_api_poll \/ (\E e \in fired : SkipsReadFn(e)) \/ UNCHANGED vars
  BY <1>6
  DEF ev_api_poll, SkipsReadFn, Still, vars, evVars, kernelVars, heapVars, auxVars
<1>7. CASE PeerStep \/ WriteDone \/ ServerStops
  BY <1>7
<1> HIDE DEF Goal
<1> QED BY <1>4, <1>5, <1>6, <1>7, Steps, Zenon

-----------------------------------------------------------------------------
(* Connections *)

\* The types of the variables these proofs are about.
LEMMA SockFun ==
    ASSUME Base
    PROVE  /\ sock = [c \in Conns |-> sock[c]] /\ heap = [x \in Cells |-> heap[x]]
           /\ file \in [Fds -> Conns \cup {Free, Listener, "other"}]
           /\ backlog \in Seq(Conns) /\ clients \in Seq(Cells) /\ live \subseteq Cells
           /\ interest \in [Fds -> SUBSET Bits] /\ sfd \in Fds
           /\ Free \notin Conns /\ Listener \notin Conns /\ Free # Listener
<1>1. \E S : sock \in [Conns -> SockOf(S)] /\ heap \in [Cells -> ClientOf(S)]
  BY DEF Base, ShapeOK, Shaped
<1>2. sock = [c \in Conns |-> sock[c]] /\ heap = [x \in Cells |-> heap[x]]
  BY <1>1
<1>3. sfd \in Fds /\ Free \notin Conns /\ Listener \notin Conns /\ Free # Listener
  BY EvAssumption, ConnectionsAssumption DEF Fds, Free, Listener
<1> QED BY <1>2, <1>3 DEF Base, ShapeOK, VectorOK, EvTypeOK

\* A handler that keeps its connection keeps ConnsOK.
LEMMA TouchConns ==
    ASSUME Base, ConnsOK, NEW fd \in Fds, NEW h, NEW s, Touches(fd, h, s),
           sock[file[fd]].rst \/ ~s.err \/ s.err = sock[file[fd]].err
    PROVE  ConnsOK'
<1> SUFFICES ASSUME ~regfail' PROVE ConnsOK'
  BY DEF ConnsOK
<1>1. ~regfail /\ UNCHANGED <<file, backlog>> /\ file[fd] \in Conns
  BY DEF Touches, ClosesAt
<1>2. sock[file[fd]].state = "accepted" /\ (s.err => s.rst)
  BY <1>1 DEF ConnsOK, Touches
<1>3. /\ \A c \in Conns : c # file[fd] => sock'[c] = sock[c]
      /\ sock'[file[fd]] = s /\ s.state = "accepted"
  BY <1>1, <1>2, SockFun DEF Touches
<1>4. \A c \in Conns : sock'[c].state = sock[c].state
  BY <1>2, <1>3
<1>5. \A i \in DOMAIN backlog : backlog[i] \in Conns
  BY SockFun
<1> QED BY <1>1, <1>2, <1>3, <1>4, <1>5 DEF ConnsOK

\* So do the peers.
LEMMA PeerConns ==
    ASSUME Base, ConnsOK, PeerStep
    PROVE  ConnsOK'
<1> SUFFICES ASSUME ~regfail' PROVE ConnsOK'
  BY DEF ConnsOK
<1>1. ~regfail /\ file' = file
  BY PeerPushes
<1>2. /\ sock = [c \in Conns |-> sock[c]] /\ backlog \in Seq(Conns)
      /\ \A i \in DOMAIN backlog : backlog[i] \in Conns
  BY SockFun
<1>3. ASSUME NEW c \in Conns, sock[c].state = "new",
             sock' = [sock EXCEPT ![c].state = "backlog"],
             backlog' = Append(backlog, c)
      PROVE  ConnsOK'
  <2>1. \A d \in Conns : d # c => sock'[d] = sock[d]
    BY <1>2, <1>3
  <2>2. /\ sock'[c].state = "backlog" /\ sock'[c].login = sock[c].login
        /\ sock'[c].database = sock[c].database /\ sock'[c].replied = sock[c].replied
        /\ sock'[c].sent = sock[c].sent /\ sock'[c].err = sock[c].err
        /\ sock'[c].rst = sock[c].rst
    <3>1. \E S : sock[c] \in SockOf(S)
      BY DEF Base, ShapeOK, Shaped
    <3>2. sock'[c] = [sock[c] EXCEPT !.state = "backlog"]
      BY <1>2, <1>3
    <3> QED BY <3>1, <3>2 DEF SockOf
  <2>3. /\ \A i \in DOMAIN backlog' : i \in DOMAIN backlog \/ i = Len(backlog) + 1
        /\ \A i \in DOMAIN backlog : backlog'[i] = backlog[i] /\ i # Len(backlog) + 1
        /\ backlog'[Len(backlog) + 1] = c
    BY <1>2, <1>3
  <2>4. \A i \in DOMAIN backlog : backlog[i] # c
    BY <1>1, <1>3 DEF ConnsOK
  <2>5. \A i \in DOMAIN backlog' : sock'[backlog'[i]].state = "backlog"
    <3>1. \A i \in DOMAIN backlog : sock'[backlog[i]].state = "backlog"
      BY <1>1, <1>2, <2>1, <2>4 DEF ConnsOK
    <3> QED BY <2>2, <2>3, <3>1
  <2>6. \A i, j \in DOMAIN backlog' : backlog'[i] = backlog'[j] => i = j
    BY <1>1, <2>3, <2>4 DEF ConnsOK
  <2>7. \A fd \in Fds : file[fd] \in Conns => file[fd] # c
    BY <1>1, <1>3 DEF ConnsOK
  <2>8. \A d \in Conns : sock'[d].state \in {"new", "backlog"} =>
            /\ ~sock'[d].login /\ sock'[d].database = 0
            /\ sock'[d].sent = <<>> /\ sock'[d].replied = 0
    BY <1>1, <1>3, <2>1, <2>2 DEF ConnsOK
  <2>9. \A d \in Conns : sock'[d].err => sock'[d].rst
    BY <1>1, <2>1, <2>2 DEF ConnsOK
  <2> QED BY <1>1, <2>1, <2>5, <2>6, <2>7, <2>8, <2>9 DEF ConnsOK
<1>4. ASSUME NEW c \in Conns, backlog' = backlog, Moves(c) PROVE ConnsOK'
  <2>1. PICK s : sock' = [sock EXCEPT ![c] = s] /\ Pushes(sock[c], s)
    BY <1>4 DEF Moves
  <2>2. sock'[c] = s /\ \A d \in Conns : d # c => sock'[d] = sock[d]
    BY <1>2, <2>1
  <2>3. s.state = sock[c].state /\ s.login = sock[c].login /\ s.sent = sock[c].sent
        /\ s.database = sock[c].database /\ s.replied = sock[c].replied
        /\ (s.err => s.rst)
    BY <1>1, <2>1 DEF Pushes, ConnsOK
  <2>4. \A d \in Conns : /\ sock'[d].state = sock[d].state /\ sock'[d].login = sock[d].login
                         /\ sock'[d].database = sock[d].database /\ sock'[d].replied = sock[d].replied
                         /\ sock'[d].sent = sock[d].sent /\ (sock'[d].err => sock'[d].rst)
    BY <1>1, <2>2, <2>3 DEF ConnsOK
  <2> QED BY ZenonT(60), <1>1, <1>2, <1>4, <2>4 DEF ConnsOK
<1> QED BY <1>3, <1>4, PeerPushes, Zenon

\* Every step keeps ConnsOK: files, backlog and socket states agree.
LEMMA ConnsNext ==
    ASSUME Base, ConnsOK, ClientsOK, [Next]_vars
    PROVE  ConnsOK'
<1> SUFFICES ASSUME ~regfail' PROVE ConnsOK'
  BY DEF ConnsOK
<1>1. CASE Still
  BY <1>1 DEF Still, ConnsOK
<1>2. ASSUME NEW e \in fired, ReadsClient(e), ReadError(e) PROVE ConnsOK'
  <2>1. PICK h, s : Touches(e.fd, h, s) /\ s.err = FALSE
    BY <1>2, ReadErrorTouches
  <2>2. e.fd \in Fds
    BY <1>2, ReadContext
  <2> QED BY <2>1, <2>2, TouchConns
<1>3. ASSUME NEW e \in fired, ReadsClient(e), ReadExecutes(e) PROVE ConnsOK'
  <2>1. PICK h, s : Touches(e.fd, h, s) /\ Answers(e.fd, h, s)
    BY <1>3, ReadExecutesTouches
  <2>2. e.fd \in Fds /\ s.err = sock[file[e.fd]].err
    BY <1>3, <2>1, ReadContext DEF Answers
  <2> QED BY <2>1, <2>2, TouchConns
<1>4. CASE WriteDone
  <2>1. CASE WriteKills
    BY <1>1, <2>1 DEF WriteKills, Still, evVars, kernelVars, heapVars
  <2>2. ASSUME NEW h, NEW s, Touches(cur.fd, h, s), s.err => sock[file[cur.fd]].err
        PROVE  ConnsOK'
    <3>1. cur.fd \in Fds /\ file[cur.fd] \in Conns
      BY <1>4, WriteContext DEF WriteDone
    <3>2. sock[file[cur.fd]].rst \/ ~s.err
      BY <2>2, <3>1 DEF ConnsOK, Touches
    <3> QED BY <2>2, <3>1, <3>2, TouchConns
  <2> QED BY <1>4, <2>1, <2>2, WriteTouches DEF Sends
<1>5. ASSUME NEW fd \in Fds, ClosesAt(fd), Closes(fd) PROVE ConnsOK'
  <2>1. /\ ~regfail /\ backlog' = backlog /\ file[fd] \in Conns
        /\ sock[file[fd]].state = "accepted"
    BY <1>5 DEF Closes, ClosesAt, ConnsOK
  <2>2. sock'[file[fd]] = ClosedSocket /\ \A d \in Conns : d # file[fd] => sock'[d] = sock[d]
    BY <1>5, <2>1, SockFun DEF Closes
  <2>3. ClosedSocket.state = "closed" /\ ~ClosedSocket.err
    BY NewShapes DEF ClosedSocket, NewSocket
  <2>4. \A i \in DOMAIN backlog : backlog[i] # file[fd] /\ backlog[i] \in Conns
    BY <2>1, SockFun DEF ConnsOK
  <2>5. \A gd \in Fds : file'[gd] = (IF gd = fd THEN Free ELSE file[gd])
    BY <1>5, SockFun DEF Closes
  <2>6. \A gd \in Fds : file'[gd] \in Conns => gd # fd /\ file'[gd] = file[gd] /\ file[gd] # file[fd]
    BY <2>1, <2>5, SockFun DEF ConnsOK
  <2>7. \A d \in Conns : sock'[d].state \in {"new", "backlog"} => d # file[fd]
    BY <2>2, <2>3
  <2> QED BY <2>1, <2>2, <2>3, <2>4, <2>6, <2>7 DEF ConnsOK
<1>6. ASSUME NEW c \in Conns, NEW fd \in Fds, AcceptsAt(c, fd), ~regfail,
             file' = [file EXCEPT ![fd] = c],
             sock' = [sock EXCEPT ![c].state = "accepted"]
      PROVE  ConnsOK'
  <2>1. /\ backlog \in Seq(Conns) /\ backlog # <<>> /\ c = backlog[1]
        /\ backlog' = Tail(backlog)
    BY <1>6, SockFun DEF AcceptsAt
  <2>2. \A d \in Conns : d # c => sock'[d] = sock[d]
    BY <1>6, SockFun
  <2>3. sock'[c].state = "accepted" /\ (sock'[c].err => sock'[c].rst)
    <3>1. \E S : sock[c] \in SockOf(S)
      BY DEF Base, ShapeOK, Shaped
    <3>2. sock'[c] = [sock[c] EXCEPT !.state = "accepted"]
      BY <1>6, SockFun
    <3>3. sock[c].err => sock[c].rst
      BY <1>6 DEF ConnsOK
    <3> QED BY <3>1, <3>2, <3>3 DEF SockOf
  <2>4. 1 \in DOMAIN backlog /\ sock[c].state = "backlog"
    BY <1>6, <2>1 DEF ConnsOK
  <2>5. \A i \in DOMAIN backlog' :
            i + 1 \in DOMAIN backlog /\ i + 1 # 1 /\ backlog'[i] = backlog[i + 1] /\ i \in Nat
    BY <2>1
  <2>6. \A i \in DOMAIN backlog' : backlog'[i] \in Conns /\ backlog'[i] # c
    BY <1>6, <2>1, <2>4, <2>5 DEF ConnsOK
  <2>7. \A i \in DOMAIN backlog' : sock'[backlog'[i]].state = "backlog"
    BY <1>6, <2>2, <2>5, <2>6 DEF ConnsOK
  <2>8. \A i, j \in DOMAIN backlog' : backlog'[i] = backlog'[j] => i = j
    <3> TAKE i, j \in DOMAIN backlog'
    <3> HAVE backlog'[i] = backlog'[j]
    <3>1. i + 1 = j + 1
      BY <1>6, <2>5 DEF ConnsOK
    <3> QED BY <2>5, <3>1
  <2>9. \A gd \in Fds : file[gd] # c
    BY <1>6, <2>4 DEF ConnsOK
  <2>10. \A gd \in Fds : file'[gd] = (IF gd = fd THEN c ELSE file[gd])
    BY <1>6, SockFun
  <2>11. \A gd \in Fds : file'[gd] \in Conns => sock'[file'[gd]].state = "accepted"
    BY <1>6, <2>2, <2>3, <2>9, <2>10 DEF ConnsOK
  <2>12. \A gd, hd \in Fds : file'[gd] \in Conns /\ file'[gd] = file'[hd] => gd = hd
    BY <1>6, <2>9, <2>10 DEF ConnsOK
  <2>13. \A d \in Conns : sock'[d].state \in {"new", "backlog"} =>
             /\ ~sock'[d].login /\ sock'[d].database = 0
             /\ sock'[d].sent = <<>> /\ sock'[d].replied = 0
    BY <1>6, <2>2, <2>3 DEF ConnsOK
  <2>14. \A d \in Conns : sock'[d].err => sock'[d].rst
    BY <1>6, <2>2, <2>3 DEF ConnsOK
  <2> QED BY <2>7, <2>8, <2>11, <2>12, <2>13, <2>14 DEF ConnsOK
<1>7. ASSUME NEW c \in Conns, NEW fd \in Fds, NEW x \in Cells, AcceptsAt(c, fd),
             Adds(c, fd, x)
      PROVE  ConnsOK'
  <2>1. /\ ~regfail /\ file' = [file EXCEPT ![fd] = c]
        /\ sock' = [sock EXCEPT ![c].state = "accepted"]
    BY <1>7 DEF Adds
  <2> QED BY <1>6, <1>7, <2>1
<1>8. ASSUME NEW c \in Conns, NEW fd \in Fds, AcceptsAt(c, fd), Loses(c, fd)
      PROVE  ConnsOK'
  <2>1. /\ ~regfail /\ file' = [file EXCEPT ![fd] = c]
        /\ sock' = [sock EXCEPT ![c].state = "accepted"]
    BY <1>8 DEF Loses
  <2> QED BY <1>6, <1>8, <2>1
<1>9. CASE ServerStops
  <2> DEFINE Shut(fd) == fd = sfd \/ \E i \in DOMAIN clients : heap[clients[i]].fd = fd
  <2>1. ~regfail /\ backlog' = backlog /\ ~Stopped
    BY <1>9, StopKind DEF ServerStops, Interrupted, Base, FilesOK
  <2>2. CASE UNCHANGED <<file, sock>>
    BY <2>1, <2>2 DEF ConnsOK
  <2>3. CASE /\ file' = [fd \in Fds |-> IF Shut(fd) THEN Free ELSE file[fd]]
             /\ sock' = [c \in Conns |-> IF \E fd : file[fd] = c /\ Shut(fd)
                                         THEN ClosedSocket ELSE sock[c]]
    <3>1. \A fd : Shut(fd) => fd \in Fds
      BY <2>1, SockFun DEF ClientsOK
    <3>2. \A fd \in Fds : file'[fd] \in Conns => ~Shut(fd) /\ file'[fd] = file[fd]
      BY <2>3, SockFun
    <3>3. \A c \in Conns : sock[c].state = "backlog" => sock'[c] = sock[c]
      BY <2>1, <2>3, <3>1 DEF ConnsOK
    <3>4. \A fd \in Fds : file'[fd] \in Conns => sock'[file[fd]] = sock[file[fd]]
      BY <2>1, <2>3, <3>1, <3>2 DEF ConnsOK
    <3>5. ClosedSocket.state = "closed" /\ ~ClosedSocket.err
      BY NewShapes DEF ClosedSocket, NewSocket
    <3>6. \A c \in Conns : sock'[c] = sock[c] \/ sock'[c] = ClosedSocket
      BY <2>3
    <3>7. \A i \in DOMAIN backlog : backlog[i] \in Conns
      BY SockFun
    <3> QED BY <2>1, <3>2, <3>3, <3>4, <3>5, <3>6, <3>7 DEF ConnsOK
  <2> QED BY <1>9, <2>2, <2>3, StopKind
<1> QED BY <1>1, <1>2, <1>3, <1>4, <1>5, <1>7, <1>8, <1>9, PeerConns, Cases, Zenon

-----------------------------------------------------------------------------
(* Clients *)

\* An entry of the vector is a client of its own, on a connection of its own.
LEMMA Apart ==
    ASSUME Base, ConnsOK, ClientsOK, ~regfail, ~Stopped, NEW i \in DOMAIN clients
    PROVE  /\ clients[i] \in Cells /\ clients[i] \in live
           /\ heap[clients[i]].fd \in Fds \ {sfd} /\ file[heap[clients[i]].fd] \in Conns
           /\ interest[heap[clients[i]].fd] # {}
           /\ \A fd \in Fds : ClosesAt(fd) =>
                  IF heap[clients[i]].fd = fd
                  THEN i = vec_find(fd) /\ clients[i] = ClientAt(fd)
                  ELSE /\ clients[i] # ClientAt(fd) /\ i # vec_find(fd)
                       /\ file[heap[clients[i]].fd] # file[fd]
<1>1. clients[i] \in Cells
  BY SockFun
<1>2. /\ clients[i] \in live /\ heap[clients[i]].fd \in Fds \ {sfd}
      /\ interest[heap[clients[i]].fd] # {}
  BY DEF ClientsOK
<1>3. file[heap[clients[i]].fd] \in Conns
  BY <1>2 DEF Base, FilesOK
<1>4. ASSUME NEW fd \in Fds, ClosesAt(fd)
      PROVE  IF heap[clients[i]].fd = fd
             THEN i = vec_find(fd) /\ clients[i] = ClientAt(fd)
             ELSE /\ clients[i] # ClientAt(fd) /\ i # vec_find(fd)
                  /\ file[heap[clients[i]].fd] # file[fd]
  <2>1. vec_find(fd) \in DOMAIN clients /\ heap[clients[vec_find(fd)]].fd = fd
    BY <1>4 DEF ClosesAt, ClientAt
  <2>2. heap[clients[i]].fd = fd => i = vec_find(fd)
    BY <2>1 DEF ClientsOK
  <2>3. heap[clients[i]].fd # fd => file[heap[clients[i]].fd] # file[fd]
    BY <1>2, <1>3 DEF ConnsOK
  <2> QED BY <2>1, <2>2, <2>3 DEF ClientAt
<1> QED BY <1>1, <1>2, <1>3, <1>4

\* The entries that CloseClient leaves.
LEMMA LeftEntries ==
    ASSUME Base, ConnsOK, ClientsOK, ~regfail, NEW fd \in Fds, ClosesAt(fd), Closes(fd)
    PROVE  /\ \A i \in DOMAIN clients' :
                  LET j == IF i < vec_find(fd) THEN i ELSE i + 1
                  IN  /\ i \in Nat /\ j \in DOMAIN clients /\ clients'[i] = clients[j]
                      /\ heap[clients[j]].fd # fd
                      /\ clients[j] \in live' /\ heap'[clients[j]] = heap[clients[j]]
                      /\ file'[heap[clients[j]].fd] = file[heap[clients[j]].fd]
                      /\ interest'[heap[clients[j]].fd] = interest[heap[clients[j]].fd]
                      /\ sock'[file[heap[clients[j]].fd]] = sock[file[heap[clients[j]].fd]]
           /\ ~Stopped'
<1>1. /\ clients' = RemoveAt(clients, vec_find(fd)) /\ vec_find(fd) \in DOMAIN clients
      /\ ~Stopped /\ fd # sfd
  BY DEF Closes, ClosesAt
<1>2. vec_find(fd) \in Nat
  BY <1>1, SockFun
<1> SUFFICES ASSUME NEW i \in DOMAIN clients', NEW j, j = IF i < vec_find(fd) THEN i ELSE i + 1
             PROVE  /\ i \in Nat /\ j \in DOMAIN clients /\ clients'[i] = clients[j]
                    /\ heap[clients[j]].fd # fd
                    /\ clients[j] \in live' /\ heap'[clients[j]] = heap[clients[j]]
                    /\ file'[heap[clients[j]].fd] = file[heap[clients[j]].fd]
                    /\ interest'[heap[clients[j]].fd] = interest[heap[clients[j]].fd]
                    /\ sock'[file[heap[clients[j]].fd]] = sock[file[heap[clients[j]].fd]]
  <2>1. ~Stopped'
    BY <1>1, SockFun DEF Closes, Stopped
  <2> QED BY <2>1
<1>3. j \in DOMAIN clients /\ j # vec_find(fd) /\ clients'[i] = clients[j]
  <2> DEFINE k == vec_find(fd)
             r == RemoveAt(clients, k)
  <2>1. clients \in Seq(Cells) /\ k \in DOMAIN clients
    BY <1>1, SockFun
  <2>2. \A q \in DOMAIN r : LET p == IF q < k THEN q ELSE q + 1
                           IN  p \in DOMAIN clients /\ p # k /\ r[q] = clients[p]
    <3> HIDE DEF k
    <3> QED BY <2>1, RemovedAt
  <2>3. clients' = r
    BY <1>1
  <2> HIDE DEF r
  <2> QED BY <2>2, <2>3
<1>4. i \in Nat
  <2>1. clients' \in Seq(Cells)
    BY <1>1, RemovedAt, SockFun
  <2> QED BY <2>1
<1>5. /\ clients[j] \in Cells /\ clients[j] \in live
      /\ heap[clients[j]].fd \in Fds /\ file[heap[clients[j]].fd] \in Conns
  BY <1>1, <1>3, Apart
<1>6. /\ heap[clients[j]].fd # fd /\ clients[j] # ClientAt(fd)
      /\ file[heap[clients[j]].fd] # file[fd]
  <2>1. heap[clients[j]].fd # fd
    BY <1>1, <1>3, Apart
  <2> QED BY <1>1, <1>3, <2>1, Apart
<1> QED BY <1>3, <1>4, <1>5, <1>6, SockFun DEF Closes

\* The entries after a successful accept: those there were, and the new one.
LEMMA MoreEntries ==
    ASSUME Base, ConnsOK, ClientsOK, ~regfail,
           NEW c \in Conns, NEW fd \in Fds, NEW x \in Cells, AcceptsAt(c, fd), Adds(c, fd, x)
    PROVE  /\ \A i \in DOMAIN clients' : i \in DOMAIN clients \/ i = Len(clients) + 1
           /\ \A i \in DOMAIN clients :
                  /\ clients'[i] = clients[i] /\ i # Len(clients) + 1
                  /\ clients[i] # x /\ heap[clients[i]].fd # fd
                  /\ clients[i] \in live' /\ heap'[clients[i]] = heap[clients[i]]
                  /\ file'[heap[clients[i]].fd] = file[heap[clients[i]].fd]
                  /\ interest'[heap[clients[i]].fd] = interest[heap[clients[i]].fd]
                  /\ file[heap[clients[i]].fd] # c
                  /\ sock'[file[heap[clients[i]].fd]] = sock[file[heap[clients[i]].fd]]
           /\ clients'[Len(clients) + 1] = x /\ x \in live'
           /\ heap'[x] = NewClient(fd) /\ heap'[x].fd = fd /\ file'[fd] = c
           /\ interest'[fd] = {EV_READ} /\ fd # sfd
           /\ ~Stopped'
<1>1. ~Stopped /\ fd # sfd /\ interest[fd] = {} /\ x \notin live
  BY DEF AcceptsAt, Adds
<1>2. clients' = Append(clients, x) /\ clients \in Seq(Cells)
  BY SockFun DEF Adds
<1>3. /\ \A i \in DOMAIN clients' : i \in DOMAIN clients \/ i = Len(clients) + 1
      /\ \A i \in DOMAIN clients : clients'[i] = clients[i] /\ i # Len(clients) + 1
      /\ clients'[Len(clients) + 1] = x
  BY <1>2
<1>4. /\ x \in live' /\ heap'[x] = NewClient(fd) /\ file'[fd] = c
      /\ interest'[fd] = {EV_READ} /\ ~Stopped'
  BY <1>1, SockFun DEF Adds, Stopped
<1>5. heap'[x].fd = fd
  BY <1>4 DEF NewClient
<1>6. sock[c].state = "backlog"
  <2>1. 1 \in DOMAIN backlog /\ c = backlog[1]
    BY SockFun DEF AcceptsAt
  <2> QED BY <2>1 DEF ConnsOK
<1>7. ASSUME NEW i \in DOMAIN clients
      PROVE  /\ clients[i] # x /\ heap[clients[i]].fd # fd
             /\ clients[i] \in live' /\ heap'[clients[i]] = heap[clients[i]]
             /\ file'[heap[clients[i]].fd] = file[heap[clients[i]].fd]
             /\ interest'[heap[clients[i]].fd] = interest[heap[clients[i]].fd]
             /\ file[heap[clients[i]].fd] # c
             /\ sock'[file[heap[clients[i]].fd]] = sock[file[heap[clients[i]].fd]]
  <2>1. /\ clients[i] \in Cells /\ clients[i] \in live /\ heap[clients[i]].fd \in Fds
        /\ interest[heap[clients[i]].fd] # {} /\ file[heap[clients[i]].fd] \in Conns
    BY <1>1, Apart
  <2>2. file[heap[clients[i]].fd] # c
    BY <1>6, <2>1 DEF ConnsOK
  <2> QED BY <1>1, <2>1, <2>2, SockFun DEF Adds
<1> QED BY <1>1, <1>3, <1>4, <1>5, <1>7

\* The entries after an accept that lost its connection.
LEMMA SameEntries ==
    ASSUME Base, ConnsOK, ClientsOK, ~regfail,
           NEW c \in Conns, NEW fd \in Fds, AcceptsAt(c, fd), Loses(c, fd)
    PROVE  /\ clients' = clients /\ ~Stopped' /\ ~Stopped
           /\ \A i \in DOMAIN clients :
                  /\ clients[i] \in live' /\ heap'[clients[i]] = heap[clients[i]]
                  /\ file'[heap[clients[i]].fd] = file[heap[clients[i]].fd]
                  /\ interest'[heap[clients[i]].fd] = interest[heap[clients[i]].fd]
                  /\ sock'[file[heap[clients[i]].fd]] = sock[file[heap[clients[i]].fd]]
<1>1. ~Stopped /\ fd # sfd /\ interest[fd] = {} /\ clients' = clients
  BY DEF AcceptsAt, Loses
<1>2. ~Stopped'
  BY <1>1, SockFun DEF Loses, Stopped
<1>3. sock[c].state = "backlog"
  <2>1. 1 \in DOMAIN backlog /\ c = backlog[1]
    BY SockFun DEF AcceptsAt
  <2> QED BY <2>1 DEF ConnsOK
<1>4. ASSUME NEW i \in DOMAIN clients
      PROVE  /\ clients[i] \in live' /\ heap'[clients[i]] = heap[clients[i]]
             /\ file'[heap[clients[i]].fd] = file[heap[clients[i]].fd]
             /\ interest'[heap[clients[i]].fd] = interest[heap[clients[i]].fd]
             /\ sock'[file[heap[clients[i]].fd]] = sock[file[heap[clients[i]].fd]]
  <2>1. /\ clients[i] \in Cells /\ clients[i] \in live /\ heap[clients[i]].fd \in Fds
        /\ interest[heap[clients[i]].fd] # {} /\ file[heap[clients[i]].fd] \in Conns
    BY <1>1, Apart
  <2>2. file[heap[clients[i]].fd] # c /\ heap[clients[i]].fd # fd
    BY <1>1, <1>3, <2>1 DEF ConnsOK
  <2> QED BY <1>1, <2>1, <2>2, SockFun DEF Loses
<1> QED BY <1>1, <1>2, <1>4

\* The entries while nobody comes or goes.
LEMMA QuietEntries ==
    ASSUME Base, Quiet
    PROVE  /\ clients' = clients /\ live' = live /\ file' = file
           /\ Stopped' <=> Stopped
           /\ \A i \in DOMAIN clients : heap'[clients[i]].fd = heap[clients[i]].fd
<1>1. \A i \in DOMAIN clients : clients[i] \in Cells
  BY SockFun
<1> QED BY <1>1 DEF Quiet, Stopped

\* Every step keeps ClientsOK: the vector holds allocated structs, one per connection.
LEMMA ClientsNext ==
    ASSUME Base, ConnsOK, ClientsOK, [Next]_vars
    PROVE  ClientsOK'
<1> SUFFICES ASSUME ~regfail', ~Stopped' PROVE ClientsOK'
  BY DEF ClientsOK
<1>1. CASE Quiet
  <2>1. ~regfail /\ ~Stopped /\ \A fd \in Fds : interest'[fd] = {} <=> interest[fd] = {}
    BY <1>1, QuietEntries DEF Quiet
  <2> QED BY <1>1, <2>1, QuietEntries DEF ClientsOK
<1>2. ASSUME NEW fd \in Fds, ClosesAt(fd), Closes(fd) PROVE ClientsOK'
  <2>1. ~regfail /\ ~Stopped
    BY <1>2 DEF Closes, ClosesAt
  <2> DEFINE J(i) == IF i < vec_find(fd) THEN i ELSE i + 1
  <2>2. \A i \in DOMAIN clients' :
            /\ i \in Nat /\ J(i) \in DOMAIN clients /\ clients'[i] = clients[J(i)]
            /\ clients[J(i)] \in live' /\ heap'[clients[J(i)]] = heap[clients[J(i)]]
            /\ interest'[heap[clients[J(i)]].fd] = interest[heap[clients[J(i)]].fd]
    BY <1>2, <2>1, LeftEntries
  <2>3. \A i, k \in DOMAIN clients' : J(i) = J(k) => i = k
    <3>1. vec_find(fd) \in Nat
      BY <1>2, SockFun DEF ClosesAt
    <3> QED BY <2>2, <3>1
  <2> HIDE DEF J
  <2>4. \A i \in DOMAIN clients' :
            /\ clients'[i] \in live'
            /\ heap'[clients'[i]].fd \in Fds \ {sfd}
            /\ interest'[heap'[clients'[i]].fd] # {}
    BY <2>1, <2>2 DEF ClientsOK
  <2>5. \A i, k \in DOMAIN clients' : heap'[clients'[i]].fd = heap'[clients'[k]].fd => i = k
    BY <2>1, <2>2, <2>3 DEF ClientsOK
  <2> QED BY <2>4, <2>5 DEF ClientsOK
<1>3. ASSUME NEW c \in Conns, NEW fd \in Fds, NEW x \in Cells, AcceptsAt(c, fd),
             Adds(c, fd, x)
      PROVE  ClientsOK'
  <2>1. ~regfail /\ ~Stopped
    BY <1>3 DEF Adds, AcceptsAt
  <2> DEFINE Good(i) == /\ clients'[i] \in live'
                        /\ heap'[clients'[i]].fd \in Fds \ {sfd}
                        /\ interest'[heap'[clients'[i]].fd] # {}
  <2>2. \A i \in DOMAIN clients : Good(i) /\ heap'[clients'[i]].fd = heap[clients[i]].fd
    BY <1>3, <2>1, MoreEntries DEF ClientsOK
  <2>3. Good(Len(clients) + 1) /\ heap'[clients'[Len(clients) + 1]].fd = fd
    BY SMTT(60), <1>3, <2>1, MoreEntries
  <2>4. /\ \A i \in DOMAIN clients' : i \in DOMAIN clients \/ i = Len(clients) + 1
        /\ \A i \in DOMAIN clients : heap[clients[i]].fd # fd
    BY <1>3, <2>1, MoreEntries
  <2> HIDE DEF Good
  <2>5. \A i, k \in DOMAIN clients' : heap'[clients'[i]].fd = heap'[clients'[k]].fd => i = k
    BY <2>1, <2>2, <2>3, <2>4 DEF ClientsOK
  <2> QED BY <2>2, <2>3, <2>4, <2>5 DEF ClientsOK, Good
<1>4. ASSUME NEW c \in Conns, NEW fd \in Fds, AcceptsAt(c, fd), Loses(c, fd)
      PROVE  ClientsOK'
  <2>1. ~regfail
    BY <1>4 DEF Loses
  <2> QED BY <1>4, <2>1, SameEntries DEF ClientsOK
<1>5. ASSUME NEW c, NEW x, Drops(c, x) PROVE ClientsOK'
  BY <1>5 DEF Drops
<1>6. CASE ServerStops
  <2>1. UNCHANGED <<clients, heap, interest, regfail>> /\ ~Stopped
    BY <1>6, StopKind DEF ServerStops, Interrupted, Base, FilesOK
  <2>2. UNCHANGED live
    BY <1>6, StopKind, SockFun DEF Stopped
  <2> QED BY <2>1, <2>2 DEF ClientsOK
<1> QED BY <1>1, <1>2, <1>3, <1>4, <1>5, <1>6, Kinds, Zenon

-----------------------------------------------------------------------------
(* What clients hold is their own *)

Own(h, t, c) ==
    /\ h.view.authenticated <=> t.login
    /\ h.view.database_num = t.database
    /\ \A k \in DOMAIN h.builder : h.builder[k].conn = c
    /\ h.read_buf # <<>> => t.rst

\* OwnOK, one client at a time.
LEMMA OwnEntry ==
    OwnOK <=> (~regfail /\ ~Stopped =>
                   \A i \in DOMAIN clients :
                       LET h == heap[clients[i]]
                       IN  Own(h, sock[file[h.fd]], file[h.fd]))
BY DEF OwnOK, Own

\* A handler that keeps its own client in order keeps them all.
LEMMA TouchEntries ==
    ASSUME Base, ConnsOK, ClientsOK, ~regfail, NEW fd \in Fds, NEW h, NEW s,
           Touches(fd, h, s)
    PROVE  /\ clients' = clients /\ file' = file /\ ~Stopped' /\ ~Stopped
           /\ \A i \in DOMAIN clients :
                  /\ heap'[clients[i]].fd = heap[clients[i]].fd
                  /\ IF heap[clients[i]].fd = fd
                     THEN /\ i = vec_find(fd)
                          /\ heap'[clients[i]] = h /\ heap[clients[i]] = heap[ClientAt(fd)]
                          /\ sock'[file[heap[clients[i]].fd]] = s
                     ELSE /\ heap'[clients[i]] = heap[clients[i]]
                          /\ sock'[file[heap[clients[i]].fd]] = sock[file[heap[clients[i]].fd]]
                          /\ file[heap[clients[i]].fd] # file[fd]
<1>1. clients' = clients /\ file' = file /\ ~Stopped' /\ ~Stopped /\ ClosesAt(fd)
  BY DEF Touches, ClosesAt, Stopped
<1>2. ASSUME NEW i \in DOMAIN clients
      PROVE  /\ heap'[clients[i]].fd = heap[clients[i]].fd
             /\ IF heap[clients[i]].fd = fd
                THEN /\ i = vec_find(fd)
                     /\ heap'[clients[i]] = h /\ heap[clients[i]] = heap[ClientAt(fd)]
                     /\ sock'[file[heap[clients[i]].fd]] = s
                ELSE /\ heap'[clients[i]] = heap[clients[i]]
                     /\ sock'[file[heap[clients[i]].fd]] = sock[file[heap[clients[i]].fd]]
                     /\ file[heap[clients[i]].fd] # file[fd]
  <2>1. /\ clients[i] \in Cells /\ file[heap[clients[i]].fd] \in Conns
        /\ IF heap[clients[i]].fd = fd
           THEN i = vec_find(fd) /\ clients[i] = ClientAt(fd)
           ELSE clients[i] # ClientAt(fd) /\ file[heap[clients[i]].fd] # file[fd]
    BY <1>1, Apart
  <2> QED BY <1>1, <2>1, SockFun DEF Touches
<1> QED BY <1>1, <1>2

\* A handler that keeps what is the connection's own keeps OwnOK.
LEMMA TouchOwn ==
    ASSUME Base, ConnsOK, ClientsOK, OwnOK, ~regfail, NEW fd \in Fds, NEW h, NEW s,
           Touches(fd, h, s),
           Own(heap[ClientAt(fd)], sock[file[fd]], file[fd]) => Own(h, s, file[fd])
    PROVE  OwnOK'
<1>1. \A i \in DOMAIN clients' :
          Own(heap'[clients'[i]], sock'[file'[heap'[clients'[i]].fd]], file'[heap'[clients'[i]].fd])
  <2> TAKE i \in DOMAIN clients'
  <2>1. /\ i \in DOMAIN clients /\ clients' = clients /\ file' = file /\ ~Stopped
        /\ heap'[clients[i]].fd = heap[clients[i]].fd
    BY TouchEntries
  <2>2. Own(heap[clients[i]], sock[file[heap[clients[i]].fd]], file[heap[clients[i]].fd])
    BY <2>1, OwnEntry
  <2>3. CASE heap[clients[i]].fd = fd
    BY <2>1, <2>2, <2>3, TouchEntries
  <2>4. CASE heap[clients[i]].fd # fd
    BY <2>1, <2>2, <2>4, TouchEntries
  <2> QED BY <2>3, <2>4
<1> QED BY <1>1 DEF OwnOK, Own

\* Every step keeps OwnOK: a struct holds its connection's state.
LEMMA OwnNext ==
    ASSUME Base, ConnsOK, ClientsOK, OwnOK, [Next]_vars
    PROVE  OwnOK'
<1> SUFFICES ASSUME ~regfail', ~Stopped' PROVE OwnOK'
  BY DEF OwnOK
<1>1. CASE Still
  BY <1>1 DEF Still, OwnOK, Stopped
<1>2. ASSUME NEW e \in fired, ReadsClient(e), ReadError(e) PROVE OwnOK'
  <2> DEFINE g == heap[ClientAt(e.fd)]
             t == sock[file[e.fd]]
  <2>1. PICK h, s : /\ Touches(e.fd, h, s)
                    /\ h.view = g.view /\ h.builder = g.builder /\ s.login = t.login /\ t.err
                    /\ s.database = t.database /\ s.replied = t.replied
    BY <1>2, ReadErrorTouches
  <2>2. e.fd \in Fds /\ file[e.fd] \in Conns /\ ~regfail
    BY <1>2, <2>1, ReadContext DEF Touches
  <2>3. s.rst
    BY <2>1, <2>2 DEF ConnsOK, Touches
  <2>4. Own(g, t, file[e.fd]) => Own(h, s, file[e.fd])
    <3> HIDE DEF g, t
    <3> QED BY <2>1, <2>3 DEF Own
  <2> QED BY <2>1, <2>2, <2>4, TouchOwn
<1>3. ASSUME NEW e \in fired, ReadsClient(e), ReadExecutes(e) PROVE OwnOK'
  <2> DEFINE g == heap[ClientAt(e.fd)]
             c == file[e.fd]
             t == sock[c]
             cmd == parse(Received(e.fd))
             n == IF Received(e.fd) = <<>> THEN 0 ELSE Head(Received(e.fd)).n
  <2>1. PICK h, s : Touches(e.fd, h, s) /\ Answers(e.fd, h, s)
    BY <1>3, ReadExecutesTouches
  <2>2. e.fd \in Fds /\ c \in Conns /\ ClientAt(e.fd) \in Cells /\ ~regfail
    BY SMTT(60), <1>3, <2>1, ReadContext DEF Touches
  <2>3. PICK o \in execute_cmd(st, g.view, cmd, Len(clients)) :
            /\ h.view = o.client
            /\ h.builder = g.builder \o ReplyTokens(c, n, o.reply)
            /\ h.read_buf = <<>>
            /\ s.login <=> (t.login \/ (cmd.type = "Auth" /\ o.reply.kind = "OK"))
            /\ s.database = Selected(t.database, cmd, o.reply)
    BY <2>1 DEF Answers
  <2>4. g.view \in ClientView /\ \E S : g.builder \in Seq(S)
    <3>1. PICK S : heap \in [Cells -> ClientOf(S)]
      BY DEF Base, ShapeOK, Shaped
    <3> QED BY <2>2, <3>1 DEF ClientOf
  <2>5. o.client.authenticated <=>
            (g.view.authenticated \/ (cmd.type = "Auth" /\ o.reply.kind = "OK"))
    <3> HIDE DEF g, cmd
    <3> QED BY <2>3, <2>4, ExecuteLogin
  <2>8. o.client.database_num = Selected(g.view.database_num, cmd, o.reply)
    <3> HIDE DEF g, cmd
    <3> QED BY <2>3, <2>4, ExecuteDatabase DEF Selected
  <2>6. ASSUME \A k \in DOMAIN g.builder : g.builder[k].conn = c
        PROVE  \A k \in DOMAIN h.builder : h.builder[k].conn = c
    <3> DEFINE b == g.builder
               r == ReplyTokens(c, n, o.reply)
    <3>1. (\E T : r \in Seq(T)) /\ (\E S : b \in Seq(S)) /\ h.builder = b \o r
      BY <2>3, <2>4, ReplySeq
    <3>2. \A k \in DOMAIN r : r[k].conn = c
      BY DEF ReplyTokens
    <3>3. \A k \in DOMAIN b : b[k].conn = c
      BY <2>6
    <3> HIDE DEF b, r, c
    <3>4. \A k \in DOMAIN (b \o r) : \/ k \in DOMAIN b /\ (b \o r)[k] = b[k]
                                     \/ k - Len(b) \in DOMAIN r /\ (b \o r)[k] = r[k - Len(b)]
      BY <3>1
    <3> QED BY <3>1, <3>2, <3>3, <3>4
  <2>7. Own(g, t, c) => Own(h, s, c)
    <3> HIDE DEF g, t, c, cmd
    <3> QED BY <2>3, <2>5, <2>6, <2>8 DEF Own
  <2> QED BY <2>1, <2>2, <2>7, TouchOwn
<1>4. CASE WriteDone
  <2>1. CASE WriteKills
    BY <1>1, <2>1 DEF WriteKills, Still, evVars, kernelVars, heapVars
  <2>2. ASSUME NEW h, NEW s, Touches(cur.fd, h, s),
               Sends(heap[ClientAt(cur.fd)], h, sock[file[cur.fd]], s)
        PROVE  OwnOK'
    <3> DEFINE g == heap[ClientAt(cur.fd)]
               t == sock[file[cur.fd]]
    <3>1. cur.fd \in Fds /\ ~regfail
      BY <1>4, <2>2, WriteContext DEF WriteDone, Touches
    <3>2. h.view = g.view /\ h.read_buf = g.read_buf /\ s.login = t.login /\ s.rst = t.rst
          /\ s.database = t.database /\ s.replied = t.replied
      BY SMTT(60), <2>2 DEF Sends, Touches
    <3>3. h.builder = g.builder \/ h.builder = <<>>
      BY <2>2 DEF Sends, Finishes, HandsOver
    <3>4. Own(g, t, file[cur.fd]) => Own(h, s, file[cur.fd])
      <4> HIDE DEF g, t
      <4> QED BY <3>2, <3>3 DEF Own
    <3> QED BY <2>2, <3>1, <3>4, TouchOwn
  <2> QED BY <1>4, <2>1, <2>2, WriteTouches
<1>5. ASSUME NEW fd \in Fds, ClosesAt(fd), Closes(fd) PROVE OwnOK'
  <2>1. ~regfail /\ ~Stopped
    BY <1>5 DEF Closes, ClosesAt
  <2>2. \A i \in DOMAIN clients' : \E j \in DOMAIN clients :
            /\ clients'[i] = clients[j] /\ heap'[clients[j]] = heap[clients[j]]
            /\ file'[heap[clients[j]].fd] = file[heap[clients[j]].fd]
            /\ sock'[file[heap[clients[j]].fd]] = sock[file[heap[clients[j]].fd]]
    BY <1>5, <2>1, LeftEntries
  <2>3. \A i \in DOMAIN clients' :
            Own(heap'[clients'[i]], sock'[file'[heap'[clients'[i]].fd]],
                file'[heap'[clients'[i]].fd])
    BY <2>1, <2>2, OwnEntry
  <2> QED BY <2>3 DEF OwnOK, Own
<1>6. ASSUME NEW c \in Conns, NEW fd \in Fds, NEW x \in Cells, AcceptsAt(c, fd),
             Adds(c, fd, x)
      PROVE  OwnOK'
  <2>1. ~regfail /\ ~Stopped
    BY <1>6 DEF Adds, AcceptsAt
  <2>2. \A i \in DOMAIN clients :
            /\ clients'[i] = clients[i] /\ heap'[clients[i]] = heap[clients[i]]
            /\ file'[heap[clients[i]].fd] = file[heap[clients[i]].fd]
            /\ sock'[file[heap[clients[i]].fd]] = sock[file[heap[clients[i]].fd]]
    BY <1>6, <2>1, MoreEntries
  <2>3. \A i \in DOMAIN clients :
            Own(heap'[clients'[i]], sock'[file'[heap'[clients'[i]].fd]],
                file'[heap'[clients'[i]].fd])
    BY <2>1, <2>2, OwnEntry
  <2>4. ~sock'[c].login /\ sock'[c].database = 0
    <3>1. 1 \in DOMAIN backlog /\ c = backlog[1]
      BY <1>6, SockFun DEF AcceptsAt
    <3>2. ~sock[c].login /\ sock[c].database = 0
      BY <2>1, <3>1 DEF ConnsOK
    <3>3. \E S : sock[c] \in SockOf(S)
      BY DEF Base, ShapeOK, Shaped
    <3>4. sock'[c] = [sock[c] EXCEPT !.state = "accepted"]
      BY <1>6, SockFun DEF Adds
    <3> QED BY <3>2, <3>3, <3>4 DEF SockOf
  <2>5. Own(NewClient(fd), sock'[c], c)
    BY <2>4 DEF Own, NewClient, new_client
  <2>6. LET i == Len(clients) + 1
        IN  Own(heap'[clients'[i]], sock'[file'[heap'[clients'[i]].fd]],
                file'[heap'[clients'[i]].fd])
    BY <1>6, <2>1, <2>5, MoreEntries
  <2>7. \A i \in DOMAIN clients' : i \in DOMAIN clients \/ i = Len(clients) + 1
    BY <1>6, <2>1, MoreEntries
  <2> QED BY <2>3, <2>6, <2>7 DEF OwnOK, Own
<1>7. ASSUME NEW c \in Conns, NEW fd \in Fds, AcceptsAt(c, fd), Loses(c, fd)
      PROVE  OwnOK'
  <2>1. ~regfail
    BY <1>7 DEF Loses
  <2>2. \A i \in DOMAIN clients' :
            Own(heap'[clients'[i]], sock'[file'[heap'[clients'[i]].fd]],
                file'[heap'[clients'[i]].fd])
    BY <1>7, <2>1, SameEntries, OwnEntry
  <2> QED BY <2>2 DEF OwnOK, Own
<1>8. CASE ServerStops
  <2>1. UNCHANGED <<clients, heap, regfail>> /\ ~Stopped
    BY <1>8, StopKind DEF ServerStops, Interrupted, Base, FilesOK
  <2>2. UNCHANGED <<file, sock>>
    BY <1>8, StopKind, SockFun DEF Stopped
  <2> QED BY <2>1, <2>2 DEF OwnOK
<1>9. CASE PeerStep
  <2>1. UNCHANGED <<heap, file, clients, regfail>> /\ ~regfail /\ ~Stopped
    BY <1>9, PeerPushes DEF Stopped
  <2>2. \A c \in Conns : sock'[c].login = sock[c].login /\ (sock[c].rst => sock'[c].rst)
                         /\ sock'[c].database = sock[c].database /\ sock'[c].replied = sock[c].replied
    <3>1. ASSUME NEW c \in Conns, Moves(c) PROVE <2>2
      BY <3>1, SockFun DEF Moves, Pushes
    <3>2. ASSUME NEW c \in Conns, sock' = [sock EXCEPT ![c].state = "backlog"]
          PROVE  <2>2
      <4>1. PICK S : sock \in [Conns -> SockOf(S)]
        BY DEF Base, ShapeOK, Shaped
      <4>2. sock' = [sock EXCEPT ![c] = [sock[c] EXCEPT !.state = "backlog"]]
        BY <3>2, <4>1
      <4>3. sock'[c].login = sock[c].login /\ sock'[c].rst = sock[c].rst
            /\ sock'[c].database = sock[c].database /\ sock'[c].replied = sock[c].replied
        BY <4>1, <4>2 DEF SockOf
      <4> QED BY <4>1, <4>2, <4>3
    <3> QED BY <1>9, <3>1, <3>2, PeerPushes
  <2>3. \A i \in DOMAIN clients : file[heap[clients[i]].fd] \in Conns
    BY <2>1, Apart
  <2> QED BY <2>1, <2>2, <2>3 DEF OwnOK
<1> QED BY <1>1, <1>2, <1>3, <1>4, <1>5, <1>6, <1>7, <1>8, <1>9, Cases, Zenon

-----------------------------------------------------------------------------
(* How the process ends *)

\* An ended process does nothing more.
LEMMA DeadIsDone ==
    ASSUME [Next]_vars, ~alive
    PROVE  UNCHANGED vars
<1>1. ~ev_api_poll /\ ~write_to_client /\ ~ServerStops
  BY DEF ev_api_poll, write_to_client, WritesClient, ServerStops, Interrupted
<1>2. ASSUME NEW e PROVE ~SkipsReadFn(e) /\ ~CallsReadFn(e)
  BY DEF SkipsReadFn, Dispatches, CallsReadFn
<1>3. ASSUME NEW e PROVE ~server_accept(e) /\ ~read_from_client(e)
  BY SMTT(60), <1>2 DEF server_accept, AcceptFails, AcceptCreateFails, AcceptOk, AcceptRegisterFails,
              AcceptPushFails, Accepts, read_from_client, ReadsClient
<1>4. ~PeerStep
  BY ZenonT(60) DEF PeerStep, PeerConnect, PeerSend, MaySend, PeerSendTail, PeerRecv, PeerShutdown,
         PeerReset, PeerOpen
<1> QED BY <1>1, <1>2, <1>3, <1>4 DEF Next, ServerStep

\* A connection is served through a descriptor that an entry of the vector has.
LEMMA ConnectedEntries ==
    Base => \A c : c \in Connected <=>
                /\ c \in Conns
                /\ \E fd \in Fds : file[fd] = c /\ \E i \in DOMAIN clients : heap[clients[i]].fd = fd
<1> SUFFICES ASSUME Base
             PROVE  \A c : c \in Connected <=>
                        /\ c \in Conns
                        /\ \E fd \in Fds : /\ file[fd] = c
                                           /\ \E i \in DOMAIN clients : heap[clients[i]].fd = fd
  OBVIOUS
<1>1. clients \in Seq(Cells)
  BY SockFun
<1>2. \A fd : vec_find(fd) # 0 <=> \E i \in DOMAIN clients : heap[clients[i]].fd = fd
  BY <1>1, VecFind
<1> QED BY <1>2 DEF Connected

\* The same in the next state.
LEMMA ConnectedEntriesNext ==
    Base' => (\A c : c \in Connected <=>
                /\ c \in Conns
                /\ \E fd \in Fds : file[fd] = c /\ \E i \in DOMAIN clients : heap[clients[i]].fd = fd)'
BY ConnectedEntries, PTL

\* sfd is closed by server_free alone.
LEMMA OnlyFreeStops ==
    ASSUME Base, [Next]_vars, ~Stopped, Stopped'
    PROVE  ServerStops
<1>1. ~Quiet
  BY DEF Quiet, Stopped
<1>2. \A fd \in Fds : ~(ClosesAt(fd) /\ Closes(fd))
  BY SockFun DEF ClosesAt, Closes, Stopped
<1>3. \A c \in Conns, fd \in Fds, x \in Cells : ~(AcceptsAt(c, fd) /\ Adds(c, fd, x))
  BY SockFun DEF AcceptsAt, Adds, Stopped
<1>4. \A c \in Conns, fd \in Fds : ~(AcceptsAt(c, fd) /\ Loses(c, fd))
  BY SockFun DEF AcceptsAt, Loses, Stopped
<1>5. \A c, x : ~Drops(c, x)
  BY DEF Drops, Stopped
<1> QED BY <1>1, <1>2, <1>3, <1>4, <1>5, Kinds, Zenon

\* A stopped server has nothing left.
LEMMA StopNext ==
    ASSUME Base, StopOK, [Next]_vars
    PROVE  StopOK'
<1> SUFFICES ASSUME ~regfail', Stopped' PROVE Connected' = {}
  BY DEF StopOK
<1>1. CASE ~alive
  <2>1. UNCHANGED vars
    BY <1>1, DeadIsDone
  <2>2. Connected' = Connected
    <3>1. file' = file /\ clients' = clients /\ heap' = heap
      BY <2>1 DEF vars, kernelVars, heapVars
    <3> QED BY <3>1 DEF Connected, vec_find, SelectInSeq
  <2>3. ~regfail /\ Stopped
    BY <2>1 DEF vars, kernelVars, auxVars, Stopped
  <2> QED BY <2>2, <2>3 DEF StopOK
<1>2. CASE alive
  <2>1. ~Stopped
    BY <1>2 DEF Base, FilesOK
  <2>2. Base'
    BY BaseNext
  <2>3. ServerStops
    BY <2>1, OnlyFreeStops
  <2>4. /\ clients' = clients /\ heap' = heap
        /\ file' = [fd \in Fds |->
               IF fd = sfd \/ \E i \in DOMAIN clients : heap[clients[i]].fd = fd
               THEN Free ELSE file[fd]]
    BY <2>1, <2>3, StopKind, SockFun DEF Stopped
  <2>5. ASSUME NEW c \in Connected' PROVE FALSE
    <3>1. c \in Conns
      BY <2>5 DEF Connected
    <3>2. PICK fd \in Fds : file'[fd] = c /\ \E i \in DOMAIN clients' : heap'[clients'[i]].fd = fd
      BY <2>2, <2>5, ConnectedEntriesNext
    <3> QED BY <2>4, <3>1, <3>2, SockFun
  <2> QED BY <2>5
<1> QED BY <1>1, <1>2

\* What each step does to the process.
LEMMA KillNext ==
    ASSUME Base, ClientsOK, OnlyResetsKill, [Next]_vars
    PROVE  OnlyResetsKill'
<1> SUFFICES ASSUME ~alive', ~regfail', ~moved'
             PROVE  Stopped' \/ \E c \in Conns : sock'[c].rst
  BY DEF OnlyResetsKill
<1>1. CASE ~alive
  <2>1. UNCHANGED vars
    BY <1>1, DeadIsDone
  <2> QED BY <1>1, <2>1 DEF OnlyResetsKill, Stopped, vars, kernelVars, auxVars, heapVars
<1>2. CASE alive
  <2>1. ~Stopped
    BY <1>2 DEF Base, FilesOK
  <2>2. ASSUME UNCHANGED alive PROVE FALSE
    BY <1>2, <2>2
  <2>3. CASE ev_api_poll \/ (\E e \in fired : SkipsReadFn(e)) \/ UNCHANGED vars \/ PeerStep
    <3>1. UNCHANGED alive
      BY <2>3, PeerPushes DEF ev_api_poll, SkipsReadFn, vars, auxVars
    <3> QED BY <2>2, <3>1
  <2>4. ASSUME NEW e \in fired, Accepted(e) PROVE FALSE
    <3>1. UNCHANGED alive
      BY <2>4
      DEF Accepted, AcceptFails, AcceptCreateFails, AcceptOk, AcceptRegisterFails,
          AcceptPushFails, auxVars
    <3> QED BY <2>2, <3>1
  <2>5. ASSUME NEW e \in fired, ReadDone(e) PROVE FALSE
    <3>1. CASE ReadError(e) \/ ReadExecutes(e)
      <4>1. UNCHANGED alive
        BY <3>1 DEF ReadError, ReadExecutes, auxVars
      <4> QED BY <2>2, <4>1
    <3>2. CASE ReadGrowFails(e) \/ ReadEof(e)
      <4>1. Closes(e.fd) /\ vec_find(e.fd) \in DOMAIN clients
        BY <2>5, <3>2, CloseKind, ReadContext DEF ReadDone
      <4>2. ClientAt(e.fd) \in live
        BY <2>1, <4>1 DEF Closes, ClientAt, ClientsOK
      <4> QED BY <4>1, <4>2 DEF Closes
    <3> QED BY SMTT(60), <2>5, <3>1, <3>2 DEF ReadDone
  <2>6. ASSUME WriteDone PROVE \E c \in Conns : sock'[c].rst
    <3>1. CASE WriteKills
      <4>1. file[cur.fd] \in Conns
        BY <2>6, WriteContext DEF WriteDone
      <4> QED BY <3>1, <4>1 DEF WriteKills, kernelVars
    <3>2. CASE WriteNothing \/ WriteSome \/ WriteReturns
      <4>1. UNCHANGED alive
        BY <3>2 DEF WriteNothing, WriteSome, WriteReturns, auxVars
      <4> QED BY SMTT(60), <2>2, <4>1
    <3> QED BY <2>6, <3>1, <3>2 DEF WriteDone
  <2>7. ASSUME ServerStops PROVE Stopped'
    <3>1. ~regfail /\ ~moved
      BY <2>7, StopKind
    <3>2. Freeable
      BY <2>1, <3>1 DEF ClientsOK, Freeable, IsInjective, Range
    <3> QED BY <2>7, <3>2, StopKind, SockFun DEF Stopped
  <2> QED BY <2>3, <2>4, <2>5, <2>6, <2>7, Steps, Zenon
<1> QED BY <1>1, <1>2

-----------------------------------------------------------------------------
(* Theorems *)

\* The inductive invariant about connections and their clients.
Sessions == Base /\ ConnsOK /\ ClientsOK /\ OwnOK /\ StopOK /\ OnlyResetsKill

\* The initial state satisfies the inductive invariant.
LEMMA SessionsInit == Init => Sessions
<1> SUFFICES ASSUME Init PROVE Sessions
  OBVIOUS
<1>1. Base
  BY BaseInit
<1>2. /\ sock = [c \in Conns |-> NewSocket] /\ alive /\ clients = <<>> /\ backlog = <<>>
      /\ \A fd \in Fds : file[fd] \notin Conns
  BY ConnectionsAssumption DEF Init, Free, Listener
<1>3. DOMAIN clients = {} /\ DOMAIN backlog = {}
  BY <1>2
<1>4. ConnsOK
  BY <1>2, <1>3 DEF ConnsOK, NewSocket
<1>5. Connected = {}
  BY <1>2 DEF Connected
<1> QED BY <1>1, <1>2, <1>3, <1>4, <1>5 DEF Sessions, ClientsOK, OwnOK, StopOK, OnlyResetsKill

\* Every step keeps it.
LEMMA SessionsNext == Sessions /\ [Next]_vars => Sessions'
BY BaseNext, ConnsNext, ClientsNext, OwnNext, StopNext, KillNext, Zenon DEF Sessions

\* It holds in every behaviour of the server.
LEMMA SessionsInvariant == Spec => []Sessions
BY SessionsInit, SessionsNext, PTL DEF Spec

\* The process ends by server_free or by a peer's reset, unless an accept failed
\* to register its connection or the vector of clients had grown.
THEOREM ResetsAloneKill == Spec => []OnlyResetsKill
<1>1. Sessions => OnlyResetsKill
  BY DEF Sessions
<1> QED BY <1>1, SessionsInvariant, PTL

\* While the process runs and no accept has failed to register its connection,
\* s->clients holds exactly the connections that are watched, each once and allocated.
THEOREM ClientsMatchConnections == Spec => []ClientsAreConnections
<1>1. Sessions => ClientsAreConnections
  <2> SUFFICES ASSUME Sessions, alive, ~regfail PROVE ClientsAreConnections
    BY DEF ClientsAreConnections
  <2>1. ~Stopped
    BY DEF Sessions, Base, FilesOK
  <2>2. /\ \A i \in DOMAIN clients :
               /\ clients[i] \in live
               /\ heap[clients[i]].fd \in Fds \ {sfd}
               /\ interest[heap[clients[i]].fd] # {}
        /\ \A i, j \in DOMAIN clients :
               heap[clients[i]].fd = heap[clients[j]].fd => i = j
    BY <2>1 DEF Sessions, ClientsOK
  <2>3. \A fd \in Fds \ {sfd} : interest[fd] # {} =>
            \E i \in DOMAIN clients : heap[clients[i]].fd = fd
    BY <2>1 DEF Sessions, Base, Served
  <2>4. \A i \in DOMAIN clients : file[heap[clients[i]].fd] \in Conns
    BY <2>1, <2>2 DEF Sessions, Base, FilesOK
  <2>5. {heap[clients[i]].fd : i \in DOMAIN clients} = {fd \in Fds \ {sfd} : interest[fd] # {}}
    BY <2>2, <2>3
  <2> QED BY <2>2, <2>4, <2>5 DEF ClientsAreConnections, ClientsAreLive
<1> QED BY <1>1, SessionsInvariant, PTL

\* The descriptor of a connection that is served, and its entry in the vector.
LEMMA CellOfEntry ==
    ASSUME Sessions, ~regfail, NEW c \in Connected
    PROVE  /\ ~Stopped
           /\ \E i \in DOMAIN clients : CellOf(c) = clients[i] /\ file[heap[clients[i]].fd] = c
<1>1. ~Stopped
  BY DEF Sessions, StopOK
<1>2. PICK fd \in Fds : file[fd] = c /\ vec_find(fd) # 0
  BY DEF Connected
<1>3. c \in Conns /\ \A gd \in Fds : file[gd] = c => gd = fd
  BY <1>2 DEF Connected, Sessions, ConnsOK
<1>4. fd = CHOOSE gd \in Fds : file[gd] = c
  BY <1>2, <1>3
<1>5. vec_find(fd) \in DOMAIN clients /\ heap[clients[vec_find(fd)]].fd = fd
  BY <1>2, VecFind, SockFun DEF Sessions
<1> QED BY <1>1, <1>2, <1>4, <1>5 DEF CellOf

\* What a client struct holds belongs to its connection, the login and the selected
\* database included, as long as no accept has failed to register its connection.
THEOREM ClientStateIsOwn == Spec => []StateIsOwn
<1>1. Sessions => StateIsOwn
  <2> SUFFICES ASSUME Sessions, ~regfail, NEW c \in Connected
               PROVE  LET h == heap[CellOf(c)]
                      IN  /\ h.view.authenticated <=> sock[c].login
                          /\ h.view.database_num = sock[c].database
                          /\ \A i \in DOMAIN h.builder : h.builder[i].conn = c
                          /\ Len(h.read_buf) > 0 => sock[c].rst
    BY DEF StateIsOwn
  <2>1. PICK i \in DOMAIN clients : CellOf(c) = clients[i] /\ file[heap[clients[i]].fd] = c
    BY CellOfEntry
  <2>2. ~Stopped
    BY CellOfEntry
  <2>3. Own(heap[clients[i]], sock[c], c)
    BY <2>1, <2>2, OwnEntry DEF Sessions
  <2> QED BY <2>1, <2>3 DEF Own
<1> QED BY <1>1, SessionsInvariant, PTL

-----------------------------------------------------------------------------
(* Replies *)

\* Whole replies, in the order of their segments.
Whole(s) ==
    /\ \A k \in DOMAIN s : s[k].n \in Nat /\ s[k].i \in 1 .. reply_len
    /\ s # <<>> => s[1].i = 1 /\ s[Len(s)].i = reply_len
    /\ \A k \in 1 .. Len(s) - 1 :
           IF s[k].i < reply_len
           THEN s[k+1].n = s[k].n /\ s[k+1].i = s[k].i + 1
           ELSE s[k+1].n > s[k].n /\ s[k+1].i = 1

\* The replies s come before those to anything that was not read from socket t.
Before(s, t) ==
    \A k \in DOMAIN s : s[k].n <= t.nsegs /\ \A j \in DOMAIN t.in : s[k].n < t.in[j].n

\* What was handed to the socket t of connection c.
Handed(c, t) ==
    /\ \A j \in DOMAIN t.in : t.in[j].n <= t.nsegs
    /\ ~t.short => /\ Whole(t.sent) /\ Before(t.sent, t)
                   /\ \A k \in DOMAIN t.sent : t.sent[k].conn = c

\* What waits in the struct h, when w is watched on its socket t: the write event
\* is registered as long as there may be something to send, what write_buf points
\* to is what the builder holds, and no reply has been lost.
Waiting(h, t, w) ==
    /\ IF EV_WRITE \in w THEN h.write_size = Len(h.builder) ELSE h.builder = <<>>
    /\ Whole(h.builder) /\ Before(h.builder, t)
    /\ ~t.short => /\ \A k \in DOMAIN t.sent, j \in DOMAIN h.builder :
                          t.sent[k].n < h.builder[j].n
                   /\ Len(t.sent) + Len(h.builder) = t.replied

\* A write that goes on after some bytes were sent has been cut short.
WriteOK == cur # Idle => cur.bytes_sent = 0 \/ sock[file[cur.fd]].short

\* In every socket and in every client struct.
SentOK == ~regfail => \A c \in Conns : Handed(c, sock[c])

WaitingOK ==
    ~regfail /\ ~Stopped =>
        \A i \in DOMAIN clients :
            LET h == heap[clients[i]]
            IN  Waiting(h, sock[file[h.fd]], interest[h.fd])

\* A read handler that is still to be called finds something to read.
HandlersOK ==
    ~regfail => \A e \in fired : e.fd # sfd /\ EV_READ \in e.mask => Readable(file[e.fd])

\* What no allocation failure has lost is in the vector and watched.
NothingLost ==
    ~regfail /\ ~Stopped /\ ooms = 0 =>
        /\ \A x \in live : \E i \in DOMAIN clients : clients[i] = x
        /\ \A fd \in Fds : file[fd] \in Conns => interest[fd] # {}

\* Whole replies behind whole replies to earlier commands are whole and in order.
LEMMA ConcatWhole ==
    ASSUME NEW S, NEW T, NEW a \in Seq(S), NEW b \in Seq(T), Whole(a), Whole(b),
           \A k \in DOMAIN a, j \in DOMAIN b : a[k].n < b[j].n
    PROVE  Whole(a \o b)
<1> DEFINE r == a \o b
<1>1. /\ Len(a) \in Nat /\ Len(b) \in Nat /\ Len(r) = Len(a) + Len(b)
      /\ DOMAIN a = 1 .. Len(a) /\ DOMAIN b = 1 .. Len(b) /\ DOMAIN r = 1 .. Len(r)
      /\ \A k \in 1 .. Len(a) : r[k] = a[k]
      /\ \A k \in 1 .. Len(b) : r[Len(a) + k] = b[k]
      /\ \A k \in Len(a) + 1 .. Len(r) : k - Len(a) \in 1 .. Len(b) /\ r[k] = b[k - Len(a)]
  OBVIOUS
<1>2. reply_len \in Nat \ {0}
  BY ConnectionsAssumption
<1>3. CASE a = <<>>
  BY <1>3
<1>4. CASE b = <<>>
  BY <1>4
<1>5. CASE a # <<>> /\ b # <<>>
  <2>1. Len(a) > 0 /\ Len(b) > 0 /\ r # <<>>
    BY <1>1, <1>5
  <2> HIDE DEF r
  <2>2. /\ a[1].i = 1 /\ a[Len(a)].i = reply_len /\ b[1].i = 1 /\ b[Len(b)].i = reply_len
        /\ \A k \in 1 .. Len(a) : a[k].n \in Nat /\ a[k].i \in 1 .. reply_len
        /\ \A k \in 1 .. Len(b) : b[k].n \in Nat /\ b[k].i \in 1 .. reply_len
    BY <1>1, <1>5 DEF Whole
  <2>3. \A k \in 1 .. Len(r) : r[k].n \in Nat /\ r[k].i \in 1 .. reply_len
    <3> TAKE k \in 1 .. Len(r)
    <3>1. CASE k <= Len(a)
      BY <1>1, <2>2, <3>1
    <3>2. CASE k > Len(a)
      BY SMTT(60), <1>1, <2>2, <3>2
    <3> QED BY <1>1, <3>1, <3>2
  <2>4. r[1].i = 1 /\ r[Len(r)].i = reply_len
    BY <1>1, <2>1, <2>2
  <2>5. ASSUME NEW k \in 1 .. Len(r) - 1
        PROVE  IF r[k].i < reply_len
               THEN r[k+1].n = r[k].n /\ r[k+1].i = r[k].i + 1
               ELSE r[k+1].n > r[k].n /\ r[k+1].i = 1
    <3>1. CASE k < Len(a)
      <4>1. r[k] = a[k] /\ r[k+1] = a[k+1] /\ k \in 1 .. Len(a) - 1
        BY <1>1, <3>1
      <4> QED BY <4>1 DEF Whole
    <3>2. CASE k = Len(a)
      <4>1. r[k] = a[Len(a)] /\ r[k+1] = b[1] /\ Len(a) \in DOMAIN a /\ 1 \in DOMAIN b
        BY <1>1, <2>1, <3>2
      <4>2. a[Len(a)].n < b[1].n
        BY <4>1
      <4>3. a[Len(a)].n \in Nat /\ b[1].n \in Nat /\ r[k].i = reply_len /\ r[k+1].i = 1
        BY <1>1, <2>2, <4>1
      <4>4. r[k+1].n > r[k].n
        BY <4>1, <4>2, <4>3
      <4> QED BY <1>2, <4>3, <4>4
    <3>3. CASE k > Len(a)
      <4> DEFINE j == k - Len(a)
      <4>1. r[k] = b[j] /\ r[k+1] = b[j+1] /\ j \in 1 .. Len(b) - 1
        <5>1. k + 1 \in Len(a) + 1 .. Len(r) /\ k + 1 - Len(a) = j + 1
          BY <1>1, <3>3
        <5> QED BY SMTT(60), <1>1, <3>3, <5>1
      <4> HIDE DEF j
      <4>2. IF b[j].i < reply_len
            THEN b[j+1].n = b[j].n /\ b[j+1].i = b[j].i + 1
            ELSE b[j+1].n > b[j].n /\ b[j+1].i = 1
        BY <4>1 DEF Whole
      <4> QED BY <4>1, <4>2
    <3>4. k < Len(a) \/ k = Len(a) \/ k > Len(a)
      BY <1>1
    <3> QED BY <3>1, <3>2, <3>3, <3>4
  <2>6. Whole(r)
    BY <1>1, <2>3, <2>4, <2>5 DEF Whole
  <2> QED BY <2>6 DEF r
<1> QED BY <1>3, <1>4, <1>5

\* A reply is whole.
LEMMA ReplyWhole ==
    ASSUME NEW c, NEW n \in Nat, NEW r
    PROVE  /\ Whole(ReplyTokens(c, n, r))
           /\ \A k \in DOMAIN ReplyTokens(c, n, r) :
                  ReplyTokens(c, n, r)[k].n = n /\ ReplyTokens(c, n, r)[k].conn = c
<1>1. reply_len \in Nat \ {0}
  BY ConnectionsAssumption
<1> DEFINE tk == [i \in 1 .. reply_len |-> [conn |-> c, n |-> n, reply |-> r, i |-> i]]
<1>2. /\ DOMAIN tk = 1 .. reply_len
      /\ \A k \in 1 .. reply_len : tk[k].n = n /\ tk[k].conn = c /\ tk[k].i = k
  OBVIOUS
<1>3. Len(tk) = reply_len
  <2>1. tk \in Seq({tk[i] : i \in 1 .. reply_len})
    <3>1. tk \in [1 .. reply_len -> {tk[i] : i \in 1 .. reply_len}]
      OBVIOUS
    <3> HIDE DEF tk
    <3> QED BY <1>1, <3>1
  <2> HIDE DEF tk
  <2> QED BY <1>1, <1>2, <2>1
<1> HIDE DEF tk
<1>4. Whole(tk)
  BY <1>1, <1>2, <1>3 DEF Whole
<1>5. Whole(<<>>)
  BY DEF Whole
<1>6. ReplyTokens(c, n, r) = <<>> \/ ReplyTokens(c, n, r) = tk
  BY DEF ReplyTokens, tk
<1>7. \A k \in DOMAIN tk : tk[k].n = n /\ tk[k].conn = c
  BY <1>2
<1>8. CASE ReplyTokens(c, n, r) = tk
  BY <1>4, <1>7, <1>8
<1>9. CASE ReplyTokens(c, n, r) = <<>>
  BY <1>5, <1>9
<1> QED BY <1>6, <1>8, <1>9

-----------------------------------------------------------------------------
(* What each step does to what was sent and what waits *)

\* What has arrived are tokens of numbered commands.
LEMMA Tokens ==
    ASSUME NEW S, NEW t \in SockOf(S)
    PROVE  /\ t.in \in Seq(Token) /\ t.nsegs \in Nat
           /\ \A j \in DOMAIN t.in : t.in[j].n \in Nat
<1>1. t.in \in Seq(Token) /\ t.nsegs \in Nat
  BY ConnectionsAssumption DEF SockOf
<1>2. \A j \in DOMAIN t.in : t.in[j] \in Token
  BY <1>1
<1>3. \A tk \in Token : tk.n \in Nat
  BY ConnectionsAssumption DEF Token
<1> QED BY <1>1, <1>2, <1>3

\* What a peer does takes nothing back that was handed to it.
LEMMA PushesHanded ==
    ASSUME NEW S, NEW t \in SockOf(S), NEW s, Pushes(t, s), NEW c, Handed(c, t)
    PROVE  Handed(c, s)
<1>1. /\ s.sent = t.sent /\ s.short = t.short /\ t.in \in Seq(Token) /\ t.nsegs \in Nat
      /\ \A j \in DOMAIN t.in : t.in[j].n \in Nat
  BY Tokens DEF Pushes
<1>2. CASE s.in = t.in /\ s.nsegs = t.nsegs
  BY <1>1, <1>2 DEF Handed, Before
<1>3. ASSUME NEW tk, tk.n = t.nsegs + 1, s.in = Append(t.in, tk), s.nsegs = t.nsegs + 1
      PROVE  Handed(c, s)
  <2>1. \A j \in DOMAIN s.in : s.in[j] = tk \/ (j \in DOMAIN t.in /\ s.in[j] = t.in[j])
    BY <1>1, <1>3
  <2>2. \A j \in DOMAIN s.in : s.in[j].n <= s.nsegs
    BY <1>1, <1>3, <2>1 DEF Handed
  <2>3. ASSUME ~t.short PROVE Before(s.sent, s)
    <3>1. \A k \in DOMAIN t.sent : t.sent[k].n \in Nat /\ t.sent[k].n <= t.nsegs
      BY <2>3 DEF Handed, Before, Whole
    <3>2. \A k \in DOMAIN t.sent : \A j \in DOMAIN s.in : t.sent[k].n < s.in[j].n
      BY <1>1, <1>3, <2>1, <2>3, <3>1 DEF Handed, Before
    <3> QED BY <1>1, <1>3, <3>1, <3>2 DEF Before
  <2> QED BY <1>1, <2>2, <2>3 DEF Handed
<1> QED BY <1>2, <1>3 DEF Pushes

\* Nor does it touch a reply that waits.
LEMMA PushesWaiting ==
    ASSUME NEW S, NEW t \in SockOf(S), NEW s, Pushes(t, s), NEW h, NEW w, Waiting(h, t, w)
    PROVE  Waiting(h, s, w)
<1>1. /\ s.sent = t.sent /\ s.short = t.short /\ t.in \in Seq(Token) /\ t.nsegs \in Nat
      /\ s.replied = t.replied
      /\ \A j \in DOMAIN t.in : t.in[j].n \in Nat
  BY Tokens DEF Pushes
<1>2. Before(h.builder, s)
  <2>1. /\ Before(h.builder, t)
        /\ \A k \in DOMAIN h.builder : h.builder[k].n \in Nat /\ h.builder[k].n <= t.nsegs
    BY DEF Waiting, Before, Whole
  <2>2. CASE s.in = t.in /\ s.nsegs = t.nsegs
    BY <2>1, <2>2 DEF Before
  <2>3. ASSUME NEW tk, tk.n = t.nsegs + 1, s.in = Append(t.in, tk), s.nsegs = t.nsegs + 1
        PROVE  Before(h.builder, s)
    <3>1. \A j \in DOMAIN s.in : s.in[j] = tk \/ (j \in DOMAIN t.in /\ s.in[j] = t.in[j])
      BY <1>1, <2>3
    <3>2. \A k \in DOMAIN h.builder : \A j \in DOMAIN s.in : h.builder[k].n < s.in[j].n
      BY <1>1, <2>1, <2>3, <3>1 DEF Before
    <3> QED BY <1>1, <2>1, <2>3, <3>2 DEF Before
  <2> QED BY <2>2, <2>3 DEF Pushes
<1> QED BY <1>1, <1>2 DEF Waiting

\* h and s are g and t once the reply to the first request is behind what waits.
Queues(g, h, t, s, c) ==
    \E r : /\ h.builder = g.builder \o ReplyTokens(c, t.in[1].n, r)
           /\ s.replied = t.replied + Len(ReplyTokens(c, t.in[1].n, r))

\* A command is answered: what was read is gone, and the reply comes last.
LEMMA AnswerKeeps ==
    ASSUME NEW S, NEW t \in SockOf(S), NEW g \in ClientOf(S), NEW h, NEW s, NEW c, NEW w, NEW v,
           t.in # <<>>, Queues(g, h, t, s, c),
           h.write_size = Len(h.builder), EV_WRITE \in w,
           s.in = <<>>, s.sent = t.sent, s.short = t.short, s.nsegs = t.nsegs,
           Handed(c, t), Waiting(g, t, v)
    PROVE  Handed(c, s) /\ Waiting(h, s, w)
<1> PICK r : /\ h.builder = g.builder \o ReplyTokens(c, t.in[1].n, r)
             /\ s.replied = t.replied + Len(ReplyTokens(c, t.in[1].n, r))
  BY DEF Queues
<1> DEFINE n == t.in[1].n
           b == g.builder
           q == ReplyTokens(c, n, r)
<1>1. /\ t.in \in Seq(Token) /\ t.nsegs \in Nat /\ b \in Seq(S)
      /\ \A j \in DOMAIN t.in : t.in[j].n \in Nat
  BY Tokens DEF ClientOf
<1>2. 1 \in DOMAIN t.in /\ n \in Nat /\ n <= t.nsegs
  BY <1>1 DEF Handed
<1>3. PICK T : q \in Seq(T)
  BY ReplySeq
<1>4. Whole(q) /\ \A k \in DOMAIN q : q[k].n = n
  BY <1>2, ReplyWhole
<1>5. Whole(b) /\ Before(b, t) /\ \A k \in DOMAIN b : b[k].n \in Nat
  BY DEF Waiting, Whole
<1>6. \A k \in DOMAIN b : b[k].n <= t.nsegs /\ b[k].n < n
  BY <1>2, <1>5 DEF Before
<1>7. h.builder = b \o q /\ s.replied = t.replied + Len(q)
  OBVIOUS
<1> HIDE DEF b, q, n
<1>8. Whole(h.builder)
  <2>1. \A k \in DOMAIN b, j \in DOMAIN q : b[k].n < q[j].n
    BY <1>4, <1>6
  <2> QED BY <1>1, <1>3, <1>4, <1>5, <1>7, <2>1, ConcatWhole
<1>9. \A k \in DOMAIN h.builder : \/ h.builder[k].n = n
                                  \/ \E j \in DOMAIN b : h.builder[k].n = b[j].n
  <2>1. \A k \in DOMAIN h.builder : \/ k \in DOMAIN b /\ h.builder[k] = b[k]
                                    \/ k - Len(b) \in DOMAIN q /\ h.builder[k] = q[k - Len(b)]
    BY <1>1, <1>3, <1>7
  <2> QED BY <1>4, <2>1
<1>10. Before(h.builder, s)
  <2>1. \A k \in DOMAIN h.builder : h.builder[k].n <= s.nsegs
    BY <1>2, <1>6, <1>9
  <2>2. DOMAIN s.in = {}
    OBVIOUS
  <2> QED BY <2>1, <2>2 DEF Before
<1>11. ASSUME ~s.short
       PROVE  \A k \in DOMAIN s.sent, j \in DOMAIN h.builder : s.sent[k].n < h.builder[j].n
  <2>1. \A k \in DOMAIN t.sent : t.sent[k].n < n
    BY <1>2, <1>11 DEF Handed, Before, n
  <2>2. \A k \in DOMAIN t.sent, j \in DOMAIN b : t.sent[k].n < b[j].n
    BY <1>11 DEF Waiting, b
  <2> QED BY <1>9, <2>1, <2>2
<1>12. Handed(c, s)
  BY DEF Handed, Before
<1>13. ASSUME ~s.short PROVE Len(s.sent) + Len(h.builder) = s.replied
  <2>1. Len(t.sent) + Len(b) = t.replied
    BY <1>13 DEF Waiting, b
  <2>2. Len(h.builder) = Len(b) + Len(q) /\ Len(b) \in Nat /\ Len(q) \in Nat
    BY <1>1, <1>3, <1>7
  <2>3. Len(t.sent) \in Nat /\ Len(s.sent) = Len(t.sent)
    BY DEF SockOf
  <2>4. PICK x \in Nat, y \in Nat, z \in Nat : x = Len(t.sent) /\ y = Len(b) /\ z = Len(q)
    BY <2>2, <2>3
  <2>5. s.replied = (x + y) + z /\ Len(s.sent) = x /\ Len(h.builder) = y + z
    BY <1>7, <2>1, <2>2, <2>3, <2>4
  <2>6. x + (y + z) = (x + y) + z
    OBVIOUS
  <2> QED BY <2>5, <2>6
<1> QED BY <1>8, <1>10, <1>11, <1>12, <1>13 DEF Waiting

\* A step of the write handler.
LEMMA SendKeeps ==
    ASSUME NEW S, NEW t \in SockOf(S), NEW g \in ClientOf(S), NEW h, NEW s, NEW c,
           Sends(g, h, t, s), s.nsegs = t.nsegs, cur.bytes_sent \in Nat,
           cur.bytes_sent = 0 \/ t.short,
           cur.fd \in Fds, interest \in [Fds -> SUBSET Bits], EV_WRITE \in interest[cur.fd],
           Handed(c, t), Waiting(g, t, interest[cur.fd]),
           \A k \in DOMAIN g.builder : g.builder[k].conn = c
    PROVE  Handed(c, s) /\ Waiting(h, s, interest'[cur.fd])
<1> DEFINE b == g.builder
<1>1. s.in = t.in /\ h.write_size = g.write_size /\ s.replied = t.replied
  BY DEF Sends
<1>2. g.write_size = Len(b) /\ Whole(b) /\ Before(b, t)
  BY DEF Waiting
<1>3. ASSUME Finishes(h) PROVE h.builder = <<>> /\ EV_WRITE \notin interest'[cur.fd]
  BY <1>3 DEF Finishes
<1>4. Whole(<<>>) /\ DOMAIN <<>> = {} /\ Before(<<>>, s)
  BY DEF Whole, Before
<1>5. CASE /\ s.sent = t.sent /\ s.short = t.short
           /\ \/ cur.bytes_sent >= g.write_size /\ Finishes(h)
              \/ h.builder = b /\ UNCHANGED interest
  <2>1. Handed(c, s)
    BY <1>1, <1>5 DEF Handed, Before
  <2>2. CASE cur.bytes_sent >= g.write_size /\ Finishes(h)
    <3>1. ASSUME ~s.short PROVE Len(s.sent) + Len(h.builder) = s.replied
      <4>1. ~t.short /\ cur.bytes_sent = 0
        BY <1>5, <3>1
      <4>2. Len(t.sent) + Len(b) = t.replied /\ b \in Seq(S) /\ Len(t.sent) \in Nat
        BY <4>1 DEF Waiting, ClientOf, SockOf
      <4> HIDE DEF b
      <4>3. Len(b) = 0 /\ Len(<<>>) = 0
        BY <1>2, <2>2, <4>1, <4>2
      <4> QED BY <1>1, <1>3, <1>5, <2>2, <4>2, <4>3
    <3> QED BY <1>3, <1>4, <2>1, <2>2, <3>1 DEF Waiting
  <2>3. CASE h.builder = b /\ UNCHANGED interest
    BY <1>1, <1>5, <2>1, <2>3 DEF Waiting, Before
  <2> QED BY <1>5, <2>2, <2>3
<1>6. CASE HandsOver(g, h, t, s)
  <2>1. PICK k \in Nat \ {0} :
            /\ k <= g.write_size
            /\ s.sent = t.sent \o SubSeq(b, 1, k)
            /\ s.short <=> (t.short \/ k < g.write_size)
            /\ \/ cur.bytes_sent + k >= g.write_size /\ Finishes(h)
               \/ /\ cur.bytes_sent + k < g.write_size
                  /\ h.builder = b /\ UNCHANGED interest
    BY <1>6 DEF HandsOver
  <2>2. CASE s.short
    <3>1. Handed(c, s)
      BY <1>1, <2>2 DEF Handed
    <3>2. CASE Finishes(h)
      BY <1>3, <1>4, <2>2, <3>1, <3>2 DEF Waiting
    <3>3. CASE h.builder = b /\ UNCHANGED interest
      BY <1>1, <2>2, <3>1, <3>3 DEF Waiting, Before
    <3> QED BY <2>1, <3>2, <3>3
  <2>3. CASE ~s.short
    <3>1. b \in Seq(S) /\ t.sent \in Seq(S) /\ Len(b) \in Nat /\ ~t.short
      BY <2>1, <2>3 DEF ClientOf, SockOf
    <3>2. k = Len(b) /\ Finishes(h)
      BY <1>2, <2>1, <2>3, <3>1
    <3>3. SubSeq(b, 1, k) = b
      <4> HIDE DEF b
      <4> QED BY <3>1, <3>2
    <3>4. s.sent = t.sent \o b
      BY <2>1, <3>3
    <3>5. /\ Whole(t.sent) /\ Before(t.sent, t)
          /\ \A q \in DOMAIN t.sent : t.sent[q].conn = c
          /\ \A q \in DOMAIN t.sent, j \in DOMAIN b : t.sent[q].n < b[j].n
          /\ \A q \in DOMAIN b : b[q].conn = c
      BY <3>1 DEF Handed, Waiting
    <3> HIDE DEF b
    <3>6. Whole(s.sent)
      BY ZenonT(60), <1>2, <3>1, <3>4, <3>5, ConcatWhole
    <3>7. \A q \in DOMAIN s.sent : \/ q \in DOMAIN t.sent /\ s.sent[q] = t.sent[q]
                                   \/ q - Len(t.sent) \in DOMAIN b /\ s.sent[q] = b[q - Len(t.sent)]
      BY <3>1, <3>4
    <3>8. Before(s.sent, s) /\ \A q \in DOMAIN s.sent : s.sent[q].conn = c
      BY <1>1, <1>2, <3>5, <3>7 DEF Before
    <3>9. Handed(c, s)
      BY <1>1, <3>6, <3>8 DEF Handed
    <3>10. Len(s.sent) + Len(h.builder) = s.replied
      <4>1. Len(t.sent) + Len(b) = t.replied
        BY <3>1 DEF Waiting, b
      <4>2. Len(s.sent) = Len(t.sent) + Len(b) /\ Len(<<>>) = 0
        BY <3>1, <3>4
      <4>3. PICK x \in Nat, y \in Nat : x = Len(t.sent) /\ y = Len(b)
        BY <3>1
      <4>4. s.replied = x + y /\ Len(s.sent) = x + y /\ h.builder = <<>>
        BY <1>1, <1>3, <3>2, <4>1, <4>2, <4>3
      <4>5. (x + y) + 0 = x + y
        OBVIOUS
      <4> QED BY <4>2, <4>4, <4>5
    <3> QED BY <1>3, <1>4, <3>2, <3>9, <3>10 DEF Waiting
  <2> QED BY <2>2, <2>3
<1> QED BY <1>5, <1>6 DEF Sends

\* A new client has no reply waiting.
LEMMA NothingWaits ==
    ASSUME NEW fd, NEW t, t.sent = <<>>, t.replied = 0
    PROVE  Waiting(NewClient(fd), t, {EV_READ})
<1>1. NewClient(fd).builder = <<>> /\ EV_WRITE \notin {EV_READ} /\ Len(<<>>) = 0
  BY DEF NewClient, EV_READ, EV_WRITE
<1> QED BY <1>1 DEF Waiting, Whole, Before

\* A closed socket has been handed nothing.
LEMMA ClosedHanded ==
    ASSUME NEW c
    PROVE  Handed(c, ClosedSocket)
<1>1. ClosedSocket.in = <<>> /\ ClosedSocket.sent = <<>>
  BY DEF ClosedSocket, NewSocket
<1> QED BY <1>1 DEF Handed, Whole, Before

\* Only the connection's state changes.
LEMMA StateHanded ==
    ASSUME Base, NEW c \in Conns, NEW x, sock' = [sock EXCEPT ![c].state = x]
    PROVE  /\ \A d \in Conns : d # c => sock'[d] = sock[d]
           /\ sock'[c].in = sock[c].in /\ sock'[c].nsegs = sock[c].nsegs
           /\ sock'[c].sent = sock[c].sent /\ sock'[c].short = sock[c].short
           /\ sock'[c].fin = sock[c].fin /\ sock'[c].rst = sock[c].rst
           /\ sock'[c].login = sock[c].login
           /\ sock'[c].database = sock[c].database /\ sock'[c].replied = sock[c].replied
<1>1. PICK S : sock \in [Conns -> SockOf(S)]
  BY DEF Base, ShapeOK, Shaped
<1>2. sock' = [sock EXCEPT ![c] = [sock[c] EXCEPT !.state = x]]
  BY <1>1
<1>3. sock'[c] = [sock[c] EXCEPT !.state = x] /\ \A d \in Conns : d # c => sock'[d] = sock[d]
  BY <1>1, <1>2
<1>4. sock[c] \in SockOf(S)
  BY <1>1
<1> QED BY <1>3, <1>4 DEF SockOf

\* Every step keeps HandlersOK: nothing readable is read behind a handler's back.
LEMMA HandlersNext ==
    ASSUME Base, ConnsOK, ClientsOK, HandlersOK, [Next]_vars
    PROVE  HandlersOK'
<1> SUFFICES ASSUME ~regfail' PROVE HandlersOK'
  BY DEF HandlersOK
<1>1. Base'
  BY BaseNext
<1>2. ASSUME NEW e \in fired, e.fd # sfd, EV_READ \in e.mask, ~regfail, ~Stopped
      PROVE  Readable(file[e.fd]) /\ file[e.fd] \in Conns /\ e.fd \in Fds
  BY <1>2 DEF HandlersOK, Base, DispatchOK, RoundOK, FilesOK
<1>3. ASSUME ~regfail, ~Stopped,
             \A e \in fired' : /\ e \in fired
                               /\ LET c == file[e.fd]
                                  IN  e.fd # sfd /\ c \in Conns => \/ sock'[c] = sock[c]
                                        \/ /\ sock[c].in = <<>> \/ sock'[c].in # <<>>
                                           /\ sock[c].fin => sock'[c].fin
                                           /\ sock[c].rst => sock'[c].rst
      PROVE  HandlersOK'
  <2> SUFFICES ASSUME NEW e \in fired', e.fd # sfd, EV_READ \in e.mask
               PROVE  Readable(file[e.fd])'
    BY DEF HandlersOK
  <2>1. e \in fired /\ file[e.fd] = e.file /\ file'[e.fd] = e.file
    BY <1>1, <1>3 DEF Base, RoundOK
  <2>2. Readable(file[e.fd]) /\ file[e.fd] \in Conns
    BY <1>2, <1>3, <2>1
  <2> QED BY <1>3, <2>1, <2>2 DEF Readable
<1>4. CASE ev_api_poll
  <2>1. /\ fired' = {[fd |-> fd, mask |-> Events(fd), file |-> file[fd]] :
                         fd \in {f \in Fds : Events(f) # {}}}
        /\ UNCHANGED <<file, sock, regfail>> /\ ~Stopped
    BY <1>4 DEF ev_api_poll, kernelVars, auxVars, Base, FilesOK
  <2>2. ASSUME NEW fd \in Fds, fd # sfd, EV_READ \in Events(fd) PROVE Readable(file[fd])
    <3>1. interest[fd] # {} /\ file[fd] \in Conns /\ file[fd] # Listener
      BY <2>1, <2>2, SockFun DEF Events, Base, FilesOK
    <3> QED BY <2>2, <3>1 DEF Events, Readable, EV_READ, EV_WRITE
  <2>3. \A e \in fired' : e.fd # sfd /\ EV_READ \in e.mask => Readable(file[e.fd])
    BY <2>1, <2>2
  <2> QED BY <2>1, <2>3 DEF HandlersOK, Readable
<1>5. ASSUME NEW e \in fired, fired' = fired \ {e}, ~regfail, ~Stopped,
             NEW d \in Conns, \A c \in Conns : c # d => sock'[c] = sock[c],
             d = file[e.fd] /\ e.fd # sfd
      PROVE  HandlersOK'
  <2>1. ASSUME NEW f \in fired' PROVE f \in fired /\ f.fd # e.fd /\ f.fd \in Fds /\ e.fd \in Fds
    BY <1>5 DEF Base, RoundOK, DispatchOK
  <2>2. ASSUME NEW f \in fired', file[f.fd] \in Conns PROVE file[f.fd] # d
    BY <1>5, <2>1, <2>2 DEF ConnsOK
  <2> QED BY <1>3, <1>5, <2>1, <2>2
<1>6. ASSUME NEW e \in fired, Accepted(e) PROVE HandlersOK'
  <2>1. fired' = fired \ {e} /\ ~Stopped
    BY <1>6 DEF Accepted, ThenWrite, AcceptFails, AcceptCreateFails, AcceptOk,
                AcceptRegisterFails, AcceptPushFails, Accepts, CallsReadFn, Dispatches, Base, FilesOK
  <2>2. ASSUME NEW c \in Conns, sock' = [sock EXCEPT ![c].state = "accepted"], ~regfail
        PROVE  HandlersOK'
    <3>1. \A d \in Conns : /\ sock'[d].in = sock[d].in /\ sock'[d].fin = sock[d].fin
                           /\ sock'[d].rst = sock[d].rst
      BY <2>2, StateHanded
    <3> QED BY <1>3, <2>1, <2>2, <3>1
  <2>3. CASE AcceptFails(e)
    BY <1>3, <2>1, <2>3 DEF AcceptFails, kernelVars, auxVars
  <2>4. ASSUME NEW c \in Conns, NEW fd \in Fds, AcceptCreateFails(e, c, fd)
        PROVE  HandlersOK'
    BY <2>2, <2>4 DEF AcceptCreateFails
  <2>5. ASSUME NEW c \in Conns, NEW fd \in Fds, NEW x \in Cells,
               AcceptOk(e, c, fd, x) \/ AcceptPushFails(e, c, fd, x)
        PROVE  HandlersOK'
    BY <2>2, <2>5 DEF AcceptOk, AcceptPushFails, auxVars
  <2>6. ASSUME NEW c \in Conns, NEW fd \in Fds, NEW x \in Cells,
               AcceptRegisterFails(e, c, fd, x)
        PROVE  HandlersOK'
    BY <2>6 DEF AcceptRegisterFails
  <2> QED BY <1>6, <2>3, <2>4, <2>5, <2>6, Zenon DEF Accepted
<1>7. ASSUME NEW e \in fired, ReadDone(e) PROVE HandlersOK'
  <2>1. /\ ReadsClient(e) /\ fired' = fired \ {e} /\ file[e.fd] \in Conns /\ ~Stopped
        /\ e.fd \in Fds /\ e.fd # sfd
    BY <1>7, ReadContext DEF ReadDone, ThenWrite
  <2>2. ~regfail /\ \A c \in Conns : c # file[e.fd] => sock'[c] = sock[c]
    <3>1. CASE ReadError(e)
      BY <2>1, <3>1, ReadErrorTouches, SockFun DEF Touches
    <3>2. CASE ReadExecutes(e)
      BY <2>1, <3>2, ReadExecutesTouches, SockFun DEF Touches
    <3>3. CASE ReadGrowFails(e) \/ ReadEof(e)
      BY <2>1, <3>3, CloseKind, SockFun DEF Closes
    <3> QED BY <1>7, <3>1, <3>2, <3>3 DEF ReadDone
  <2> QED BY <1>5, <2>1, <2>2
<1>8. CASE WriteDone
  <2>1. /\ fired' = fired /\ ~Stopped /\ cur.fd \in Fds /\ file[cur.fd] \in Conns
    BY <1>8, WriteContext DEF WriteDone, WriteNothing, WriteSome, WriteReturns, WriteKills, loopVars
  <2>2. CASE WriteKills
    BY <1>3, <2>1, <2>2 DEF WriteKills, kernelVars
  <2>3. ASSUME NEW h, NEW s, Touches(cur.fd, h, s),
               Sends(heap[ClientAt(cur.fd)], h, sock[file[cur.fd]], s)
        PROVE  HandlersOK'
    <3>1. /\ ~regfail /\ s.rst = sock[file[cur.fd]].rst /\ s.in = sock[file[cur.fd]].in
          /\ s.fin = sock[file[cur.fd]].fin
      BY <2>3 DEF Touches, Sends
    <3>2. sock'[file[cur.fd]] = s /\ \A c \in Conns : c # file[cur.fd] => sock'[c] = sock[c]
      BY <2>1, <2>3, SockFun DEF Touches
    <3> QED BY <1>3, <2>1, <3>1, <3>2
  <2> QED BY SMTT(60), <1>8, <2>2, <2>3, WriteTouches
<1>9. CASE PeerStep
  <2>1. fired' = fired /\ ~regfail /\ ~Stopped
    BY <1>9, PeerPushes DEF Base, FilesOK
  <2>2. ASSUME NEW c \in Conns, Moves(c) PROVE HandlersOK'
    <3>1. PICK s : sock' = [sock EXCEPT ![c] = s] /\ Pushes(sock[c], s)
      BY <2>2 DEF Moves
    <3>2. sock'[c] = s /\ \A d \in Conns : d # c => sock'[d] = sock[d]
      BY <3>1, SockFun
    <3>3. sock[c].in = <<>> \/ s.in # <<>>
      <4>1. sock[c].in \in Seq(Token)
        BY DEF Base, ShapeOK, Shaped, SockOf
      <4>2. \A tk : Append(sock[c].in, tk) # <<>>
        BY <4>1
      <4> QED BY <3>1, <4>2 DEF Pushes
    <3>4. (sock[c].fin => s.fin) /\ (sock[c].rst => s.rst)
      BY <3>1 DEF Pushes
    <3> QED BY <1>3, <2>1, <3>2, <3>3, <3>4
  <2>3. ASSUME NEW c \in Conns, sock' = [sock EXCEPT ![c].state = "backlog"]
        PROVE  HandlersOK'
    <3>1. \A d \in Conns : /\ sock'[d].in = sock[d].in /\ sock'[d].fin = sock[d].fin
                           /\ sock'[d].rst = sock[d].rst
      BY <2>3, StateHanded
    <3> QED BY <1>3, <2>1, <3>1
  <2> QED BY <1>9, <2>2, <2>3, PeerPushes
<1>10. CASE ServerStops
  BY <1>10, StopKind DEF HandlersOK
<1>11. CASE UNCHANGED vars
  BY <1>11 DEF HandlersOK, Readable, vars, kernelVars, loopVars, auxVars
<1>12. ASSUME NEW e \in fired, SkipsReadFn(e) PROVE HandlersOK'
  BY <1>3, <1>12 DEF SkipsReadFn, ThenWrite, kernelVars, auxVars, Dispatches, Base, FilesOK
<1> QED BY <1>4, <1>6, <1>7, <1>8, <1>9, <1>10, <1>11, <1>12, Steps, Zenon

\* Sockets whose queues do not change.
LEMMA SameQueues ==
    ASSUME NEW t, NEW s, s.in = t.in, s.nsegs = t.nsegs, s.sent = t.sent, s.short = t.short,
           s.replied = t.replied
    PROVE  /\ \A c : Handed(c, t) => Handed(c, s)
           /\ \A h, w : Waiting(h, t, w) => Waiting(h, s, w)
BY DEF Handed, Waiting, Before

\* A handler that keeps its own connection in order keeps them all.
LEMMA TouchReplies ==
    ASSUME Base, ConnsOK, ClientsOK, SentOK, WaitingOK, ~regfail,
           NEW fd \in Fds, NEW h, NEW s, Touches(fd, h, s),
           \A gd \in Fds : gd # fd => interest'[gd] = interest[gd],
           Handed(file[fd], sock[file[fd]])
               /\ Waiting(heap[ClientAt(fd)], sock[file[fd]], interest[fd])
               => Handed(file[fd], s) /\ Waiting(h, s, interest'[fd])
    PROVE  SentOK' /\ WaitingOK'
<1>1. ClosesAt(fd) /\ file[fd] \in Conns /\ ~regfail' /\ ~Stopped
  BY DEF Touches, ClosesAt
<1>2. Handed(file[fd], sock[file[fd]])
  BY <1>1 DEF SentOK
<1>3. Waiting(heap[ClientAt(fd)], sock[file[fd]], interest[fd])
  <2>1. vec_find(fd) \in DOMAIN clients /\ heap[ClientAt(fd)].fd = fd
    BY <1>1 DEF ClosesAt
  <2> QED BY <1>1, <2>1 DEF WaitingOK, ClientAt
<1>4. sock'[file[fd]] = s /\ \A c \in Conns : c # file[fd] => sock'[c] = sock[c]
  BY <1>1, SockFun DEF Touches
<1>5. SentOK'
  BY <1>2, <1>3, <1>4 DEF SentOK
<1>6. ASSUME NEW i \in DOMAIN clients'
      PROVE  LET g == heap'[clients'[i]]
             IN  Waiting(g, sock'[file'[g.fd]], interest'[g.fd])
  <2>1. /\ i \in DOMAIN clients /\ clients' = clients /\ file' = file /\ ~Stopped
        /\ heap'[clients[i]].fd = heap[clients[i]].fd
    BY TouchEntries
  <2>2. /\ Waiting(heap[clients[i]], sock[file[heap[clients[i]].fd]], interest[heap[clients[i]].fd])
        /\ heap[clients[i]].fd \in Fds
    BY <2>1 DEF WaitingOK, ClientsOK
  <2>3. CASE heap[clients[i]].fd = fd
    <3>1. heap'[clients[i]] = h
      BY <2>1, <2>3, TouchEntries
    <3> QED BY <1>2, <1>3, <1>4, <2>1, <2>3, <3>1
  <2>4. CASE heap[clients[i]].fd # fd
    <3>1. /\ heap'[clients[i]] = heap[clients[i]]
          /\ sock'[file[heap[clients[i]].fd]] = sock[file[heap[clients[i]].fd]]
      BY <2>1, <2>4, TouchEntries
    <3> QED BY <2>1, <2>2, <2>4, <3>1
  <2> QED BY <2>3, <2>4
<1> QED BY <1>5, <1>6 DEF WaitingOK

\* The steps of the handlers that work on a client.
LEMMA HandlerReplies ==
    ASSUME Base, ConnsOK, ClientsOK, OwnOK, HandlersOK, SentOK, WaitingOK, WriteOK, ~regfail',
           \/ \E e \in fired : ReadsClient(e) /\ ReadError(e)
           \/ \E e \in fired : ReadsClient(e) /\ ReadExecutes(e)
           \/ WriteDone /\ ~WriteKills
    PROVE  SentOK' /\ WaitingOK'
<1>1. PICK S : sock \in [Conns -> SockOf(S)] /\ heap \in [Cells -> ClientOf(S)]
  BY DEF Base, ShapeOK, Shaped
<1>2. ASSUME NEW fd \in Fds, ClosesAt(fd), ~regfail
      PROVE  Own(heap[ClientAt(fd)], sock[file[fd]], file[fd])
  <2>1. ~Stopped /\ vec_find(fd) \in DOMAIN clients /\ heap[ClientAt(fd)].fd = fd
    BY <1>2 DEF ClosesAt
  <2> QED BY <1>2, <2>1, OwnEntry DEF ClientAt
<1>3. ASSUME NEW e \in fired, ReadsClient(e), ReadError(e) PROVE SentOK' /\ WaitingOK'
  <2> DEFINE g == heap[ClientAt(e.fd)]
             t == sock[file[e.fd]]
  <2>1. PICK h, s : /\ Touches(e.fd, h, s)
                    /\ h.builder = g.builder /\ h.write_size = g.write_size
                    /\ s.sent = t.sent /\ s.short = t.short /\ s.in = <<>> /\ UNCHANGED interest
                    /\ s.replied = t.replied
    BY <1>3, ReadErrorTouches
  <2>2. e.fd \in Fds /\ ~regfail /\ s.nsegs = t.nsegs
    BY <1>3, <2>1, ReadContext DEF Touches
  <2>3. DOMAIN s.in = {}
    BY <2>1
  <2>4. Handed(file[e.fd], t) => Handed(file[e.fd], s)
    <3> HIDE DEF t
    <3> QED BY <2>1, <2>2, <2>3 DEF Handed, Before
  <2>5. Waiting(g, t, interest[e.fd]) => Waiting(h, s, interest'[e.fd])
    <3> HIDE DEF t, g
    <3> QED BY <2>1, <2>2, <2>3 DEF Waiting, Before
  <2> QED BY <2>1, <2>2, <2>4, <2>5, TouchReplies
<1>4. ASSUME NEW e \in fired, ReadsClient(e), ReadExecutes(e) PROVE SentOK' /\ WaitingOK'
  <2> DEFINE g == heap[ClientAt(e.fd)]
             c == file[e.fd]
             t == sock[c]
             w == interest'[e.fd]
             n == IF Received(e.fd) = <<>> THEN 0 ELSE Head(Received(e.fd)).n
  <2>1. PICK h, s : Touches(e.fd, h, s) /\ Answers(e.fd, h, s)
    BY <1>4, ReadExecutesTouches
  <2>2. /\ e.fd \in Fds /\ e.fd # sfd /\ EV_READ \in e.mask /\ c \in Conns
        /\ ClientAt(e.fd) \in Cells /\ ~regfail /\ ClosesAt(e.fd) /\ s.nsegs = t.nsegs
    BY SMTT(60), <1>4, <2>1, ReadContext DEF Touches
  <2>3. /\ ~t.fin /\ ~t.rst /\ interest' = [interest EXCEPT ![e.fd] = @ \cup {EV_WRITE}]
        /\ s.in = <<>> /\ s.sent = t.sent /\ s.short = t.short
        /\ h.write_size = Len(h.builder)
        /\ \E r : /\ h.builder = g.builder \o ReplyTokens(c, n, r)
                  /\ s.replied = t.replied + Len(ReplyTokens(c, n, r))
    BY <2>1 DEF Answers
  <2>4. t.in # <<>>
    BY <2>2, <2>3 DEF HandlersOK, Readable
  <2>5. t \in SockOf(S) /\ g \in ClientOf(S)
    BY <1>1, <2>2
  <2>6. n = t.in[1].n
    <3>1. Own(g, t, c)
      BY <1>2, <2>2
    <3>2. g.read_buf = <<>>
      BY <2>3, <3>1 DEF Own
    <3>3. t.in \in Seq(Token)
      BY <2>5 DEF SockOf
    <3>4. Received(e.fd) = t.in
      BY <3>2, <3>3 DEF Received
    <3> QED BY <2>4, <3>3, <3>4
  <2>7. EV_WRITE \in w /\ \A gd \in Fds : gd # e.fd => interest'[gd] = interest[gd]
    BY <2>2, <2>3, SockFun
  <2>8. ASSUME Handed(c, t), Waiting(g, t, interest[e.fd]) PROVE Handed(c, s) /\ Waiting(h, s, w)
    <3>1. Queues(g, h, t, s, c)
      <4> HIDE DEF g, c, t, n
      <4> QED BY <2>3, <2>6 DEF Queues
    <3>2. /\ s.in = <<>> /\ s.sent = t.sent /\ s.short = t.short /\ s.nsegs = t.nsegs
          /\ h.write_size = Len(h.builder) /\ EV_WRITE \in w
      BY <2>2, <2>3, <2>7
    <3> HIDE DEF g, c, t, w
    <3> QED BY SMTT(60), <2>4, <2>5, <2>8, <3>1, <3>2, AnswerKeeps
  <2> QED BY <2>1, <2>2, <2>7, <2>8, TouchReplies
<1>5. CASE WriteDone /\ ~WriteKills
  <2> DEFINE g == heap[ClientAt(cur.fd)]
             c == file[cur.fd]
             t == sock[c]
  <2>1. PICK h, s : Touches(cur.fd, h, s) /\ Sends(g, h, t, s)
    BY <1>5, WriteTouches
  <2>2. /\ cur.fd \in Fds /\ c \in Conns /\ ClientAt(cur.fd) \in Cells /\ ~regfail
        /\ ClosesAt(cur.fd) /\ s.nsegs = t.nsegs /\ EV_WRITE \in interest[cur.fd]
    BY <1>5, <2>1, WriteContext DEF Touches, WriteDone
  <2>3. t \in SockOf(S) /\ g \in ClientOf(S) /\ cur.bytes_sent \in Nat
    BY <1>1, <2>2 DEF Base, ShapeOK
  <2>8. cur.bytes_sent = 0 \/ t.short
    BY <1>5 DEF WriteOK, WriteDone, WritesClient
  <2>4. interest \in [Fds -> SUBSET Bits]
    BY SockFun
  <2>5. \A k \in DOMAIN g.builder : g.builder[k].conn = c
    BY <1>2, <2>2 DEF Own
  <2>6. \A gd \in Fds : gd # cur.fd => interest'[gd] = interest[gd]
    <3>1. \/ interest' = interest
          \/ interest' = [interest EXCEPT ![cur.fd] = @ \ {EV_WRITE}]
      BY <2>1 DEF Sends, HandsOver, Finishes
    <3> QED BY SMTT(60), <2>4, <3>1
  <2>7. ASSUME Handed(c, t), Waiting(g, t, interest[cur.fd])
        PROVE  Handed(c, s) /\ Waiting(h, s, interest'[cur.fd])
    <3> HIDE DEF g, c, t
    <3> QED BY <2>1, <2>2, <2>3, <2>4, <2>5, <2>7, <2>8, SendKeeps
  <2> QED BY <2>1, <2>2, <2>6, <2>7, TouchReplies
<1> QED BY <1>3, <1>4, <1>5

\* Every step keeps WriteOK: what write() took of a reply is only followed by more
\* of the same write when it took less than it was given.
LEMMA WriteNext ==
    ASSUME Base, WriteOK, [Next]_vars
    PROVE  WriteOK'
<1>1. CASE UNCHANGED <<cur, file>> /\ \A c \in Conns : sock'[c].short = sock[c].short
  <2> SUFFICES ASSUME cur # Idle PROVE WriteOK'
    BY <1>1 DEF WriteOK
  <2>1. file[cur.fd] \in Conns
    BY DEF Base, RoundOK, DispatchOK, FilesOK
  <2> QED BY <1>1, <2>1 DEF WriteOK
<1>2. ASSUME NEW e, ThenWrite(e) PROVE WriteOK'
  BY <1>2 DEF ThenWrite, WriteOK
<1>3. ASSUME NEW e \in fired, SkipsReadFn(e) \/ Accepted(e) \/ ReadDone(e) PROVE WriteOK'
  BY <1>2, <1>3 DEF SkipsReadFn, Accepted, ReadDone
<1>4. CASE WriteDone
  <2>1. CASE WriteKills
    BY <1>1, <2>1 DEF WriteKills, kernelVars, loopVars
  <2>2. ASSUME NEW h, NEW s, Touches(cur.fd, h, s),
               Sends(heap[ClientAt(cur.fd)], h, sock[file[cur.fd]], s)
        PROVE  WriteOK'
    <3> DEFINE g == heap[ClientAt(cur.fd)]
               t == sock[file[cur.fd]]
    <3>1. file[cur.fd] \in Conns /\ file' = file /\ sock'[file[cur.fd]] = s
      BY <1>4, <2>2, WriteContext, SockFun DEF WriteDone, Touches
    <3>2. CASE cur' = Idle
      BY <3>2 DEF WriteOK
    <3>3. CASE HandsOver(g, h, t, s) /\ cur' # Idle
      <4>1. ~Finishes(h)
        BY <3>3 DEF Finishes
      <4>2. PICK k \in Nat \ {0} :
                /\ s.short <=> (t.short \/ k < g.write_size)
                /\ cur.bytes_sent + k < g.write_size /\ cur'.fd = cur.fd
        <5> HIDE DEF g, t
        <5> QED BY <3>3, <4>1 DEF HandsOver
      <4>3. cur.bytes_sent \in Nat /\ g.write_size \in Nat
        <5>1. ClientAt(cur.fd) \in Cells
          BY <1>4, WriteContext DEF WriteDone
        <5> QED BY <5>1 DEF Base, ShapeOK, Shaped, ClientOf
      <4>4. k < g.write_size
        <5> HIDE DEF g
        <5> QED BY <4>2, <4>3
      <4> QED BY <3>1, <4>2, <4>4 DEF WriteOK
    <3>4. cur' = Idle \/ HandsOver(g, h, t, s)
      <4> HIDE DEF g, t
      <4> QED BY <2>2 DEF Sends, Finishes, g, t
    <3> QED BY <3>2, <3>3, <3>4
  <2> QED BY <1>4, <2>1, <2>2, WriteTouches
<1>5. CASE PeerStep
  <2>1. UNCHANGED <<cur, file>>
    BY <1>5, PeerPushes
  <2>2. ASSUME NEW c \in Conns, Moves(c) PROVE \A d \in Conns : sock'[d].short = sock[d].short
    BY <2>2, SockFun DEF Moves, Pushes
  <2>3. ASSUME NEW c \in Conns, sock' = [sock EXCEPT ![c].state = "backlog"]
        PROVE  \A d \in Conns : sock'[d].short = sock[d].short
    BY <2>3, StateHanded
  <2> QED BY <1>1, <1>5, <2>1, <2>2, <2>3, PeerPushes
<1>6. CASE ev_api_poll \/ ServerStops \/ UNCHANGED vars
  <2>1. CASE cur = Idle
    <3>1. cur' = Idle
      BY <1>6, <2>1, StopKind DEF ev_api_poll, vars, loopVars
    <3> QED BY <3>1 DEF WriteOK
  <2>2. CASE UNCHANGED vars
    BY <1>1, <2>2 DEF vars, kernelVars, loopVars
  <2> QED BY <1>6, <2>1, <2>2, StopKind DEF ev_api_poll
<1> QED BY <1>3, <1>4, <1>5, <1>6, Steps, Zenon

\* Every step keeps what was sent and what waits in order.
LEMMA RepliesNext ==
    ASSUME Base, ConnsOK, ClientsOK, OwnOK, HandlersOK, SentOK, WaitingOK, WriteOK, [Next]_vars
    PROVE  SentOK' /\ WaitingOK'
<1> SUFFICES ASSUME ~regfail' PROVE SentOK' /\ WaitingOK'
  BY DEF SentOK, WaitingOK
<1>1. PICK S : sock \in [Conns -> SockOf(S)]
  BY DEF Base, ShapeOK, Shaped
<1>2. CASE Still
  BY <1>2 DEF Still, SentOK, WaitingOK, Stopped
<1>3. CASE WriteKills
  BY <1>2, <1>3 DEF WriteKills, Still, evVars, kernelVars, heapVars
<1>4. ASSUME NEW fd \in Fds, ClosesAt(fd), Closes(fd) PROVE SentOK' /\ WaitingOK'
  <2>1. ~regfail /\ ~Stopped /\ file[fd] \in Conns
    BY <1>4 DEF Closes, ClosesAt
  <2>2. \A c \in Conns : sock'[c] = sock[c] \/ sock'[c] = ClosedSocket
    BY <1>4, SockFun DEF Closes
  <2>3. SentOK'
    BY <2>1, <2>2, ClosedHanded DEF SentOK
  <2>4. \A i \in DOMAIN clients' : \E j \in DOMAIN clients :
            /\ clients'[i] = clients[j] /\ heap'[clients[j]] = heap[clients[j]]
            /\ file'[heap[clients[j]].fd] = file[heap[clients[j]].fd]
            /\ interest'[heap[clients[j]].fd] = interest[heap[clients[j]].fd]
            /\ sock'[file[heap[clients[j]].fd]] = sock[file[heap[clients[j]].fd]]
    BY <1>4, <2>1, LeftEntries
  <2>5. \A i \in DOMAIN clients' :
            LET h == heap'[clients'[i]]
            IN  Waiting(h, sock'[file'[h.fd]], interest'[h.fd])
    BY <2>1, <2>4 DEF WaitingOK
  <2> QED BY <2>3, <2>5 DEF WaitingOK
<1>5. ASSUME NEW c \in Conns, sock' = [sock EXCEPT ![c].state = "accepted"], ~regfail
      PROVE  SentOK'
  <2>1. Handed(c, sock[c])
    BY <1>5 DEF SentOK
  <2>2. Handed(c, sock'[c]) /\ \A d \in Conns : d # c => sock'[d] = sock[d]
    BY <1>5, <2>1, StateHanded, SameQueues
  <2> QED BY <1>5, <2>2 DEF SentOK
<1>6. ASSUME NEW c \in Conns, NEW fd \in Fds, NEW x \in Cells, AcceptsAt(c, fd),
             Adds(c, fd, x)
      PROVE  SentOK' /\ WaitingOK'
  <2>1. ~regfail /\ ~Stopped
    BY <1>6 DEF Adds, AcceptsAt
  <2>2. SentOK'
    BY <1>5, <1>6, <2>1 DEF Adds
  <2>3. \A i \in DOMAIN clients :
            /\ clients'[i] = clients[i] /\ heap'[clients[i]] = heap[clients[i]]
            /\ file'[heap[clients[i]].fd] = file[heap[clients[i]].fd]
            /\ interest'[heap[clients[i]].fd] = interest[heap[clients[i]].fd]
            /\ sock'[file[heap[clients[i]].fd]] = sock[file[heap[clients[i]].fd]]
    BY <1>6, <2>1, MoreEntries
  <2> DEFINE W(i) == LET h == heap'[clients'[i]]
                     IN  Waiting(h, sock'[file'[h.fd]], interest'[h.fd])
  <2>4. \A i \in DOMAIN clients : W(i)
    BY <2>1, <2>3 DEF WaitingOK
  <2>5. W(Len(clients) + 1)
    <3>1. /\ clients'[Len(clients) + 1] = x /\ heap'[x] = NewClient(fd) /\ heap'[x].fd = fd
          /\ interest'[fd] = {EV_READ} /\ file'[fd] = c
      BY <1>6, <2>1, MoreEntries
    <3>2. sock'[c].sent = <<>> /\ sock'[c].replied = 0
      <4>1. 1 \in DOMAIN backlog /\ c = backlog[1]
        BY <1>6, SockFun DEF AcceptsAt
      <4>2. sock[c].sent = <<>> /\ sock[c].replied = 0
        BY <2>1, <4>1 DEF ConnsOK
      <4> QED BY <1>6, <4>2, StateHanded DEF Adds
    <3> QED BY <3>1, <3>2, NothingWaits
  <2>6. \A i \in DOMAIN clients' : i \in DOMAIN clients \/ i = Len(clients) + 1
    BY <1>6, <2>1, MoreEntries
  <2>7. \A i \in DOMAIN clients' : W(i)
    <3> HIDE DEF W
    <3> QED BY <2>4, <2>5, <2>6
  <2> QED BY <2>2, <2>7 DEF WaitingOK
<1>7. ASSUME NEW c \in Conns, NEW fd \in Fds, AcceptsAt(c, fd), Loses(c, fd)
      PROVE  SentOK' /\ WaitingOK'
  <2>1. ~regfail /\ ~Stopped
    BY <1>7 DEF Loses, AcceptsAt
  <2>2. SentOK'
    BY <1>5, <1>7, <2>1 DEF Loses
  <2>3. \A i \in DOMAIN clients' :
            LET h == heap'[clients'[i]]
            IN  Waiting(h, sock'[file'[h.fd]], interest'[h.fd])
    BY <1>7, <2>1, SameEntries DEF WaitingOK
  <2> QED BY <2>2, <2>3 DEF WaitingOK
<1>8. CASE ServerStops
  <2>1. UNCHANGED <<clients, heap, regfail, interest>> /\ ~Stopped /\ ~regfail
    BY <1>8, StopKind DEF ServerStops, Interrupted, Base, FilesOK
  <2>2. \A c \in Conns : sock'[c] = sock[c] \/ sock'[c] = ClosedSocket
    BY <1>8, StopKind
  <2>3. SentOK'
    BY <2>1, <2>2, ClosedHanded DEF SentOK
  <2>4. ASSUME ~Stopped' PROVE UNCHANGED <<file, sock>>
    BY <1>8, <2>4, StopKind, SockFun DEF Stopped
  <2> QED BY <2>1, <2>3, <2>4 DEF WaitingOK
<1>9. CASE PeerStep
  <2>1. UNCHANGED <<heap, file, clients, regfail, interest>> /\ ~regfail /\ ~Stopped
    BY <1>9, PeerPushes DEF Base, FilesOK
  <2>2. \A i \in DOMAIN clients : file[heap[clients[i]].fd] \in Conns
    BY <2>1, Apart
  <2>3. ASSUME NEW c \in Conns, \A d \in Conns : d # c => sock'[d] = sock[d],
               Handed(c, sock[c]) => Handed(c, sock'[c]),
               \A h, w : Waiting(h, sock[c], w) => Waiting(h, sock'[c], w)
        PROVE  SentOK' /\ WaitingOK'
    <3>1. SentOK'
      BY <2>1, <2>3 DEF SentOK
    <3>2. \A i \in DOMAIN clients :
              LET h == heap[clients[i]]
              IN  Waiting(h, sock'[file[h.fd]], interest[h.fd])
      BY <2>1, <2>2, <2>3 DEF WaitingOK
    <3> QED BY <2>1, <3>1, <3>2 DEF WaitingOK
  <2>4. ASSUME NEW c \in Conns, Moves(c) PROVE SentOK' /\ WaitingOK'
    <3>1. PICK s : sock' = [sock EXCEPT ![c] = s] /\ Pushes(sock[c], s)
      BY <2>4 DEF Moves
    <3>2. sock'[c] = s /\ \A d \in Conns : d # c => sock'[d] = sock[d]
      BY <3>1, SockFun
    <3>3. sock[c] \in SockOf(S)
      BY <1>1
    <3>4. Handed(c, sock[c]) => Handed(c, s)
      BY <3>1, <3>3, PushesHanded
    <3>5. \A h, w : Waiting(h, sock[c], w) => Waiting(h, s, w)
      BY <3>1, <3>3, PushesWaiting
    <3> QED BY <2>3, <3>2, <3>4, <3>5
  <2>5. ASSUME NEW c \in Conns, sock' = [sock EXCEPT ![c].state = "backlog"]
        PROVE  SentOK' /\ WaitingOK'
    BY <2>3, <2>5, StateHanded, SameQueues
  <2> QED BY <1>9, <2>4, <2>5, PeerPushes
<1>10. CASE \/ \E e \in fired : ReadsClient(e) /\ ReadError(e)
            \/ \E e \in fired : ReadsClient(e) /\ ReadExecutes(e)
            \/ WriteDone /\ ~WriteKills
  BY <1>10, HandlerReplies
<1> QED BY <1>2, <1>3, <1>4, <1>6, <1>7, <1>8, <1>9, <1>10, Cases, Zenon

\* Counts of failed allocations only grow.
LEMMA OomsGrow ==
    ASSUME Base, [Next]_vars, ooms' = 0
    PROVE  ooms = 0
<1>1. ooms \in Nat
  BY ConnectionsAssumption DEF Base, ShapeOK
<1>2. ooms' = ooms \/ ooms' = ooms + 1
  <2>1. ASSUME NEW e \in fired, Accepted(e) PROVE <1>2
    BY SMTT(60), <2>1
    DEF Accepted, AcceptFails, AcceptCreateFails, AcceptOk, AcceptRegisterFails,
        AcceptPushFails, auxVars
  <2>2. ASSUME NEW e \in fired, ReadDone(e) PROVE <1>2
    BY ZenonT(60), <2>2 DEF ReadDone, ReadGrowFails, ReadEof, ReadError, ReadExecutes, auxVars
  <2>3. CASE WriteDone
    BY <2>3 DEF WriteDone, WriteNothing, WriteSome, WriteReturns, WriteKills, auxVars
  <2>4. CASE \/ ev_api_poll \/ (\E e \in fired : SkipsReadFn(e)) \/ PeerStep
             \/ ServerStops \/ UNCHANGED vars
    BY <2>4, PeerPushes, StopKind DEF ev_api_poll, SkipsReadFn, vars, auxVars
  <2> QED BY <2>1, <2>2, <2>3, <2>4, Steps, Zenon
<1> QED BY <1>1, <1>2

\* Every step keeps NothingLost.
LEMMA LostNext ==
    ASSUME Base, ConnsOK, ClientsOK, NothingLost, [Next]_vars
    PROVE  NothingLost'
<1> SUFFICES ASSUME ~regfail', ~Stopped', ooms' = 0 PROVE NothingLost'
  BY DEF NothingLost
<1>1. ooms = 0
  BY OomsGrow
<1>2. CASE Quiet
  <2>1. ~regfail /\ ~Stopped /\ UNCHANGED <<clients, live, file>>
    BY <1>2, QuietEntries DEF Quiet
  <2> QED BY <1>1, <1>2, <2>1 DEF NothingLost, Quiet
<1>3. ASSUME NEW fd \in Fds, ClosesAt(fd), Closes(fd) PROVE NothingLost'
  <2>1. ~regfail /\ ~Stopped
    BY <1>3 DEF Closes, ClosesAt
  <2>2. clients' = RemoveAt(clients, vec_find(fd)) /\ vec_find(fd) \in DOMAIN clients
    BY <1>3 DEF Closes, ClosesAt
  <2>3. \A j \in DOMAIN clients : j # vec_find(fd) =>
            \E i \in DOMAIN clients' : clients'[i] = clients[j]
    BY <2>2, RemovedAt, SockFun
  <2>4. \A x \in live' : \E i \in DOMAIN clients' : clients'[i] = x
    BY <1>1, <1>3, <2>1, <2>3 DEF NothingLost, Closes, ClientAt
  <2>5. \A gd \in Fds : file'[gd] \in Conns => interest'[gd] # {}
    BY <1>1, <1>3, <2>1, SockFun DEF NothingLost, Closes
  <2> QED BY <2>4, <2>5 DEF NothingLost
<1>4. ASSUME NEW c \in Conns, NEW fd \in Fds, NEW x \in Cells, AcceptsAt(c, fd),
             Adds(c, fd, x)
      PROVE  NothingLost'
  <2>1. ~regfail /\ ~Stopped
    BY <1>4 DEF Adds, AcceptsAt
  <2>2. /\ clients' = Append(clients, x) /\ live' = live \cup {x} /\ clients \in Seq(Cells)
        /\ file' = [file EXCEPT ![fd] = c] /\ interest' = [interest EXCEPT ![fd] = {EV_READ}]
    BY <1>4, SockFun DEF Adds
  <2>3. /\ Len(clients) + 1 \in DOMAIN clients' /\ clients'[Len(clients) + 1] = x
        /\ \A i \in DOMAIN clients : i \in DOMAIN clients' /\ clients'[i] = clients[i]
    BY <2>2
  <2>4. \A y \in live' : \E i \in DOMAIN clients' : clients'[i] = y
    BY <1>1, <2>1, <2>2, <2>3 DEF NothingLost
  <2>5. \A gd \in Fds : file'[gd] \in Conns => interest'[gd] # {}
    BY <1>1, <2>1, <2>2, SockFun DEF NothingLost
  <2> QED BY <2>4, <2>5 DEF NothingLost
<1>5. ASSUME NEW c, NEW fd, Loses(c, fd) PROVE NothingLost'
  BY <1>1, <1>5 DEF Loses
<1>6. ASSUME NEW c, NEW x, Drops(c, x) PROVE NothingLost'
  BY <1>6 DEF Drops
<1>7. CASE ServerStops
  <2>1. UNCHANGED <<clients, regfail, interest>> /\ ~Stopped /\ ~regfail
    BY <1>7, StopKind DEF ServerStops, Interrupted, Base, FilesOK
  <2>2. UNCHANGED <<file, live>>
    BY <1>7, StopKind, SockFun DEF Stopped
  <2> QED BY <1>1, <2>1, <2>2 DEF NothingLost
<1> QED BY <1>2, <1>3, <1>4, <1>5, <1>6, <1>7, Kinds, Zenon

-----------------------------------------------------------------------------
(* Theorems about replies *)

\* The inductive invariant about commands and replies.
Replies == Sessions /\ HandlersOK /\ WriteOK /\ SentOK /\ WaitingOK /\ NothingLost

\* The initial state satisfies the inductive invariant.
LEMMA RepliesInit == Init => Replies
<1> SUFFICES ASSUME Init PROVE Replies
  OBVIOUS
<1>1. /\ sock = [c \in Conns |-> NewSocket] /\ clients = <<>> /\ live = {} /\ fired = {}
      /\ cur = Idle /\ \A fd \in Fds : file[fd] \notin Conns
  BY ConnectionsAssumption DEF Init, Free, Listener
<1>2. DOMAIN clients = {}
  BY <1>1
<1>3. \A c : Handed(c, NewSocket)
  <2>1. NewSocket.in = <<>> /\ NewSocket.sent = <<>>
    BY DEF NewSocket
  <2> QED BY <2>1 DEF Handed, Whole, Before
<1> QED BY <1>1, <1>2, <1>3, SessionsInit
    DEF Replies, HandlersOK, WriteOK, SentOK, WaitingOK, NothingLost

\* Every step keeps it.
LEMMA RepliesStep == Replies /\ [Next]_vars => Replies'
<1> SUFFICES ASSUME Replies, [Next]_vars PROVE Replies'
  OBVIOUS
<1>1. Base /\ ConnsOK /\ ClientsOK /\ OwnOK
  BY DEF Replies, Sessions
<1>2. Sessions'
  BY SessionsNext DEF Replies
<1>3. HandlersOK'
  BY <1>1, HandlersNext DEF Replies
<1>4. SentOK' /\ WaitingOK'
  BY <1>1, RepliesNext DEF Replies
<1>5. NothingLost'
  BY <1>1, LostNext DEF Replies
<1>6. WriteOK'
  BY <1>1, WriteNext DEF Replies
<1> QED BY <1>2, <1>3, <1>4, <1>5, <1>6 DEF Replies

\* It holds in every behaviour of the server.
LEMMA RepliesInvariant == Spec => []Replies
BY RepliesInit, RepliesStep, PTL DEF Spec

\* As long as no write() on its connection was cut short and no accept has failed to
\* register, what a peer gets are the replies to what it sent, whole, in order and
\* without a gap, for any number of connections, any sizes of buffers and replies,
\* and however writes that block, reads and closes interleave.
THEOREM RepliesStayInOrder == Spec => []RepliesInOrder
<1>1. Replies => RepliesInOrder
  <2> SUFFICES ASSUME Replies, NEW c \in Conns, ~regfail, ~sock[c].short
               PROVE  LET s == sock[c].sent
                      IN  /\ \A i \in DOMAIN s : s[i].conn = c
                          /\ \A i \in 1 .. Len(s) - 1 :
                                 IF s[i].i < reply_len
                                 THEN s[i+1].n = s[i].n /\ s[i+1].i = s[i].i + 1
                                 ELSE s[i+1].n > s[i].n /\ s[i+1].i = 1
                          /\ c \in Connected =>
                                 Len(s) + Len(heap[CellOf(c)].builder) = sock[c].replied
    BY DEF RepliesInOrder
  <2>1. ASSUME c \in Connected
        PROVE  Len(sock[c].sent) + Len(heap[CellOf(c)].builder) = sock[c].replied
    <3>1. PICK i \in DOMAIN clients : CellOf(c) = clients[i] /\ file[heap[clients[i]].fd] = c
      BY <2>1, CellOfEntry DEF Replies
    <3>2. ~Stopped
      BY <2>1, CellOfEntry DEF Replies
    <3> QED BY <3>1, <3>2 DEF Replies, WaitingOK, Waiting
  <2> QED BY <2>1 DEF Replies, SentOK, Handed, Whole
<1> QED BY <1>1, RepliesInvariant, PTL

\* A stop loses neither a command that had arrived nor a reply that its peer had
\* room for, and closes every connection and frees every client, but those that a
\* failed allocation lost; a failed registration is excepted altogether.  (When
\* the growth of s->clients has moved it, server_free works on a freed vector: such
\* an end is no stop, and nothing is claimed of it.)
THEOREM EveryStopIsClean == Spec => StopsClean
<1>1. Replies /\ [Next]_vars => [CleanStop]_vars
  <2> SUFFICES ASSUME Replies, [Next]_vars, Stopped', ~Stopped, ~regfail
               PROVE  /\ \A c \in Connected :
                             /\ sock[c].in = <<>>
                             /\ heap[CellOf(c)].builder # <<>> => Space(c) = 0
                      /\ ooms = 0 => live' = {} /\ \A fd \in Fds : file'[fd] \in {Free, "other"}
    BY DEF CleanStop
  <2>1. Base /\ ClientsOK /\ Sessions /\ WaitingOK
    BY DEF Replies, Sessions
  <2>2. ServerStops
    BY <2>1, OnlyFreeStops
  <2>3. \A fd \in Fds : Events(fd) = {}
    BY <2>2 DEF ServerStops, Interrupted
  <2>4. ASSUME NEW c \in Connected
        PROVE  sock[c].in = <<>> /\ (heap[CellOf(c)].builder # <<>> => Space(c) = 0)
    <3>1. PICK i \in DOMAIN clients : CellOf(c) = clients[i] /\ file[heap[clients[i]].fd] = c
      BY <2>1, CellOfEntry
    <3> DEFINE fd == heap[clients[i]].fd
    <3>2. fd \in Fds \ {sfd} /\ interest[fd] # {} /\ file[fd] = c
      BY <2>1, <3>1 DEF ClientsOK
    <3>3. c \in Conns /\ EV_READ \in interest[fd] /\ file[fd] # Listener
      BY <2>1, <3>2, SockFun DEF Base, FilesOK
    <3> HIDE DEF fd
    <3>4. Events(fd) = {} /\ Bits # {}
      BY <2>3, <3>2 DEF Bits
    <3>5. ~sock[c].rst
      BY <3>2, <3>3, <3>4 DEF Events
    <3>6. /\ ~Readable(c)
          /\ EV_WRITE \in interest[fd] => ~Writable(c)
      BY <3>2, <3>3, <3>4, <3>5 DEF Events
    <3>7. ASSUME heap[clients[i]].builder # <<>> PROVE Space(c) = 0
      <4>1. EV_WRITE \in interest[fd]
        BY <2>1, <3>7 DEF WaitingOK, Waiting, fd
      <4>2. ~(Space(c) > 0)
        BY <3>6, <4>1 DEF Writable
      <4>3. Space(c) \in Nat
        <5>1. /\ sock[c].taken \in Nat /\ Len(sock[c].sent) \in Nat
              /\ sock[c].taken <= Len(sock[c].sent)
              /\ Len(sock[c].sent) - sock[c].taken <= snd_cap
          BY <2>1, <3>3 DEF Base, ShapeOK, Shaped, SockOf, BuffersOK
        <5> QED BY <5>1, ConnectionsAssumption DEF Space
      <4> QED BY <4>2, <4>3
    <3> QED BY <3>1, <3>6, <3>7 DEF Readable
  <2>5. ASSUME ooms = 0 PROVE live' = {} /\ \A fd \in Fds : file'[fd] \in {Free, "other"}
    <3>1. /\ file' = [fd \in Fds |->
                  IF fd = sfd \/ \E i \in DOMAIN clients : heap[clients[i]].fd = fd
                  THEN Free ELSE file[fd]]
          /\ live' = live \ Range(clients)
      BY <2>1, <2>2, StopKind, SockFun DEF Stopped
    <3>2. /\ \A x \in live : x \in Range(clients)
          /\ \A fd \in Fds : file[fd] \in Conns => interest[fd] # {}
      BY <2>5 DEF Replies, NothingLost, Range
    <3>3. \A fd \in Fds : file[fd] \in Conns /\ fd # sfd =>
              \E i \in DOMAIN clients : heap[clients[i]].fd = fd
      BY <2>1, <3>2 DEF Base, Served
    <3>4. \A fd \in Fds : file[fd] = Listener => fd = sfd
      BY <2>1 DEF Base, FilesOK
    <3> QED BY <2>1, <3>1, <3>2, <3>3, <3>4, SockFun
  <2> QED BY <2>4, <2>5
<1> QED BY <1>1, RepliesInvariant, PTL DEF Spec, StopsClean

-----------------------------------------------------------------------------
(* The server implements module Store *)

\* Module Store's commands are these.
LEMMA StoreReplies ==
    /\ \A r : Abstract!Reply(r) = Reply(r) /\ Abstract!ValueReply(r) = ValueReply(r)
    /\ \A s, c, r : Abstract!Answer(s, c, r) = Answer(s, c, r)
    /\ \A s, c, r : Abstract!Counted(s, c, r) = Counted(s, c, r)
    /\ \A s, c, db, r : Abstract!Stored(s, c, db, r) = Stored(s, c, db, r)
BY DEF Abstract!Reply, Reply, Abstract!ValueReply, ValueReply, Abstract!Answer, Answer,
       Abstract!Counted, Counted, Abstract!Stored, Stored, Abstract!Outcome, Outcome,
       Abstract!WithDb, WithDb, Abstract!Count, Count

\* The instance of Store counts as this module does.
LEMMA StoreCardinality == \A S : Abstract!Cardinality(S) = Cardinality(S)
BY DEF Abstract!Cardinality, Cardinality

\* Its commands are these commands.
LEMMA StoreCommands ==
    /\ \A s, c, cmd : /\ Abstract!ExecuteAuth(s, c, cmd) = ExecuteAuth(s, c, cmd)
                      /\ Abstract!ExecuteSelect(s, c, cmd) = ExecuteSelect(s, c, cmd)
                      /\ Abstract!ExecuteSet(s, c, cmd) = ExecuteSet(s, c, cmd)
                      /\ Abstract!ExecuteGet(s, c, cmd) = ExecuteGet(s, c, cmd)
                      /\ Abstract!ExecuteDel(s, c, cmd) = ExecuteDel(s, c, cmd)
                      /\ Abstract!ExecutePush(s, c, cmd) = ExecutePush(s, c, cmd)
                      /\ Abstract!ExecuteEnque(s, c, cmd) = ExecuteEnque(s, c, cmd)
                      /\ Abstract!ExecuteZSet(s, c, cmd) = ExecuteZSet(s, c, cmd)
                      /\ Abstract!ExecuteZHas(s, c, cmd) = ExecuteZHas(s, c, cmd)
                      /\ Abstract!ExecuteZDel(s, c, cmd) = ExecuteZDel(s, c, cmd)
    /\ \A s, c : /\ Abstract!ExecuteKeys(s, c) = ExecuteKeys(s, c)
                 /\ Abstract!ExecutePop(s, c) = ExecutePop(s, c)
                 /\ Abstract!ExecuteDeque(s, c) = ExecuteDeque(s, c)
    /\ \A s, c, n : Abstract!ExecuteInfo(s, c, n) = ExecuteInfo(s, c, n)
<1> USE DEF Abstract!Reply, Reply, Abstract!ValueReply, ValueReply, Abstract!KeysReply, KeysReply,
            Abstract!InfoReply, InfoReply, Abstract!Answer, Answer, Abstract!Counted, Counted,
            Abstract!Stored, Stored, Abstract!Outcome, Outcome, Abstract!WithDb, WithDb,
            Abstract!Count, Count, Abstract!IfOom, IfOom, Abstract!DbOf, DbOf,
            Abstract!Removed, Removed, Abstract!Restrict, Restrict, Abstract!Updated, Updated
<1>1. \A s, c, cmd : Abstract!ExecuteAuth(s, c, cmd) = ExecuteAuth(s, c, cmd)
  BY DEF Abstract!ExecuteAuth, ExecuteAuth
<1>2. \A s, c, cmd : Abstract!ExecuteSelect(s, c, cmd) = ExecuteSelect(s, c, cmd)
  BY DEF Abstract!ExecuteSelect, ExecuteSelect
<1>3. \A s, c, cmd : Abstract!ExecuteSet(s, c, cmd) = ExecuteSet(s, c, cmd)
  BY DEF Abstract!ExecuteSet, ExecuteSet, Abstract!Cardinality, Cardinality
<1>4. \A s, c, cmd : Abstract!ExecuteGet(s, c, cmd) = ExecuteGet(s, c, cmd)
  BY DEF Abstract!ExecuteGet, ExecuteGet
<1>5. \A s, c, cmd : Abstract!ExecuteDel(s, c, cmd) = ExecuteDel(s, c, cmd)
  BY DEF Abstract!ExecuteDel, ExecuteDel
<1>6. \A s, c, cmd : Abstract!ExecutePush(s, c, cmd) = ExecutePush(s, c, cmd)
  BY DEF Abstract!ExecutePush, ExecutePush
<1>7. \A s, c, cmd : Abstract!ExecuteEnque(s, c, cmd) = ExecuteEnque(s, c, cmd)
  BY DEF Abstract!ExecuteEnque, ExecuteEnque
<1>8. \A s, c, cmd : Abstract!ExecuteZSet(s, c, cmd) = ExecuteZSet(s, c, cmd)
  BY DEF Abstract!ExecuteZSet, ExecuteZSet, Abstract!Cardinality, Cardinality
<1>9. \A s, c, cmd : Abstract!ExecuteZHas(s, c, cmd) = ExecuteZHas(s, c, cmd)
  BY DEF Abstract!ExecuteZHas, ExecuteZHas
<1>10. \A s, c, cmd : Abstract!ExecuteZDel(s, c, cmd) = ExecuteZDel(s, c, cmd)
  BY DEF Abstract!ExecuteZDel, ExecuteZDel
<1>11. \A s, c : Abstract!ExecuteKeys(s, c) = ExecuteKeys(s, c)
  BY DEF Abstract!ExecuteKeys, ExecuteKeys, Abstract!Cardinality, Cardinality
<1>12. \A s, c : Abstract!ExecutePop(s, c) = ExecutePop(s, c)
  BY DEF Abstract!ExecutePop, ExecutePop
<1>13. \A s, c : Abstract!ExecuteDeque(s, c) = ExecuteDeque(s, c)
  BY DEF Abstract!ExecuteDeque, ExecuteDeque
<1>14. \A s, c, n : Abstract!ExecuteInfo(s, c, n) = ExecuteInfo(s, c, n)
  BY DEF Abstract!ExecuteInfo, ExecuteInfo
<1> QED BY ZenonT(60), <1>1, <1>2, <1>3, <1>4, <1>5, <1>6, <1>7, <1>8, <1>9, <1>10, <1>11, <1>12, <1>13,
           <1>14, Zenon

\* So is its execute_cmd, and what it starts with.
LEMMA StoreExecutes ==
    /\ \A s, c, cmd, n : Abstract!execute_cmd(s, c, cmd, n) = execute_cmd(s, c, cmd, n)
    /\ Abstract!server_new = server_new /\ Abstract!new_client = new_client
    /\ Abstract!NoReply = NoReply
<1>1. /\ Abstract!server_new = server_new /\ Abstract!new_client = new_client
      /\ Abstract!NoReply = NoReply
  BY DEF Abstract!server_new, server_new, Abstract!new_client, new_client, Abstract!NoReply,
         NoReply, Abstract!Reply, Reply, Abstract!lexidb_new, lexidb_new, Abstract!Dbs, Dbs,
         Abstract!EmptyDict, EmptyDict, Abstract!VEC_INITIAL_CAP, VEC_INITIAL_CAP
<1>2. \A s, c, cmd, n : Abstract!Dispatch(s, c, cmd, n) = Dispatch(s, c, cmd, n)
  BY StoreReplies, StoreCommands, <1>1 DEF Abstract!Dispatch, Dispatch
<1>3. \A s, c, cmd, n : Abstract!execute_cmd(s, c, cmd, n) = execute_cmd(s, c, cmd, n)
  BY StoreReplies, <1>2 DEF Abstract!execute_cmd, execute_cmd, Abstract!Gated, Gated
<1> QED BY <1>1, <1>3

\* Login and database of the connections, as module Store has them.
Views == [c \in Conns |-> IF c \in Connected THEN heap[CellOf(c)].view ELSE new_client]

\* The entries of the vector are the connections that are served.
LEMMA EntryViews ==
    Sessions /\ ~regfail =>
        /\ \A i \in DOMAIN clients : ~Stopped =>
               LET h == heap[clients[i]]
               IN  file[h.fd] \in Connected /\ Views[file[h.fd]] = h.view
        /\ \A c \in Connected : ~Stopped /\ \E i \in DOMAIN clients : file[heap[clients[i]].fd] = c
        /\ \A c \in Conns \ Connected : Views[c] = new_client
        /\ Connected \subseteq Conns /\ Views = [c \in Conns |-> Views[c]]
<1> SUFFICES ASSUME Sessions, ~regfail
             PROVE  /\ \A i \in DOMAIN clients : ~Stopped =>
                           LET h == heap[clients[i]]
                           IN  file[h.fd] \in Connected /\ Views[file[h.fd]] = h.view
                    /\ \A c \in Connected :
                           ~Stopped /\ \E i \in DOMAIN clients : file[heap[clients[i]].fd] = c
                    /\ \A c \in Conns \ Connected : Views[c] = new_client
                    /\ Connected \subseteq Conns /\ Views = [c \in Conns |-> Views[c]]
  OBVIOUS
<1>1. Base /\ ConnsOK /\ ClientsOK
  BY DEF Sessions
<1>2. ASSUME NEW i \in DOMAIN clients, ~Stopped
      PROVE  LET h == heap[clients[i]]
             IN  file[h.fd] \in Connected /\ Views[file[h.fd]] = h.view
  <2> DEFINE h == heap[clients[i]]
             c == file[h.fd]
  <2>1. h.fd \in Fds /\ c \in Conns
    BY <1>1, <1>2, Apart
  <2>2. c \in Connected
    BY <1>1, <2>1, ConnectedEntries
  <2>3. PICK j \in DOMAIN clients : CellOf(c) = clients[j] /\ file[heap[clients[j]].fd] = c
    BY <2>2, CellOfEntry
  <2>4. heap[clients[j]].fd \in Fds
    BY <1>1, <1>2, <2>3, Apart
  <2>5. heap[clients[j]].fd = h.fd
    BY <1>1, <2>1, <2>3, <2>4 DEF ConnsOK
  <2>6. j = i
    BY <1>1, <1>2, <2>3, <2>5 DEF ClientsOK
  <2> QED BY <2>1, <2>2, <2>3, <2>6 DEF Views
<1>3. \A c \in Connected : ~Stopped /\ \E i \in DOMAIN clients : file[heap[clients[i]].fd] = c
  BY CellOfEntry
<1>4. Connected \subseteq Conns
  BY DEF Connected
<1> QED BY <1>2, <1>3, <1>4 DEF Views

\* The same in the next state.
LEMMA EntryViewsNext ==
    (Sessions /\ ~regfail)' =>
        (/\ \A i \in DOMAIN clients : ~Stopped =>
               LET h == heap[clients[i]]
               IN  file[h.fd] \in Connected /\ Views[file[h.fd]] = h.view
         /\ \A c \in Connected : ~Stopped /\ \E i \in DOMAIN clients : file[heap[clients[i]].fd] = c
         /\ \A c \in Conns \ Connected : Views[c] = new_client
         /\ Connected \subseteq Conns /\ Views = [c \in Conns |-> Views[c]])'
BY EntryViews, PTL

\* INFO reports the number of connections.
LEMMA ClientsCount ==
    ASSUME Sessions, ~regfail, ~Stopped
    PROVE  Cardinality(Connected) = Len(clients)
<1>1. Base /\ ConnsOK /\ ClientsOK
  BY DEF Sessions
<1>2. clients \in Seq(Cells) /\ Len(clients) \in Nat /\ DOMAIN clients = 1 .. Len(clients)
  BY <1>1, SockFun
<1> DEFINE f == [i \in 1 .. Len(clients) |-> file[heap[clients[i]].fd]]
<1>3. ASSUME NEW i \in 1 .. Len(clients) PROVE f[i] \in Connected
  BY <1>2, EntryViews
<1>4. ASSUME NEW c \in Connected PROVE \E i \in 1 .. Len(clients) : f[i] = c
  BY <1>2, EntryViews
<1>5. ASSUME NEW i \in 1 .. Len(clients), NEW j \in 1 .. Len(clients), f[i] = f[j]
      PROVE  i = j
  <2>1. /\ heap[clients[i]].fd \in Fds /\ heap[clients[j]].fd \in Fds
        /\ file[heap[clients[i]].fd] \in Conns
    BY <1>1, <1>2, Apart
  <2>2. heap[clients[i]].fd = heap[clients[j]].fd
    BY <1>1, <1>5, <2>1 DEF ConnsOK
  <2> QED BY <1>1, <1>2, <2>2 DEF ClientsOK
<1>6. PICK T : T = Connected
  BY SMTT(60)
<1>7. PICK n \in Nat : n = Len(clients)
  BY <1>2
<1>8. f \in [1 .. n -> T]
  BY <1>3, <1>6, <1>7
<1>9. PICK b : b = f
  OBVIOUS
<1>10. b \in Bijection(1 .. n, T)
  <2>1. /\ b \in [1 .. n -> T]
        /\ \A i, j \in 1 .. n : b[i] = b[j] => i = j
        /\ \A c \in T : \E i \in 1 .. n : b[i] = c
    <3> HIDE DEF f
    <3> QED BY <1>4, <1>5, <1>6, <1>7, <1>8, <1>9
  <2> QED BY <2>1 DEF Bijection, Injection, Surjection, IsInjective
<1>11. IsFiniteSet(1 .. n) /\ Cardinality(1 .. n) = n
  BY FS_Interval
<1>12. ExistsBijection(1 .. n, T)
  BY <1>10 DEF ExistsBijection
<1>13. Cardinality(T) = n
  BY <1>11, <1>12, FS_Bijection
<1> QED BY <1>6, <1>7, <1>13

\* Only the execution of a command changes the databases.
LEMMA OnlyCommandsStore ==
    ASSUME Base, [Next]_vars
    PROVE  \/ UNCHANGED <<st, last>>
           \/ \E e \in fired : ReadsClient(e) /\ ReadExecutes(e)
<1> DEFINE Goal == \/ UNCHANGED <<st, last>>
                   \/ \E e \in fired : ReadsClient(e) /\ ReadExecutes(e)
<1> SUFFICES Goal
  OBVIOUS
<1>1. ASSUME NEW e \in fired, Accepted(e) PROVE Goal
  BY <1>1
  DEF Accepted, AcceptFails, AcceptCreateFails, AcceptOk, AcceptRegisterFails,
      AcceptPushFails, auxVars
<1>2. ASSUME NEW e \in fired, ReadDone(e) PROVE Goal
  <2>1. CASE ReadExecutes(e)
    BY <1>2, <2>1 DEF ReadDone
  <2>2. CASE ReadGrowFails(e) \/ ReadEof(e) \/ ReadError(e)
    BY SMTT(60), <2>2 DEF ReadGrowFails, ReadEof, ReadError, auxVars
  <2> QED BY <1>2, <2>1, <2>2 DEF ReadDone
<1>3. CASE WriteDone
  BY <1>3 DEF WriteDone, WriteNothing, WriteSome, WriteReturns, WriteKills, auxVars
<1>4. CASE ev_api_poll \/ (\E e \in fired : SkipsReadFn(e)) \/ UNCHANGED vars
  BY <1>4 DEF ev_api_poll, SkipsReadFn, vars, auxVars
<1>5. CASE PeerStep
  BY <1>5, PeerPushes
<1>6. CASE ServerStops
  BY <1>6 DEF ServerStops
<1> HIDE DEF Goal
<1> QED BY <1>1, <1>2, <1>3, <1>4, <1>5, <1>6, Steps, Zenon

\* The connections keep their clients, and these their views.
LEMMA SameViews ==
    ASSUME Sessions, Sessions', ~regfail, ~regfail', ~Stopped, ~Stopped',
           clients' = clients,
           \A i \in DOMAIN clients :
               LET h == heap[clients[i]]
                   g == heap'[clients[i]]
               IN  g.fd = h.fd /\ file'[h.fd] = file[h.fd] /\ g.view = h.view
    PROVE  Connected' = Connected /\ Views' = Views
<1>1. Connected' = Connected
  BY EntryViews, EntryViewsNext
<1>2. ASSUME NEW c \in Conns PROVE Views'[c] = Views[c]
  <2>1. CASE c \notin Connected
    BY <1>1, <2>1, EntryViews, EntryViewsNext
  <2>2. CASE c \in Connected
    <3>1. PICK i \in DOMAIN clients : file[heap[clients[i]].fd] = c
      BY <2>2, EntryViews
    <3>2. Views[c] = heap[clients[i]].view
      BY <3>1, EntryViews
    <3>3. Views'[c] = heap'[clients[i]].view
      BY <3>1, EntryViewsNext
    <3> QED BY <3>1, <3>2, <3>3
  <2> QED BY <2>1, <2>2
<1> QED BY <1>1, <1>2, EntryViews, EntryViewsNext

\* The steps of module Store, over what the server keeps.
Same == UNCHANGED <<st, last, Connected, Views>>
Connects(c) ==
    /\ c \notin Connected /\ Connected' = Connected \cup {c}
    /\ UNCHANGED <<st, last, Views>>
Disconnects(c) ==
    /\ c \in Connected /\ Connected' = Connected \ {c}
    /\ Views' = [Views EXCEPT ![c] = new_client]
    /\ UNCHANGED <<st, last>>
ShutsDown ==
    /\ Connected # {} /\ Connected' = {} /\ Views' = [c \in Conns |-> new_client]
    /\ UNCHANGED <<st, last>>
Executes(c, cmd) ==
    /\ c \in Connected
    /\ \E o \in execute_cmd(st, Views[c], cmd, Cardinality(Connected)) :
           /\ st' = o.st
           /\ Views' = [Views EXCEPT ![c] = o.client]
           /\ last' = [conn |-> c, cmd |-> cmd, reply |-> o.reply]
    /\ UNCHANGED Connected

\* Closing a connection is Store's Disconnect.
LEMMA CloseDisconnects ==
    ASSUME Sessions, Sessions', ~regfail, ~regfail', UNCHANGED <<st, last>>,
           NEW fd \in Fds, ClosesAt(fd), Closes(fd)
    PROVE  file[fd] \in Conns /\ Disconnects(file[fd])
<1> DEFINE c == file[fd]
<1>1. Base /\ ConnsOK /\ ClientsOK /\ ~Stopped /\ c \in Conns
  BY DEF Sessions, ClosesAt
<1>2. ~Stopped'
  BY <1>1, LeftEntries
<1>3. /\ vec_find(fd) \in DOMAIN clients /\ heap[clients[vec_find(fd)]].fd = fd
      /\ clients' = RemoveAt(clients, vec_find(fd))
  BY DEF ClosesAt, ClientAt, Closes
<1>4. c \in Connected
  BY <1>1, <1>3, EntryViews
<1>5. \A i \in DOMAIN clients' : \E j \in DOMAIN clients :
          /\ clients'[i] = clients[j] /\ heap'[clients[j]] = heap[clients[j]]
          /\ heap[clients[j]].fd # fd
          /\ file'[heap[clients[j]].fd] = file[heap[clients[j]].fd]
  BY <1>1, LeftEntries
<1>6. \A j \in DOMAIN clients : j # vec_find(fd) => \E i \in DOMAIN clients' : clients'[i] = clients[j]
  BY <1>1, <1>3, RemovedAt, SockFun
<1>7. \A j \in DOMAIN clients : heap[clients[j]].fd # fd =>
          /\ file[heap[clients[j]].fd] # c
          /\ heap'[clients[j]] = heap[clients[j]]
          /\ file'[heap[clients[j]].fd] = file[heap[clients[j]].fd]
  <2> TAKE j \in DOMAIN clients
  <2> HAVE heap[clients[j]].fd # fd
  <2>1. /\ clients[j] # ClientAt(fd) /\ file[heap[clients[j]].fd] # c /\ clients[j] \in Cells
        /\ heap[clients[j]].fd \in Fds
    BY <1>1, Apart
  <2> QED BY <1>1, <2>1, SockFun DEF Closes
<1>8. Connected' = Connected \ {c}
  <2>1. ASSUME NEW d \in Connected' PROVE d \in Connected \ {c}
    <3>1. PICK i \in DOMAIN clients' : file'[heap'[clients'[i]].fd] = d
      BY EntryViewsNext
    <3>2. PICK j \in DOMAIN clients : heap[clients[j]].fd # fd /\ file[heap[clients[j]].fd] = d
      BY <1>5, <3>1
    <3> QED BY <1>1, <1>7, <3>2, EntryViews
  <2>2. ASSUME NEW d \in Connected, d # c PROVE d \in Connected'
    <3>1. PICK j \in DOMAIN clients : file[heap[clients[j]].fd] = d
      BY EntryViews
    <3>2. heap[clients[j]].fd # fd /\ j # vec_find(fd)
      BY <1>3, <2>2, <3>1
    <3>3. PICK i \in DOMAIN clients' : clients'[i] = clients[j]
      BY <1>6, <3>2
    <3> QED BY <1>2, <1>7, <3>1, <3>2, <3>3, EntryViewsNext
  <2> QED BY <2>1, <2>2
<1>9. ASSUME NEW d \in Conns PROVE Views'[d] = [Views EXCEPT ![c] = new_client][d]
  <2>1. CASE d = c
    BY <1>1, <1>8, <2>1, EntryViews, EntryViewsNext
  <2>2. CASE d # c /\ d \notin Connected
    BY <1>8, <2>2, EntryViews, EntryViewsNext
  <2>3. CASE d # c /\ d \in Connected
    <3>1. PICK j \in DOMAIN clients : file[heap[clients[j]].fd] = d
      BY <2>3, EntryViews
    <3>2. heap[clients[j]].fd # fd /\ j # vec_find(fd)
      BY <1>3, <2>3, <3>1
    <3>3. PICK i \in DOMAIN clients' : clients'[i] = clients[j]
      BY <1>6, <3>2
    <3>4. Views'[d] = heap'[clients[j]].view
      BY <1>2, <1>7, <3>1, <3>2, <3>3, EntryViewsNext
    <3>5. Views[d] = heap[clients[j]].view
      BY <1>1, <3>1, EntryViews
    <3> QED BY <1>7, <2>3, <3>2, <3>4, <3>5, EntryViews
  <2> QED BY <2>1, <2>2, <2>3
<1>10. Views' = [Views EXCEPT ![c] = new_client]
  BY <1>9, EntryViews, EntryViewsNext
<1> QED BY <1>1, <1>4, <1>8, <1>10 DEF Disconnects

\* Accepting one is Store's Connect.
LEMMA AcceptConnects ==
    ASSUME Sessions, Sessions', ~regfail, ~regfail', UNCHANGED <<st, last>>,
           NEW c \in Conns, NEW fd \in Fds, NEW x \in Cells, AcceptsAt(c, fd), Adds(c, fd, x)
    PROVE  Connects(c)
<1>1. Base /\ ConnsOK /\ ClientsOK /\ ~Stopped
  BY DEF Sessions, AcceptsAt
<1>2. /\ \A i \in DOMAIN clients' : i \in DOMAIN clients \/ i = Len(clients) + 1
      /\ \A i \in DOMAIN clients :
             /\ clients'[i] = clients[i] /\ heap'[clients[i]] = heap[clients[i]]
             /\ file'[heap[clients[i]].fd] = file[heap[clients[i]].fd]
             /\ file[heap[clients[i]].fd] # c
      /\ clients'[Len(clients) + 1] = x /\ heap'[x] = NewClient(fd) /\ heap'[x].fd = fd
      /\ file'[fd] = c /\ ~Stopped'
  BY <1>1, MoreEntries
<1>3. Len(clients) + 1 \in DOMAIN clients' /\ \A i \in DOMAIN clients : i \in DOMAIN clients'
  <2>1. clients' = Append(clients, x) /\ clients \in Seq(Cells)
    BY <1>1, SockFun DEF Adds
  <2> QED BY <2>1
<1>4. heap'[x].view = new_client
  BY <1>2 DEF NewClient
<1>5. c \notin Connected
  BY <1>2, EntryViews
<1>6. c \in Connected' /\ Views'[c] = new_client
  BY <1>2, <1>3, <1>4, EntryViewsNext
<1>7. ASSUME NEW d \in Connected PROVE d \in Connected' /\ Views'[d] = Views[d]
  <2>1. PICK i \in DOMAIN clients : file[heap[clients[i]].fd] = d
    BY EntryViews
  <2>2. d \in Connected' /\ Views'[d] = heap'[clients'[i]].view
    BY <1>2, <1>3, <2>1, EntryViewsNext
  <2>3. Views[d] = heap[clients[i]].view
    BY <1>1, <2>1, EntryViews
  <2> QED BY <1>2, <2>2, <2>3
<1>8. ASSUME NEW d \in Connected', d # c PROVE d \in Connected
  <2>1. PICK i \in DOMAIN clients' : file'[heap'[clients'[i]].fd] = d
    BY EntryViewsNext
  <2>2. i \in DOMAIN clients
    BY <1>2, <1>8, <2>1
  <2> QED BY <1>1, <1>2, <2>1, <2>2, EntryViews
<1>9. Connected' = Connected \cup {c}
  BY <1>6, <1>7, <1>8
<1>10. \A d \in Conns : Views'[d] = Views[d]
  BY <1>5, <1>6, <1>7, <1>9, EntryViews, EntryViewsNext
<1>11. Views' = Views
  BY <1>10, EntryViews, EntryViewsNext
<1> QED BY <1>5, <1>9, <1>11 DEF Connects

\* A read that executes is Store's Execute.
LEMMA ReadStores ==
    ASSUME Sessions, Sessions', ~regfail, ~regfail', NEW e \in fired, ReadsClient(e), ReadExecutes(e)
    PROVE  \E c \in Conns, cmd \in CmdsTried \cup {Illegal} : Executes(c, cmd)
<1> DEFINE c == file[e.fd]
           g == heap[ClientAt(e.fd)]
           cmd == parse(Received(e.fd))
<1>1. Base /\ ConnsOK /\ ClientsOK
  BY DEF Sessions
<1>2. PICK h, s : Touches(e.fd, h, s) /\ Answers(e.fd, h, s)
  BY <1>1, ReadExecutesTouches
<1>3. /\ e.fd \in Fds /\ c \in Conns /\ vec_find(e.fd) \in DOMAIN clients /\ ~Stopped
      /\ heap[clients[vec_find(e.fd)]].fd = e.fd /\ ClientAt(e.fd) \in Cells
  BY <1>1, ReadContext DEF ClientAt
<1>4. PICK o \in execute_cmd(st, g.view, cmd, Len(clients)) :
          /\ st' = o.st
          /\ last' = [conn |-> c, cmd |-> cmd, reply |-> o.reply]
          /\ h.view = o.client
  BY <1>2 DEF Answers
<1>5. cmd \in CmdsTried \cup {Illegal}
  <2>1. PICK S : sock \in [Conns -> SockOf(S)] /\ heap \in [Cells -> ClientOf(S)]
    BY <1>1 DEF Base, ShapeOK, Shaped
  <2>2. sock[c].in \in Seq(Token) /\ g.read_buf \in Seq(Token)
    BY <1>3, <2>1 DEF SockOf, ClientOf
  <2>3. Received(e.fd) \in Seq(Token)
    BY <2>2 DEF Received
  <2> QED BY <2>3, ParsedCmd
<1>6. c \in Connected /\ Views[c] = g.view
  BY <1>3, EntryViews DEF ClientAt
<1>7. Len(clients) = Cardinality(Connected)
  BY <1>3, ClientsCount
<1>8. /\ clients' = clients /\ file' = file /\ ~Stopped'
      /\ \A i \in DOMAIN clients :
             /\ heap'[clients[i]].fd = heap[clients[i]].fd
             /\ heap[clients[i]].fd = e.fd => heap'[clients[i]] = h
             /\ heap[clients[i]].fd # e.fd => /\ heap'[clients[i]] = heap[clients[i]]
                                              /\ file[heap[clients[i]].fd] # c
  BY <1>1, <1>2, <1>3, TouchEntries
<1>9. Connected' = Connected
  <2>1. ASSUME NEW d \in Connected PROVE d \in Connected'
    <3>1. PICK i \in DOMAIN clients : file[heap[clients[i]].fd] = d
      BY EntryViews
    <3>2. i \in DOMAIN clients' /\ file'[heap'[clients'[i]].fd] = d
      BY <1>8, <3>1
    <3> QED BY <1>8, <3>2, EntryViewsNext
  <2>2. ASSUME NEW d \in Connected' PROVE d \in Connected
    <3>1. PICK i \in DOMAIN clients' : file'[heap'[clients'[i]].fd] = d
      BY EntryViewsNext
    <3>2. i \in DOMAIN clients /\ file[heap[clients[i]].fd] = d
      BY <1>8, <3>1
    <3> QED BY <1>3, <3>2, EntryViews
  <2> QED BY <2>1, <2>2
<1>10. Views'[c] = h.view
  BY <1>3, <1>8, EntryViewsNext
<1>11. ASSUME NEW d \in Conns, d # c PROVE Views'[d] = Views[d]
  <2>1. CASE d \notin Connected
    BY <1>9, <2>1, EntryViews, EntryViewsNext
  <2>2. CASE d \in Connected
    <3>1. PICK i \in DOMAIN clients : file[heap[clients[i]].fd] = d
      BY <2>2, EntryViews
    <3>2. Views[d] = heap[clients[i]].view
      BY <1>3, <3>1, EntryViews
    <3>3. Views'[d] = heap'[clients[i]].view
      BY <1>8, <3>1, EntryViewsNext
    <3> QED BY <1>8, <1>11, <3>1, <3>2, <3>3
  <2> QED BY <2>1, <2>2
<1>12. Views' = [Views EXCEPT ![c] = o.client]
  <2> HIDE DEF c
  <2> QED BY <1>3, <1>4, <1>10, <1>11, EntryViews, EntryViewsNext
<1> HIDE DEF c, g, cmd
<1>13. Executes(c, cmd)
  BY <1>4, <1>6, <1>7, <1>9, <1>12 DEF Executes
<1> QED BY <1>3, <1>5, <1>13

\* server_free closes every connection at once, or fails and closes none.
LEMMA StopShutsDown ==
    ASSUME Sessions, Sessions', ~regfail, ~regfail', ~Stopped, ServerStops
    PROVE  Same \/ ShutsDown
<1>1. UNCHANGED <<st, last, clients, heap>>
  BY DEF ServerStops
<1>2. CASE ~Stopped'
  <2>1. file' = file
    <3>1. sfd \in Fds
      BY SockFun DEF Sessions
    <3> QED BY <1>2, <3>1 DEF ServerStops, server_free, ServerFreeBreaks, Stopped
  <2>2. Connected' = Connected /\ Views' = Views
    BY <1>1, <1>2, <2>1, SameViews
  <2> QED BY <1>1, <2>2 DEF Same
<1>3. CASE Stopped'
  <2>1. Connected' = {}
    BY <1>3 DEF Sessions, StopOK
  <2>2. Views' = [c \in Conns |-> new_client]
    BY <2>1, EntryViewsNext
  <2>3. CASE Connected = {}
    <3>1. Views = [c \in Conns |-> new_client]
      BY <2>3, EntryViews
    <3> QED BY <1>1, <2>1, <2>2, <2>3, <3>1 DEF Same
  <2>4. CASE Connected # {}
    BY <1>1, <2>1, <2>2, <2>4 DEF ShutsDown
  <2> QED BY <2>3, <2>4
<1> QED BY <1>2, <1>3

\* Every step of the server is one of module Store, or none.
LEMMA StepStores ==
    ASSUME Sessions, Sessions', ~regfail, ~regfail', [Next]_vars
    PROVE  \/ Same
           \/ ShutsDown
           \/ \E c \in Conns : Connects(c) \/ Disconnects(c)
           \/ \E c \in Conns, cmd \in CmdsTried \cup {Illegal} : Executes(c, cmd)
<1> DEFINE Goal == \/ Same
                   \/ ShutsDown
                   \/ \E c \in Conns : Connects(c) \/ Disconnects(c)
                   \/ \E c \in Conns, cmd \in CmdsTried \cup {Illegal} : Executes(c, cmd)
<1> SUFFICES Goal
  OBVIOUS
<1>1. Base /\ ConnsOK /\ ClientsOK
  BY DEF Sessions
<1>2. CASE ~alive
  <2>1. UNCHANGED vars
    BY <1>2, DeadIsDone
  <2>2. UNCHANGED <<file, clients, heap, st, last>>
    BY <2>1 DEF vars, kernelVars, heapVars, auxVars
  <2>3. Connected' = Connected
    BY <2>2 DEF Connected, vec_find, SelectInSeq
  <2>4. \A c : CellOf(c)' = CellOf(c)
    BY <2>2 DEF CellOf, vec_find, SelectInSeq
  <2>5. Views' = Views
    BY <2>2, <2>3, <2>4 DEF Views
  <2> QED BY <2>2, <2>3, <2>5 DEF Same
<1>3. CASE \E e \in fired : ReadsClient(e) /\ ReadExecutes(e)
  BY <1>3, ReadStores
<1>4. CASE alive /\ UNCHANGED <<st, last>>
  <2>1. ~Stopped
    BY <1>1, <1>4 DEF Base, FilesOK
  <2>2. ASSUME UNCHANGED <<clients, file>>,
               \A i \in DOMAIN clients :
                   LET h == heap[clients[i]]
                       g == heap'[clients[i]]
                   IN  g.fd = h.fd /\ g.view = h.view
        PROVE  Same
    <3>1. ~Stopped'
      BY <2>1, <2>2 DEF Stopped
    <3>2. Connected' = Connected /\ Views' = Views
      BY <2>1, <2>2, <3>1, SameViews
    <3> QED BY <1>4, <3>2 DEF Same
  <2>3. ASSUME NEW fd, NEW h, NEW s, Touches(fd, h, s), fd \in Fds,
               h.view = heap[ClientAt(fd)].view
        PROVE  Same
    BY <1>1, <2>2, <2>3, TouchEntries
  <2>4. CASE Still \/ PeerStep
    <3>1. UNCHANGED <<clients, file, heap>>
      BY <1>1, <2>4, PeerPushes DEF Still
    <3> QED BY <2>2, <3>1
  <2>5. CASE \E e \in fired : ReadsClient(e) /\ ReadError(e)
    <3>1. PICK e \in fired : ReadsClient(e) /\ ReadError(e)
      BY <2>5
    <3>2. e.fd \in Fds
      BY <1>1, <3>1, ReadContext
    <3>3. PICK h, s : Touches(e.fd, h, s) /\ h.view = heap[ClientAt(e.fd)].view
      BY <1>1, <3>1, ReadErrorTouches
    <3> QED BY <2>3, <3>2, <3>3
  <2>6. CASE WriteDone
    <3>1. CASE WriteKills
      BY <2>2, <3>1 DEF WriteKills, kernelVars, heapVars
    <3>2. CASE \E h, s : /\ Touches(cur.fd, h, s)
                         /\ Sends(heap[ClientAt(cur.fd)], h, sock[file[cur.fd]], s)
      <4>1. cur.fd \in Fds
        BY <1>1, <2>6, WriteContext DEF WriteDone
      <4>2. PICK h, s : Touches(cur.fd, h, s) /\ h.view = heap[ClientAt(cur.fd)].view
        BY <3>2 DEF Sends
      <4> QED BY <2>3, <4>1, <4>2
    <3> QED BY <1>1, <2>6, <3>1, <3>2, WriteTouches
  <2>7. CASE \E fd \in Fds : ClosesAt(fd) /\ Closes(fd)
    BY <1>4, <2>7, CloseDisconnects
  <2>8. CASE \E c \in Conns, fd \in Fds, x \in Cells : AcceptsAt(c, fd) /\ Adds(c, fd, x)
    BY <1>4, <2>8, AcceptConnects
  <2>9. CASE \E c \in Conns, fd \in Fds : AcceptsAt(c, fd) /\ Loses(c, fd)
    <3>1. /\ clients' = clients /\ ~Stopped'
          /\ \A i \in DOMAIN clients :
                 /\ heap'[clients[i]] = heap[clients[i]]
                 /\ file'[heap[clients[i]].fd] = file[heap[clients[i]].fd]
      BY <1>1, <2>9, SameEntries
    <3>2. Connected' = Connected /\ Views' = Views
      BY <2>1, <3>1, SameViews
    <3> QED BY <1>4, <3>2 DEF Same
  <2>10. CASE ServerStops
    BY <2>1, <2>10, StopShutsDown
  <2>11. CASE \E e \in fired : ReadsClient(e) /\ ReadExecutes(e)
    BY <1>3, <2>11
  <2> HIDE DEF Goal
  <2> QED BY <1>1, <2>4, <2>5, <2>6, <2>7, <2>8, <2>9, <2>10, <2>11, Cases, Zenon
<1> HIDE DEF Goal
<1> QED BY <1>1, <1>2, <1>3, <1>4, OnlyCommandsStore, Zenon

\* The server starts as Store does.
LEMMA InitStores == Init => Abstract!StoreInit
<1> SUFFICES ASSUME Init PROVE Abstract!StoreInit
  OBVIOUS
<1>1. clients = <<>> /\ st = server_new /\ last = Abstract!NoCommand
  BY StoreExecutes DEF Init, Abstract!NoCommand
<1>2. \A fd : vec_find(fd) = 0
  <2>1. clients \in Seq(Cells) /\ DOMAIN clients = {}
    BY <1>1
  <2> QED BY <2>1, VecFind
<1>3. Connected = {}
  BY <1>2 DEF Connected
<1> QED BY <1>1, <1>3, StoreExecutes DEF Abstract!StoreInit

\* The steps named above are module Store's.
LEMMA StoreSteps ==
    /\ \A c : Connects(c) <=> Abstract!Connect(c)
    /\ \A c : Disconnects(c) <=> Abstract!Disconnect(c)
    /\ ShutsDown <=> Abstract!Shutdown
    /\ \A c, cmd : Executes(c, cmd) <=> Abstract!Execute(c, cmd)
    /\ Same <=> UNCHANGED Abstract!storeVars
<1>1. ShutsDown <=> Abstract!Shutdown
  BY StoreExecutes DEF ShutsDown, Abstract!Shutdown, Views
<1>2. \A c : Connects(c) <=> Abstract!Connect(c)
  BY DEF Connects, Abstract!Connect, Views
<1>3. \A c : Disconnects(c) <=> Abstract!Disconnect(c)
  BY StoreExecutes DEF Disconnects, Abstract!Disconnect, Views
<1>4. \A c, cmd : Executes(c, cmd) <=> Abstract!Execute(c, cmd)
  BY StoreExecutes, StoreCardinality DEF Executes, Abstract!Execute, Views
<1>5. Same <=> UNCHANGED Abstract!storeVars
  BY DEF Same, Abstract!storeVars, Views
<1> QED BY <1>1, <1>2, <1>3, <1>4, <1>5

\* While no accept has failed to register its connection, the server implements
\* module Store: a command takes effect at once, on the databases all share, with
\* the login and the database of the connection it came from (execute_cmd, called
\* from read_from_client), and a connection's state is gone when its client is
\* freed, whoever gets the descriptor next.  A failed registration leaves a freed
\* struct in the vector, and vec_find may return it for a later connection.
THEOREM ServerImplementsStore == Spec /\ []~regfail => ImplementsStore
<1>1. Sessions /\ Sessions' /\ ~regfail /\ ~regfail' /\ [Next]_vars
          => [Abstract!StoreNext]_(Abstract!storeVars)
  <2> SUFFICES ASSUME Sessions, Sessions', ~regfail, ~regfail', [Next]_vars
               PROVE  Abstract!StoreNext \/ UNCHANGED Abstract!storeVars
    OBVIOUS
  <2> QED BY StepStores, StoreSteps DEF Abstract!StoreNext
<1> QED BY <1>1, InitStores, SessionsInvariant, PTL DEF Spec, ImplementsStore, Abstract!StoreSpec
=============================================================================
