----------------------------- MODULE Connections -----------------------------
(***************************************************************************)
(* The running server: the event loop's dispatch (ev_process_events), the  *)
(* three handlers of server.c (server_accept, read_from_client,            *)
(* write_to_client), the vector of clients and the client structs on the   *)
(* heap, against peers that connect, send, stop reading, close and reset   *)
(* whenever they like.                                                     *)
(*                                                                         *)
(* One read handler is one step: its loop takes everything that arrived    *)
(* until read() says EAGAIN, EOF or error, and a peer's send between two   *)
(* reads has the same effect as one before the first.  The write handler   *)
(* takes one step per write(), since what the peer reads in between        *)
(* matters.  Peers also act between the poll and the handlers it started.  *)
(*                                                                         *)
(* The wire carries tokens.  A command is one token, or a head and a tail  *)
(* when it is cut in two; a reply is reply_len tokens, so that a write can *)
(* end inside one.  Tokens carry the number of the segment they came in,   *)
(* replies also their connection; only the properties look at that.        *)
(*                                                                         *)
(* The handlers are registered with the address of server_new's own struct *)
(* (server.c:363), whose lifetime is over when they run.  Its storage is   *)
(* taken to last as long as the loop: at the -O2 of CMakeLists.txt         *)
(* server_new, static and called once, is inlined into server_run, which   *)
(* has not returned.  server_free gets the copy that server_run made.      *)
(***************************************************************************)
EXTENDS EventLoop, Commands, SequencesExt, FiniteSetsExt

CONSTANTS
    Inherited,      \* sets of descriptors that may be open from the start
    Conns,          \* connections; each is made once
    Cells,          \* addresses calloc may return for a client struct
    CmdsTried,      \* the commands peers send
    MaxSegs,        \* bound: segments a peer sends
    MaxTaken,       \* bound: reply tokens a peer takes before it stops reading
    MaxOom,         \* bound: failed allocations
    snd_cap,        \* tokens a socket's send buffer holds
    reply_len,      \* tokens of a reply
    READ_BUF_CAP,   \* CLIENT_READ_BUF_CAP, in tokens
    Pipelining,     \* peers send before the last answer arrived
    Fragments,      \* commands may arrive in two reads
    Shutdowns,      \* peers half-close or close
    Resets,         \* peers reset
    Interrupts      \* SIGINT may arrive

ASSUME ConnectionsAssumption ==
    /\ CmdsTried \subseteq Cmd
    /\ MaxSegs \in Nat /\ MaxTaken \in Nat /\ MaxOom \in Nat
    /\ snd_cap \in Nat \ {0} /\ reply_len \in Nat \ {0}
    /\ READ_BUF_CAP \in Nat \ {0}
    /\ {Pipelining, Fragments, Shutdowns, Resets, Interrupts} \subseteq BOOLEAN
    /\ Fragments => Pipelining
    /\ Conns # {} /\ Cells # {}
    /\ Conns \cap {"free", "listener", "other"} = {}
    /\ Inherited # {} /\ \A F \in Inherited : F \subseteq Fds \ {sfd}

Free     == "free"          \* a descriptor that is not open
Listener == "listener"      \* the descriptor of the listening socket
Garbage  == -1              \* a freed client's fd field, once overwritten
Idle     == [fd |-> -1, mask |-> {}, bytes_sent |-> 0]

VARIABLES
    file,           \* kernel: file[fd], what a descriptor refers to
    backlog,        \* kernel: connections waiting for accept, in order
    sock,           \* kernel: sock[c], the server's end of connection c
    fired,          \* what is left of ev->fired in this round
    cur,            \* the write handler that is running, or Idle
    clients,        \* s->clients: the cells it points to, in order
    clients_cap,    \* s->clients->cap
    moved,          \* s->clients is no longer where server_run's copy of s points
    heap,           \* heap[x]: the client struct last stored in cell x
    live,           \* the cells that are allocated
    st,             \* the databases and cmd_executed (module Commands)
    alive,          \* FALSE once the process has ended
    ooms,           \* allocations that have failed
    regfail,        \* an accept's ev_add_event has failed
    last            \* the last command answered (for module Store)

kernelVars == <<file, backlog, sock>>
heapVars   == <<clients, clients_cap, moved, heap, live>>
loopVars   == <<fired, cur>>
auxVars    == <<alive, ooms, regfail, last>>
vars == <<evVars, kernelVars, heapVars, loopVars, st, auxVars>>

-----------------------------------------------------------------------------
(* Data *)

Part   == {"all", "head", "tail"}
Token  == [n : 1 .. MaxSegs, cmd : CmdsTried, part : Part]
Illegal == [type |-> "Illegal"]

\* in: received and unread; cut: the command whose tail is still to come;
\* fin: the peer has ended its stream; rst: it has reset the connection;
\* err: the reset is still to be reported by a read or write; sent: what write()
\* accepted, of which the peer has taken the first `taken'; short: a write()
\* accepted less than it was given.  What the connection was told so far, for the
\* properties: login, AUTH was answered with OK; database, the last SELECT that
\* was; replied, the length of all replies made for it.
NewSocket ==
    [state |-> "new", in |-> <<>>, nsegs |-> 0, cut |-> Illegal,
     fin |-> FALSE, rst |-> FALSE, err |-> FALSE,
     sent |-> <<>>, taken |-> 0, short |-> FALSE,
     login |-> FALSE, database |-> 0, replied |-> 0]

\* What nobody can read any more is forgotten: the socket of a connection the
\* server has closed, and a freed struct that no entry of the vector points to.
ClosedSocket == [NewSocket EXCEPT !.state = "closed"]

\* Mutant: the struct is not cleared.
NewClientUncleared(fd) ==
    [fd |-> fd, view |-> [new_client EXCEPT !.authenticated = TRUE],
     read_buf |-> <<>>, read_cap |-> READ_BUF_CAP, builder |-> <<>>, write_size |-> 0]

\* create_client
NewClient(fd) ==
    [fd |-> fd, view |-> new_client, read_buf |-> <<>>, read_cap |-> READ_BUF_CAP,
     builder |-> <<>>, write_size |-> 0]

Forgotten == NewClient(Garbage)

Space(c) == snd_cap - (Len(sock[c].sent) - sock[c].taken)

\* Mutant: the comparison matches any entry.
vec_find_any(fd) == IF clients = <<>> THEN 0 ELSE 1

\* client_compare through vec_find: the first entry whose fd field is fd, freed
\* or not; 0 when there is none.
vec_find(fd) == SelectInSeq(clients, LAMBDA x : heap[x].fd = fd)

Connected == {c \in Conns : \E fd \in Fds : file[fd] = c /\ vec_find(fd) # 0}
CellOf(c) == clients[vec_find(CHOOSE fd \in Fds : file[fd] = c)]

Init ==
    /\ EvInit
    /\ \E others \in Inherited :
           file = [fd \in Fds |-> IF fd = sfd THEN Listener
                                  ELSE IF fd < sfd \/ fd \in others THEN "other" ELSE Free]
    /\ backlog = <<>>
    /\ sock = [c \in Conns |-> NewSocket]
    /\ fired = {} /\ cur = Idle
    /\ clients = <<>> /\ clients_cap = VEC_INITIAL_CAP /\ moved = FALSE
    /\ heap = [x \in Cells |-> Forgotten] /\ live = {}
    /\ st = server_new
    /\ alive = TRUE /\ ooms = 0 /\ regfail = FALSE
    /\ last = [conn |-> "none", cmd |-> [type |-> "none"], reply |-> NoReply]

-----------------------------------------------------------------------------
(* Peers (external: whatever is at the other end of a connection) *)

\* A killed server's connections are gone.
PeerOpen(c) == alive /\ sock[c].state \in {"backlog", "accepted"}

PeerConnect(c) ==
    /\ alive
    /\ sock[c].state = "new"
    /\ sock' = [sock EXCEPT ![c].state = "backlog"]
    /\ backlog' = Append(backlog, c)
    /\ UNCHANGED <<evVars, file, heapVars, loopVars, st, auxVars>>

\* Nothing of c is under way: what it sent was read, what it got was taken.
Settled(c) ==
    LET s == sock[c]
    IN  /\ s.in = <<>> /\ s.taken = Len(s.sent)
        /\ s.nsegs = 0 \/ \E i \in DOMAIN s.sent : s.sent[i].n = s.nsegs

MaySend(c) ==
    /\ PeerOpen(c) /\ ~sock[c].fin /\ ~sock[c].rst
    /\ sock[c].cut = Illegal
    /\ sock[c].nsegs < MaxSegs
    /\ Pipelining \/ Settled(c)

PeerSend(c, cmd, part) ==
    /\ MaySend(c)
    /\ part \in IF Fragments THEN {"all", "head"} ELSE {"all"}
    /\ sock' = [sock EXCEPT
           ![c].nsegs = @ + 1,
           ![c].cut = IF part = "head" THEN cmd ELSE Illegal,
           ![c].in = Append(@, [n |-> sock[c].nsegs + 1, cmd |-> cmd, part |-> part])]
    /\ UNCHANGED <<evVars, file, backlog, heapVars, loopVars, st, auxVars>>

PeerSendTail(c) ==
    /\ PeerOpen(c) /\ ~sock[c].fin /\ ~sock[c].rst
    /\ sock[c].cut # Illegal
    /\ sock[c].nsegs < MaxSegs
    /\ sock' = [sock EXCEPT
           ![c].cut = Illegal,
           ![c].nsegs = @ + 1,
           ![c].in = Append(@, [n |-> sock[c].nsegs + 1, cmd |-> sock[c].cut, part |-> "tail"])]
    /\ UNCHANGED <<evVars, file, backlog, heapVars, loopVars, st, auxVars>>

PeerRecv(c) ==
    /\ PeerOpen(c)
    /\ sock[c].taken < Len(sock[c].sent) /\ sock[c].taken < MaxTaken
    /\ sock' = [sock EXCEPT ![c].taken = Len(sock[c].sent)]
    /\ UNCHANGED <<evVars, file, backlog, heapVars, loopVars, st, auxVars>>

PeerShutdown(c) ==
    /\ Shutdowns /\ PeerOpen(c) /\ ~sock[c].fin /\ ~sock[c].rst
    /\ sock' = [sock EXCEPT ![c].fin = TRUE]
    /\ UNCHANGED <<evVars, file, backlog, heapVars, loopVars, st, auxVars>>

\* The kernel drops what the server had still to send.
PeerReset(c) ==
    /\ Resets /\ PeerOpen(c) /\ ~sock[c].rst
    /\ sock' = [sock EXCEPT ![c].rst = TRUE, ![c].err = TRUE,
                            ![c].taken = Len(sock[c].sent)]
    /\ UNCHANGED <<evVars, file, backlog, heapVars, loopVars, st, auxVars>>

-----------------------------------------------------------------------------
(* ev_api_poll *)

Readable(c) == sock[c].in # <<>> \/ sock[c].fin \/ sock[c].rst
Writable(c) == Space(c) > 0 \/ sock[c].rst

\* Mutant: the listening socket is watched edge-triggered.
EventsOnEdge(fd) ==
    IF interest[fd] = {} THEN {}
    ELSE IF file[fd] = Listener
    THEN {b \in interest[fd] : b = EV_READ /\ Len(backlog) = 1}
    ELSE IF sock[file[fd]].rst THEN Bits
    ELSE {b \in interest[fd] : \/ b = EV_READ /\ Readable(file[fd])
                               \/ b = EV_WRITE /\ Writable(file[fd])}

\* The events epoll_wait reports for a watched descriptor, as the bits that
\* ev_api_poll makes of them: EPOLLERR and EPOLLHUP become both bits, asked for
\* or not.
Events(fd) ==
    IF interest[fd] = {} THEN {}
    ELSE IF file[fd] = Listener
    THEN {b \in interest[fd] : b = EV_READ /\ backlog # <<>>}
    ELSE IF sock[file[fd]].rst THEN Bits
    ELSE {b \in interest[fd] : \/ b = EV_READ /\ Readable(file[fd])
                               \/ b = EV_WRITE /\ Writable(file[fd])}

\* epoll_wait waits without a timeout; with max_fd -1 it is not called and
\* ev_await ends.  The order in which the fired descriptors are handled is the
\* kernel's, hence a set.
ev_api_poll ==
    /\ alive /\ cur = Idle /\ fired = {} /\ max_fd # -1
    /\ \E fd \in Fds : Events(fd) # {}
    /\ fired' = {[fd |-> fd, mask |-> Events(fd), file |-> file[fd]] :
                     fd \in {f \in Fds : Events(f) # {}}}
    /\ UNCHANGED <<evVars, kernelVars, heapVars, cur, st, auxVars>>

\* Mutant: the loop looks again at an event whose handler deleted everything.
ThenWriteAgain(e) ==
    /\ fired' = IF mask'[e.fd] = {} THEN fired ELSE fired \ {e}
    /\ cur' = IF EV_WRITE \in mask'[e.fd] \cap e.mask
              THEN [fd |-> e.fd, mask |-> e.mask, bytes_sent |-> 0] ELSE Idle

\* How ev_process_events goes on with e when its read handler has returned:
\* with the write handler, if the event is registered now and was fired then.
ThenWrite(e) ==
    /\ fired' = fired \ {e}
    /\ cur' = IF EV_WRITE \in mask'[e.fd] \cap e.mask
              THEN [fd |-> e.fd, mask |-> e.mask, bytes_sent |-> 0] ELSE Idle

Dispatches(e) == alive /\ cur = Idle /\ e \in fired

CallsReadFn(e) == Dispatches(e) /\ EV_READ \in mask[e.fd] \cap e.mask

\* No read handler to call for e.
SkipsReadFn(e) ==
    /\ Dispatches(e) /\ EV_READ \notin mask[e.fd] \cap e.mask
    /\ UNCHANGED <<evVars, kernelVars, heapVars, st, auxVars>>
    /\ ThenWrite(e)

-----------------------------------------------------------------------------
(* server_accept *)

CanFail == ooms < MaxOom

FreeFds == {fd \in Fds : file[fd] = Free}

\* accept() takes the oldest waiting connection and the lowest free descriptor.
Accepts(e, c, fd) ==
    /\ CallsReadFn(e) /\ e.fd = sfd
    /\ backlog # <<>> /\ c = Head(backlog) /\ backlog' = Tail(backlog)
    /\ FreeFds # {} /\ fd = Min(FreeFds)

\* accept() fails for want of a descriptor.
AcceptFails(e) ==
    /\ CallsReadFn(e) /\ e.fd = sfd /\ FreeFds = {}
    /\ UNCHANGED <<evVars, kernelVars, heapVars, st, auxVars>>

\* vec_push, doubling a full vector, which realloc may move.  The handlers'
\* server struct gets the new pointer, server_run's copy of it does not.
vec_push(x) ==
    /\ clients' = Append(clients, x)
    /\ IF Len(clients) = clients_cap
       THEN clients_cap' = 2 * clients_cap /\ moved' \in {moved, TRUE}
       ELSE UNCHANGED <<clients_cap, moved>>

\* The connection is watched from here on.
AcceptOk(e, c, fd, x) ==
    /\ Accepts(e, c, fd)
    /\ x \in Cells \ live
    /\ live' = live \cup {x}
    /\ heap' = [heap EXCEPT ![x] = NewClient(fd)]
    /\ vec_push(x)
    /\ ev_add_event(fd, {EV_READ})
    /\ file' = [file EXCEPT ![fd] = c]
    /\ sock' = [sock EXCEPT ![c].state = "accepted"]
    /\ UNCHANGED <<st, auxVars>>

\* ev_add_event fails: client_free closes the descriptor and frees the struct,
\* which the vector still points to.  free() may or may not overwrite it.
AcceptRegisterFails(e, c, fd, x) ==
    /\ Accepts(e, c, fd)
    /\ x \in Cells \ live
    /\ ~ev_add_event_ok(fd)
    /\ \E left \in {fd, Garbage} : heap' = [heap EXCEPT ![x] = NewClient(left)]
    /\ vec_push(x)
    /\ sock' = [sock EXCEPT ![c] = ClosedSocket]
    /\ regfail' = TRUE
    /\ UNCHANGED <<evVars, file, live, st, alive, ooms, last>>

\* make_socket_nonblocking or create_client fails: the descriptor stays open and
\* nobody watches it.
AcceptCreateFails(e, c, fd) ==
    /\ Accepts(e, c, fd)
    /\ CanFail /\ ooms' = ooms + 1
    /\ file' = [file EXCEPT ![fd] = c]
    /\ sock' = [sock EXCEPT ![c].state = "accepted"]
    /\ UNCHANGED <<evVars, heapVars, st, alive, regfail, last>>

\* vec_push fails to enlarge the vector: the client struct is lost as well.
AcceptPushFails(e, c, fd, x) ==
    /\ Accepts(e, c, fd)
    /\ x \in Cells \ live
    /\ Len(clients) = clients_cap
    /\ CanFail /\ ooms' = ooms + 1
    /\ live' = live \cup {x}
    /\ heap' = [heap EXCEPT ![x] = NewClient(fd)]
    /\ file' = [file EXCEPT ![fd] = c]
    /\ sock' = [sock EXCEPT ![c].state = "accepted"]
    /\ UNCHANGED <<evVars, clients, clients_cap, moved, st, alive, regfail, last>>

server_accept(e) ==
    /\ \/ AcceptFails(e)
       \/ \E c \in Conns, fd \in Fds :
              \/ AcceptCreateFails(e, c, fd)
              \/ \E x \in Cells : \/ AcceptOk(e, c, fd, x)
                                  \/ AcceptRegisterFails(e, c, fd, x)
                                  \/ AcceptPushFails(e, c, fd, x)
    /\ ThenWrite(e)

-----------------------------------------------------------------------------
(* read_from_client *)

\* parse: the command at the start of the buffer, Illegal when it is not all
\* there; whatever follows it is ignored.  A command is cut inside its word, so
\* that neither part is a command; module Protocol takes every other cut.
parse(buf) ==
    IF buf = <<>> THEN Illegal
    ELSE LET t == Head(buf)
         IN  IF t.part = "all" THEN t.cmd
             ELSE IF /\ t.part = "head" /\ Len(buf) > 1
                     /\ buf[2].part = "tail" /\ buf[2].n = t.n + 1
             THEN t.cmd
             ELSE Illegal

\* The bytes a reply adds to the builder.
ReplyTokens(c, n, reply) ==
    IF reply = NoReply THEN <<>>
    ELSE [i \in 1 .. reply_len |-> [conn |-> c, n |-> n, reply |-> reply, i |-> i]]

\* The client struct found for the descriptor, and what its read buffer holds
\* when the loop has read all there is.
ClientAt(fd) == clients[vec_find(fd)]
Received(fd) == heap[ClientAt(fd)].read_buf \o sock[file[fd]].in

\* The buffer is enlarged before a read() that finds it full.
MustGrow(fd) == Len(Received(fd)) >= heap[ClientAt(fd)].read_cap

\* Mutant: enlarged only when more has arrived than fits.
GrownCapLate(fd) ==
    LET cap == heap[ClientAt(fd)].read_cap
        len == Len(Received(fd))
    IN  Min({n \in {cap * 2^k : k \in 0 .. len} : n >= len})

GrownCap(fd) ==
    LET cap == heap[ClientAt(fd)].read_cap
        len == Len(Received(fd))
    IN  Min({n \in {cap * 2^k : k \in 0 .. len} : n > len})

ReadsClient(e) == CallsReadFn(e) /\ e.fd # sfd

\* Mutant: the vector keeps the entry.
CloseClientKeepsEntry(fd, m) ==
    LET x == ClientAt(fd)
    IN  /\ UNCHANGED clients
        /\ delete_and_close(fd, m)
        /\ file' = [file EXCEPT ![fd] = Free]
        /\ sock' = [sock EXCEPT ![file[fd]] = ClosedSocket]
        /\ \E left \in {fd, Garbage} : heap' = [heap EXCEPT ![x].fd = left]
        /\ live' = live \ {x}
        /\ alive' = (x \in live)

\* vec_remove_at, ev_delete_event with the fired mask, client_free.  free() may
\* or may not overwrite the struct, and aborts the process when it is free
\* already.
CloseClient(fd, m) ==
    LET x == ClientAt(fd)
    IN  /\ clients' = RemoveAt(clients, vec_find(fd))
        /\ delete_and_close(fd, m)
        /\ file' = [file EXCEPT ![fd] = Free]
        /\ sock' = [sock EXCEPT ![file[fd]] = ClosedSocket]
        /\ IF x \in Range(clients')
           THEN \E left \in {fd, Garbage} : heap' = [heap EXCEPT ![x].fd = left]
           ELSE heap' = [heap EXCEPT ![x] = Forgotten]
        /\ live' = live \ {x}
        /\ alive' = (x \in live)

\* No client has this descriptor.
ReadUnknown(fd) ==
    /\ delete_and_close(fd, {EV_READ})
    /\ file' = [file EXCEPT ![fd] = Free]
    /\ sock' = [sock EXCEPT ![file[fd]] = ClosedSocket]
    /\ UNCHANGED <<backlog, heapVars, st, auxVars>>

ReadGrowFails(e) ==
    /\ MustGrow(e.fd) /\ CanFail
    /\ CloseClient(e.fd, e.mask)
    /\ ooms' = ooms + 1
    /\ UNCHANGED <<backlog, clients_cap, moved, st, regfail, last>>

\* read() returns 0: the connection is closed, with whatever was read.
ReadEof(e) ==
    /\ sock[file[e.fd]].fin \/ sock[file[e.fd]].rst
    /\ ~sock[file[e.fd]].err
    /\ CloseClient(e.fd, e.mask)
    /\ UNCHANGED <<backlog, clients_cap, moved, st, ooms, regfail, last>>

\* read() fails: the handler returns and keeps what it has read.
ReadError(e) ==
    /\ sock[file[e.fd]].err
    /\ heap' = [heap EXCEPT ![ClientAt(e.fd)].read_buf = Received(e.fd),
                            ![ClientAt(e.fd)].read_cap = GrownCap(e.fd)]
    /\ sock' = [sock EXCEPT ![file[e.fd]].in = <<>>, ![file[e.fd]].err = FALSE]
    /\ UNCHANGED <<evVars, file, backlog, clients, clients_cap, moved, live, st, auxVars>>

\* The database of a connection after a command that got this reply.
Selected(database_num, cmd, reply) ==
    IF cmd.type = "Select" /\ reply.kind = "OK" THEN cmd.value ELSE database_num

\* read() would block: the command is executed, the reply appended to what the
\* builder still holds, the write event registered and the buffer cleared.
ReadExecutes(e) ==
    LET c   == file[e.fd]
        x   == ClientAt(e.fd)
        buf == Received(e.fd)
        cmd == parse(buf)
        n   == IF buf = <<>> THEN 0 ELSE Head(buf).n
    IN  /\ ~sock[c].fin /\ ~sock[c].rst
        /\ \E o \in execute_cmd(st, heap[x].view, cmd, Len(clients)) :
               LET out == heap[x].builder \o ReplyTokens(c, n, o.reply)
               IN  /\ st' = o.st
                   /\ last' = [conn |-> c, cmd |-> cmd, reply |-> o.reply]
                   /\ heap' = [heap EXCEPT
                          ![x].view = o.client,
                          ![x].builder = out,
                          ![x].write_size = Len(out),
                          ![x].read_cap = GrownCap(e.fd),
                          ![x].read_buf = IF ev_add_event_ok(e.fd) THEN <<>> ELSE buf]
                   /\ sock' = [sock EXCEPT
                          ![c].in = <<>>,
                          ![c].login = @ \/ (cmd.type = "Auth" /\ o.reply.kind = "OK"),
                          ![c].database = Selected(@, cmd, o.reply),
                          ![c].replied = @ + Len(ReplyTokens(c, n, o.reply))]
        /\ IF ev_add_event_ok(e.fd)
           THEN ev_add_event(e.fd, {EV_WRITE}) ELSE UNCHANGED evVars
        /\ UNCHANGED <<file, backlog, clients, clients_cap, moved, live, alive, ooms, regfail>>

read_from_client(e) ==
    /\ ReadsClient(e)
    /\ IF vec_find(e.fd) = 0 THEN ReadUnknown(e.fd)
       ELSE \/ ReadGrowFails(e)
            \/ ReadEof(e)
            \/ ReadError(e)
            \/ ReadExecutes(e)
    /\ ThenWrite(e)

-----------------------------------------------------------------------------
(* write_to_client: one step per write() *)

WritesClient == alive /\ cur # Idle

\* Mutants: the builder is not reset; the read event is deleted as well; the
\* kernel is not told.
FinishesWriteKeepsReply(x) ==
    /\ ev_delete_event(cur.fd, {EV_WRITE})
    /\ cur' = Idle
    /\ UNCHANGED heap

FinishesWriteForGood(x) ==
    /\ ev_delete_event(cur.fd, Bits)
    /\ heap' = [heap EXCEPT ![x].builder = <<>>]
    /\ cur' = Idle

\* The loop is done: ev_delete_event for the write event, builder_reset.
FinishesWrite(x) ==
    /\ ev_delete_event(cur.fd, {EV_WRITE})
    /\ heap' = [heap EXCEPT ![x].builder = <<>>]
    /\ cur' = Idle

WriteUnknown(fd) ==
    /\ delete_and_close(fd, cur.mask)
    /\ file' = [file EXCEPT ![fd] = Free]
    /\ sock' = [sock EXCEPT ![file[fd]] = ClosedSocket]
    /\ cur' = Idle
    /\ UNCHANGED <<backlog, heapVars, fired, st, auxVars>>

\* Nothing to send, as after an "OK" from the peer.
WriteNothing ==
    LET x == ClientAt(cur.fd)
    IN  /\ cur.bytes_sent >= heap[x].write_size
        /\ FinishesWrite(x)
        /\ UNCHANGED <<kernelVars, clients, clients_cap, moved, live, fired, st, auxVars>>

\* write() takes as much as fits, always from the start of write_buf.
WriteSome ==
    LET c    == file[cur.fd]
        x    == ClientAt(cur.fd)
        size == heap[x].write_size
        k    == IF Space(c) < size THEN Space(c) ELSE size
    IN  /\ cur.bytes_sent < size
        /\ ~sock[c].rst /\ Space(c) > 0
        /\ sock' = [sock EXCEPT
               ![c].sent = @ \o SubSeq(heap[x].builder, 1, k),
               ![c].short = @ \/ k < size]
        /\ IF cur.bytes_sent + k >= size
           THEN FinishesWrite(x)
           ELSE cur' = [cur EXCEPT !.bytes_sent = @ + k] /\ UNCHANGED <<evVars, heap>>
        /\ UNCHANGED <<file, backlog, clients, clients_cap, moved, live, fired, st, auxVars>>

\* EAGAIN, or the error of a reset: the handler returns, the write event stays.
WriteReturns ==
    LET c == file[cur.fd]
    IN  /\ cur.bytes_sent < heap[ClientAt(cur.fd)].write_size
        /\ sock[c].err \/ (~sock[c].rst /\ Space(c) = 0)
        /\ sock' = [sock EXCEPT ![c].err = FALSE]
        /\ cur' = Idle
        /\ UNCHANGED <<evVars, file, backlog, heapVars, fired, st, auxVars>>

\* EPIPE, and with it SIGPIPE, which nothing handles.
WriteKills ==
    LET c == file[cur.fd]
    IN  /\ cur.bytes_sent < heap[ClientAt(cur.fd)].write_size
        /\ sock[c].rst /\ ~sock[c].err
        /\ alive' = FALSE
        /\ UNCHANGED <<evVars, kernelVars, heapVars, loopVars, st, ooms, regfail, last>>

write_to_client ==
    /\ WritesClient
    /\ IF vec_find(cur.fd) = 0 THEN WriteUnknown(cur.fd)
       ELSE WriteNothing \/ WriteSome \/ WriteReturns \/ WriteKills

-----------------------------------------------------------------------------
(* SIGINT and server_free.  The handler only sets a flag that nothing reads; *)
(* what ends ev_await is an epoll_wait that was waiting and is interrupted.  *)

Interrupted ==
    /\ Interrupts /\ alive /\ cur = Idle /\ fired = {} /\ max_fd # -1
    /\ \A fd \in Fds : Events(fd) = {}

\* vec_free(s->clients, client_in_vec_free) finds the vector and allocated structs.
Freeable == ~moved /\ IsInjective(clients) /\ Range(clients) \subseteq live

\* Mutant: the loop of vec_free ends one short.
server_free_short ==
    LET some   == Range(SubSeq(clients, 1, Len(clients) - 1))
        closed == {sfd} \cup {heap[x].fd : x \in some}
    IN  /\ Freeable
        /\ live' = live \ some
        /\ file' = [fd \in Fds |-> IF fd \in closed THEN Free ELSE file[fd]]
        /\ sock' = [c \in Conns |-> IF \E fd \in closed : file[fd] = c
                                    THEN ClosedSocket ELSE sock[c]]

\* Every client is freed and its descriptor closed, then sfd is.
server_free ==
    LET closed == {sfd} \cup {heap[x].fd : x \in Range(clients)}
    IN  /\ Freeable
        /\ live' = live \ Range(clients)
        /\ file' = [fd \in Fds |-> IF fd \in closed THEN Free ELSE file[fd]]
        /\ sock' = [c \in Conns |-> IF \E fd \in closed : file[fd] = c
                                    THEN ClosedSocket ELSE sock[c]]

\* A freed struct in the vector, or the vector itself, is freed again.
ServerFreeBreaks == ~Freeable /\ UNCHANGED <<live, file, sock>>

ServerStops ==
    /\ Interrupted
    /\ server_free \/ ServerFreeBreaks
    /\ alive' = FALSE
    /\ UNCHANGED <<evVars, backlog, clients, clients_cap, moved, heap, loopVars, st,
                   ooms, regfail, last>>

-----------------------------------------------------------------------------

ServerStep ==
    \/ ev_api_poll
    \/ \E e \in fired : SkipsReadFn(e) \/ server_accept(e) \/ read_from_client(e)
    \/ write_to_client

PeerStep ==
    \E c \in Conns :
        \/ PeerConnect(c)
        \/ \E cmd \in CmdsTried, part \in {"all", "head"} : PeerSend(c, cmd, part)
        \/ PeerSendTail(c)
        \/ PeerRecv(c)
        \/ PeerShutdown(c)
        \/ PeerReset(c)

Next == ServerStep \/ PeerStep \/ ServerStops

Spec == Init /\ [][Next]_vars

\* The kernel schedules the server's only thread, and peers read what arrives.
FairSpec == Spec /\ WF_vars(ServerStep) /\ \A c \in Conns : WF_vars(PeerRecv(c))

-----------------------------------------------------------------------------
(* Properties *)

\* Every variable has its shape; in particular every descriptor the loop knows
\* is in range.
TypeOK ==
    /\ EvTypeOK
    /\ file \in [Fds -> Conns \cup {Free, Listener, "other"}]
    /\ backlog \in Seq(Conns)
    /\ DOMAIN sock = Conns
    /\ \A c \in Conns :
           /\ sock[c].state \in {"new", "backlog", "accepted", "closed"}
           /\ sock[c].in \in Seq(Token)
           /\ sock[c].taken \in 0 .. Len(sock[c].sent)
           /\ Space(c) \in 0 .. snd_cap
    /\ \A e \in fired : e.fd \in EvFds /\ e.mask \in SUBSET Bits
    /\ cur = Idle \/ cur.fd \in EvFds
    /\ clients \in Seq(Cells) /\ Len(clients) <= clients_cap
    /\ live \subseteq Cells
    /\ \A x \in Cells :
           /\ heap[x].fd \in Fds \cup {Garbage}
           /\ heap[x].view \in ClientView
           /\ heap[x].write_size \in Nat
           /\ Len(heap[x].read_buf) < heap[x].read_cap
    /\ {alive, regfail} \subseteq BOOLEAN
    /\ ooms \in 0 .. MaxOom

\* The entries of s->clients are allocated structs ("vector of clients connected
\* to the server", server.h).
ClientsAreLive == \A i \in DOMAIN clients : clients[i] \in live

\* While the process runs, and until an accept fails to register its connection
\* (server.c:493), s->clients holds each client once, allocated, and exactly the descriptors that are
\* watched are the clients': no handler runs without its client, and no client
\* waits for events that cannot come.
ClientsAreConnections ==
    alive /\ ~regfail =>
        /\ ClientsAreLive
        /\ \A i, j \in DOMAIN clients :
               heap[clients[i]].fd = heap[clients[j]].fd => i = j
        /\ {heap[clients[i]].fd : i \in DOMAIN clients}
               = {fd \in Fds \ {sfd} : interest[fd] # {}}
        /\ \A i \in DOMAIN clients : file[heap[clients[i]].fd] \in Conns

\* Until an accept fails to register its connection (server.c:493), a connection
\* only ever sees its own state: what its client struct holds (the login, the
\* selected database, the bytes read and the replies waiting) came in on this
\* connection, and was not left behind by an earlier one with the same descriptor
\* or the same struct (vec_find by fd, server.c:513 and 585).
StateIsOwn ==
    ~regfail =>
        \A c \in Connected :
            LET h == heap[CellOf(c)]
            IN  /\ h.view.authenticated <=> sock[c].login
                /\ h.view.database_num = sock[c].database
                /\ \A i \in DOMAIN h.builder : h.builder[i].conn = c
                /\ Len(h.read_buf) > 0 => sock[c].rst

\* An event that fired for a connection is handled for that connection: no
\* handler of the same round closes its descriptor and hands it to another.
EventsReachTheirConnection ==
    \A e \in fired : file[e.fd] = e.file

\* Replies arrive on the connection that asked, in the order of what it sent,
\* each once and complete up to the last one, and none is lost: what has not been
\* handed over waits in the builder.  Whether writes blocked in between, and other
\* commands were answered meanwhile, does not matter, as long as no write() was cut
\* short: the next one starts with the first byte again (server.c:597).
RepliesInOrder ==
    \A c \in Conns :
        LET s == sock[c].sent
        IN  ~regfail /\ ~sock[c].short =>
                /\ c \in Connected => Len(s) + Len(heap[CellOf(c)].builder) = sock[c].replied
                /\ \A i \in DOMAIN s : s[i].conn = c
                /\ \A i \in 1 .. Len(s) - 1 :
                       IF s[i].i < reply_len
                       THEN s[i+1].n = s[i].n /\ s[i+1].i = s[i].i + 1
                       ELSE s[i+1].n > s[i].n /\ s[i+1].i = 1

\* server_free has run to its end: it closes sfd last.
Stopped == file[sfd] = Free

\* The process survives everything its peers do but a reset, and leaves through the
\* end of server_free; what breaks server_free (server.c:432) is an entry that a
\* failed registration left behind, or a vector that has grown.
OnlyResetsKill ==
    ~alive => Stopped \/ regfail \/ moved \/ \E c \in Conns : sock[c].rst

\* What a step that runs server_free to its end finds and leaves.
CleanStop ==
    Stopped' /\ ~Stopped /\ ~regfail =>
        /\ \A c \in Connected :
               sock[c].in = <<>> /\ (heap[CellOf(c)].builder # <<>> => Space(c) = 0)
        /\ ooms = 0 => live' = {} /\ \A fd \in Fds : file'[fd] \in {Free, "other"}

\* A stop loses nothing that had arrived: every command was read and every reply
\* handed over, but to peers that do not read theirs.  It closes every connection
\* and frees every client, but those a failed allocation lost.  (An entry that a
\* failed registration left behind can point to the struct of a lost connection.)
StopsClean == [][CleanStop]_vars

Abstract == INSTANCE Store WITH
    client      <- [c \in Conns |-> IF c \in Connected THEN heap[CellOf(c)].view
                                    ELSE new_client],
    connected   <- Connected,
    CmdsTried   <- CmdsTried \cup {Illegal}

\* The server implements module Store: every command takes effect at once, with
\* the login and the database of the connection it came from.
ImplementsStore == Abstract!StoreSpec

\* The reply to what c sent in segment n is under way.
Answered(c, n) == \E i \in DOMAIN sock[c].sent : sock[c].sent[i].n = n

\* A connection that waits is accepted (or turned away).
EventuallyAccepted ==
    \A c \in Conns : (sock[c].state = "backlog") ~> (sock[c].state # "backlog")

\* A command of a peer that neither closes nor resets is answered, unless its
\* connection was lost in server_accept.
EventuallyAnswered ==
    \A c \in Conns : \A n \in 1 .. MaxSegs :
        (sock[c].nsegs = n /\ c \in Connected) ~> Answered(c, n)
=============================================================================
