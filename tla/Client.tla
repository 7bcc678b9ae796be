------------------------------- MODULE Client -------------------------------
(***************************************************************************)
(* The client library (hilexi.c) as lexi-cli.c drives it, against a server *)
(* it reaches through two byte streams.                                    *)
(*                                                                         *)
(* A request is req_len tokens, a reply reply_len tokens, so that a write, *)
(* a segment or a read can end inside one.  The network delivers a stream  *)
(* in segments of any size.  The server is what modules Connections and    *)
(* Protocol show of it: each time it reads, it takes everything that has   *)
(* arrived, parses once from the front and gives one answer; what is not a *)
(* whole request gets an answer of its own.  It may also die.              *)
(*                                                                         *)
(* What the user types is reduced to what main and execute_cmd do with it; *)
(* module Protocol has the lines themselves.                               *)
(***************************************************************************)
EXTENDS Integers, SequencesExt, FiniteSetsExt

CONSTANTS
    MaxCalls,               \* bound: requests the program makes, AUTH included
    MaxOom,                 \* bound: failed allocations
    req_len, reply_len,     \* tokens of a request, of a reply
    snd_cap,                \* tokens the client's socket takes before EAGAIN
    READ_BUF_INITIAL_CAP,   \* in tokens
    ServerMayDie

ASSUME ClientAssumption ==
    /\ MaxCalls \in Nat /\ MaxOom \in Nat
    /\ req_len \in Nat \ {0} /\ reply_len \in Nat \ {0} /\ snd_cap \in Nat \ {0}
    /\ READ_BUF_INITIAL_CAP \in Nat \ {0}
    /\ ServerMayDie \in BOOLEAN

VARIABLES
    phase,          \* where the program is
    fd,             \* l.sfd: "none", "open" or "closed"
    builder,        \* l.builder: what hilexi_write has still to write
    read_buf,       \* l.read_buf up to l.read_pos
    read_cap,       \* l.read_cap
    received,       \* hilexi_read: received_data
    result,         \* what the last call returned
    calls,          \* requests made so far
    tcp,            \* kernel: state of the client's socket
    toServer,       \* kernel: written, not yet arrived
    srvbox,         \* kernel: arrived at the server, unread
    toClient,       \* kernel: answered, not yet arrived
    inbox,          \* kernel: arrived at the client, unread
    srv,            \* the server: is it there, has it accepted AUTH
    ooms,
    clean           \* nothing was under way when the call began, and neither a
                    \* segment nor the call has been cut short since

libVars == <<fd, builder, read_buf, read_cap, received>>
netVars == <<tcp, toServer, srvbox, toClient, inbox>>
vars == <<phase, libVars, result, calls, netVars, srv, ooms, clean>>

-----------------------------------------------------------------------------
(* Data *)

Calling  == {"write", "read"}
Stopped  == {"exited", "killed", "hung"}
Phases   == {"start", "connect", "login", "prompt"} \cup Calling \cup Stopped

Request(n)   == [i \in 1 .. req_len |-> [call |-> n, i |-> i]]
Reply(n, ok) == [i \in 1 .. reply_len |-> [call |-> n, ok |-> ok, i |-> i]]

Nobody == 0                     \* the answer to what no call asked

\* What a failed allocation makes of a builder that was still small (module Vstr): a
\* large string without a buffer, which refuses every push, or a struct of zeros.
NoBuffer == <<[call |-> Nobody, i |-> 0]>>
Zeroed   == <<[call |-> Nobody, i |-> 1]>>

Answer(n, ok) == [type |-> "Answer", call |-> n, ok |-> ok]
Null    == [type |-> "Null"]    \* an object of type Null, in an Ok result
Other   == [type |-> "Other"]   \* an object no answer was meant to be
Hang    == [type |-> "Hang"]    \* parse_from_server does not return
Err     == [type |-> "Err"]
Nothing == [type |-> "Nothing"]

Quiet == /\ builder = <<>> /\ read_buf = <<>>
         /\ toServer = <<>> /\ srvbox = <<>> /\ toClient = <<>> /\ inbox = <<>>

Init ==
    /\ phase = "start" /\ fd = "none"
    /\ builder = <<>> /\ read_buf = <<>> /\ read_cap = READ_BUF_INITIAL_CAP
    /\ received = FALSE /\ result = Nothing /\ calls = 0
    /\ tcp = "new"
    /\ toServer = <<>> /\ srvbox = <<>> /\ toClient = <<>> /\ inbox = <<>>
    /\ srv = [alive |-> TRUE, auth |-> FALSE]
    /\ ooms = 0 /\ clean = TRUE

CanFail == ooms < MaxOom /\ ooms' = ooms + 1

-----------------------------------------------------------------------------
(* hilexi_new, hilexi_connect, hilexi_close *)

NewOk ==
    /\ phase = "start"
    /\ fd' = "open" /\ phase' = "connect"
    /\ UNCHANGED <<builder, read_buf, read_cap, received, result, calls, netVars, srv, ooms, clean>>

\* No socket, or no read buffer, after which the socket is closed.
NewFails ==
    /\ phase = "start" /\ CanFail
    /\ fd' \in {"none", "closed"} /\ phase' = "exited"
    /\ UNCHANGED <<builder, read_buf, read_cap, received, result, calls, netVars, srv, clean>>

hilexi_new == NewOk \/ NewFails

hilexi_close ==
    /\ fd' = "closed" /\ tcp' = "closed"
    /\ builder' = <<>> /\ read_buf' = <<>>
    /\ toServer' = <<>> /\ srvbox' = <<>> /\ toClient' = <<>> /\ inbox' = <<>>
    /\ UNCHANGED <<read_cap, received>>

\* The program leaves through hilexi_close.
Exit == phase' = "exited" /\ hilexi_close

\* A call begins: its request is added to the builder.
Begins(request) ==
    /\ calls < MaxCalls /\ builder # NoBuffer
    /\ calls' = calls + 1
    /\ builder' = builder \o request
    /\ result' = Nothing

\* hilexi_connect's first connect() on the non-blocking socket: the connection is
\* there (0), under way (EINPROGRESS, and the loop goes on) or refused.  main goes
\* on with hilexi_authenticate or leaves.
FirstConnect ==
    /\ phase = "connect" /\ tcp = "new"
    /\ \/ /\ tcp' = "up" /\ phase' = "write" /\ Begins(Request(1)) /\ clean' = Quiet
          /\ UNCHANGED <<fd, read_buf, read_cap, received, toServer, srvbox, toClient, inbox>>
       \/ /\ tcp' = "connecting"
          /\ UNCHANGED <<phase, libVars, result, calls, toServer, srvbox, toClient, inbox, clean>>
       \/ Exit /\ UNCHANGED <<result, calls, clean>>
    /\ UNCHANGED <<srv, ooms>>

\* The next connect() tells how that went: 0 when the connection is there,
\* ECONNREFUSED when it is not, and EALREADY, which ends the loop as well, when
\* that is not known yet.
NextConnect ==
    /\ phase = "connect" /\ tcp \in {"connecting", "up", "refused"}
    /\ \/ /\ tcp = "up" /\ phase' = "write" /\ Begins(Request(1)) /\ clean' = Quiet
          /\ UNCHANGED <<fd, read_buf, read_cap, received, netVars>>
       \/ tcp # "up" /\ Exit /\ UNCHANGED <<result, calls, clean>>
    /\ UNCHANGED <<srv, ooms>>

\* hilexi_authenticate fails to add its request, and main leaves.  Its array header,
\* whose result it ignores, always fits into the fresh builder.
AuthAddFails ==
    /\ phase = "connect" /\ tcp \in {"new", "up"} /\ CanFail
    /\ calls < MaxCalls /\ calls' = calls + 1
    /\ result' = Err
    /\ Exit
    /\ UNCHANGED <<srv, clean>>

\* Mutant: any string is taken for OK.
LoginDoneAnyString ==
    /\ phase = "login"
    /\ IF result.type = "Answer"
       THEN phase' = "prompt" /\ UNCHANGED <<libVars, netVars>>
       ELSE Exit
    /\ UNCHANGED <<result, calls, srv, ooms, clean>>

\* main after hilexi_authenticate, which returns 0 only for the answer OK.
LoginDone ==
    /\ phase = "login"
    /\ IF result.type = "Answer" /\ result.ok
       THEN phase' = "prompt" /\ UNCHANGED <<libVars, netVars>>
       ELSE Exit
    /\ UNCHANGED <<result, calls, srv, ooms, clean>>

-----------------------------------------------------------------------------
(* main's loop and execute_cmd *)

\* A line that makes no request: empty, HELP, or not a command.
LocalLine ==
    /\ phase = "prompt"
    /\ result' \in {Nothing, Err}
    /\ UNCHANGED <<phase, libVars, calls, netVars, srv, ooms, clean>>

ExitLine ==
    /\ phase = "prompt"
    /\ Exit
    /\ UNCHANGED <<result, calls, srv, ooms, clean>>

\* A line that execute_cmd turns into a call.
CallLine ==
    /\ phase = "prompt"
    /\ Begins(Request(calls + 1)) /\ phase' = "write"
    /\ clean' = Quiet
    /\ UNCHANGED <<fd, read_buf, read_cap, received, netVars, srv, ooms>>

\* A builder_add_ call fails: a large builder keeps what was added before, a small
\* one is lost.  Only hilexi_write resets it, so without a buffer every call fails.
CallAddFails ==
    /\ phase = "prompt"
    /\ calls < MaxCalls /\ calls' = calls + 1
    /\ \/ builder = NoBuffer /\ UNCHANGED <<builder, ooms>>
       \/ /\ builder # NoBuffer /\ CanFail
          /\ \/ \E k \in 0 .. req_len - 1 :
                    builder' = builder \o SubSeq(Request(calls + 1), 1, k)
             \/ builder' \in {NoBuffer, Zeroed}
    /\ result' = Err /\ clean' = FALSE
    /\ UNCHANGED <<phase, fd, read_buf, read_cap, received, netVars, srv>>

Return(r) ==
    /\ result' = r
    /\ phase' = IF r = Hang THEN "hung" ELSE IF calls = 1 THEN "login" ELSE "prompt"

-----------------------------------------------------------------------------
(* hilexi_write *)

SndSpace == snd_cap - Len(toServer) - Len(srvbox)

\* What is written to a dead server is lost, and the answer to it is a reset.
WriteSome ==
    /\ phase = "write" /\ tcp = "up" /\ SndSpace > 0
    /\ LET k == Min({SndSpace, Len(builder)})
       IN  /\ builder' = SubSeq(builder, k + 1, Len(builder))
           /\ IF srv.alive
              THEN toServer' = toServer \o SubSeq(builder, 1, k) /\ UNCHANGED tcp
              ELSE tcp' \in {"up", "rst"} /\ UNCHANGED toServer
    /\ phase' = IF builder' = <<>> THEN "read" ELSE "write"
    /\ received' = FALSE
    /\ UNCHANGED <<fd, read_buf, read_cap, result, calls, srvbox, toClient, inbox, srv, ooms, clean>>

\* EAGAIN ends the call like any other error; builder_reset drops what is left.
WriteFails ==
    /\ phase = "write" /\ (SndSpace <= 0 \/ tcp = "rst")
    /\ builder' = <<>>
    /\ Return(Err) /\ clean' = FALSE
    /\ UNCHANGED <<fd, read_buf, read_cap, received, calls, netVars, srv, ooms>>

\* Nobody ignores SIGPIPE.
WriteKills ==
    /\ phase = "write" /\ tcp = "rst"
    /\ phase' = "killed"
    /\ UNCHANGED <<libVars, result, calls, netVars, srv, ooms, clean>>

-----------------------------------------------------------------------------
(* hilexi_read and hilexi_parse *)

\* Mutant: the buffer is enlarged one byte too late.
FullLate == Len(read_buf) > read_cap

Full == Len(read_buf) = read_cap

GrowOk ==
    /\ phase = "read" /\ Full
    /\ read_cap' = 2 * read_cap
    /\ UNCHANGED <<phase, fd, builder, read_buf, received, result, calls, netVars, srv, ooms, clean>>

\* The bytes read so far stay in the buffer.
GrowFails ==
    /\ phase = "read" /\ Full /\ CanFail
    /\ Return(Err) /\ clean' = FALSE
    /\ UNCHANGED <<libVars, calls, netVars, srv>>

realloc_read_buf == GrowOk \/ GrowFails

Reads == phase = "read" /\ ~Full
\* Mutant: the whole capacity is asked for behind what is there already.
AskedWhole == read_cap

Asked == read_cap - Len(read_buf)       \* a read() of no bytes returns 0

\* How a read() that finds nothing ends, once everything sent has arrived.
AtEof   == ~srv.alive /\ tcp # "rst" /\ toClient = <<>> /\ inbox = <<>>
AtReset == tcp = "rst" /\ toClient = <<>> /\ inbox = <<>>

ReadData ==
    /\ Reads /\ inbox # <<>> /\ Asked > 0
    /\ LET k == Min({Asked, Len(inbox)})
       IN  /\ read_buf' = read_buf \o SubSeq(inbox, 1, k)
           /\ inbox' = SubSeq(inbox, k + 1, Len(inbox))
    /\ received' = TRUE
    /\ UNCHANGED <<phase, fd, builder, read_cap, result, calls, tcp, toServer, srvbox, toClient,
                   srv, ooms, clean>>

\* parse_from_server: the reply at the start of the buffer.  Half of one is a Null,
\* or keeps parse_double going for ever; from the middle it can be anything.
parse_from_server(buf) ==
    IF buf = <<>> THEN {Null}
    ELSE IF Head(buf).i # 1 THEN {Null, Other}
    ELSE IF Len(buf) < reply_len THEN {Null, Hang}
    ELSE {Answer(Head(buf).call, Head(buf).ok)}

\* Mutant: read_pos is not set back.
hilexi_parse_keeps ==
    /\ \E r \in parse_from_server(read_buf) : Return(r)
    /\ UNCHANGED read_buf

hilexi_parse ==
    /\ \E r \in parse_from_server(read_buf) : Return(r)
    /\ read_buf' = <<>>

\* Mutant: the loop goes on whether or not data has come.
ReadAgainForever ==
    /\ FALSE
    /\ hilexi_parse /\ clean' = clean
    /\ UNCHANGED <<fd, builder, read_cap, received, calls, netVars, srv, ooms>>

\* EAGAIN after some data ends the loop, whether or not more is on its way.  Before
\* any data it is no step: the loop spins.
ReadAgain ==
    /\ Reads /\ inbox = <<>> /\ received /\ ~AtEof /\ ~AtReset
    /\ hilexi_parse
    /\ clean' = (clean /\ toClient = <<>>)
    /\ UNCHANGED <<fd, builder, read_cap, received, calls, netVars, srv, ooms>>

\* read() returns 0: what is in the buffer is parsed, and no data is an Ok Null.
ReadEof ==
    /\ Reads /\ (AtEof \/ Asked = 0)
    /\ hilexi_parse
    /\ UNCHANGED <<fd, builder, read_cap, received, calls, netVars, srv, ooms, clean>>

ReadFails ==
    /\ Reads /\ AtReset
    /\ Return(Err) /\ clean' = FALSE
    /\ UNCHANGED <<libVars, calls, netVars, srv, ooms>>

-----------------------------------------------------------------------------
(* The network (external) and the server *)

Established ==
    /\ tcp = "connecting"
    /\ tcp' \in {"up", "refused"}
    /\ UNCHANGED <<phase, libVars, result, calls, toServer, srvbox, toClient, inbox, srv, ooms, clean>>

DeliverToServer ==
    /\ \E k \in 1 .. Len(toServer) :
           /\ srvbox' = srvbox \o SubSeq(toServer, 1, k)
           /\ toServer' = SubSeq(toServer, k + 1, Len(toServer))
    /\ UNCHANGED <<phase, libVars, result, calls, tcp, toClient, inbox, srv, ooms, clean>>

DeliverToClient ==
    /\ \E k \in 1 .. Len(toClient) :
           /\ inbox' = inbox \o SubSeq(toClient, 1, k)
           /\ toClient' = SubSeq(toClient, k + 1, Len(toClient))
    /\ UNCHANGED <<phase, libVars, result, calls, tcp, toServer, srvbox, srv, ooms, clean>>

\* The request at the front of what the server reads, Nobody when there is none.
Asks(buf) ==
    IF Len(buf) >= req_len /\ SubSeq(buf, 1, req_len) = Request(Head(buf).call)
    THEN Head(buf).call ELSE Nobody

\* read_from_client and write_to_client, on a connection with nothing to send.
ServerAnswers ==
    /\ srv.alive /\ srvbox # <<>>
    /\ LET n == Asks(srvbox)
       IN  \E ok \in IF n = 1 THEN BOOLEAN ELSE {srv.auth /\ n # Nobody} :
               /\ toClient' = toClient \o Reply(n, ok)
               /\ srv' = [srv EXCEPT !.auth = @ \/ (n = 1 /\ ok)]
    /\ srvbox' = <<>>
    /\ clean' = (clean /\ toServer = <<>> /\ builder = <<>>)
    /\ UNCHANGED <<phase, libVars, result, calls, tcp, toServer, inbox, ooms>>

\* Unread data makes the kernel reset the connection instead of ending it; what was
\* on its way may then be lost.
ServerDies ==
    /\ ServerMayDie /\ srv.alive /\ tcp = "up"
    /\ srv' = [alive |-> FALSE, auth |-> FALSE]
    /\ \/ srvbox \o toServer = <<>> /\ UNCHANGED <<tcp, toClient>>
       \/ srvbox \o toServer # <<>> /\ tcp' = "rst" /\ toClient' \in Prefixes(toClient)
    /\ srvbox' = <<>> /\ toServer' = <<>>
    /\ UNCHANGED <<phase, libVars, result, calls, inbox, ooms, clean>>

-----------------------------------------------------------------------------
ClientStep ==
    \/ hilexi_new \/ FirstConnect \/ NextConnect \/ AuthAddFails \/ LoginDone
    \/ WriteSome \/ WriteFails \/ WriteKills
    \/ realloc_read_buf \/ ReadData \/ ReadAgain \/ ReadEof \/ ReadFails

Next ==
    \/ ClientStep
    \/ LocalLine \/ ExitLine \/ CallLine \/ CallAddFails
    \/ Established \/ DeliverToServer \/ DeliverToClient
    \/ ServerAnswers \/ ServerDies

Spec == Init /\ [][Next]_vars

\* The program runs until it waits for a line; segments arrive; the server, if it
\* lives, answers (module Connections: EventuallyAnswered).
FairSpec ==
    Spec /\ WF_vars(ClientStep) /\ WF_vars(DeliverToServer)
         /\ WF_vars(DeliverToClient) /\ WF_vars(ServerAnswers)

-----------------------------------------------------------------------------
(* Properties *)

ReqToken   == [call : 0 .. MaxCalls, i : 0 .. req_len]
ReplyToken == [call : 0 .. MaxCalls, ok : BOOLEAN, i : 1 .. reply_len]

TypeOK ==
    /\ phase \in Phases /\ fd \in {"none", "open", "closed"}
    /\ builder \in Seq(ReqToken) /\ toServer \in Seq(ReqToken) /\ srvbox \in Seq(ReqToken)
    /\ read_buf \in Seq(ReplyToken) /\ toClient \in Seq(ReplyToken) /\ inbox \in Seq(ReplyToken)
    /\ read_cap \in Nat /\ Len(read_buf) <= read_cap
    /\ received \in BOOLEAN /\ clean \in BOOLEAN
    /\ calls \in 0 .. MaxCalls /\ ooms \in 0 .. MaxOom
    /\ result \in {Nothing, Err, Null, Other, Hang} \cup
                      [type : {"Answer"}, call : 0 .. MaxCalls, ok : BOOLEAN]
    /\ tcp \in {"new", "connecting", "up", "refused", "rst", "closed"}
    /\ srv \in [alive : BOOLEAN, auth : BOOLEAN]

\* A call that began with nothing under way, and none of whose segments was cut,
\* returns the answer to its own request; it returns Null only when the server has
\* gone, and never hangs.  However often earlier calls failed or got the wrong
\* answer: an exchange that starts clean is right again.
AnswerIsOwn ==
    clean => /\ result.type = "Answer" => result.call = calls
             /\ result = Null => ~srv.alive
             /\ result \notin {Other, Hang}

\* Such a call leaves nothing behind, in the builder, in the read buffer or on the
\* wire, so the next one starts clean as well: only a cut or a failure can put
\* requests and answers out of step.
StaysInStep ==
    clean /\ phase = "prompt" => Quiet

\* main's prompt is only reached by a connection that the server has logged in (or
\* that has since lost its server), however connect and AUTH were cut.
LoggedInOnBothSides ==
    phase = "prompt" => srv.auth \/ ~srv.alive

\* Every call of the library returns: with data, an end of stream or an error, or
\* not at all when half a double was parsed.
CallsReturn == phase \in Calling ~> phase \notin Calling
=============================================================================
