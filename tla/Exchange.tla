------------------------------ MODULE Exchange ------------------------------
(***************************************************************************)
(* Messages of the wire protocol and lines typed at lexi-cli's prompt, on  *)
(* their way to their reader.                                              *)
(*                                                                         *)
(* The reader parses once per read, starting with an empty buffer          *)
(* (read_from_client clears its buffer after each parse, hilexi_parse its  *)
(* own), so a message that is cut is parsed in pieces; every way of        *)
(* cutting it is explored.  Cuts at the level of the event loop are in     *)
(* module Connections, cuts between two calls of a client in Client.       *)
(***************************************************************************)
EXTENDS LineParser

CONSTANTS
    Requests,   \* the requests the client library is asked to make
    Replies,    \* the replies the server builds
    Lines       \* the lines typed: a text and the request it stands for

VARIABLES
    msg,        \* the message on the wire
    from, to,   \* the piece of it that the last read returned
    parsed      \* what the parser made of that piece
exchangeVars == <<msg, from, to, parsed>>

Messages ==
    [kind : {"request"}, req : Requests] \cup [kind : {"reply"}, reply : Replies]
    \cup {[kind |-> "line", req |-> l.req, text |-> l.text] : l \in Lines}

\* A message that its sender never finishes building.
Stuck(m) ==
    \/ m.kind = "request" /\ \E i \in DOMAIN m.req.args : Endless(m.req.args[i])
    \/ m.kind = "reply" /\ m.reply.kind = "object" /\ Endless(m.reply.obj)

Bytes(m) ==
    CASE m.kind = "request" -> RequestBytes(m.req)
      [] m.kind = "reply"   -> ReplyBytes(m.reply)
      [] m.kind = "line"    -> m.text

Nothing == [type |-> "Nothing"]

ExchangeInit ==
    /\ msg \in Messages
    /\ from = 0 /\ to = 0
    /\ parsed = Nothing

\* read_from_client reads up to byte n and parses.
ReadRequest(n) ==
    /\ msg.kind = "request" /\ ~Stuck(msg) /\ parsed # Hang
    /\ from' = to /\ to' = n
    /\ parsed' = parse(SubSeq(Bytes(msg), to + 1, n))
    /\ UNCHANGED msg

\* hilexi_read and hilexi_parse do, on the other side.
ReadReply(n) ==
    /\ msg.kind = "reply" /\ ~Stuck(msg) /\ parsed # Hang
    /\ from' = to /\ to' = n
    /\ parsed' = parse_from_server(SubSeq(Bytes(msg), to + 1, n))
    /\ UNCHANGED msg

\* main of lexi-cli reads a line and makes the call it stands for, and the request
\* arrives whole.
ReadLine ==
    /\ msg.kind = "line" /\ parsed = Nothing
    /\ from' = 0 /\ to' = Len(msg.text)
    /\ parsed' = Executed(parse_line(msg.text))
    /\ UNCHANGED msg

BuildHangs ==
    /\ Stuck(msg) /\ parsed = Nothing
    /\ parsed' = Hang
    /\ UNCHANGED <<msg, from, to>>

NextMessage ==
    /\ ~Stuck(msg) /\ parsed # Hang
    /\ to = Len(Bytes(msg))
    /\ msg' \in Messages
    /\ from' = 0 /\ to' = 0
    /\ parsed' = Nothing

ExchangeNext ==
    \/ \E n \in to + 1 .. Len(Bytes(msg)) :
           ReadRequest(n) \/ ReadReply(n)
    \/ ReadLine
    \/ BuildHangs
    \/ NextMessage

ExchangeSpec == ExchangeInit /\ [][ExchangeNext]_exchangeVars

-----------------------------------------------------------------------------
(* Properties *)

Whole == parsed # Nothing /\ from = 0 /\ to = Len(Bytes(msg))

\* A request that arrives in one read is the command the client library was
\* asked for, arguments included: what hilexi.c and builder.c write, parse reads.
WholeRequestUnderstood ==
    msg.kind = "request" /\ Whole => parsed = msg.req

\* The piece read ends inside a double.
EndsInDouble ==
    LET piece == SubSeq(Bytes(msg), from + 1, to)
    IN  \E i \in DOMAIN piece : piece[i] = "," /\ \A j \in i .. Len(piece) : piece[j] # CR

\* A request of which only the beginning has arrived is refused: no prefix of it
\* is taken for a command, and the parser comes back from all of them but those
\* that end inside a double (parser.c:577).
HeadIsRefused ==
    msg.kind = "request" /\ from = 0 /\ to \in 1 .. Len(Bytes(msg)) - 1
        => parsed = IF EndsInDouble THEN Hang ELSE IllegalCmd

\* What the client library is to make of a reply: NONE and errors are strings.
Meaning(reply) ==
    CASE reply.kind = "error" -> Str(reply.str)
      [] reply.kind = "info"  -> Ht({<<Str(reply.pairs[i][1]), reply.pairs[i][2]>> :
                                      i \in DOMAIN reply.pairs})
      [] reply.kind = "object" -> IF reply.obj = Null THEN Str(<<"N","O","N","E">>)
                                  ELSE reply.obj

\* A reply that arrives in one read is the value the server answered with: what
\* builder_add_object writes, parse_from_server reads.
WholeReplyUnderstood ==
    msg.kind = "reply" /\ Whole => parsed = Meaning(msg.reply)

\* A line that spells a request, in upper or lower case, with more blanks than it
\* needs, its strings as words or between quotes with escapes, makes the server
\* execute that request: parse_line, the library's call and the server's parse.
LineUnderstood ==
    msg.kind = "line" /\ parsed # Nothing => parsed = msg.req
=============================================================================
