------------------------------ MODULE Protocol ------------------------------
(***************************************************************************)
(* The wire protocol, byte by byte: what hilexi.c and builder.c write, and *)
(* what parser.c makes of any sequence of bytes.                           *)
(*                                                                         *)
(* A parser is what is left of its input; p->ch is the head of it, NUL at  *)
(* the end.  A double is the whole number of its decimal digits: point and *)
(* exponent do not matter to which digits survive.  Memory does not run    *)
(* out: the assertion of vstr_lg_new_len on it (vstr.c:231) holds.         *)
(***************************************************************************)
EXTENDS Integers, SequencesExt, FiniteSetsExt

CONSTANT VSTR_MAX_LARGE_SIZE    \* the longest string there is room for

CR  == "\r"
LF  == "\n"
NUL == "NUL"    \* what the parser sees past the end of its input
Digit == <<"0", "1", "2", "3", "4", "5", "6", "7", "8", "9">>

Null      == [type |-> "Null"]
Hang      == [type |-> "Hang"]      \* the call does not return: it loops or aborts
Str(s)    == [type |-> "String", str |-> s]
Int_(n)   == [type |-> "Int", num |-> n]
Double(d) == [type |-> "Double", dbl |-> d]
Bool(b)   == [type |-> "Bool", boolean |-> b]
Array(v)  == [type |-> "Array", vec |-> v]
Ht(h)     == [type |-> "Ht", ht |-> h]

Request(type, args) == [type |-> type, args |-> args]
IllegalCmd == Request("Illegal", <<>>)

\* The words of the commands.
lookup ==
    [Okc |-> <<"O","K">>, Set |-> <<"S","E","T">>, Get |-> <<"G","E","T">>,
     Del |-> <<"D","E","L">>, Pop |-> <<"P","O","P">>,
     Help |-> <<"H","E","L","P">>, Auth |-> <<"A","U","T","H">>,
     Ping |-> <<"P","I","N","G">>, Infoc |-> <<"I","N","F","O">>,
     Keys |-> <<"K","E","Y","S">>, Push |-> <<"P","U","S","H">>,
     ZSet |-> <<"Z","S","E","T">>, ZHas |-> <<"Z","H","A","S">>,
     ZDel |-> <<"Z","D","E","L">>, Enque |-> <<"E","N","Q","U","E">>,
     Deque |-> <<"D","E","Q","U","E">>, Select |-> <<"S","E","L","E","C","T">>]

\* The array length that parse_array_cmd asks for.
Arity ==
    [Auth |-> 3, Set |-> 3, Get |-> 2, Del |-> 2, Push |-> 2, Enque |-> 2,
     ZSet |-> 2, ZHas |-> 2, ZDel |-> 2, Select |-> 2]

-----------------------------------------------------------------------------
(* builder.c *)

RECURSIVE Decimal(_)
Decimal(n) ==
    IF n < 10 THEN <<Digit[n + 1]>>
    ELSE Append(Decimal(n \div 10), Digit[(n % 10) + 1])

\* "%g": six significant digits, rounded.
SIGNIFICANT == 6
PercentG(d) ==
    LET drop == Max({0, Len(Decimal(d)) - SIGNIFICANT})
        unit == 10^drop
    IN  ((d + (unit \div 2)) \div unit) * unit

builder_add_end == <<CR, LF>>
builder_add_word(w) == <<"+">> \o w \o builder_add_end
builder_add_ping == builder_add_word(lookup.Ping)
builder_add_none == builder_add_word(<<"N","O","N","E">>)
builder_add_err(s) == <<"-">> \o s \o builder_add_end
builder_add_array(n) == <<"*">> \o Decimal(n) \o builder_add_end
builder_add_ht(n) == <<"%">> \o Decimal(n) \o builder_add_end
builder_add_string(s) ==
    <<"$">> \o Decimal(Len(s)) \o builder_add_end \o s \o builder_add_end

\* Mutant: formatted without its sign.
builder_add_int_unsigned(n) ==
    <<":">> \o Decimal(IF n < 0 THEN -n ELSE n) \o builder_add_end

builder_add_int(n) ==
    <<":">> \o (IF n < 0 THEN <<"-">> \o Decimal(-n) ELSE Decimal(n)) \o builder_add_end

builder_add_double(d) == <<",">> \o Decimal(PercentG(d)) \o builder_add_end
builder_add_boolean(b) == <<"#", IF b THEN "t" ELSE "f">> \o builder_add_end

\* What builder_add_object never finishes: an empty vector, whose iterator's
\* last index is 0 - 1 as a size_t, and a table, whose loop does not advance.
RECURSIVE Endless(_)
Endless(o) ==
    \/ o.type = "Array" /\ (o.vec = <<>> \/ \E i \in DOMAIN o.vec : Endless(o.vec[i]))
    \/ o.type = "Ht" /\ o.ht # {}

RECURSIVE builder_add_object(_)
builder_add_object(o) ==
    CASE o.type = "Null"   -> builder_add_none
      [] o.type = "Int"    -> builder_add_int(o.num)
      [] o.type = "Double" -> builder_add_double(o.dbl)
      [] o.type = "Bool"   -> builder_add_boolean(o.boolean)
      [] o.type = "String" -> builder_add_string(o.str)
      [] o.type = "Array"  -> builder_add_array(Len(o.vec)) \o
             FlattenSeq([i \in DOMAIN o.vec |-> builder_add_object(o.vec[i])])
      [] o.type = "Ht"     -> builder_add_ht(0)

-----------------------------------------------------------------------------
(* What hilexi.c writes for a request and server.c for a reply *)

\* Calls with one argument.
OneArgument(word, o) ==
    builder_add_array(2) \o builder_add_string(word) \o builder_add_object(o)

hilexi_authenticate(username, pass) ==
    builder_add_array(3) \o builder_add_string(lookup.Auth) \o
    builder_add_string(username) \o builder_add_string(pass)
hilexi_ping        == builder_add_ping
hilexi_info        == builder_add_string(lookup.Infoc)
hilexi_select(n)   == builder_add_array(2) \o builder_add_string(lookup.Select) \o
                      builder_add_int(n)
hilexi_keys        == builder_add_string(lookup.Keys)
hilexi_set(k, v)   == builder_add_array(3) \o builder_add_string(lookup.Set) \o
                      builder_add_object(k) \o builder_add_object(v)
hilexi_get(k)      == OneArgument(lookup.Get, k)
hilexi_del(k)      == OneArgument(lookup.Del, k)
hilexi_push(v)     == OneArgument(lookup.Push, v)
hilexi_pop         == builder_add_string(lookup.Pop)
hilexi_enque(v)    == OneArgument(lookup.Enque, v)
hilexi_deque       == builder_add_string(lookup.Deque)
hilexi_zset(v)     == OneArgument(lookup.ZSet, v)
hilexi_zhas(v)     == OneArgument(lookup.ZHas, v)
hilexi_zdel(v)     == OneArgument(lookup.ZDel, v)

\* The call that execute_cmd of lexi-cli.c makes for a command; AUTH is main's.
RequestBytes(req) ==
    CASE req.type = "Auth"   -> hilexi_authenticate(req.args[1].str, req.args[2].str)
      [] req.type = "Ping"   -> hilexi_ping
      [] req.type = "Infoc"  -> hilexi_info
      [] req.type = "Select" -> hilexi_select(req.args[1].num)
      [] req.type = "Keys"   -> hilexi_keys
      [] req.type = "Set"    -> hilexi_set(req.args[1], req.args[2])
      [] req.type = "Get"    -> hilexi_get(req.args[1])
      [] req.type = "Del"    -> hilexi_del(req.args[1])
      [] req.type = "Push"   -> hilexi_push(req.args[1])
      [] req.type = "Pop"    -> hilexi_pop
      [] req.type = "Enque"  -> hilexi_enque(req.args[1])
      [] req.type = "Deque"  -> hilexi_deque
      [] req.type = "ZSet"   -> hilexi_zset(req.args[1])
      [] req.type = "ZHas"   -> hilexi_zhas(req.args[1])
      [] req.type = "ZDel"   -> hilexi_zdel(req.args[1])

\* INFO: a table of strings to objects, in the order execute_cmd writes them.
InfoBytes(pairs) ==
    builder_add_ht(Len(pairs)) \o
    FlattenSeq([i \in DOMAIN pairs |->
        builder_add_string(pairs[i][1]) \o builder_add_object(pairs[i][2])])

ReplyBytes(reply) ==
    CASE reply.kind = "object" -> builder_add_object(reply.obj)
      [] reply.kind = "error"  -> builder_add_err(reply.str)
      [] reply.kind = "info"   -> InfoBytes(reply.pairs)

-----------------------------------------------------------------------------
(* parser.c *)

ch(p)        == IF p = <<>> THEN NUL ELSE Head(p)
peek_byte(p) == IF Len(p) < 2 THEN NUL ELSE p[2]
Drop(p, n)   == SubSeq(p, n + 1, Len(p))
parser_read_char(p) == Drop(p, 1)

isdigit(b) == b \in Range(Digit)
DigitValue(b) == SelectInSeq(Digit, LAMBDA d : d = b) - 1

\* How many bytes at the start of p satisfy P.
Span(p, P(_)) ==
    LET i == SelectInSeq(p, LAMBDA b : ~P(b))
    IN  IF i = 0 THEN Len(p) ELSE i - 1

\* Mutant: the line feed is not looked at.
AtEndCrOnly(p) == ch(p) = CR

\* cur_byte_is '\r' and expect_peek_byte '\n'.
AtEnd(p) == ch(p) = CR /\ peek_byte(p) = LF

\* Mutant: the digits are not weighted.
DecimalValueSum(s) == FoldSeq(LAMBDA b, n : n + DigitValue(b), 0, s)

DecimalValue(s) == FoldLeft(LAMBDA n, b : n * 10 + DigitValue(b), 0, s)

\* A length line, with p at its type byte and n digits after it: its value and
\* the input after it, or where the parser stopped.
LenLine(p, n) ==
    LET rest == Drop(p, n + 1)
    IN  IF n = 0 THEN [ok |-> FALSE, rest |-> p]
        ELSE IF ~AtEnd(rest) THEN [ok |-> FALSE, rest |-> rest]
        ELSE [ok |-> TRUE, rest |-> Drop(rest, 2),
              len |-> DecimalValue(SubSeq(p, 2, n + 1))]
parse_len(p) == LenLine(p, Span(parser_read_char(p), isdigit))

\* The text of a line, with p at its type byte.
LineText(p) == LET s == parser_read_char(p)
               IN  SubSeq(s, 1, Span(s, LAMBDA b : b \notin {CR, NUL}))
AfterText(p) == Drop(p, Len(LineText(p)) + 1)

\* strtold on the text: the sign and the leading digits.
LeadingValue(s) == DecimalValue(SubSeq(s, 1, Span(s, isdigit)))
strtold(s) ==
    IF s # <<>> /\ Head(s) = "-" THEN -LeadingValue(Tail(s)) ELSE LeadingValue(s)

\* A line that ends too early leaves the freed string, which is empty.
SimpleString(text, after) ==
    IF AtEnd(after) THEN [str |-> text, rest |-> Drop(after, 2)]
    ELSE [str |-> <<>>, rest |-> parser_read_char(after)]
parse_simple_string(p) == SimpleString(LineText(p), AfterText(p))

Parsed(o, rest) == [obj |-> o, rest |-> rest]
AtLineEnd(o, rest) ==
    IF AtEnd(rest) THEN Parsed(o, Drop(rest, 2)) ELSE Parsed(Null, rest)

\* Body(n, rest) after a length line that says n, a Null where the line is wrong.
WithLen(h, Body(_, _)) == IF h.ok THEN Body(h.len, h.rest) ELSE Parsed(Null, h.rest)

\* n bytes; past the end of the input the string is filled with NULs.  The room for
\* them and a terminator is asked for first, with vstr_new_len, which asserts that
\* it is within the limit.
StringBody(n, p) ==
    IF n + 1 > VSTR_MAX_LARGE_SIZE THEN Parsed(Hang, <<>>)
    ELSE AtLineEnd(Str([i \in 1 .. n |-> IF i <= Len(p) THEN p[i] ELSE NUL]), Drop(p, n))

parse_string(p) == WithLen(parse_len(p), StringBody)

parse_integer(p) == AtLineEnd(Int_(strtold(LineText(p))), AfterText(p))

\* parse_double looks for the '\r' without minding the end of the input.
DoubleBody(s, n) ==
    IF n = Len(s) THEN Parsed(Hang, <<>>)
    ELSE AtLineEnd(Double(strtold(SubSeq(s, 1, n))), Drop(s, n))
parse_double(p) ==
    DoubleBody(parser_read_char(p), Span(parser_read_char(p), LAMBDA b : b # CR))

parse_boolean(p) ==
    LET s == parser_read_char(p)
    IN  IF ch(s) \notin {"t", "f"} \/ peek_byte(s) # CR THEN Parsed(Null, s)
        ELSE AtLineEnd(Bool(ch(s) = "t"), Drop(s, 1))

RECURSIVE parse_object(_)

\* n objects in a row, as the loops of parse_object read them: one that fails is
\* kept as a Null, and the next is read where it stopped.
AndObject(e, o) == [objs |-> Append(e.objs, o.obj), rest |-> o.rest]
parse_objects(n, p) ==
    FoldLeft(LAMBDA e, i : AndObject(e, parse_object(e.rest)),
             [objs |-> <<>>, rest |-> p], [i \in 1 .. n |-> i])

\* The container made of them, unless one of them did not return.
Container(e, Make(_)) ==
    IF Hang \in Range(e.objs) THEN Parsed(Hang, <<>>) ELSE Parsed(Make(e.objs), e.rest)

\* Keys and values alternate; ht_insert keeps the last value of a key.
HtOf(objs) ==
    LET n == Len(objs) \div 2
        last(i) == \A k \in i + 1 .. n : objs[2 * k - 1] # objs[2 * i - 1]
    IN  Ht({<<objs[2 * i - 1], objs[2 * i]>> : i \in {i \in 1 .. n : last(i)}})

parse_array(p) ==
    WithLen(parse_len(p), LAMBDA n, q : Container(parse_objects(n, q), Array))
parse_ht(p) ==
    WithLen(parse_len(p), LAMBDA n, q : Container(parse_objects(2 * n, q), HtOf))

\* A simple string or an error is a string too.
StringOf(s) == Parsed(Str(s.str), s.rest)

parse_object(p) ==
    CASE ch(p) = "$" -> parse_string(p)
      [] ch(p) = ":" -> parse_integer(p)
      [] ch(p) = "," -> parse_double(p)
      [] ch(p) = "#" -> parse_boolean(p)
      [] ch(p) \in {"+", "-"} -> StringOf(parse_simple_string(p))
      [] ch(p) = "*" -> parse_array(p)
      [] ch(p) = "%" -> parse_ht(p)
      [] OTHER -> Parsed(Null, p)

lookup_cmd(s) ==
    IF s \in Range(lookup) THEN CHOOSE t \in DOMAIN lookup : lookup[t] = s ELSE "Illegal"

CmdType(o) ==
    [type |-> IF o.obj.type = "String" THEN lookup_cmd(o.obj.str) ELSE "Illegal",
     rest |-> o.rest]
parse_cmd_type(p) ==
    IF ch(p) = "$" THEN CmdType(parse_string(p))
    ELSE IF ch(p) = "+" THEN CmdType(StringOf(parse_simple_string(p)))
    ELSE [type |-> "Illegal", rest |-> p]

\* The arguments of a command: the first that is missing or wrong decides.
BadArg(type, o) == o.type \in {"Null", "Hang"} \/ (type = "Select" /\ o.type # "Int")
WithArgs(type, args) ==
    LET i == SelectInSeq(args, LAMBDA o : BadArg(type, o))
    IN  IF i = 0 THEN Request(type, args)
        ELSE IF args[i] = Hang THEN Hang ELSE IllegalCmd
parse_args(type, p) == WithArgs(type, parse_objects(Arity[type] - 1, p).objs)

parse_help(help) ==
    IF help.type = "Illegal" THEN IllegalCmd ELSE Request("Help", <<Str(help.type)>>)

\* The command of an array of n objects whose first is the word of t.
ArrayCmd(n, t) ==
    IF t.type = "Help" THEN parse_help(parse_cmd_type(t.rest))
    ELSE IF t.type \in DOMAIN Arity /\ n = Arity[t.type] THEN parse_args(t.type, t.rest)
    ELSE IllegalCmd
CmdOfLen(h) ==
    IF h.ok /\ h.len > 0 THEN ArrayCmd(h.len, parse_cmd_type(h.rest)) ELSE IllegalCmd
parse_array_cmd(p) == CmdOfLen(parse_len(p))

\* A word that is not in an array is the command without arguments, whichever
\* command it is: the union of arguments is zero.
parse(p) ==
    IF ch(p) = "*" THEN parse_array_cmd(p) ELSE Request(parse_cmd_type(p).type, <<>>)

parse_from_server(p) == parse_object(p).obj
=============================================================================
