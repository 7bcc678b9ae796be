----------------------------- MODULE LineParser -----------------------------
(***************************************************************************)
(* A line typed at lexi-cli's prompt: read_line and line_parser.c turn it  *)
(* into a command, execute_cmd into a call of the client library.          *)
(*                                                                         *)
(* A line is a sequence of characters without its newline.  Numbers stay   *)
(* far from the ends of int64_t.  As in module Protocol, a parser is what  *)
(* is left of its input.                                                   *)
(***************************************************************************)
EXTENDS Protocol

TAB       == "\t"
Quote     == "\""
Backslash == "\\"

UpperCase == <<"A","B","C","D","E","F","G","H","I","J","K","L","M",
               "N","O","P","Q","R","S","T","U","V","W","X","Y","Z">>
LowerCase == <<"a","b","c","d","e","f","g","h","i","j","k","l","m",
               "n","o","p","q","r","s","t","u","v","w","x","y","z">>
is_letter(c) == c \in Range(UpperCase) \cup Range(LowerCase)
tolower(w) == [i \in DOMAIN w |-> LowerCase[CHOOSE k \in 1 .. 26 : UpperCase[k] = w[i]]]

\* The commands of the table `lookups', each in upper and in lower case.
lookups == DOMAIN lookup \ {"Okc", "Auth"}
line_lookup_cmd(w) ==
    IF \E t \in lookups : w \in {lookup[t], tolower(lookup[t])}
    THEN CHOOSE t \in lookups : w \in {lookup[t], tolower(lookup[t])}
    ELSE "Illegal"

\* Mutant: a tab is no blank.
skip_whitespace_tabs(p) == Drop(p, Span(p, LAMBDA c : c = " "))

skip_whitespace(p) == Drop(p, Span(p, LAMBDA c : c \in {" ", TAB}))

\* Up to a blank, not a tab.
WordLen(p) == Span(p, LAMBDA c : c \notin {" ", NUL})
line_parse_string(p) ==
    Parsed(Str(SubSeq(p, 1, WordLen(p))), Drop(p, WordLen(p)))

\* The characters that mean another one after a backslash; before any other the
\* backslash is itself.
Escape == [c \in {"n", "r", "t", Quote} |->
              CASE c = "n" -> LF [] c = "r" -> CR [] c = "t" -> TAB [] c = Quote -> Quote]

\* The rest of a bulk string of which s has been read.
RECURSIVE BulkFrom(_, _)
BulkFrom(s, p) ==
    IF ch(p) \in {Quote, NUL} THEN Parsed(Str(s), Drop(p, 1))
    ELSE IF ch(p) # Backslash THEN BulkFrom(Append(s, ch(p)), Drop(p, 1))
    ELSE IF peek_byte(p) \in DOMAIN Escape
    THEN BulkFrom(Append(s, Escape[peek_byte(p)]), Drop(p, 2))
    ELSE BulkFrom(Append(s, Backslash), Drop(p, 1))
parse_bulk_string(p) == BulkFrom(<<>>, Drop(p, 1))

is_start_of_number(p) == isdigit(ch(p)) \/ (ch(p) = "-" /\ isdigit(peek_byte(p)))

\* Digits up to the first character that is none, wherever that leaves the parser.
Digits(p) == SubSeq(p, 1, Span(p, isdigit))
parse_number(p) ==
    IF ch(p) = "-"
    THEN Parsed(Int_(-DecimalValue(Digits(Drop(p, 1)))), Drop(p, Len(Digits(Drop(p, 1))) + 1))
    ELSE Parsed(Int_(DecimalValue(Digits(p))), Drop(p, Len(Digits(p))))

\* What starts neither a word, a quoted string nor a number is a Null, and the
\* parser stays where it is.
ObjectAt(p) ==
    IF is_letter(ch(p)) THEN line_parse_string(p)
    ELSE IF ch(p) = Quote THEN parse_bulk_string(p)
    ELSE IF is_start_of_number(p) THEN parse_number(p)
    ELSE Parsed(Null, p)
line_parse_object(p) == ObjectAt(skip_whitespace(p))

line_parse_objects(n, p) ==
    FoldLeft(LAMBDA e, i : AndObject(e, line_parse_object(e.rest)),
             [objs |-> <<>>, rest |-> p], [i \in 1 .. n |-> i])

\* The command of type t with the arguments read: SELECT asks for an integer, the
\* others take what they get; what is left of the line is ignored.
LineCmd(t, args) ==
    IF t = "Illegal" \/ (t = "Select" /\ args[1].type # "Int") THEN IllegalCmd
    ELSE Request(t, args)
ArgCount(t) == IF t \in DOMAIN Arity THEN Arity[t] - 1 ELSE 0
AfterType(t, p) == LineCmd(t, line_parse_objects(ArgCount(t), p).objs)
CmdAt(p) == AfterType(line_lookup_cmd(SubSeq(p, 1, WordLen(p))), Drop(p, WordLen(p)))

parse_line(line) == CmdAt(skip_whitespace(line))

\* execute_cmd of lexi-cli.c: HELP and "invalid command" are answered here; what
\* the server makes of any other command when its request arrives whole.
Refused == [type |-> "Refused"]
Local   == [type |-> "Local"]
Executed(c) ==
    IF c = IllegalCmd THEN Refused
    ELSE IF c.type = "Help" THEN Local
    ELSE parse(RequestBytes(c))

-----------------------------------------------------------------------------
(* How a request is typed: the notation of the repository's README.  A string *)
(* can be a word when it starts with a letter and has no blank.  There is no  *)
(* escape for the backslash.                                                  *)

Escaped(c) ==
    IF c \in Range(Escape)
    THEN <<Backslash, CHOOSE e \in DOMAIN Escape : Escape[e] = c>> ELSE <<c>>
Quoted(s) == <<Quote>> \o FlattenSeq([i \in DOMAIN s |-> Escaped(s[i])]) \o <<Quote>>

IsWord(s) == s # <<>> /\ is_letter(Head(s)) /\ \A i \in DOMAIN s : s[i] \notin {" ", TAB, LF}

ArgumentTexts(o) ==
    IF o.type = "Int"
    THEN {IF o.num < 0 THEN <<"-">> \o Decimal(-o.num) ELSE Decimal(o.num)}
    ELSE {Quoted(o.str)} \cup (IF IsWord(o.str) THEN {o.str} ELSE {})

\* Words and arguments with `blanks' between them, and after the last.
Spelled(words, blanks) == FlattenSeq([i \in DOMAIN words |-> words[i] \o blanks])

Spellings(req, blanks) ==
    LET types == {lookup[req.type], tolower(lookup[req.type])}
    IN  CASE Len(req.args) = 0 -> {Spelled(<<t>>, blanks) : t \in types}
          [] Len(req.args) = 1 ->
                 {Spelled(<<t, a>>, blanks) : t \in types, a \in ArgumentTexts(req.args[1])}
          [] Len(req.args) = 2 ->
                 {Spelled(<<t, a, b>>, blanks) : t \in types, a \in ArgumentTexts(req.args[1]),
                                                 b \in ArgumentTexts(req.args[2])}
=============================================================================
