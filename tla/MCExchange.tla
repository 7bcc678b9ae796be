----------------------------- MODULE MCExchange -----------------------------
(* Messages for Exchange: every request of the client library, with keys that *)
(* hold a line end or need a length of two digits, and every kind of reply.   *)
EXTENDS Exchange

Key     == <<"k">>
LineKey == <<"a", CR, LF, "b">>
LongKey == [i \in 1 .. 10 |-> "x"]

Words == {Request(t, <<>>) : t \in {"Ping", "Infoc", "Keys", "Pop", "Deque"}}
Values == {Str(LineKey), Str(LongKey), Str(<<>>), Int_(0), Int_(-107), Bool(TRUE), Bool(FALSE)}

PlainRequests ==
    Words
    \cup {Request(t, <<v>>) : t \in {"Get", "Del", "Push", "Enque", "ZSet", "ZHas", "ZDel"},
                              v \in Values}
    \cup {Request("Set", <<Str(k), v>>) : k \in {Key, LineKey, lookup.Pop}, v \in Values}
    \cup {Request("Set", <<k, v>>) : k, v \in {Double(15), Int_(7)}}
    \cup {Request("Select", <<Int_(n)>>) : n \in {0, 15}}
    \cup {Request("Auth", <<Str(<<"r">>), Str(<<>>)>>)}

Object(o) == [kind |-> "object", obj |-> o]
PlainReplies ==
    {Object(v) : v \in Values \cup {Null, Double(123456), Double(5), Array(<<>>)}}
    \cup {Object(Array(<<Str(Key), Int_(12), Array(<<Bool(TRUE), Str(LineKey)>>)>>))}
    \cup {[kind |-> "error", str |-> <<"N", "O">>]}
    \cup {[kind |-> "info", pairs |-> <<<<Key, Int_(2)>>, <<LineKey, Str(LongKey)>>>>]}

\* Lines for every command, with strings that need quotes or escapes, or hold a
\* backslash that escapes nothing.
TypedStrings == {Key, <<"a", " ", "b">>, <<Quote, CR, LF, TAB>>, <<"k", Backslash, "x">>,
                 <<"k", "1", Quote>>, <<>>, <<"-", "1">>}
TypedValues == {Str(s) : s \in TypedStrings} \cup {Int_(0), Int_(-107)}
TypedRequests ==
    Words
    \cup {Request(t, <<v>>) : t \in {"Get", "Del", "Push", "Enque", "ZSet", "ZHas", "ZDel"},
                              v \in TypedValues}
    \cup {Request("Set", <<k, v>>) : k \in TypedValues, v \in TypedValues}
    \cup {Request("Select", <<Int_(n)>>) : n \in {0, 15, -1}}
Blanks == {<<" ">>, <<" ", TAB, " ">>}
PlainLines ==
    UNION {{[req |-> r, text |-> text] : text \in Spellings(r, b)} :
               r \in TypedRequests, b \in Blanks}
    \cup {[req |-> Local, text |-> tolower(lookup.Help)]}
    \cup {[req |-> Refused, text |-> text] :
              text \in {<<"g", "E", "T", " ", "k">>, lookup.Auth, lookup.Select, <<"G", "E", "T", TAB>>}}
=============================================================================
