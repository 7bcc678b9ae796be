----------------------------- MODULE MCStartup ------------------------------
(* Instance of Startup for TLC: command lines of up to four words, files of up *)
(* to three lines, in which every directive occurs, also cut short and twice.  *)
EXTENDS Startup

Words  == {"-c", "--config", "--helpful", "-v", "--port"}
Values == {"a.conf", "-v", "a long file name.conf"}
MCArgvs ==
    BoundedSeq(Words, 1) \cup {<<o, a>> : o \in Words, a \in Values}
    \cup {<<"-c", a, o, b>> : o \in Words, a, b \in Values}

Line(type, nums, word, eol) ==
    [type |-> type, nums |-> nums, word |-> word, passwords |-> <<>>, eol |-> eol]
Address(nums, text, eol) == Line("address", nums, text, eol)
Number(type, n, eol) == Line(type, <<n>>, "", eol)
Worded(type, w, eol) == Line(type, <<>>, w, eol)
UserLine(name, passwords, eol) == [Worded("user", name, eol) EXCEPT !.passwords = passwords]

\* A Word of 2^20 stands for 2^64.
MCLong == {"a long file name.conf", "a long text", "a long password"}
Items ==
    {Address(a, "short", TRUE) : a \in {<<10, 0, 0, 127>>, <<192, 168, 1, 2>>, <<7>>}}
    \cup {Address(<<10, 0, 0, 127>>, "a long text", e) : e \in BOOLEAN} \cup {Address(<<>>, "", FALSE)}
    \cup {Number("port", n, TRUE) : n \in {0, 7000, 65536, 1048577}} \cup {Number("port", 1, FALSE)}
    \cup {Number("databases", n, TRUE) : n \in {0, 2}} \cup {Number("databases", 2, FALSE)}
    \cup {Worded("loglevel", l, TRUE) : l \in {"debug", "loud", "a long text"}}
    \cup {Worded("loglevel", "none", FALSE)}
    \cup {UserLine("root", p, TRUE) : p \in {<<>>, <<"b">>}}
    \cup {UserLine("guest", <<"a long password", "a">>, e) : e \in BOOLEAN}
    \cup {Worded("comment", "", TRUE), Worded("hello", "", TRUE)}

\* A file that names a user first, and two lines of any kind; or three users.
MCFiles ==
    {f \in {<<UserLine("root", <<"a">>, TRUE)>> \o g : g \in BoundedSeq(Items, 2)} \cup BoundedSeq(Items, 2) :
        f = <<>> \/ Last(f).eol}
    \cup {[i \in 1 .. 3 |-> UserLine(n[i], <<"a">>, TRUE)] : n \in [1 .. 3 -> {"root", "guest", "op"}]}

MCDefaultAddress == <<127, 0, 0, 1>>
=============================================================================
