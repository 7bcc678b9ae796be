--------------------------------- MODULE Vstr ---------------------------------
(***************************************************************************)
(* The string of vstr.c, on which replies (builder.c), keys and values are *)
(* built: up to VSTR_MAX_SMALL_SIZE bytes inside the struct, more in an    *)
(* allocated buffer.  The two share a union: writing one makes the other   *)
(* unreadable, which is the byte Junk.  A large string's buffer is data,   *)
(* whose length is lg.cap; data = <<>> is a failed allocation.             *)
(***************************************************************************)
EXTENDS Integers, Sequences, SequencesExt

CONSTANTS
    VSTR_MAX_SMALL_SIZE,
    VSTR_MAX_LARGE_SIZE,
    Chars,              \* the bytes of the strings pushed
    Pieces,             \* the strings pushed at once
    VstrOutOfMemory     \* whether calloc and realloc may fail

ASSUME VstrAssumption ==
    /\ VSTR_MAX_SMALL_SIZE \in Nat \ {0} /\ VSTR_MAX_LARGE_SIZE \in Nat
    /\ VSTR_MAX_SMALL_SIZE < VSTR_MAX_LARGE_SIZE
    /\ Pieces \subseteq Seq(Chars)
    /\ VstrOutOfMemory \in BOOLEAN

NUL  == "NUL"       \* the terminator, which may also be one of Chars
Junk == "Junk"
Byte == Chars \cup {NUL, Junk}

VARIABLES
    s,          \* the struct
    str,        \* what was put into it by calls that succeeded
    lost        \* a call on a small string failed to allocate

vstrVars == <<s, str, lost>>

Zeros(n) == [i \in 1 .. n |-> NUL]
Written(buf, at, cs) ==
    [i \in DOMAIN buf |-> IF i - at \in DOMAIN cs THEN cs[i - at] ELSE buf[i]]

\* { 0 } with the given room, and the large string with the given buffer.
Small(sm, avail) ==
    [is_large |-> FALSE, small_avail |-> avail, sm |-> sm, data |-> <<>>, len |-> 0]
Large(data, len) ==
    [is_large |-> TRUE, small_avail |-> 0, data |-> data, len |-> len,
     sm |-> [i \in 1 .. VSTR_MAX_SMALL_SIZE |-> IF data = <<>> THEN NUL ELSE Junk]]

ZeroSmall == Zeros(VSTR_MAX_SMALL_SIZE)

vstr_len(v)  == IF v.is_large THEN v.len ELSE VSTR_MAX_SMALL_SIZE - v.small_avail
vstr_data(v) == IF v.is_large THEN v.data ELSE v.sm

\* The string a caller sees through vstr_data and vstr_len.
Contents(v) == SubSeq(vstr_data(v), 1, vstr_len(v))

\* calloc or realloc of something: whether it may, and whether it may not fail.
Fails == IF VstrOutOfMemory THEN BOOLEAN ELSE {FALSE}

-----------------------------------------------------------------------------
(* Making strings *)

vstr_new == Small(ZeroSmall, VSTR_MAX_SMALL_SIZE)

\* vstr_make_lg_len: the buffer of a string of this length, <<>> when it is too
\* long or cannot be allocated.
vstr_make_lg_len(cs, fails) ==
    IF Len(cs) >= VSTR_MAX_LARGE_SIZE \/ fails THEN <<>> ELSE Append(cs, NUL)

\* vstr_new_len: room for a string of n bytes and its terminator.  It asserts that n
\* is within the limit and that calloc succeeds: see NewLen.
vstr_new_len(n) ==
    IF n > VSTR_MAX_SMALL_SIZE THEN Large(Zeros(n + 1), 0) ELSE vstr_new

\* vstr_from_len, and vstr_from of a string without NULs: without a buffer, the
\* struct of zeros.
vstr_from_len(cs, fails) ==
    IF Len(cs) <= VSTR_MAX_SMALL_SIZE
    THEN Small(Written(ZeroSmall, 0, cs), VSTR_MAX_SMALL_SIZE - Len(cs))
    ELSE LET data == vstr_make_lg_len(cs, fails)
         IN  IF data = <<>> THEN Small(ZeroSmall, 0) ELSE Large(data, Len(cs))

\* vstr_format, which reserves room for the terminator twice.
vstr_format(cs) ==
    LET size == Len(cs) + 1
        v    == vstr_new_len(size)
    IN  IF v.is_large
        THEN Large(Written(v.data, 0, cs), size - 1)
        ELSE Small(Written(v.sm, 0, cs), VSTR_MAX_SMALL_SIZE - size + 1)

-----------------------------------------------------------------------------
(* Pushing.  A result is the struct and the returned 0 or -1. *)

Result(v, r) == [v |-> v, r |-> r]

\* Mutant: the buffer is enlarged when it is full, terminator or not.
vstr_lg_push_char_full(v, c, fails) ==
    LET cap   == Len(v.data)
        data  == IF v.len = cap THEN v.data \o Zeros(cap) ELSE v.data
    IN  IF cap = 0 \/ (v.len = cap /\ fails) THEN Result(v, -1)
        ELSE IF v.len + 1 > VSTR_MAX_LARGE_SIZE THEN Result(Large(data, v.len), -1)
        ELSE Result(Large(Written(data, v.len, <<c>>), v.len + 1), 0)

\* Mutant: the added memory is not cleared.
vstr_lg_push_char_dirty(v, c, fails) ==
    LET cap   == Len(v.data)
        grows == v.len = cap - 1
        data  == IF grows THEN v.data \o [i \in 1 .. cap |-> Junk] ELSE v.data
    IN  IF cap = 0 \/ (grows /\ fails) THEN Result(v, -1)
        ELSE IF v.len + 1 > VSTR_MAX_LARGE_SIZE THEN Result(Large(data, v.len), -1)
        ELSE Result(Large(Written(data, v.len, <<c>>), v.len + 1), 0)

\* vstr_lg_push_char with vstr_realloc_lg: the buffer is doubled when only the
\* terminator's place is left, before the limit is tested.
vstr_lg_push_char(v, c, fails) ==
    LET cap   == Len(v.data)
        grows == v.len = cap - 1
        data  == IF grows THEN v.data \o Zeros(cap) ELSE v.data
    IN  IF cap = 0 \/ (grows /\ fails) THEN Result(v, -1)
        ELSE IF v.len + 1 > VSTR_MAX_LARGE_SIZE THEN Result(Large(data, v.len), -1)
        ELSE Result(Large(Written(data, v.len, <<c>>), v.len + 1), 0)

\* Mutant: the last byte is overwritten.
vstr_lg_push_string_over(v, cs, fails) ==
    LET cap   == Len(v.data)
        len   == v.len + Len(cs)
        grows == len > cap - 1
        data  == IF grows THEN v.data \o Zeros(Len(cs)) ELSE v.data
    IN  IF cap = 0 \/ len > VSTR_MAX_LARGE_SIZE \/ (grows /\ fails)
        THEN Result(v, -1)
        ELSE Result(Large(Written(data, v.len - 1, cs), len), 0)

\* vstr_lg_push_string with vstr_realloc_lg_len: the limit comes first.
vstr_lg_push_string(v, cs, fails) ==
    LET cap   == Len(v.data)
        len   == v.len + Len(cs)
        grows == len > cap - 1
        data  == IF grows THEN v.data \o Zeros(Len(cs)) ELSE v.data
    IN  IF cap = 0 \/ len > VSTR_MAX_LARGE_SIZE \/ (grows /\ fails)
        THEN Result(v, -1)
        ELSE Result(Large(Written(data, v.len, cs), len), 0)

\* vstr_push_char: a full small string is copied by vstr_make_lg, with room for
\* one more; without memory the union has been overwritten with zeros.
vstr_push_char(v, c, fails, refails) ==
    IF v.is_large THEN vstr_lg_push_char(v, c, fails)
    ELSE IF v.small_avail > 0
    THEN Result(Small(Written(v.sm, vstr_len(v), <<c>>), v.small_avail - 1), 0)
    ELSE IF fails THEN Result(Small(ZeroSmall, 0), -1)
    ELSE vstr_lg_push_char(Large(v.sm \o Zeros(2), VSTR_MAX_SMALL_SIZE), c, refails)

\* vstr_push_string_len, and vstr_push_string of a string without NULs: the copy is
\* made large whether or not it could be allocated.
vstr_push_string(v, cs, fails, refails) ==
    IF v.is_large THEN vstr_lg_push_string(v, cs, fails)
    ELSE IF Len(cs) <= v.small_avail
    THEN Result(Small(Written(v.sm, vstr_len(v), cs), v.small_avail - Len(cs)), 0)
    ELSE LET data == vstr_make_lg_len(Contents(v), fails)
         IN  vstr_lg_push_string(Large(data, IF data = <<>> THEN 0 ELSE vstr_len(v)),
                                 cs, refails)

\* vstr_reset: a small string is cleared; of a large one the union keeps what it
\* held, a pointer that has been freed.
vstr_reset(v) == Small(IF v.is_large THEN v.sm ELSE ZeroSmall, VSTR_MAX_SMALL_SIZE)

-----------------------------------------------------------------------------

Init == s = vstr_new /\ str = <<>> /\ lost = FALSE

\* A string is freed (vstr_free) and the variable holds a new one.
New == s' = vstr_new /\ str' = <<>> /\ lost' = FALSE

From(cs) ==
    \E f \in Fails :
        /\ s' = vstr_from_len(cs, f)
        /\ str' = cs
        /\ lost' = (Len(cs) > VSTR_MAX_SMALL_SIZE /\ vstr_make_lg_len(cs, f) = <<>>)

\* An assertion that fails, on the length or on calloc's result, ends the process;
\* so does, without assertions, the first push, which writes to the NULL of calloc.
NewLen(n) ==
    /\ n <= VSTR_MAX_LARGE_SIZE
    /\ s' = vstr_new_len(n) /\ str' = <<>> /\ lost' = FALSE

\* "%s" ends at a NUL, and an empty text fails an assertion.
Format(cs) ==
    /\ cs # <<>> /\ Len(cs) + 1 <= VSTR_MAX_LARGE_SIZE
    /\ \A i \in DOMAIN cs : cs[i] # NUL
    /\ s' = vstr_format(cs) /\ str' = cs /\ lost' = FALSE

Pushed(cs, o) ==
    /\ s' = o.v
    /\ str' = IF o.r = 0 THEN str \o cs ELSE str
    /\ lost' = (lost \/ (o.r = -1 /\ ~s.is_large))

PushChar(c) ==
    \E f, g \in Fails : Pushed(<<c>>, vstr_push_char(s, c, f, g))

PushString(cs) ==
    \E f, g \in Fails : Pushed(cs, vstr_push_string(s, cs, f, g))

Reset ==
    /\ s' = vstr_reset(s) /\ str' = <<>> /\ lost' = FALSE

Next ==
    \/ New \/ Reset
    \/ \E n \in 0 .. VSTR_MAX_LARGE_SIZE : NewLen(n)
    \/ \E c \in Chars : PushChar(c)
    \/ \E cs \in Pieces : From(cs) \/ Format(cs) \/ PushString(cs)

VstrSpec == Init /\ [][Next]_vstrVars

-----------------------------------------------------------------------------

\* The struct has its shape, and a large string is within its buffer and its
\* length within the bit field of 56 bits: every write of vstr.c is in bounds.
InBounds ==
    /\ DOMAIN s.sm = 1 .. VSTR_MAX_SMALL_SIZE
    /\ s.small_avail \in 0 .. VSTR_MAX_SMALL_SIZE
    /\ s.is_large => s.len < Len(s.data) \/ (s.len = 0 /\ s.data = <<>>)
    /\ s.len \in 0 .. VSTR_MAX_LARGE_SIZE

\* A string holds exactly what was pushed by the calls that returned 0, through
\* the change from small to large, growth, and refused pushes on a large string;
\* only an allocation that fails while the string is small destroys it.
HoldsWhatWasPushed == ~lost => Contents(s) = str

\* The byte behind the string is the terminator (the struct's last byte for a
\* full small string).  A small string that was large and has been reset is the
\* exception: it still holds the bytes of a pointer.
Terminated ==
    LET len == vstr_len(s)
    IN  IF s.is_large THEN s.data # <<>> => s.data[len + 1] = NUL
        ELSE len < VSTR_MAX_SMALL_SIZE => s.sm[len + 1] \in {NUL, Junk}
=============================================================================
