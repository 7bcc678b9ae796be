------------------------------ MODULE Vstr_proofs ------------------------------
(***************************************************************************)
(* Proofs about module Vstr, for strings of any bytes and any two limits:  *)
(* no call writes outside the struct or the buffer, a string holds what    *)
(* was pushed into it, and the byte behind it is the terminator.  The      *)
(* invariant says more than the last of these: every byte behind the       *)
(* string is clear, which is what keeps it terminated while it grows.      *)
(***************************************************************************)
EXTENDS Vstr, TLAPS

\* The two forms of the struct.
SmallOK(v) ==
    /\ v.is_large = FALSE
    /\ v.sm \in Seq(Byte) /\ Len(v.sm) = VSTR_MAX_SMALL_SIZE
    /\ v.small_avail \in 0 .. VSTR_MAX_SMALL_SIZE
    /\ v.len = 0
    /\ \A i \in 1 .. VSTR_MAX_SMALL_SIZE :
           i > VSTR_MAX_SMALL_SIZE - v.small_avail => v.sm[i] \in {NUL, Junk}

LargeOK(v) ==
    /\ v.is_large = TRUE
    /\ v.sm \in Seq(Byte) /\ Len(v.sm) = VSTR_MAX_SMALL_SIZE
    /\ \A i \in 1 .. VSTR_MAX_SMALL_SIZE : v.sm[i] \in {NUL, Junk}
    /\ v.small_avail = 0
    /\ v.data \in Seq(Byte) /\ v.len \in 0 .. VSTR_MAX_LARGE_SIZE
    /\ v.len < Len(v.data) \/ (v.len = 0 /\ Len(v.data) = 0)
    /\ \A i \in 1 .. Len(v.data) : i > v.len => v.data[i] = NUL

StructOK(v) == SmallOK(v) \/ LargeOK(v)

\* The string v is x.
Holds(v, x) ==
    /\ x \in Seq(Byte) /\ Len(x) = vstr_len(v)
    /\ \A i \in 1 .. Len(x) : x[i] = vstr_data(v)[i]

VstrOK ==
    /\ StructOK(s) /\ str \in Seq(Chars) /\ lost \in BOOLEAN
    /\ ~lost => Holds(s, str)

-----------------------------------------------------------------------------
(* Buffers *)

\* A buffer fresh from calloc.
LEMMA ZerosAre ==
    ASSUME NEW n \in Nat
    PROVE  /\ Zeros(n) \in Seq(Byte) /\ Len(Zeros(n)) = n
           /\ \A i \in 1 .. n : Zeros(n)[i] = NUL
BY DEF Zeros, Byte

\* A buffer after realloc and memset.
LEMMA ExtendedIs ==
    ASSUME NEW d \in Seq(Byte), NEW n \in Nat
    PROVE  /\ d \o Zeros(n) \in Seq(Byte) /\ Len(d \o Zeros(n)) = Len(d) + n
           /\ \A i \in 1 .. Len(d) : (d \o Zeros(n))[i] = d[i]
           /\ \A i \in 1 .. (Len(d) + n) : i > Len(d) => (d \o Zeros(n))[i] = NUL
<1>1. PICK z \in Seq(Byte) : z = Zeros(n) /\ Len(z) = n /\ \A i \in 1 .. n : z[i] = NUL
  BY ZerosAre
<1>2. d \o z \in Seq(Byte) /\ Len(d \o z) = Len(d) + n /\ \A i \in 1 .. Len(d) : (d \o z)[i] = d[i]
  BY <1>1
<1>3. ASSUME NEW i \in 1 .. (Len(d) + n), i > Len(d) PROVE (d \o z)[i] = NUL
  <2>1. i - Len(d) \in 1 .. n /\ (d \o z)[i] = z[i - Len(d)]
    BY <1>1, <1>3
  <2> QED BY <1>1, <2>1
<1> QED BY <1>1, <1>2, <1>3

\* What memcpy writes.
LEMMA WrittenIs ==
    ASSUME NEW buf \in Seq(Byte), NEW at \in Nat, NEW cs \in Seq(Byte)
    PROVE  /\ Written(buf, at, cs) \in Seq(Byte) /\ Len(Written(buf, at, cs)) = Len(buf)
           /\ \A i \in 1 .. Len(buf) :
                  Written(buf, at, cs)[i] =
                      IF at < i /\ i <= at + Len(cs) THEN cs[i - at] ELSE buf[i]
<1>1. DOMAIN cs = 1 .. Len(cs) /\ DOMAIN buf = 1 .. Len(buf) /\ Len(buf) \in Nat /\ Len(cs) \in Nat
  OBVIOUS
<1>2. \A i \in 1 .. Len(buf) : i - at \in DOMAIN cs <=> at < i /\ i <= at + Len(cs)
  BY <1>1
<1>3. \A i \in 1 .. Len(buf) : (i - at \in DOMAIN cs => cs[i - at] \in Byte) /\ buf[i] \in Byte
  OBVIOUS
<1> QED BY <1>1, <1>2, <1>3 DEF Written

\* A small string built from its fields.
LEMMA SmallIs ==
    ASSUME NEW sm \in Seq(Byte), Len(sm) = VSTR_MAX_SMALL_SIZE,
           NEW avail \in 0 .. VSTR_MAX_SMALL_SIZE,
           \A i \in 1 .. VSTR_MAX_SMALL_SIZE :
               i > VSTR_MAX_SMALL_SIZE - avail => sm[i] \in {NUL, Junk}
    PROVE  /\ SmallOK(Small(sm, avail)) /\ vstr_data(Small(sm, avail)) = sm
           /\ vstr_len(Small(sm, avail)) = VSTR_MAX_SMALL_SIZE - avail
BY DEF Small, SmallOK, vstr_len, vstr_data

\* A large string built from its fields.
LEMMA LargeIs ==
    ASSUME NEW data \in Seq(Byte), NEW len \in 0 .. VSTR_MAX_LARGE_SIZE,
           len < Len(data) \/ (len = 0 /\ Len(data) = 0),
           \A i \in 1 .. Len(data) : i > len => data[i] = NUL
    PROVE  /\ LargeOK(Large(data, len)) /\ Large(data, len).data = data
           /\ Large(data, len).len = len
           /\ vstr_data(Large(data, len)) = data /\ vstr_len(Large(data, len)) = len
<1> DEFINE sm == [i \in 1 .. VSTR_MAX_SMALL_SIZE |-> IF data = <<>> THEN NUL ELSE Junk]
<1>1. sm \in Seq(Byte) /\ Len(sm) = VSTR_MAX_SMALL_SIZE
  BY VstrAssumption DEF Byte
<1>2. \A i \in 1 .. VSTR_MAX_SMALL_SIZE : sm[i] \in {NUL, Junk}
  OBVIOUS
<1> HIDE DEF sm
<1>3. Large(data, len) = [is_large |-> TRUE, small_avail |-> 0, data |-> data, len |-> len, sm |-> sm]
  BY DEF Large, sm
<1> QED BY <1>1, <1>2, <1>3 DEF LargeOK, vstr_len, vstr_data

\* The string after one more piece.
LEMMA HoldsMore ==
    ASSUME NEW v, NEW w, NEW x, Holds(v, x), NEW cs \in Seq(Byte),
           vstr_data(v) \in Seq(Byte), vstr_len(v) \in Nat,
           vstr_len(w) = vstr_len(v) + Len(cs),
           \A i \in 1 .. vstr_len(v) : vstr_data(w)[i] = vstr_data(v)[i],
           \A i \in 1 .. Len(cs) : vstr_data(w)[vstr_len(v) + i] = cs[i]
    PROVE  Holds(w, x \o cs)
<1>1. /\ x \in Seq(Byte) /\ Len(x) = vstr_len(v) /\ x \o cs \in Seq(Byte)
      /\ Len(x \o cs) = Len(x) + Len(cs)
  <2>1. x \in Seq(Byte) /\ Len(x) = vstr_len(v)
    BY DEF Holds
  <2> QED BY <2>1
<1>2. ASSUME NEW i \in 1 .. Len(x \o cs) PROVE (x \o cs)[i] = vstr_data(w)[i]
  <2>1. CASE i <= Len(x)
    BY <1>1, <2>1 DEF Holds
  <2>2. CASE i > Len(x)
    <3>1. i - Len(x) \in 1 .. Len(cs) /\ (x \o cs)[i] = cs[i - Len(x)]
      BY <1>1, <2>2
    <3> QED BY <1>1, <3>1
  <2> QED BY <1>1, <2>1, <2>2
<1> QED BY <1>1, <1>2 DEF Holds

-----------------------------------------------------------------------------
(* What each call leaves *)

\* The result o of pushing cs onto v: the struct is sound, and holds the string
\* with cs behind it when the call returned 0, as before when it did not.
PushOK(v, cs, o) ==
    /\ StructOK(o.v) /\ o.r \in {0, -1}
    /\ \A x : Holds(v, x) =>
           (o.r = 0 => Holds(o.v, x \o cs)) /\ (o.r = -1 /\ v.is_large => Holds(o.v, x))

\* What a large string is known to satisfy.
LEMMA LargeFields ==
    ASSUME NEW v, LargeOK(v)
    PROVE  /\ vstr_data(v) = v.data /\ vstr_len(v) = v.len /\ v.is_large
           /\ v.data \in Seq(Byte) /\ v.len \in Nat /\ v.len <= VSTR_MAX_LARGE_SIZE
           /\ Len(v.data) \in Nat
           /\ v.len < Len(v.data) \/ (v.len = 0 /\ Len(v.data) = 0)
           /\ \A i \in 1 .. Len(v.data) : i > v.len => v.data[i] = NUL
BY DEF LargeOK, vstr_data, vstr_len

\* A string put behind a large one whose buffer has room for it and a terminator.
LEMMA WriteBehind ==
    ASSUME NEW v, LargeOK(v), NEW data \in Seq(Byte), NEW cs \in Seq(Byte),
           v.len + Len(cs) <= VSTR_MAX_LARGE_SIZE, v.len + Len(cs) < Len(data),
           Len(v.data) <= Len(data),
           \A i \in 1 .. Len(v.data) : data[i] = v.data[i],
           \A i \in 1 .. Len(data) : i > v.len => data[i] = NUL
    PROVE  PushOK(v, cs, Result(Large(Written(data, v.len, cs), v.len + Len(cs)), 0))
<1> DEFINE buf == Written(data, v.len, cs)
           len == v.len + Len(cs)
           w == Large(buf, len)
<1>1. VSTR_MAX_LARGE_SIZE \in Nat /\ Len(cs) \in Nat
  BY VstrAssumption
<1>2. /\ buf \in Seq(Byte) /\ Len(buf) = Len(data)
      /\ \A i \in 1 .. Len(data) :
             buf[i] = IF v.len < i /\ i <= v.len + Len(cs) THEN cs[i - v.len] ELSE data[i]
  BY LargeFields, WrittenIs
<1>3. len \in 0 .. VSTR_MAX_LARGE_SIZE /\ len \in Nat /\ v.len \in Nat
  BY <1>1, LargeFields
<1>4. \A i \in 1 .. Len(buf) : i > len => buf[i] = NUL
  BY <1>1, <1>2, <1>3
<1> HIDE DEF buf
<1>5. LargeOK(w) /\ vstr_data(w) = buf /\ vstr_len(w) = len
  BY <1>2, <1>3, <1>4, LargeIs
<1>6. ASSUME NEW i \in 1 .. v.len PROVE buf[i] = v.data[i]
  <2>1. i \in 1 .. Len(v.data) /\ i \in 1 .. Len(data)
    BY SMTT(60), <1>1, <1>3, LargeFields
  <2> QED BY <1>2, <1>3, <2>1
<1>7. ASSUME NEW i \in 1 .. Len(cs) PROVE buf[v.len + i] = cs[i]
  <2>1. PICK k : k = v.len + i
    OBVIOUS
  <2>2. Len(data) \in Nat /\ v.len + Len(cs) < Len(data)
    OBVIOUS
  <2>3. k \in 1 .. Len(data) /\ v.len < k /\ k <= v.len + Len(cs) /\ k - v.len = i
    BY SMTT(60), <1>1, <1>3, <2>1, <2>2
  <2>4. buf[k] = cs[k - v.len]
    BY <1>2, <2>3
  <2> QED BY <2>1, <2>3, <2>4
<1>8. ASSUME NEW x, Holds(v, x) PROVE Holds(w, x \o cs)
  <2> HIDE DEF w
  <2>1. vstr_data(v) = v.data /\ vstr_len(v) = v.len /\ v.data \in Seq(Byte) /\ v.len \in Nat
    BY LargeFields
  <2>2. /\ \A i \in 1 .. vstr_len(v) : vstr_data(w)[i] = vstr_data(v)[i]
        /\ \A i \in 1 .. Len(cs) : vstr_data(w)[vstr_len(v) + i] = cs[i]
        /\ vstr_len(w) = vstr_len(v) + Len(cs)
    BY <1>5, <1>6, <1>7, <2>1
  <2> QED BY <1>8, <2>1, <2>2, HoldsMore
<1> HIDE DEF w
<1>9. PushOK(v, cs, Result(w, 0))
  BY <1>5, <1>8 DEF PushOK, Result, StructOK
<1> QED BY <1>9 DEF w, buf, len

\* A call that returns -1 has enlarged the buffer at most.
LEMMA RefusedPush ==
    ASSUME NEW v, LargeOK(v), NEW cs, NEW data \in Seq(Byte),
           Len(v.data) <= Len(data), v.len < Len(data),
           \A i \in 1 .. Len(v.data) : data[i] = v.data[i],
           \A i \in 1 .. Len(data) : i > v.len => data[i] = NUL
    PROVE  PushOK(v, cs, Result(v, -1)) /\ PushOK(v, cs, Result(Large(data, v.len), -1))
<1> DEFINE w == Large(data, v.len)
<1>1. v.len \in 0 .. VSTR_MAX_LARGE_SIZE
  BY LargeFields, VstrAssumption
<1>2. LargeOK(w) /\ vstr_data(w) = data /\ vstr_len(w) = v.len
  BY <1>1, LargeIs
<1> HIDE DEF w
<1>3. ASSUME NEW x, Holds(v, x) PROVE Holds(w, x)
  <2>1. \A i \in 1 .. v.len : i \in 1 .. Len(v.data)
    BY LargeFields
  <2>2. x \in Seq(Byte) /\ Len(x) = v.len /\ \A i \in 1 .. Len(x) : x[i] = v.data[i]
    BY <1>3, LargeFields DEF Holds
  <2> QED BY <1>2, <2>1, <2>2 DEF Holds
<1>4. PushOK(v, cs, Result(w, -1)) /\ PushOK(v, cs, Result(v, -1))
  BY <1>2, <1>3 DEF PushOK, Result, StructOK
<1> QED BY <1>4 DEF w

\* A push that fails and changes nothing is a push.
LEMMA UnchangedPush ==
    ASSUME NEW v, LargeOK(v), NEW cs
    PROVE  PushOK(v, cs, Result(v, -1))
BY DEF PushOK, Result, StructOK

\* vstr_lg_push_char.
LEMMA LgPushChar ==
    ASSUME NEW v, LargeOK(v), NEW c \in Chars, NEW f \in BOOLEAN
    PROVE  PushOK(v, <<c>>, vstr_lg_push_char(v, c, f))
<1> DEFINE cap == Len(v.data)
           grows == v.len = cap - 1
           data == IF grows THEN v.data \o Zeros(cap) ELSE v.data
<1>1. CASE cap = 0 \/ (grows /\ f)
  <2>1. vstr_lg_push_char(v, c, f) = Result(v, -1)
    BY <1>1 DEF vstr_lg_push_char
  <2> QED BY <2>1, UnchangedPush
<1>2. CASE ~(cap = 0 \/ (grows /\ f))
  <2>1. vstr_lg_push_char(v, c, f) =
            IF v.len + 1 > VSTR_MAX_LARGE_SIZE THEN Result(Large(data, v.len), -1)
            ELSE Result(Large(Written(data, v.len, <<c>>), v.len + 1), 0)
    BY <1>2 DEF vstr_lg_push_char
  <2>2. /\ v.data \in Seq(Byte) /\ cap \in Nat /\ v.len \in Nat /\ v.len < cap
        /\ \A i \in 1 .. cap : i > v.len => v.data[i] = NUL
        /\ VSTR_MAX_LARGE_SIZE \in Nat
    BY <1>2, LargeFields, VstrAssumption
  <2>3. /\ data \in Seq(Byte) /\ Len(data) = (IF grows THEN cap + cap ELSE cap)
        /\ \A i \in 1 .. cap : data[i] = v.data[i]
        /\ \A i \in 1 .. Len(data) : i > v.len => data[i] = NUL
    <3>1. CASE ~grows
      BY <2>2, <3>1
    <3>2. CASE grows
      <4>1. data = v.data \o Zeros(cap)
        BY <3>2
      <4> HIDE DEF data, grows
      <4>2. /\ data \in Seq(Byte) /\ Len(data) = cap + cap
            /\ \A i \in 1 .. cap : data[i] = v.data[i]
            /\ \A i \in 1 .. (cap + cap) : i > cap => data[i] = NUL
        BY <2>2, <4>1, ExtendedIs
      <4> QED BY <2>2, <3>2, <4>2
    <3> QED BY <3>1, <3>2
  <2> HIDE DEF data
  <2>4. /\ v.len + 1 < Len(data) /\ Len(v.data) <= Len(data) /\ v.len < Len(data)
    BY <2>2, <2>3
  <2>5. CASE v.len + 1 > VSTR_MAX_LARGE_SIZE
    BY <2>1, <2>3, <2>4, <2>5, RefusedPush
  <2>6. CASE ~(v.len + 1 > VSTR_MAX_LARGE_SIZE)
    <3>1. <<c>> \in Seq(Byte) /\ Len(<<c>>) = 1
      BY DEF Byte
    <3>2. v.len + Len(<<c>>) = v.len + 1 /\ v.len + Len(<<c>>) <= VSTR_MAX_LARGE_SIZE
      BY <2>2, <2>6, <3>1
    <3>3. PICK cs \in Seq(Byte) : cs = <<c>>
      BY <3>1
    <3>4. PushOK(v, cs, Result(Large(Written(data, v.len, cs), v.len + Len(cs)), 0))
      BY <2>3, <2>4, <3>2, <3>3, WriteBehind
    <3> QED BY <2>1, <2>6, <3>2, <3>3, <3>4
  <2> QED BY <2>5, <2>6
<1> QED BY <1>1, <1>2

\* vstr_lg_push_string.
LEMMA LgPushString ==
    ASSUME NEW v, LargeOK(v), NEW cs \in Seq(Chars), NEW f \in BOOLEAN
    PROVE  PushOK(v, cs, vstr_lg_push_string(v, cs, f))
<1> DEFINE cap == Len(v.data)
           n == Len(cs)
           len == v.len + n
           grows == len > cap - 1
           data == IF grows THEN v.data \o Zeros(n) ELSE v.data
<1>1. CASE cap = 0 \/ len > VSTR_MAX_LARGE_SIZE \/ (grows /\ f)
  <2>1. vstr_lg_push_string(v, cs, f) = Result(v, -1)
    BY <1>1 DEF vstr_lg_push_string
  <2> QED BY <2>1, UnchangedPush
<1>2. CASE ~(cap = 0 \/ len > VSTR_MAX_LARGE_SIZE \/ (grows /\ f))
  <2>1. vstr_lg_push_string(v, cs, f) = Result(Large(Written(data, v.len, cs), len), 0)
    BY <1>2 DEF vstr_lg_push_string
  <2>2. /\ v.data \in Seq(Byte) /\ cap \in Nat /\ v.len \in Nat /\ v.len < cap
        /\ \A i \in 1 .. cap : i > v.len => v.data[i] = NUL
        /\ VSTR_MAX_LARGE_SIZE \in Nat /\ n \in Nat /\ cs \in Seq(Byte)
    BY <1>2, LargeFields, VstrAssumption DEF Byte
  <2>3. /\ data \in Seq(Byte) /\ Len(data) = (IF grows THEN cap + n ELSE cap)
        /\ \A i \in 1 .. cap : data[i] = v.data[i]
        /\ \A i \in 1 .. Len(data) : i > v.len => data[i] = NUL
    <3>1. CASE ~grows
      BY <2>2, <3>1
    <3>2. CASE grows
      <4>1. data = v.data \o Zeros(n)
        BY <3>2
      <4> HIDE DEF data, grows
      <4>2. /\ data \in Seq(Byte) /\ Len(data) = cap + n
            /\ \A i \in 1 .. cap : data[i] = v.data[i]
            /\ \A i \in 1 .. (cap + n) : i > cap => data[i] = NUL
        BY <2>2, <4>1, ExtendedIs
      <4> QED BY <2>2, <3>2, <4>2
    <3> QED BY <3>1, <3>2
  <2> HIDE DEF data
  <2>4. len < Len(data) /\ Len(v.data) <= Len(data) /\ len <= VSTR_MAX_LARGE_SIZE
    BY <1>2, <2>2, <2>3
  <2>5. PushOK(v, cs, Result(Large(Written(data, v.len, cs), v.len + Len(cs)), 0))
    BY <2>2, <2>3, <2>4, WriteBehind
  <2> QED BY <2>1, <2>5
<1> QED BY <1>1, <1>2

\* What a small string is known to satisfy.
LEMMA SmallFields ==
    ASSUME NEW v, SmallOK(v)
    PROVE  /\ vstr_data(v) = v.sm /\ vstr_len(v) = VSTR_MAX_SMALL_SIZE - v.small_avail
           /\ ~v.is_large /\ v.sm \in Seq(Byte) /\ Len(v.sm) = VSTR_MAX_SMALL_SIZE
           /\ v.small_avail \in Nat /\ v.small_avail <= VSTR_MAX_SMALL_SIZE
           /\ VSTR_MAX_SMALL_SIZE \in Nat /\ vstr_len(v) \in Nat
           /\ \A i \in 1 .. VSTR_MAX_SMALL_SIZE : i > vstr_len(v) => v.sm[i] \in {NUL, Junk}
<1>1. vstr_data(v) = v.sm /\ vstr_len(v) = VSTR_MAX_SMALL_SIZE - v.small_avail /\ ~v.is_large
  BY DEF SmallOK, vstr_data, vstr_len
<1>2. VSTR_MAX_SMALL_SIZE \in Nat
  BY VstrAssumption
<1> QED BY <1>1, <1>2 DEF SmallOK

\* A string that still fits into the struct.
LEMMA SmallPush ==
    ASSUME NEW v, SmallOK(v), NEW cs \in Seq(Byte), Len(cs) <= v.small_avail
    PROVE  PushOK(v, cs, Result(Small(Written(v.sm, vstr_len(v), cs),
                                      v.small_avail - Len(cs)), 0))
<1>1. PICK at \in Nat : at = vstr_len(v) /\ at = VSTR_MAX_SMALL_SIZE - v.small_avail
  BY SmallFields
<1>2. PICK n \in Nat : n = Len(cs)
  OBVIOUS
<1>3. PICK avail : avail = v.small_avail - n
  OBVIOUS
<1>4. /\ avail \in 0 .. VSTR_MAX_SMALL_SIZE /\ VSTR_MAX_SMALL_SIZE - avail = at + n
      /\ VSTR_MAX_SMALL_SIZE \in Nat
  BY <1>1, <1>2, <1>3, SmallFields
<1> DEFINE buf == Written(v.sm, at, cs)
           w == Small(buf, avail)
<1>5. /\ buf \in Seq(Byte) /\ Len(buf) = VSTR_MAX_SMALL_SIZE
      /\ \A i \in 1 .. VSTR_MAX_SMALL_SIZE :
             buf[i] = IF at < i /\ i <= at + n THEN cs[i - at] ELSE v.sm[i]
  <2>1. v.sm \in Seq(Byte) /\ Len(v.sm) = VSTR_MAX_SMALL_SIZE
    BY SmallFields
  <2> QED BY <1>2, <2>1, WrittenIs
<1> HIDE DEF buf
<1>6. \A i \in 1 .. VSTR_MAX_SMALL_SIZE :
          i > VSTR_MAX_SMALL_SIZE - avail => buf[i] \in {NUL, Junk}
  <2>1. \A i \in 1 .. VSTR_MAX_SMALL_SIZE : i > at => v.sm[i] \in {NUL, Junk}
    BY <1>1, SmallFields
  <2> QED BY <1>4, <1>5, <2>1
<1>7. SmallOK(w) /\ vstr_data(w) = buf /\ vstr_len(w) = at + n
  BY <1>4, <1>5, <1>6, SmallIs
<1>8. ASSUME NEW i \in 1 .. at PROVE buf[i] = v.sm[i]
  BY <1>1, <1>4, <1>5, SmallFields
<1>9. ASSUME NEW i \in 1 .. n PROVE buf[at + i] = cs[i]
  <2>1. PICK k : k = at + i
    OBVIOUS
  <2>2. at + n <= VSTR_MAX_SMALL_SIZE
    BY <1>4
  <2>3. k \in 1 .. VSTR_MAX_SMALL_SIZE /\ at < k /\ k <= at + n /\ k - at = i
    BY <1>4, <2>1, <2>2
  <2>4. buf[k] = cs[k - at]
    BY <1>5, <2>3
  <2> QED BY <2>1, <2>3, <2>4
<1> HIDE DEF w
<1>10. ASSUME NEW x, Holds(v, x) PROVE Holds(w, x \o cs)
  <2>1. /\ vstr_data(v) \in Seq(Byte) /\ vstr_len(v) \in Nat
        /\ vstr_len(w) = vstr_len(v) + Len(cs)
        /\ \A i \in 1 .. vstr_len(v) : vstr_data(w)[i] = vstr_data(v)[i]
        /\ \A i \in 1 .. Len(cs) : vstr_data(w)[vstr_len(v) + i] = cs[i]
    BY <1>1, <1>2, <1>7, <1>8, <1>9, SmallFields
  <2> QED BY <1>10, <2>1, HoldsMore
<1>11. PushOK(v, cs, Result(w, 0))
  BY <1>7, <1>10 DEF PushOK, Result, StructOK
<1> QED BY <1>1, <1>2, <1>3, <1>11 DEF w, buf

\* A call that fails on a small string.
LEMMA LostPush ==
    ASSUME NEW v, SmallOK(v), NEW w, StructOK(w), NEW cs
    PROVE  PushOK(v, cs, Result(w, -1))
BY SmallFields DEF PushOK, Result

\* A small string that has become the large string w.
LEMMA MovedPush ==
    ASSUME NEW v, SmallOK(v), NEW w, NEW cs, NEW o, PushOK(w, cs, o),
           \A x : Holds(v, x) => Holds(w, x)
    PROVE  PushOK(v, cs, o)
BY SmallFields DEF PushOK

\* A small form of NULs is a small string whatever its small_avail.
LEMMA ClearSmall ==
    /\ ZeroSmall \in Seq(Byte) /\ Len(ZeroSmall) = VSTR_MAX_SMALL_SIZE
    /\ \A i \in 1 .. VSTR_MAX_SMALL_SIZE : ZeroSmall[i] = NUL
    /\ \A avail \in 0 .. VSTR_MAX_SMALL_SIZE : SmallOK(Small(ZeroSmall, avail))
<1>1. VSTR_MAX_SMALL_SIZE \in Nat
  BY VstrAssumption
<1>2. /\ ZeroSmall \in Seq(Byte) /\ Len(ZeroSmall) = VSTR_MAX_SMALL_SIZE
      /\ \A i \in 1 .. VSTR_MAX_SMALL_SIZE : ZeroSmall[i] = NUL
  BY <1>1, ZerosAre DEF ZeroSmall
<1> QED BY <1>2, SmallIs

\* vstr_push_char, through the change of form.
LEMMA PushCharOK ==
    ASSUME NEW v, StructOK(v), NEW c \in Chars, NEW f \in BOOLEAN, NEW g \in BOOLEAN
    PROVE  PushOK(v, <<c>>, vstr_push_char(v, c, f, g))
<1>1. CASE LargeOK(v)
  <2>1. vstr_push_char(v, c, f, g) = vstr_lg_push_char(v, c, f)
    BY <1>1, LargeFields DEF vstr_push_char
  <2> QED BY <1>1, <2>1, LgPushChar
<1>2. CASE SmallOK(v)
  <2>1. /\ ~v.is_large /\ v.small_avail \in Nat /\ VSTR_MAX_SMALL_SIZE \in Nat \ {0}
        /\ VSTR_MAX_SMALL_SIZE < VSTR_MAX_LARGE_SIZE /\ VSTR_MAX_LARGE_SIZE \in Nat
    BY <1>2, SmallFields, VstrAssumption
  <2>2. CASE v.small_avail > 0
    <3>1. PICK cs \in Seq(Byte) : cs = <<c>> /\ Len(cs) = 1
      <4>1. c \in Byte
        BY DEF Byte
      <4>2. <<c>> \in Seq(Byte) /\ Len(<<c>>) = 1
        BY <4>1
      <4> QED BY <4>2
    <3>2. Len(cs) <= v.small_avail
      BY <2>1, <2>2, <3>1
    <3>3. PushOK(v, cs, Result(Small(Written(v.sm, vstr_len(v), cs), v.small_avail - Len(cs)), 0))
      BY <1>2, <3>2, SmallPush
    <3>4. vstr_push_char(v, c, f, g) =
              Result(Small(Written(v.sm, vstr_len(v), <<c>>), v.small_avail - 1), 0)
      BY <2>1, <2>2 DEF vstr_push_char
    <3> QED BY <3>1, <3>3, <3>4
  <2>3. CASE ~(v.small_avail > 0) /\ f
    <3>1. vstr_push_char(v, c, f, g) = Result(Small(ZeroSmall, 0), -1)
      BY <2>1, <2>3 DEF vstr_push_char
    <3>2. StructOK(Small(ZeroSmall, 0))
      BY <2>1, ClearSmall DEF StructOK
    <3> QED BY <1>2, <3>1, <3>2, LostPush
  <2>4. CASE ~(v.small_avail > 0) /\ ~f
    <3> DEFINE d == v.sm \o Zeros(2)
               w == Large(d, VSTR_MAX_SMALL_SIZE)
    <3>1. /\ v.sm \in Seq(Byte) /\ Len(v.sm) = VSTR_MAX_SMALL_SIZE
          /\ vstr_data(v) = v.sm /\ vstr_len(v) = VSTR_MAX_SMALL_SIZE
      BY <1>2, <2>1, <2>4, SmallFields
    <3>2. /\ d \in Seq(Byte) /\ Len(d) = VSTR_MAX_SMALL_SIZE + 2
          /\ \A i \in 1 .. VSTR_MAX_SMALL_SIZE : d[i] = v.sm[i]
          /\ \A i \in 1 .. Len(d) : i > VSTR_MAX_SMALL_SIZE => d[i] = NUL
      <4>1. PICK k \in Nat : k = 2
        OBVIOUS
      <4>2. PICK b \in Seq(Byte) : b = v.sm
        BY <3>1
      <4>3. PICK z : z = b \o Zeros(k)
        OBVIOUS
      <4>4. /\ z \in Seq(Byte) /\ Len(z) = Len(b) + k
            /\ \A i \in 1 .. Len(b) : z[i] = b[i]
            /\ \A i \in 1 .. (Len(b) + k) : i > Len(b) => z[i] = NUL
        BY <4>3, ExtendedIs
      <4>5. d = z
        BY <4>1, <4>2, <4>3
      <4> HIDE DEF d
      <4> QED BY <3>1, <4>1, <4>2, <4>4, <4>5
    <3> HIDE DEF d
    <3>3. LargeOK(w) /\ vstr_data(w) = d /\ vstr_len(w) = VSTR_MAX_SMALL_SIZE
      BY <2>1, <3>2, LargeIs
    <3> HIDE DEF w
    <3>4. \A x : Holds(v, x) => Holds(w, x)
      BY <3>1, <3>2, <3>3 DEF Holds
    <3>5. vstr_push_char(v, c, f, g) = vstr_lg_push_char(w, c, g)
      BY <2>1, <2>4 DEF vstr_push_char, w, d
    <3>6. PushOK(w, <<c>>, vstr_lg_push_char(w, c, g))
      BY <3>3, LgPushChar
    <3> QED BY <1>2, <3>4, <3>5, <3>6, MovedPush
  <2> QED BY <2>2, <2>3, <2>4
<1> QED BY <1>1, <1>2 DEF StructOK

\* What a caller sees of a string is the string.
LEMMA ContentsAre ==
    ASSUME NEW v, StructOK(v)
    PROVE  /\ vstr_data(v) \in Seq(Byte) /\ vstr_len(v) \in Nat
           /\ Contents(v) \in Seq(Byte) /\ Len(Contents(v)) = vstr_len(v)
           /\ \A i \in 1 .. vstr_len(v) : Contents(v)[i] = vstr_data(v)[i]
<1>1. /\ vstr_data(v) \in Seq(Byte) /\ vstr_len(v) \in Nat
      /\ vstr_len(v) <= Len(vstr_data(v))
  BY LargeFields, SmallFields DEF StructOK
<1> QED BY <1>1 DEF Contents

\* vstr_push_string, through the change of form.
LEMMA PushStringOK ==
    ASSUME NEW v, StructOK(v), NEW cs \in Seq(Chars), NEW f \in BOOLEAN, NEW g \in BOOLEAN
    PROVE  PushOK(v, cs, vstr_push_string(v, cs, f, g))
<1>1. CASE LargeOK(v)
  <2>1. vstr_push_string(v, cs, f, g) = vstr_lg_push_string(v, cs, f)
    BY <1>1, LargeFields DEF vstr_push_string
  <2> QED BY <1>1, <2>1, LgPushString
<1>2. CASE SmallOK(v)
  <2>1. /\ ~v.is_large /\ VSTR_MAX_SMALL_SIZE \in Nat \ {0} /\ cs \in Seq(Byte)
        /\ VSTR_MAX_SMALL_SIZE < VSTR_MAX_LARGE_SIZE /\ VSTR_MAX_LARGE_SIZE \in Nat
        /\ vstr_len(v) \in 0 .. VSTR_MAX_SMALL_SIZE
    BY <1>2, SmallFields, VstrAssumption DEF Byte
  <2>2. CASE Len(cs) <= v.small_avail
    <3>1. vstr_push_string(v, cs, f, g) =
              Result(Small(Written(v.sm, vstr_len(v), cs), v.small_avail - Len(cs)), 0)
      BY <2>1, <2>2 DEF vstr_push_string
    <3> QED BY <1>2, <2>1, <2>2, <3>1, SmallPush
  <2>3. CASE ~(Len(cs) <= v.small_avail)
    <3> DEFINE d == vstr_make_lg_len(Contents(v), f)
               n == vstr_len(v)
               w == Large(d, IF d = <<>> THEN 0 ELSE n)
    <3>1. vstr_push_string(v, cs, f, g) = vstr_lg_push_string(w, cs, g)
      BY <2>1, <2>3 DEF vstr_push_string
    <3>2. Contents(v) \in Seq(Byte) /\ Len(Contents(v)) = n
      BY ContentsAre
    <3>3. CASE f
      <4>1. d = <<>> /\ w = Large(<<>>, 0)
        BY <3>3 DEF vstr_make_lg_len
      <4>2. PICK e \in Seq(Byte) : e = <<>> /\ Len(e) = 0
        <5>1. <<>> \in Seq(Byte) /\ Len(<<>>) = 0
          OBVIOUS
        <5> QED BY <5>1
      <4>3. w = Large(e, 0)
        BY <4>1, <4>2
      <4> HIDE DEF w
      <4>4. LargeOK(w) /\ w.data = e
        <5>1. 0 \in 0 .. VSTR_MAX_LARGE_SIZE /\ \A i \in 1 .. Len(e) : i > 0 => e[i] = NUL
          BY <2>1, <4>2
        <5> QED BY ZenonT(60), <4>2, <4>3, <5>1, LargeIs
      <4>5. vstr_lg_push_string(w, cs, g) = Result(w, -1)
        BY <4>2, <4>4 DEF vstr_lg_push_string
      <4> QED BY <1>2, <3>1, <4>4, <4>5, LostPush DEF StructOK
    <3>4. CASE ~f
      <4>1. d = Append(Contents(v), NUL)
        BY <2>1, <3>2, <3>4 DEF vstr_make_lg_len
      <4>2. /\ d \in Seq(Byte) /\ Len(d) = n + 1 /\ d[n + 1] = NUL
            /\ \A i \in 1 .. n : d[i] = Contents(v)[i]
        <5>1. NUL \in Byte
          BY DEF Byte
        <5> HIDE DEF d
        <5> QED BY <2>1, <3>2, <4>1, <5>1
      <4> HIDE DEF d
      <4>3. d # <<>>
        BY <2>1, <4>2
      <4>4. w = Large(d, n)
        BY <4>3
      <4> HIDE DEF w
      <4>5. /\ n \in 0 .. VSTR_MAX_LARGE_SIZE /\ n < Len(d)
            /\ \A i \in 1 .. Len(d) : i > n => d[i] = NUL
        BY <2>1, <4>2
      <4>6. LargeOK(w) /\ vstr_data(w) = d /\ vstr_len(w) = n
        BY <4>2, <4>4, <4>5, LargeIs
      <4>7. \A x : Holds(v, x) => Holds(w, x)
        BY <4>2, <4>6, ContentsAre DEF Holds
      <4>8. PushOK(w, cs, vstr_lg_push_string(w, cs, g))
        BY <4>6, LgPushString
      <4> QED BY <1>2, <3>1, <4>7, <4>8, MovedPush
    <3> QED BY <3>3, <3>4
  <2> QED BY <2>2, <2>3
<1> QED BY <1>1, <1>2 DEF StructOK

\* vstr_from_len and vstr_from, unless the large form got no memory.
LEMMA FromOK ==
    ASSUME NEW cs \in Seq(Chars), NEW f \in BOOLEAN
    PROVE  /\ StructOK(vstr_from_len(cs, f))
           /\ \/ Holds(vstr_from_len(cs, f), cs)
              \/ Len(cs) > VSTR_MAX_SMALL_SIZE /\ vstr_make_lg_len(cs, f) = <<>>
<1>1. /\ VSTR_MAX_SMALL_SIZE \in Nat /\ VSTR_MAX_LARGE_SIZE \in Nat /\ cs \in Seq(Byte)
      /\ VSTR_MAX_SMALL_SIZE < VSTR_MAX_LARGE_SIZE
  BY VstrAssumption DEF Byte
<1>2. PICK n \in Nat : n = Len(cs)
  OBVIOUS
<1>3. CASE n <= VSTR_MAX_SMALL_SIZE
  <2> DEFINE buf == Written(ZeroSmall, 0, cs)
             w == Small(buf, VSTR_MAX_SMALL_SIZE - n)
  <2>1. /\ buf \in Seq(Byte) /\ Len(buf) = VSTR_MAX_SMALL_SIZE
        /\ \A i \in 1 .. VSTR_MAX_SMALL_SIZE :
               buf[i] = IF 0 < i /\ i <= 0 + n THEN cs[i - 0] ELSE ZeroSmall[i]
    <3>1. PICK at \in Nat : at = 0
      OBVIOUS
    <3>2. buf = Written(ZeroSmall, at, cs)
      BY <3>1
    <3> HIDE DEF buf
    <3>3. /\ buf \in Seq(Byte) /\ Len(buf) = VSTR_MAX_SMALL_SIZE
          /\ \A i \in 1 .. VSTR_MAX_SMALL_SIZE :
                 buf[i] = IF at < i /\ i <= at + n THEN cs[i - at] ELSE ZeroSmall[i]
      BY <1>1, <1>2, <3>2, ClearSmall, WrittenIs
    <3> QED BY <3>1, <3>3
  <2> HIDE DEF buf
  <2>2. /\ VSTR_MAX_SMALL_SIZE - n \in 0 .. VSTR_MAX_SMALL_SIZE
        /\ VSTR_MAX_SMALL_SIZE - (VSTR_MAX_SMALL_SIZE - n) = n
    BY <1>1, <1>3
  <2>3. \A i \in 1 .. VSTR_MAX_SMALL_SIZE : i > n => buf[i] \in {NUL, Junk}
    BY <1>1, <2>1, ClearSmall
  <2>4. SmallOK(w) /\ vstr_data(w) = buf /\ vstr_len(w) = n
    BY <2>1, <2>2, <2>3, SmallIs
  <2>5. vstr_from_len(cs, f) = w
    BY <1>2, <1>3 DEF vstr_from_len, buf
  <2> HIDE DEF w
  <2>6. \A i \in 1 .. n : buf[i] = cs[i]
    BY <1>1, <1>3, <2>1
  <2>7. Holds(w, cs)
    BY <1>1, <1>2, <2>4, <2>6 DEF Holds
  <2> QED BY <2>4, <2>5, <2>7 DEF StructOK
<1>4. CASE ~(n <= VSTR_MAX_SMALL_SIZE)
  <2> DEFINE d == vstr_make_lg_len(cs, f)
  <2>1. vstr_from_len(cs, f) = IF d = <<>> THEN Small(ZeroSmall, 0) ELSE Large(d, n)
    BY <1>2, <1>4 DEF vstr_from_len
  <2>2. CASE d = <<>>
    <3>1. StructOK(Small(ZeroSmall, 0))
      BY <1>1, ClearSmall DEF StructOK
    <3>2. vstr_from_len(cs, f) = Small(ZeroSmall, 0)
      BY <2>1, <2>2
    <3> QED BY <1>1, <1>2, <1>4, <2>2, <3>1, <3>2
  <2>3. CASE d # <<>>
    <3>1. d = Append(cs, NUL) /\ n < VSTR_MAX_LARGE_SIZE
      BY <1>1, <1>2, <2>3 DEF vstr_make_lg_len
    <3> HIDE DEF d
    <3>2. /\ d \in Seq(Byte) /\ Len(d) = n + 1 /\ d[n + 1] = NUL
          /\ \A i \in 1 .. n : d[i] = cs[i]
      <4>1. NUL \in Byte
        BY DEF Byte
      <4> QED BY <1>1, <1>2, <3>1, <4>1
    <3>3. /\ n \in 0 .. VSTR_MAX_LARGE_SIZE /\ n < Len(d)
          /\ \A i \in 1 .. Len(d) : i > n => d[i] = NUL
      BY <1>1, <3>1, <3>2
    <3>4. PICK w : w = Large(d, n)
      OBVIOUS
    <3>5. LargeOK(w) /\ vstr_data(w) = d /\ vstr_len(w) = n
      BY <3>2, <3>3, <3>4, LargeIs
    <3>6. Holds(w, cs)
      BY <1>1, <1>2, <3>2, <3>5 DEF Holds
    <3> QED BY <2>1, <2>3, <3>4, <3>5, <3>6 DEF StructOK
  <2> QED BY <2>2, <2>3
<1> QED BY <1>3, <1>4

\* vstr_format.
LEMMA FormatOK ==
    ASSUME NEW cs \in Seq(Chars), Len(cs) + 1 <= VSTR_MAX_LARGE_SIZE
    PROVE  StructOK(vstr_format(cs)) /\ Holds(vstr_format(cs), cs)
<1>1. /\ VSTR_MAX_SMALL_SIZE \in Nat /\ VSTR_MAX_LARGE_SIZE \in Nat /\ cs \in Seq(Byte)
      /\ VSTR_MAX_SMALL_SIZE < VSTR_MAX_LARGE_SIZE
  BY VstrAssumption DEF Byte
<1>2. PICK n \in Nat : n = Len(cs)
  OBVIOUS
<1>3. PICK at \in Nat : at = 0
  OBVIOUS
<1>4. CASE n + 1 > VSTR_MAX_SMALL_SIZE
  <2>1. PICK k \in Nat : k = n + 2
    OBVIOUS
  <2>2. PICK z : z = Zeros(k)
    OBVIOUS
  <2>3. z \in Seq(Byte) /\ Len(z) = k /\ \A i \in 1 .. k : z[i] = NUL
    BY <2>2, ZerosAre
  <2>4. PICK buf : buf = Written(z, at, cs)
    OBVIOUS
  <2>5. /\ buf \in Seq(Byte) /\ Len(buf) = k
        /\ \A i \in 1 .. k : buf[i] = IF at < i /\ i <= at + n THEN cs[i - at] ELSE z[i]
    BY <1>1, <1>2, <2>3, <2>4, WrittenIs
  <2>6. /\ \A i \in 1 .. n : buf[i] = cs[i]
        /\ \A i \in 1 .. Len(buf) : i > n => buf[i] = NUL
    BY <1>3, <2>1, <2>3, <2>5
  <2>7. PICK w : w = Large(buf, n)
    OBVIOUS
  <2>8. n \in 0 .. VSTR_MAX_LARGE_SIZE /\ n < Len(buf)
    BY <1>1, <1>2, <2>1, <2>5
  <2>9. LargeOK(w) /\ vstr_data(w) = buf /\ vstr_len(w) = n
    BY <2>5, <2>6, <2>7, <2>8, LargeIs
  <2>10. vstr_format(cs) = w
    <3>1. (n + 1) + 1 = k /\ (n + 1) - 1 = n
      BY <2>1
    <3>2. PICK v : v = vstr_new_len(n + 1)
      OBVIOUS
    <3>3. v = Large(z, 0)
      BY <1>4, <2>2, <3>1, <3>2 DEF vstr_new_len
    <3>4. v.is_large /\ v.data = z
      BY <3>3 DEF Large
    <3>5. vstr_format(cs) = Large(Written(v.data, 0, cs), (n + 1) - 1)
      BY <1>2, <3>2, <3>4 DEF vstr_format
    <3> QED BY <1>3, <2>4, <2>7, <3>1, <3>4, <3>5
  <2>11. Holds(w, cs)
    BY <1>1, <1>2, <2>6, <2>9 DEF Holds
  <2> QED BY <2>9, <2>10, <2>11 DEF StructOK
<1>5. CASE ~(n + 1 > VSTR_MAX_SMALL_SIZE)
  <2>1. PICK buf : buf = Written(ZeroSmall, at, cs)
    OBVIOUS
  <2>2. /\ buf \in Seq(Byte) /\ Len(buf) = VSTR_MAX_SMALL_SIZE
        /\ \A i \in 1 .. VSTR_MAX_SMALL_SIZE :
               buf[i] = IF at < i /\ i <= at + n THEN cs[i - at] ELSE ZeroSmall[i]
    BY SMTT(60), <1>1, <1>2, <2>1, ClearSmall, WrittenIs
  <2>3. PICK avail : avail = VSTR_MAX_SMALL_SIZE - (n + 1) + 1
    OBVIOUS
  <2>4. avail \in 0 .. VSTR_MAX_SMALL_SIZE /\ VSTR_MAX_SMALL_SIZE - avail = n
    BY <1>1, <1>5, <2>3
  <2>5. /\ \A i \in 1 .. n : buf[i] = cs[i]
        /\ \A i \in 1 .. VSTR_MAX_SMALL_SIZE : i > n => buf[i] \in {NUL, Junk}
    BY <1>1, <1>3, <1>5, <2>2, ClearSmall
  <2>6. PICK w : w = Small(buf, avail)
    OBVIOUS
  <2>7. SmallOK(w) /\ vstr_data(w) = buf /\ vstr_len(w) = n
    BY <2>2, <2>4, <2>5, <2>6, SmallIs
  <2>8. vstr_format(cs) = w
    <3>1. PICK v : v = vstr_new_len(n + 1)
      OBVIOUS
    <3>2. ~v.is_large /\ v.sm = ZeroSmall
      BY <1>5, <3>1 DEF vstr_new_len, vstr_new, Small
    <3>3. vstr_format(cs) = Small(Written(v.sm, 0, cs), VSTR_MAX_SMALL_SIZE - (n + 1) + 1)
      BY <1>2, <3>1, <3>2 DEF vstr_format
    <3> QED BY <1>3, <2>1, <2>3, <2>6, <3>2, <3>3
  <2>9. Holds(w, cs)
    BY <1>1, <1>2, <2>5, <2>7 DEF Holds
  <2> QED BY <2>7, <2>8, <2>9 DEF StructOK
<1> QED BY <1>4, <1>5

\* vstr_reset.
LEMMA ResetOK ==
    ASSUME NEW v, StructOK(v)
    PROVE  StructOK(vstr_reset(v)) /\ Holds(vstr_reset(v), <<>>)
<1>1. PICK sm : sm = IF v.is_large THEN v.sm ELSE ZeroSmall
  OBVIOUS
<1>2. /\ sm \in Seq(Byte) /\ Len(sm) = VSTR_MAX_SMALL_SIZE
      /\ \A i \in 1 .. VSTR_MAX_SMALL_SIZE : sm[i] \in {NUL, Junk}
  BY <1>1, ClearSmall DEF StructOK, LargeOK, SmallOK
<1>3. PICK w : w = Small(sm, VSTR_MAX_SMALL_SIZE)
  OBVIOUS
<1>4. VSTR_MAX_SMALL_SIZE \in 0 .. VSTR_MAX_SMALL_SIZE
      /\ VSTR_MAX_SMALL_SIZE - VSTR_MAX_SMALL_SIZE = 0
  BY VstrAssumption
<1>5. SmallOK(w) /\ vstr_len(w) = 0
  BY <1>2, <1>3, <1>4, SmallIs
<1>6. Holds(w, <<>>)
  BY <1>5 DEF Holds
<1> QED BY <1>1, <1>3, <1>5, <1>6 DEF vstr_reset, StructOK

\* vstr_new.
LEMMA NewOK == StructOK(vstr_new) /\ Holds(vstr_new, <<>>)
<1>1. SmallOK(vstr_new)
  BY ClearSmall, VstrAssumption DEF vstr_new
<1>2. vstr_reset(vstr_new) = vstr_new
  BY <1>1, SmallFields DEF vstr_reset, vstr_new
<1> QED BY <1>1, <1>2, ResetOK DEF StructOK

\* vstr_new_len: the buffer is all zeros.
LEMMA NewLenOK ==
    ASSUME NEW n \in 0 .. VSTR_MAX_LARGE_SIZE
    PROVE  StructOK(vstr_new_len(n)) /\ Holds(vstr_new_len(n), <<>>)
<1>1. CASE n > VSTR_MAX_SMALL_SIZE
  <2>1. n \in Nat /\ n + 1 \in Nat /\ n + 1 > 0 /\ 0 \in 0 .. VSTR_MAX_LARGE_SIZE
    BY VstrAssumption
  <2>2. PICK z : z = Zeros(n + 1)
    OBVIOUS
  <2>3. z \in Seq(Byte) /\ Len(z) = n + 1 /\ \A i \in 1 .. (n + 1) : z[i] = NUL
    BY <2>1, <2>2, ZerosAre
  <2>4. PICK w : w = Large(z, 0)
    OBVIOUS
  <2>5. 0 < Len(z) /\ \A i \in 1 .. Len(z) : i > 0 => z[i] = NUL
    BY <2>1, <2>3
  <2>6. LargeOK(w) /\ vstr_len(w) = 0
    BY <2>1, <2>3, <2>4, <2>5, LargeIs
  <2>7. Holds(w, <<>>)
    BY <2>6 DEF Holds
  <2> QED BY <1>1, <2>2, <2>4, <2>6, <2>7 DEF vstr_new_len, StructOK
<1>2. CASE ~(n > VSTR_MAX_SMALL_SIZE)
  BY <1>2, NewOK, Zenon DEF vstr_new_len
<1> QED BY <1>1, <1>2

-----------------------------------------------------------------------------
(* The invariant *)

\* The initial state satisfies the inductive invariant.
LEMMA VstrInit == Init => VstrOK
<1> SUFFICES ASSUME Init PROVE VstrOK
  OBVIOUS
<1>1. str \in Seq(Chars)
  BY DEF Init
<1>2. StructOK(s) /\ Holds(s, str)
  BY NewOK, Zenon DEF Init
<1> QED BY <1>1, <1>2 DEF VstrOK, Init

\* A push keeps it.
LEMMA PushedOK ==
    ASSUME VstrOK, NEW cs \in Seq(Chars), NEW o, PushOK(s, cs, o), Pushed(cs, o)
    PROVE  VstrOK'
<1>1. /\ s' = o.v /\ str' = (IF o.r = 0 THEN str \o cs ELSE str)
      /\ lost' = (lost \/ (o.r = -1 /\ ~s.is_large))
  BY DEF Pushed
<1>2. StructOK(s') /\ o.r \in {0, -1}
  BY <1>1 DEF PushOK
<1>3. str' \in Seq(Chars) /\ lost' \in BOOLEAN
  BY <1>1 DEF VstrOK
<1>4. ASSUME ~lost' PROVE Holds(s', str')
  <2>1. ~lost /\ Holds(s, str) /\ (o.r = -1 => s.is_large)
    BY <1>1, <1>4 DEF VstrOK
  <2>2. CASE o.r = 0
    BY <1>1, <2>1, <2>2 DEF PushOK
  <2>3. CASE o.r = -1
    BY <1>1, <2>1, <2>3 DEF PushOK
  <2> QED BY <1>2, <2>2, <2>3
<1> QED BY <1>2, <1>3, <1>4 DEF VstrOK

\* Every call keeps it.
LEMMA VstrNext == VstrOK /\ [Next]_vstrVars => VstrOK'
<1> SUFFICES ASSUME VstrOK, [Next]_vstrVars PROVE VstrOK'
  OBVIOUS
<1>1. StructOK(s) /\ Fails \subseteq BOOLEAN /\ Pieces \subseteq Seq(Chars)
  BY VstrAssumption DEF VstrOK, Fails
<1>2. CASE New
  <2>1. str' \in Seq(Chars)
    BY <1>2 DEF New
  <2>2. StructOK(s') /\ Holds(s', str')
    BY <1>1, <1>2, NewOK, Zenon DEF New
  <2> QED BY <1>2, <2>1, <2>2 DEF VstrOK, New
<1>3. CASE Reset
  <2>1. str' \in Seq(Chars)
    BY <1>3 DEF Reset
  <2>2. StructOK(s') /\ Holds(s', str')
    BY <1>1, <1>3, ResetOK, Zenon DEF Reset
  <2> QED BY <1>3, <2>1, <2>2 DEF VstrOK, Reset
<1>4. ASSUME NEW c \in Chars, PushChar(c) PROVE VstrOK'
  <2>1. PICK f, g \in Fails : Pushed(<<c>>, vstr_push_char(s, c, f, g))
    BY <1>4 DEF PushChar
  <2>2. PushOK(s, <<c>>, vstr_push_char(s, c, f, g))
    BY <1>1, PushCharOK
  <2>3. <<c>> \in Seq(Chars)
    OBVIOUS
  <2> QED BY <2>1, <2>2, <2>3, PushedOK
<1>5. ASSUME NEW cs \in Pieces, PushString(cs) PROVE VstrOK'
  <2>1. PICK f, g \in Fails : Pushed(cs, vstr_push_string(s, cs, f, g))
    BY <1>5 DEF PushString
  <2>2. PushOK(s, cs, vstr_push_string(s, cs, f, g))
    BY <1>1, PushStringOK
  <2> QED BY <1>1, <2>1, <2>2, PushedOK
<1>6. ASSUME NEW cs \in Pieces, From(cs) PROVE VstrOK'
  <2>1. PICK f \in Fails :
            /\ s' = vstr_from_len(cs, f) /\ str' = cs
            /\ lost' = (Len(cs) > VSTR_MAX_SMALL_SIZE /\ vstr_make_lg_len(cs, f) = <<>>)
    BY <1>6 DEF From
  <2>2. /\ StructOK(s') /\ cs \in Seq(Chars)
        /\ Holds(s', cs) \/ (Len(cs) > VSTR_MAX_SMALL_SIZE /\ vstr_make_lg_len(cs, f) = <<>>)
    BY <1>1, <2>1, FromOK
  <2>3. lost' \in BOOLEAN /\ (~lost' => Holds(s', str'))
    BY <2>1, <2>2
  <2> QED BY <2>1, <2>2, <2>3 DEF VstrOK
<1>7. ASSUME NEW cs \in Pieces, Format(cs) PROVE VstrOK'
  BY <1>1, <1>7, FormatOK DEF Format, VstrOK
<1>8. ASSUME NEW n \in 0 .. VSTR_MAX_LARGE_SIZE, NewLen(n) PROVE VstrOK'
  <2>1. str' \in Seq(Chars)
    BY <1>8 DEF NewLen
  <2>2. StructOK(s') /\ Holds(s', str')
    BY <1>8, NewLenOK, Zenon DEF NewLen
  <2> QED BY <1>8, <2>1, <2>2 DEF VstrOK, NewLen
<1>9. CASE UNCHANGED vstrVars
  BY <1>9 DEF vstrVars, VstrOK
<1> QED BY <1>2, <1>3, <1>4, <1>5, <1>6, <1>7, <1>8, <1>9 DEF Next

\* It holds after any calls.
LEMMA VstrInvariant == VstrSpec => []VstrOK
BY VstrInit, VstrNext, PTL DEF VstrSpec

\* Every write of vstr.c is within the struct or the buffer, whatever is pushed in
\* whatever order, and whichever allocations fail.
THEOREM StringsInBounds == VstrSpec => []InBounds
<1>1. VstrOK => InBounds
  <2> SUFFICES ASSUME VstrOK PROVE InBounds
    OBVIOUS
  <2>1. CASE SmallOK(s)
    BY <2>1, VstrAssumption DEF SmallOK, InBounds
  <2>2. CASE LargeOK(s)
    <3>1. DOMAIN s.sm = 1 .. VSTR_MAX_SMALL_SIZE /\ s.small_avail \in 0 .. VSTR_MAX_SMALL_SIZE
      BY <2>2, VstrAssumption DEF LargeOK
    <3>2. s.len < Len(s.data) \/ (s.len = 0 /\ s.data = <<>>)
      BY <2>2 DEF LargeOK
    <3>3. s.len \in 0 .. VSTR_MAX_LARGE_SIZE
      BY <2>2 DEF LargeOK
    <3> QED BY <3>1, <3>2, <3>3 DEF InBounds
  <2> QED BY <2>1, <2>2 DEF VstrOK, StructOK
<1> QED BY <1>1, VstrInvariant, PTL

\* A string that has lost nothing has the contents that were pushed.
LEMMA HeldString == VstrOK /\ ~lost => Contents(s) = str
<1> SUFFICES ASSUME VstrOK, ~lost PROVE Contents(s) = str
  OBVIOUS
<1>1. /\ str \in Seq(Byte) /\ Len(str) = vstr_len(s)
      /\ \A i \in 1 .. Len(str) : str[i] = vstr_data(s)[i]
  BY DEF VstrOK, Holds
<1>2. /\ Contents(s) \in Seq(Byte) /\ Len(Contents(s)) = vstr_len(s)
      /\ \A i \in 1 .. vstr_len(s) : Contents(s)[i] = vstr_data(s)[i]
  BY ContentsAre DEF VstrOK
<1> QED BY <1>1, <1>2

\* What vstr_data and vstr_len show is what was pushed by the calls that returned
\* 0, through the change from struct to buffer and every growth of the buffer.
THEOREM StringsHoldWhatWasPushed == VstrSpec => []HoldsWhatWasPushed
<1>1. VstrOK => HoldsWhatWasPushed
  BY HeldString DEF HoldsWhatWasPushed
<1> QED BY <1>1, VstrInvariant, PTL

\* The byte behind a string in a buffer is its terminator, and so is the byte behind
\* one in the struct unless vstr_reset left bytes of a freed pointer there.
THEOREM StringsTerminated == VstrSpec => []Terminated
<1>1. VstrOK => Terminated
  <2> SUFFICES ASSUME VstrOK PROVE Terminated
    OBVIOUS
  <2>1. CASE SmallOK(s)
    BY <2>1, SmallFields DEF Terminated
  <2>2. CASE LargeOK(s)
    <3>1. s.data # <<>> => Len(s.data) # 0
      BY <2>2, LargeFields
    <3>2. s.data # <<>> => s.len + 1 \in 1 .. Len(s.data) /\ s.len + 1 > s.len
      BY <2>2, <3>1, LargeFields
    <3> QED BY <2>2, <3>2, LargeFields DEF Terminated
  <2> QED BY <2>1, <2>2 DEF VstrOK, StructOK
<1> QED BY <1>1, VstrInvariant, PTL
=============================================================================
