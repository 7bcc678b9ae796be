-------------------------- MODULE Collections_proofs --------------------------
(***************************************************************************)
(* Proofs about modules HashTable and Collections, for any keys, values,   *)
(* hashes and bounds.                                                      *)
(*                                                                         *)
(* What the model computes with recursive functions and folds is proved by *)
(* induction on the naturals, which is stated here for sets: a set that    *)
(* holds the first number and with each number the next holds them all.    *)
(***************************************************************************)
EXTENDS Collections, FiniteSetTheorems, SequenceTheorems, WellFoundedInduction,
        NaturalsInduction, TLAPS

-----------------------------------------------------------------------------
(* Induction *)

\* A set of naturals that is not empty has a smallest element.
LEMMA Least ==
    ASSUME NEW S, S \subseteq Nat, S # {}
    PROVE  \E i \in S : \A j \in S : i <= j
<1> DEFINE R == OpToRel(<, Nat)
<1>1. IsWellFoundedOn(R, Nat)
  BY NatLessThanWellFounded
<1>2. PICK i \in S : \A j \in S : ~(<<j, i>> \in R)
  <2> HIDE DEF R
  <2> QED BY <1>1, WFMin
<1>3. \A j \in S : i <= j
  <2> SUFFICES ASSUME NEW j \in S, j < i PROVE FALSE
    OBVIOUS
  <2>1. <<j, i>> \in Nat \X Nat /\ <<j, i>>[1] < <<j, i>>[2]
    OBVIOUS
  <2>2. <<j, i>> \in R
    BY <2>1, Zenon DEF OpToRel
  <2> QED BY <2>2, <1>2
<1> QED BY <1>3

\* Induction from a to b.
LEMMA Climb ==
    ASSUME NEW a \in Nat, NEW b \in Nat, NEW S, a \in S,
           \A i \in a .. (b - 1) : i \in S => i + 1 \in S
    PROVE  \A i \in a .. b : i \in S
<1> DEFINE T == {i \in a .. b : i \notin S}
<1> SUFFICES ASSUME T # {} PROVE FALSE
  OBVIOUS
<1>1. T \subseteq Nat
  OBVIOUS
<1>2. PICK i \in T : \A j \in T : i <= j
  <2> HIDE DEF T
  <2> QED BY <1>1, Least
<1>3. i \in a .. b /\ i # a
  BY <1>2
<1>4. i - 1 \in a .. (b - 1) /\ i - 1 < i
  BY <1>3
<1>5. i - 1 \notin T
  BY <1>2, <1>4
<1>6. i - 1 \in S /\ (i - 1) + 1 = i
  BY <1>3, <1>4, <1>5
<1> QED BY <1>2, <1>4, <1>6

\* Min and Max of module FiniteSetsExt.
LEMMA MinOf ==
    ASSUME NEW S, S \subseteq Nat, S # {}
    PROVE  Min(S) \in S /\ \A j \in S : Min(S) <= j
BY Least DEF Min

\* The last number of an interval, and the interval without it.
LEMMA MaxOfInterval ==
    ASSUME NEW n \in Nat \ {0}
    PROVE  Max(1 .. n) = n /\ (1 .. n) \ {n} = 1 .. (n - 1)
<1>1. \A x \in 1 .. n : (\A y \in 1 .. n : x >= y) <=> x = n
  OBVIOUS
<1>2. n \in 1 .. n
  OBVIOUS
<1>3. Max(1 .. n) = n
  BY <1>1, <1>2 DEF Max
<1> QED BY <1>3

-----------------------------------------------------------------------------
(* FlattenSeq of module SequencesExt *)

\* The function that FlattenSeq is defined by satisfies its own equation.
LEMMA FlattenDef ==
    ASSUME NEW X, NEW ss \in Seq(Seq(X)), ss # <<>>
    PROVE  \E f : /\ f = [i \in 1 .. Len(ss) |-> IF i = 1 THEN ss[i] ELSE f[i - 1] \o ss[i]]
                  /\ FlattenSeq(ss) = f[Len(ss)]
<1> DEFINE n == Len(ss)
           Eq(f, k) == \A i \in 1 .. k : f[i] = IF i = 1 THEN ss[i] ELSE f[i - 1] \o ss[i]
           S == {k \in 1 .. n : \E f : f = [i \in 1 .. k |-> f[i]] /\ Eq(f, k)}
<1>1. n \in Nat \ {0}
  BY EmptySeq
<1>2. 1 \in S
  <2> DEFINE g == [i \in 1 .. 1 |-> ss[1]]
  <2>1. g = [i \in 1 .. 1 |-> g[i]] /\ Eq(g, 1)
    OBVIOUS
  <2>2. 1 \in 1 .. n
    BY <1>1
  <2> HIDE DEF g, Eq, n
  <2> QED BY <2>1, <2>2
<1>3. ASSUME NEW k \in 1 .. (n - 1), k \in S PROVE k + 1 \in S
  <2>1. PICK f : f = [i \in 1 .. k |-> f[i]] /\ Eq(f, k)
    BY <1>3
  <2> DEFINE e == f[k] \o ss[k + 1]
             g == [i \in 1 .. (k + 1) |-> IF i = k + 1 THEN e ELSE f[i]]
  <2>0. k \in Nat \ {0} /\ k + 1 - 1 = k
    BY <1>1
  <2>2. /\ g = [i \in 1 .. (k + 1) |-> g[i]]
        /\ g[k + 1] = e
        /\ \A i \in 1 .. k : g[i] = f[i]
    <3> HIDE DEF e
    <3> QED BY <2>0
  <2> HIDE DEF g
  <2>3. ASSUME NEW i \in 1 .. (k + 1)
        PROVE  g[i] = IF i = 1 THEN ss[i] ELSE g[i - 1] \o ss[i]
    <3>1. CASE i = k + 1
      <4>1. i # 1 /\ i - 1 = k /\ k \in 1 .. k
        BY <2>0, <3>1
      <4> QED BY <2>2, <3>1, <4>1
    <3>2. CASE i # k + 1
      <4>1. i \in 1 .. k /\ (i # 1 => i - 1 \in 1 .. k)
        BY <2>0, <3>2
      <4> QED BY <2>1, <2>2, <4>1
    <3> QED BY <3>1, <3>2
  <2>4. Eq(g, k + 1)
    BY <2>3
  <2>5. k + 1 \in 1 .. n
    BY <1>1
  <2> QED BY <2>2, <2>4, <2>5
<1>4. n \in S
  <2> HIDE DEF S, n
  <2>1. \A i \in 1 .. n : i \in S
    BY <1>1, <1>2, <1>3, Climb
  <2> QED BY <1>1, <2>1
<1>5. PICK f : f = [i \in 1 .. n |-> f[i]] /\ Eq(f, n)
  BY <1>4
<1> DEFINE Q(g) == g = [i \in 1 .. n |-> IF i = 1 THEN ss[i] ELSE g[i - 1] \o ss[i]]
<1>6. Q(f)
  BY <1>5
<1>7. Q(CHOOSE g : Q(g))
  BY <1>6, Zenon DEF Q
<1>8. FlattenSeq(ss) = (CHOOSE g : Q(g))[n]
  BY <1>1 DEF FlattenSeq
<1> QED BY <1>7, <1>8

\* A function on 1 .. n is a sequence.
LEMMA FunctionIsSeq ==
    ASSUME NEW X, NEW n \in Nat, NEW f \in [1 .. n -> X]
    PROVE  f \in Seq(X) /\ Len(f) = n /\ (n # 0 => f # <<>>)
<1>1. f \in Seq(X) /\ Len(f) = n
  BY DEF Seq
<1> QED BY <1>1

\* The elements of a concatenation.
LEMMA ConcatPlaces ==
    ASSUME NEW X, NEW a \in Seq(X), NEW b \in Seq(X)
    PROVE  /\ Len(a) \in Nat /\ Len(b) \in Nat
           /\ a \o b \in Seq(X) /\ Len(a \o b) = Len(a) + Len(b)
           /\ \A i \in 1 .. Len(a) : (a \o b)[i] = a[i]
           /\ \A i \in 1 .. Len(b) : (a \o b)[Len(a) + i] = b[i]
<1>1. Len(a) \in Nat /\ Len(b) \in Nat
  OBVIOUS
<1>2. \A i \in 1 .. Len(b) : /\ Len(a) + i \in 1 .. (Len(a) + Len(b))
                            /\ ~(Len(a) + i <= Len(a)) /\ (Len(a) + i) - Len(a) = i
  BY <1>1
<1>3. \A i \in 1 .. Len(a) : i \in 1 .. (Len(a) + Len(b)) /\ i <= Len(a)
  BY <1>1
<1> QED BY <1>1, <1>2, <1>3, ConcatProperties

\* Where element j of ss[i] is in FlattenSeq(ss): behind the off[i - 1] elements of
\* the sequences before ss[i].  Nothing else is in it.
Offsets(ss, off) ==
    /\ off \in [0 .. Len(ss) -> Nat] /\ off[0] = 0
    /\ \A i \in 1 .. Len(ss) : off[i] = off[i - 1] + Len(ss[i])
\* F is the sequences of ss one behind the other: ss[i] starts behind off[i - 1].
Placed(ss, F, off) ==
    /\ Len(F) = off[Len(ss)]
    /\ \A i \in 1 .. Len(ss) : \A j \in 1 .. Len(ss[i]) :
           off[i - 1] + j \in 1 .. Len(F) /\ F[off[i - 1] + j] = ss[i][j]
    /\ \A m \in 1 .. Len(F) :
           \E i \in 1 .. Len(ss) : \E j \in 1 .. Len(ss[i]) : m = off[i - 1] + j

\* FlattenSeq puts every element of every sequence in its place, and nothing else.
LEMMA FlattenPlaces ==
    ASSUME NEW X, NEW ss \in Seq(Seq(X)), ss # <<>>
    PROVE  FlattenSeq(ss) \in Seq(X) /\ \E off : Offsets(ss, off) /\ Placed(ss, FlattenSeq(ss), off)
<1> DEFINE n == Len(ss)
<1>1. n \in Nat \ {0} /\ \A i \in 1 .. n : ss[i] \in Seq(X) /\ Len(ss[i]) \in Nat
  BY EmptySeq
<1>2. PICK f : /\ f = [i \in 1 .. n |-> IF i = 1 THEN ss[i] ELSE f[i - 1] \o ss[i]]
               /\ FlattenSeq(ss) = f[n]
  BY FlattenDef
<1>3. f[1] = ss[1] /\ \A i \in 1 .. (n - 1) : f[i + 1] = f[i] \o ss[i + 1]
  <2>1. 1 \in 1 .. n /\ \A i \in 1 .. (n - 1) : i + 1 \in 1 .. n /\ i + 1 # 1 /\ (i + 1) - 1 = i
    BY <1>1
  <2> HIDE DEF n
  <2> QED BY <1>2, <2>1
<1> DEFINE off == [i \in 0 .. n |-> IF i = 0 THEN 0 ELSE Len(f[i])]
<1>4. off[0] = 0 /\ \A i \in 1 .. n : off[i] = Len(f[i])
  <2> HIDE DEF n
  <2> QED BY <1>1
<1> HIDE DEF n, off
<1> DEFINE P(k) == /\ f[k] \in Seq(X)
                   /\ \A i \in 1 .. k : \A j \in 1 .. Len(ss[i]) :
                          off[i - 1] + j \in 1 .. Len(f[k]) /\ f[k][off[i - 1] + j] = ss[i][j]
                   /\ \A m \in 1 .. Len(f[k]) :
                          \E i \in 1 .. k : \E j \in 1 .. Len(ss[i]) : m = off[i - 1] + j
           S == {k \in 1 .. n : P(k)}
<1>5. 1 \in S
  <2>1. 1 \in 1 .. n /\ 1 - 1 = 0 /\ \A i \in 1 .. 1 : i = 1
    BY <1>1
  <2>2. f[1] \in Seq(X)
    BY <1>1, <1>3, <2>1
  <2>3. \A j \in 1 .. Len(ss[1]) : off[1 - 1] + j = j
    BY <1>1, <1>4, <2>1
  <2>4. P(1)
    BY <1>3, <2>1, <2>2, <2>3
  <2> QED BY <2>1, <2>4
<1>6. ASSUME NEW k \in 1 .. (n - 1), k \in S PROVE k + 1 \in S
  <2>1. k \in Nat \ {0} /\ k + 1 \in 1 .. n /\ k \in 1 .. n /\ (k + 1) - 1 = k
    BY <1>1
  <2>2. P(k)
    BY <1>6
  <2> DEFINE a == f[k]
             b == ss[k + 1]
  <2>3. /\ a \in Seq(X)
        /\ \A i \in 1 .. k : \A j \in 1 .. Len(ss[i]) :
               off[i - 1] + j \in 1 .. Len(a) /\ a[off[i - 1] + j] = ss[i][j]
        /\ \A m \in 1 .. Len(a) :
               \E i \in 1 .. k : \E j \in 1 .. Len(ss[i]) : m = off[i - 1] + j
    BY <2>2
  <2>4. b = ss[k + 1] /\ b \in Seq(X) /\ f[k + 1] = a \o b /\ off[k] = Len(a)
    <3> HIDE DEF P
    <3> QED BY <1>1, <1>3, <1>4, <2>1
  <2> HIDE DEF a, b, P
  <2>5. /\ Len(a) \in Nat /\ Len(b) \in Nat
        /\ a \o b \in Seq(X) /\ Len(a \o b) = Len(a) + Len(b)
        /\ \A i \in 1 .. Len(a) : (a \o b)[i] = a[i]
        /\ \A i \in 1 .. Len(b) : (a \o b)[Len(a) + i] = b[i]
    <3>1. a \in Seq(X) /\ b \in Seq(X)
      BY <2>3, <2>4
    <3> QED BY <3>1, ConcatPlaces
  <2> DEFINE c == a \o b
  <2> HIDE DEF c
  <2>6. /\ c \in Seq(X) /\ Len(c) = Len(a) + Len(b)
        /\ \A i \in 1 .. Len(a) : c[i] = a[i]
        /\ \A i \in 1 .. Len(b) : c[Len(a) + i] = b[i]
    BY <2>5 DEF c
  <2>7. ASSUME NEW i \in 1 .. (k + 1), NEW j \in 1 .. Len(ss[i])
        PROVE  off[i - 1] + j \in 1 .. Len(c) /\ c[off[i - 1] + j] = ss[i][j]
    <3>1. CASE i = k + 1
      <4>1. off[i - 1] = Len(a) /\ j \in 1 .. Len(b)
        BY <2>1, <2>4, <3>1
      <4>2. off[i - 1] + j \in 1 .. Len(c)
        BY <2>5, <2>6, <4>1
      <4> QED BY <2>4, <2>6, <3>1, <4>1, <4>2
    <3>2. CASE i # k + 1
      <4>1. i \in 1 .. k
        BY <2>1, <3>2
      <4>2. off[i - 1] + j \in 1 .. Len(a) /\ a[off[i - 1] + j] = ss[i][j]
        BY <2>3, <4>1
      <4>3. off[i - 1] + j \in 1 .. Len(c)
        BY SMTT(60), <2>5, <2>6, <4>2
      <4> QED BY <2>6, <4>2, <4>3
    <3> QED BY <3>1, <3>2
  <2>8. ASSUME NEW m \in 1 .. Len(c)
        PROVE  \E i \in 1 .. (k + 1) : \E j \in 1 .. Len(ss[i]) : m = off[i - 1] + j
    <3>1. CASE m <= Len(a)
      <4>1. m \in 1 .. Len(a)
        BY <2>5, <2>6, <3>1
      <4>2. PICK i \in 1 .. k : \E j \in 1 .. Len(ss[i]) : m = off[i - 1] + j
        BY <2>3, <4>1
      <4>3. i \in 1 .. (k + 1)
        BY <2>1
      <4> QED BY <4>2, <4>3
    <3>2. CASE m > Len(a)
      <4>1. m - Len(a) \in 1 .. Len(b) /\ m = off[k] + (m - Len(a))
        BY <2>4, <2>5, <2>6, <3>2
      <4>2. k + 1 \in 1 .. (k + 1)
        BY <2>1
      <4> QED BY <2>1, <2>4, <4>1, <4>2
    <3> QED BY <2>5, <2>6, <3>1, <3>2
  <2>9. P(k + 1)
    <3>1. f[k + 1] = c
      BY <2>4 DEF c
    <3> QED BY <2>6, <2>7, <2>8, <3>1, Zenon DEF P
  <2> QED BY <2>1, <2>9
<1>7. \A k \in 1 .. n : P(k)
  <2> HIDE DEF S, P
  <2>1. \A i \in 1 .. n : i \in S
    BY <1>1, <1>5, <1>6, Climb
  <2> QED BY <2>1 DEF S
<1>8. Offsets(ss, off)
  <2>1. off \in [0 .. n -> Nat]
    <3>1. \A i \in 0 .. n : i # 0 => i \in 1 .. n
      BY <1>1
    <3>2. \A i \in 1 .. n : Len(f[i]) \in Nat
      BY <1>7
    <3> QED BY <3>1, <3>2 DEF off
  <2>2. ASSUME NEW i \in 1 .. n PROVE off[i] = off[i - 1] + Len(ss[i])
    <3>1. CASE i = 1
      BY <1>1, <1>3, <1>4, <3>1
    <3>2. CASE i # 1
      <4>1. i - 1 \in 1 .. (n - 1) /\ i - 1 \in 1 .. n /\ (i - 1) + 1 = i
        BY <1>1, <3>2
      <4>2. f[i] = f[i - 1] \o ss[i]
        BY <1>3, <4>1
      <4>3. f[i - 1] \in Seq(X) /\ ss[i] \in Seq(X)
        BY <1>1, <1>7, <4>1
      <4>4. Len(f[i]) = Len(f[i - 1]) + Len(ss[i])
        BY <4>2, <4>3, ConcatPlaces
      <4> QED BY <1>4, <4>1, <4>4
    <3> QED BY <3>1, <3>2
  <2> QED BY <1>4, <2>1, <2>2 DEF Offsets, n
<1>9. n \in 1 .. n
  BY <1>1
<1>10. P(n)
  BY <1>7, <1>9
<1>11. Len(f[n]) = off[n]
  BY <1>4, <1>9
<1> DEFINE F == FlattenSeq(ss)
<1>12. F = f[n]
  BY <1>2
<1> HIDE DEF F
<1>13. /\ F \in Seq(X) /\ Len(F) = off[n]
       /\ \A i \in 1 .. n : \A j \in 1 .. Len(ss[i]) :
              off[i - 1] + j \in 1 .. Len(F) /\ F[off[i - 1] + j] = ss[i][j]
       /\ \A m \in 1 .. Len(F) :
              \E i \in 1 .. n : \E j \in 1 .. Len(ss[i]) : m = off[i - 1] + j
  BY <1>10, <1>11, <1>12, Zenon
<1>14. Placed(ss, F, off)
  BY <1>13 DEF n, Placed
<1> QED BY <1>8, <1>13, <1>14 DEF F

-----------------------------------------------------------------------------
(* Tables *)

\* What a chain is made of, and the slots that have one.
Entry(V) == [key : Objs, val : V]
Slots(t) == 0 .. (t.capacity - 1)

\* A table of entries with values in V: an array of chains.
Shape(t, V) ==
    /\ t = [entries |-> t.entries, num_entries |-> t.num_entries, capacity |-> t.capacity]
    /\ t.capacity \in Nat \ {0} /\ t.num_entries \in Nat
    /\ t.entries \in [Slots(t) -> Seq(Entry(V))]

\* start[s] entries hang in the slots before s.
Starts(t, start) ==
    /\ start \in [0 .. t.capacity -> Nat] /\ start[0] = 0
    /\ \A s \in Slots(t) : start[s + 1] = start[s] + Len(t.entries[s])
    /\ Len(InOrder(t)) = start[t.capacity]
    /\ \A s \in Slots(t) : \A i \in 1 .. Len(t.entries[s]) :
           /\ start[s] + i \in 1 .. Len(InOrder(t))
           /\ InOrder(t)[start[s] + i] = t.entries[s][i]
    /\ \A m \in 1 .. Len(InOrder(t)) :
           \E s \in Slots(t) : \E i \in 1 .. Len(t.entries[s]) : m = start[s] + i

\* The walk over all entries takes the slots in order and in each the chain in order.
LEMMA InOrderPlaces ==
    ASSUME NEW V, NEW t, Shape(t, V)
    PROVE  InOrder(t) \in Seq(Entry(V)) /\ \E start : Starts(t, start)
<1> DEFINE c == t.capacity
           X == Entry(V)
           ss == [i \in 1 .. c |-> t.entries[i - 1]]
           F == FlattenSeq(ss)
<1>1. c \in Nat \ {0} /\ t.entries \in [0 .. (c - 1) -> Seq(X)]
  BY DEF Shape, Slots
<1>2. InOrder(t) = F
  BY DEF InOrder
<1> HIDE DEF c, X
<1>3. \A i \in 1 .. c : i - 1 \in 0 .. (c - 1) /\ t.entries[i - 1] \in Seq(X)
  BY <1>1
<1>4. ss \in Seq(Seq(X)) /\ Len(ss) = c /\ ss # <<>>
  <2>1. ss \in [1 .. c -> Seq(X)]
    BY <1>3
  <2> HIDE DEF ss
  <2> QED BY <1>1, <2>1, FunctionIsSeq
<1>5. \A i \in 1 .. c : ss[i] = t.entries[i - 1]
  BY <1>1
<1> HIDE DEF ss
<1>6. F \in Seq(X) /\ \E off : Offsets(ss, off) /\ Placed(ss, F, off)
  BY <1>4, FlattenPlaces
<1> HIDE DEF F
<1>7. PICK off : Offsets(ss, off) /\ Placed(ss, F, off)
  BY <1>6
<1>8. /\ Len(F) = off[c]
      /\ \A i \in 1 .. c : \A j \in 1 .. Len(ss[i]) :
             off[i - 1] + j \in 1 .. Len(F) /\ F[off[i - 1] + j] = ss[i][j]
      /\ \A m \in 1 .. Len(F) :
             \E i \in 1 .. c : \E j \in 1 .. Len(ss[i]) : m = off[i - 1] + j
  BY <1>4, <1>7 DEF Placed
<1>9. /\ off \in [0 .. c -> Nat] /\ off[0] = 0
      /\ \A i \in 1 .. c : off[i] = off[i - 1] + Len(ss[i])
  BY <1>4, <1>7 DEF Offsets
<1>10. \A s \in 0 .. (c - 1) : s + 1 \in 1 .. c /\ (s + 1) - 1 = s /\ ss[s + 1] = t.entries[s]
  BY <1>1, <1>5
<1>11. \A s \in 0 .. (c - 1) : off[s + 1] = off[s] + Len(t.entries[s])
  BY <1>9, <1>10
<1>12. \A s \in 0 .. (c - 1) : \A i \in 1 .. Len(t.entries[s]) :
           off[s] + i \in 1 .. Len(F) /\ F[off[s] + i] = t.entries[s][i]
  <2> TAKE s \in 0 .. (c - 1)
  <2>1. s + 1 \in 1 .. c /\ (s + 1) - 1 = s /\ ss[s + 1] = t.entries[s]
    BY <1>10
  <2> QED BY <1>8, <2>1
<1>13. \A m \in 1 .. Len(F) :
           \E s \in 0 .. (c - 1) : \E i \in 1 .. Len(t.entries[s]) : m = off[s] + i
  <2> TAKE m \in 1 .. Len(F)
  <2>1. PICK i \in 1 .. c : \E j \in 1 .. Len(ss[i]) : m = off[i - 1] + j
    BY <1>8
  <2> QED BY <1>3, <1>5, <2>1
<1>14. Starts(t, off)
  BY <1>2, <1>8, <1>9, <1>11, <1>12, <1>13, Zenon DEF Starts, Slots, c
<1> QED BY <1>2, <1>6, <1>14 DEF X

\* The entries of a table, wherever they hang.
Held(t) == ToSet(InOrder(t))

\* An entry is in the table exactly when it is in one of its chains, and exactly
\* when the table's iterator has a place for it.
LEMMA HeldIs ==
    ASSUME NEW V, NEW t, Shape(t, V)
    PROVE  /\ Held(t) \subseteq Entry(V)
           /\ \A s \in Slots(t) : \A i \in 1 .. Len(t.entries[s]) : t.entries[s][i] \in Held(t)
           /\ \A e \in Held(t) :
                  \E s \in Slots(t) : \E i \in 1 .. Len(t.entries[s]) : t.entries[s][i] = e
           /\ \A e \in Held(t) : \E m \in 1 .. Len(InOrder(t)) : InOrder(t)[m] = e
           /\ \A m \in 1 .. Len(InOrder(t)) : InOrder(t)[m] \in Held(t)
<1> DEFINE F == InOrder(t)
<1>1. F \in Seq(Entry(V))
  BY InOrderPlaces
<1>2. PICK start : Starts(t, start)
  BY InOrderPlaces
<1>3. DOMAIN F = 1 .. Len(F) /\ \A m \in 1 .. Len(F) : F[m] \in Entry(V)
  BY <1>1
<1>4. Held(t) = {F[m] : m \in 1 .. Len(F)}
  BY <1>3 DEF Held, ToSet
<1>5. /\ \A s \in Slots(t) : \A i \in 1 .. Len(t.entries[s]) :
             start[s] + i \in 1 .. Len(F) /\ F[start[s] + i] = t.entries[s][i]
      /\ \A m \in 1 .. Len(F) :
             \E s \in Slots(t) : \E i \in 1 .. Len(t.entries[s]) : m = start[s] + i
  BY <1>2 DEF Starts
<1> HIDE DEF F
<1>6. \A s \in Slots(t) : \A i \in 1 .. Len(t.entries[s]) : t.entries[s][i] \in Held(t)
  BY <1>4, <1>5
<1>7. \A m \in 1 .. Len(F) :
          \E s \in Slots(t) : \E i \in 1 .. Len(t.entries[s]) : t.entries[s][i] = F[m]
  BY <1>5
<1> QED BY SMTT(60), <1>3, <1>4, <1>6, <1>7 DEF F

\* When only the chain in slot k differs, so do the lengths, by as much.
LEMMA OneChainDiffers ==
    ASSUME NEW V, NEW t, NEW u, Shape(t, V), Shape(u, V), u.capacity = t.capacity,
           NEW k \in Slots(t), \A s \in Slots(t) : s # k => u.entries[s] = t.entries[s]
    PROVE  Len(InOrder(u)) = Len(InOrder(t)) + Len(u.entries[k]) - Len(t.entries[k])
<1> DEFINE c == t.capacity
           lt == [s \in Slots(t) |-> Len(t.entries[s])]
           lu == [s \in Slots(t) |-> Len(u.entries[s])]
           d == lu[k] - lt[k]
<1>1. c \in Nat \ {0} /\ Slots(t) = 0 .. (c - 1) /\ Slots(u) = Slots(t)
  BY DEF Shape, Slots
<1>2. \A s \in Slots(t) : /\ lt[s] = Len(t.entries[s]) /\ lt[s] \in Nat
                          /\ lu[s] = Len(u.entries[s]) /\ lu[s] \in Nat
  <2>1. \A s \in Slots(t) : t.entries[s] \in Seq(Entry(V)) /\ u.entries[s] \in Seq(Entry(V))
    BY <1>1 DEF Shape
  <2> QED BY <2>1
<1>3. \A s \in Slots(t) : s # k => lu[s] = lt[s]
  BY <1>2
<1>4. PICK st : Starts(t, st)
  BY InOrderPlaces
<1>5. PICK su : Starts(u, su)
  BY InOrderPlaces
<1>6. /\ st \in [0 .. c -> Nat] /\ st[0] = 0 /\ Len(InOrder(t)) = st[c]
      /\ su \in [0 .. c -> Nat] /\ su[0] = 0 /\ Len(InOrder(u)) = su[c]
  BY <1>4, <1>5 DEF Starts
<1>7. \A s \in Slots(t) : st[s + 1] = st[s] + lt[s] /\ su[s + 1] = su[s] + lu[s]
  BY <1>1, <1>2, <1>4, <1>5 DEF Starts
<1> HIDE DEF c, lt, lu
<1> DEFINE S == {i \in 0 .. c : su[i] = st[i] + (IF i > k THEN d ELSE 0)}
<1>8. k \in 0 .. (c - 1) /\ d \in Int
  BY <1>1, <1>2
<1>9. 0 \in S
  BY <1>1, <1>6, <1>8
<1>10. ASSUME NEW i \in 0 .. (c - 1), i \in S PROVE i + 1 \in S
  <2>1. /\ i + 1 \in 0 .. c /\ i \in Nat /\ i \in 0 .. c /\ i \in Slots(t)
        /\ (i # k => (i + 1 > k <=> i > k)) /\ (i = k => i + 1 > k /\ ~(i > k))
    BY <1>1, <1>8
  <2>2. su[i] = st[i] + (IF i > k THEN d ELSE 0)
    BY <1>10
  <2>3. st[i + 1] = st[i] + lt[i] /\ su[i + 1] = su[i] + lu[i] /\ (i # k => lu[i] = lt[i])
    BY <1>3, <1>7, <2>1
  <2>4. st[i] \in Nat /\ su[i] \in Nat /\ lt[i] \in Nat /\ lu[i] \in Nat
    BY <1>2, <1>6, <2>1
  <2>5. su[i + 1] = st[i + 1] + (IF i + 1 > k THEN d ELSE 0)
    BY <1>8, <2>1, <2>2, <2>3, <2>4
  <2> QED BY <2>1, <2>5
<1>11. c \in S
  <2>1. \A i \in 0 .. c : i \in S
    <3> HIDE DEF S
    <3> QED BY <1>1, <1>9, <1>10, Climb
  <2> QED BY <1>1, <2>1
<1>12. su[c] = st[c] + d
  BY <1>8, <1>11
<1>13. d = Len(u.entries[k]) - Len(t.entries[k])
  BY <1>2
<1>14. st[c] \in Nat /\ Len(t.entries[k]) \in Nat /\ Len(u.entries[k]) \in Nat
  <2>1. c \in 0 .. c
    BY <1>1
  <2> QED BY <1>2, <1>6, <2>1
<1> QED BY <1>6, <1>12, <1>13, <1>14

\* A chain holds no entry twice, and every entry hangs where its key hashes to.
Once(t) ==
    \A s \in Slots(t) : \A i, j \in 1 .. Len(t.entries[s]) :
        t.entries[s][i] = t.entries[s][j] => i = j
\* Every entry is in the slot that its key hashes to.
Hashed(t) ==
    \A s \in Slots(t) : \A i \in 1 .. Len(t.entries[s]) :
        hash[t.entries[s][i].key] % t.capacity = s

\* Then the table holds none twice either.
LEMMA InOrderOnce ==
    ASSUME NEW V, NEW t, Shape(t, V), Once(t), Hashed(t),
           NEW m \in 1 .. Len(InOrder(t)), NEW n \in 1 .. Len(InOrder(t)),
           InOrder(t)[m] = InOrder(t)[n]
    PROVE  m = n
<1>1. PICK start : Starts(t, start)
  BY InOrderPlaces
<1>2. PICK s \in Slots(t) : \E i \in 1 .. Len(t.entries[s]) : m = start[s] + i
  BY <1>1 DEF Starts
<1>3. PICK i \in 1 .. Len(t.entries[s]) : m = start[s] + i
  BY <1>2
<1>4. PICK r \in Slots(t) : \E j \in 1 .. Len(t.entries[r]) : n = start[r] + j
  BY <1>1 DEF Starts
<1>5. PICK j \in 1 .. Len(t.entries[r]) : n = start[r] + j
  BY <1>4
<1>6. InOrder(t)[m] = t.entries[s][i] /\ InOrder(t)[n] = t.entries[r][j]
  BY <1>1, <1>3, <1>5 DEF Starts
<1>7. s = r
  <2>1. hash[t.entries[s][i].key] % t.capacity = s
    BY Zenon DEF Hashed
  <2>2. hash[t.entries[r][j].key] % t.capacity = r
    BY Zenon DEF Hashed
  <2> QED BY <1>6, <2>1, <2>2
<1>8. i = j
  BY <1>6, <1>7 DEF Once
<1> QED BY <1>3, <1>5, <1>7, <1>8

-----------------------------------------------------------------------------
(* Chains *)

\* A chain of entries in X that holds none twice.
Chain(c, X) == c \in Seq(X) /\ \A i, j \in 1 .. Len(c) : c[i] = c[j] => i = j

\* The elements of a sequence.
LEMMA ToSetIs ==
    ASSUME NEW X, NEW c \in Seq(X)
    PROVE  /\ ToSet(c) \subseteq X
           /\ \A i \in 1 .. Len(c) : c[i] \in ToSet(c)
           /\ \A e \in ToSet(c) : \E i \in 1 .. Len(c) : c[i] = e
<1>1. DOMAIN c = 1 .. Len(c) /\ \A i \in 1 .. Len(c) : c[i] \in X
  OBVIOUS
<1> QED BY <1>1 DEF ToSet

\* An entry put at the head.
LEMMA ChainPushed ==
    ASSUME NEW X, NEW c, Chain(c, X), NEW e \in X, e \notin ToSet(c)
    PROVE  /\ Chain(<<e>> \o c, X) /\ Len(<<e>> \o c) = Len(c) + 1
           /\ ToSet(<<e>> \o c) = ToSet(c) \cup {e}
<1> DEFINE d == <<e>> \o c
<1>1. c \in Seq(X) /\ <<e>> \in Seq(X) /\ Len(<<e>>) = 1 /\ <<e>>[1] = e /\ Len(c) \in Nat
  BY DEF Chain
<1>2. /\ d \in Seq(X) /\ Len(d) = 1 + Len(c)
      /\ \A i \in 1 .. 1 : d[i] = <<e>>[i]
      /\ \A i \in 1 .. Len(c) : d[1 + i] = c[i]
  BY <1>1, ConcatPlaces
<1>3. \A i \in 1 .. Len(d) : i = 1 \/ (i - 1 \in 1 .. Len(c) /\ 1 + (i - 1) = i)
  BY <1>1, <1>2
<1> HIDE DEF d
<1>4. d[1] = e /\ 1 \in 1 .. Len(d) /\ \A i \in 1 .. Len(d) : i # 1 => d[i] = c[i - 1]
  BY <1>1, <1>2, <1>3
<1>5. \A i \in 1 .. Len(c) : c[i] \in ToSet(c) /\ c[i] # e
  BY <1>1, ToSetIs
<1>6. ASSUME NEW i \in 1 .. Len(d), NEW j \in 1 .. Len(d), d[i] = d[j] PROVE i = j
  <2>1. CASE i = 1 \/ j = 1
    BY <1>3, <1>4, <1>5, <1>6, <2>1
  <2>2. CASE i # 1 /\ j # 1
    <3>1. c[i - 1] = c[j - 1] /\ i - 1 \in 1 .. Len(c) /\ j - 1 \in 1 .. Len(c)
      BY <1>3, <1>4, <1>6, <2>2
    <3>2. i - 1 = j - 1
      BY <3>1 DEF Chain
    <3> QED BY <1>3, <2>2, <3>2
  <2> QED BY <2>1, <2>2
<1>7. ToSet(d) \subseteq ToSet(c) \cup {e}
  <2> SUFFICES ASSUME NEW x \in ToSet(d) PROVE x \in ToSet(c) \cup {e}
    OBVIOUS
  <2>1. PICK i \in 1 .. Len(d) : d[i] = x
    BY <1>2, ToSetIs
  <2> QED BY <1>3, <1>4, <1>5, <2>1
<1>8. ToSet(c) \cup {e} \subseteq ToSet(d)
  <2> SUFFICES ASSUME NEW x \in ToSet(c) \cup {e} PROVE x \in ToSet(d)
    OBVIOUS
  <2>1. \A i \in 1 .. Len(d) : d[i] \in ToSet(d)
    BY <1>2, ToSetIs
  <2>2. CASE x = e
    BY <1>4, <2>1, <2>2
  <2>3. CASE x # e
    <3>1. PICK i \in 1 .. Len(c) : c[i] = x
      BY <1>1, <2>3, ToSetIs
    <3>2. 1 + i \in 1 .. Len(d)
      BY <1>1, <1>2
    <3> QED BY <1>2, <2>1, <3>1, <3>2
  <2> QED BY <2>2, <2>3
<1>9. Len(d) = Len(c) + 1
  BY <1>1, <1>2
<1> QED BY <1>2, <1>6, <1>7, <1>8, <1>9 DEF Chain, d

\* An entry replaced by another.
LEMMA ChainReplaced ==
    ASSUME NEW X, NEW c, Chain(c, X), NEW k \in 1 .. Len(c), NEW e \in X, e \notin ToSet(c)
    PROVE  /\ Chain([c EXCEPT ![k] = e], X) /\ Len([c EXCEPT ![k] = e]) = Len(c)
           /\ ToSet([c EXCEPT ![k] = e]) = (ToSet(c) \ {c[k]}) \cup {e}
<1> DEFINE d == [c EXCEPT ![k] = e]
<1>1. c \in Seq(X) /\ Len(c) \in Nat
  BY DEF Chain
<1>2. /\ d \in Seq(X) /\ Len(d) = Len(c)
      /\ \A j \in 1 .. Len(c) : d[j] = IF j = k THEN e ELSE c[j]
  BY <1>1, ExceptSeq
<1> HIDE DEF d
<1>3. \A i \in 1 .. Len(c) : c[i] \in ToSet(c) /\ c[i] # e
  BY <1>1, ToSetIs
<1>4. ASSUME NEW i \in 1 .. Len(d), NEW j \in 1 .. Len(d), d[i] = d[j] PROVE i = j
  BY <1>1, <1>2, <1>3, <1>4 DEF Chain
<1>5. ToSet(d) \subseteq (ToSet(c) \ {c[k]}) \cup {e}
  <2> SUFFICES ASSUME NEW x \in ToSet(d) PROVE x \in (ToSet(c) \ {c[k]}) \cup {e}
    OBVIOUS
  <2>1. PICK i \in 1 .. Len(d) : d[i] = x
    BY <1>2, ToSetIs
  <2> QED BY <1>2, <1>3, <2>1 DEF Chain
<1>6. (ToSet(c) \ {c[k]}) \cup {e} \subseteq ToSet(d)
  <2> SUFFICES ASSUME NEW x \in (ToSet(c) \ {c[k]}) \cup {e} PROVE x \in ToSet(d)
    OBVIOUS
  <2>1. \A i \in 1 .. Len(d) : d[i] \in ToSet(d)
    BY <1>2, ToSetIs
  <2>2. CASE x = e
    BY <1>2, <2>1, <2>2
  <2>3. CASE x # e
    <3>1. PICK i \in 1 .. Len(c) : c[i] = x
      BY <1>1, <2>3, ToSetIs
    <3> QED BY <1>2, <2>1, <2>3, <3>1
  <2> QED BY <2>2, <2>3
<1> QED BY <1>2, <1>4, <1>5, <1>6 DEF Chain, d

\* An entry taken out.
LEMMA RemoveAtPlaces ==
    ASSUME NEW X, NEW c \in Seq(X), NEW k \in 1 .. Len(c)
    PROVE  /\ RemoveAt(c, k) \in Seq(X) /\ Len(RemoveAt(c, k)) = Len(c) - 1
           /\ \A i \in 1 .. (Len(c) - 1) : RemoveAt(c, k)[i] = IF i < k THEN c[i] ELSE c[i + 1]
<1> DEFINE a == SubSeq(c, 1, k - 1)
           b == SubSeq(c, k + 1, Len(c))
<1>1. k \in Nat \ {0} /\ Len(c) \in Nat /\ k <= Len(c) /\ \A i \in 1 .. Len(c) : c[i] \in X
  OBVIOUS
<1>2. a \in Seq(X) /\ Len(a) = k - 1 /\ \A i \in 1 .. (k - 1) : a[i] = c[i]
  <2>1. 1 \in Int /\ k - 1 \in Int /\ \A i \in 1 .. (k - 1) : c[i] \in X
    BY <1>1
  <2>2. /\ a \in Seq(X) /\ Len(a) = IF 1 <= k - 1 THEN (k - 1) - 1 + 1 ELSE 0
        /\ \A i \in 1 .. ((k - 1) - 1 + 1) : a[i] = c[1 + i - 1]
    BY <2>1, SubSeqProperties
  <2> HIDE DEF a
  <2>3. Len(a) = k - 1
    BY <1>1, <2>2
  <2>4. \A i \in 1 .. (k - 1) : i \in 1 .. ((k - 1) - 1 + 1) /\ 1 + i - 1 = i
    BY <1>1
  <2> QED BY <2>2, <2>3, <2>4
<1>3. b \in Seq(X) /\ Len(b) = Len(c) - k /\ \A i \in 1 .. (Len(c) - k) : b[i] = c[k + i]
  <2>1. k + 1 \in Int /\ Len(c) \in Int /\ \A i \in (k + 1) .. Len(c) : c[i] \in X
    BY <1>1
  <2>2. /\ b \in Seq(X) /\ Len(b) = IF k + 1 <= Len(c) THEN Len(c) - (k + 1) + 1 ELSE 0
        /\ \A i \in 1 .. (Len(c) - (k + 1) + 1) : b[i] = c[(k + 1) + i - 1]
    BY <2>1, SubSeqProperties
  <2> HIDE DEF b
  <2>3. Len(b) = Len(c) - k
    BY <1>1, <2>2
  <2>4. \A i \in 1 .. (Len(c) - k) : i \in 1 .. (Len(c) - (k + 1) + 1) /\ (k + 1) + i - 1 = k + i
    BY <1>1
  <2> QED BY <2>2, <2>3, <2>4
<1>4. RemoveAt(c, k) = a \o b
  BY DEF RemoveAt
<1> HIDE DEF a, b
<1> DEFINE d == a \o b
<1>5. /\ d \in Seq(X) /\ Len(d) = Len(a) + Len(b)
      /\ \A i \in 1 .. Len(a) : d[i] = a[i]
      /\ \A i \in 1 .. Len(b) : d[Len(a) + i] = b[i]
  <2>1. a \in Seq(X) /\ b \in Seq(X)
    BY <1>2, <1>3
  <2> QED BY <2>1, ConcatPlaces
<1> HIDE DEF d
<1>6. Len(d) = Len(c) - 1
  BY <1>1, <1>2, <1>3, <1>5
<1>7. ASSUME NEW i \in 1 .. (Len(c) - 1) PROVE d[i] = IF i < k THEN c[i] ELSE c[i + 1]
  <2>1. CASE i < k
    <3>1. i \in 1 .. (k - 1) /\ i \in 1 .. Len(a)
      BY <1>1, <1>2, <2>1
    <3> QED BY <1>2, <1>5, <2>1, <3>1
  <2>2. CASE ~(i < k)
    <3>1. /\ i - (k - 1) \in 1 .. (Len(c) - k) /\ i - (k - 1) \in 1 .. Len(b)
          /\ Len(a) + (i - (k - 1)) = i /\ k + (i - (k - 1)) = i + 1
      BY <1>1, <1>2, <1>3, <2>2
    <3>2. d[Len(a) + (i - (k - 1))] = b[i - (k - 1)] /\ b[i - (k - 1)] = c[k + (i - (k - 1))]
      BY <1>3, <1>5, <3>1
    <3> QED BY <2>2, <3>1, <3>2
  <2> QED BY <2>1, <2>2
<1> QED BY <1>4, <1>5, <1>6, <1>7 DEF d

\* Unlinking the k-th entry of a chain takes that entry and no other.
LEMMA ChainRemoved ==
    ASSUME NEW X, NEW c, Chain(c, X), NEW k \in 1 .. Len(c)
    PROVE  /\ Chain(RemoveAt(c, k), X) /\ Len(RemoveAt(c, k)) = Len(c) - 1
           /\ ToSet(RemoveAt(c, k)) = ToSet(c) \ {c[k]}
<1> DEFINE d == RemoveAt(c, k)
<1>1. c \in Seq(X) /\ Len(c) \in Nat
  BY DEF Chain
<1>2. /\ d \in Seq(X) /\ Len(d) = Len(c) - 1
      /\ \A i \in 1 .. (Len(c) - 1) : d[i] = IF i < k THEN c[i] ELSE c[i + 1]
  BY <1>1, RemoveAtPlaces
<1> HIDE DEF d
<1>3. \A i \in 1 .. Len(d) : i \in 1 .. Len(c) /\ i + 1 \in 1 .. Len(c)
  BY <1>1, <1>2
<1> DEFINE p(i) == IF i < k THEN i ELSE i + 1
<1>4. \A i \in 1 .. Len(d) : p(i) \in 1 .. Len(c) /\ p(i) # k /\ d[i] = c[p(i)]
  BY <1>1, <1>2, <1>3
<1>5. \A i, j \in 1 .. Len(d) : p(i) = p(j) => i = j
  BY <1>1, <1>2
<1>6. \A i \in 1 .. Len(c) : i # k => \E j \in 1 .. Len(d) : p(j) = i
  <2> SUFFICES ASSUME NEW i \in 1 .. Len(c), i # k PROVE \E j \in 1 .. Len(d) : p(j) = i
    OBVIOUS
  <2>1. CASE i < k
    <3>1. i \in 1 .. Len(d) /\ p(i) = i
      BY <1>1, <1>2, <2>1
    <3> QED BY <3>1
  <2>2. CASE i > k
    <3>1. i - 1 \in 1 .. Len(d) /\ p(i - 1) = i
      BY <1>1, <1>2, <2>2
    <3> QED BY <3>1
  <2> QED BY <1>1, <2>1, <2>2
<1> HIDE DEF p
<1>7. ASSUME NEW i \in 1 .. Len(d), NEW j \in 1 .. Len(d), d[i] = d[j] PROVE i = j
  <2>1. p(i) = p(j)
    BY <1>4, <1>7 DEF Chain
  <2> QED BY <1>5, <2>1
<1>8. ToSet(d) \subseteq ToSet(c) \ {c[k]}
  <2> SUFFICES ASSUME NEW x \in ToSet(d) PROVE x \in ToSet(c) \ {c[k]}
    OBVIOUS
  <2>1. PICK i \in 1 .. Len(d) : d[i] = x
    BY <1>2, ToSetIs
  <2>2. c[p(i)] \in ToSet(c) /\ p(i) \in 1 .. Len(c) /\ p(i) # k /\ x = c[p(i)]
    BY <1>1, <1>4, <2>1, ToSetIs
  <2>3. c[p(i)] # c[k]
    BY <2>2 DEF Chain
  <2> QED BY <2>2, <2>3
<1>9. ToSet(c) \ {c[k]} \subseteq ToSet(d)
  <2> SUFFICES ASSUME NEW x \in ToSet(c), x # c[k] PROVE x \in ToSet(d)
    OBVIOUS
  <2>1. PICK i \in 1 .. Len(c) : c[i] = x
    BY <1>1, ToSetIs
  <2>2. PICK j \in 1 .. Len(d) : p(j) = i
    BY <1>6, <2>1
  <2>3. d[j] = x
    BY <1>4, <2>1, <2>2
  <2> QED BY <1>2, <2>3, ToSetIs
<1> QED BY <1>2, <1>7, <1>8, <1>9 DEF Chain, d

-----------------------------------------------------------------------------
(* What the operations do to a table *)

\* A well-formed table: no entry twice, every entry where ht_get looks for it, and
\* num_entries (what ht_insert compares with the capacity) the number of entries.
Table(t, V) ==
    /\ Shape(t, V) /\ Once(t) /\ Hashed(t)
    /\ t.num_entries = Len(InOrder(t)) /\ t.num_entries <= t.capacity

\* The slot of a key exists.
LEMMA HashIsSlot ==
    ASSUME NEW V, NEW t, Shape(t, V), NEW o \in Objs
    PROVE  ht_hash(t, o) \in Slots(t) /\ ht_hash(t, o) = hash[o] % t.capacity
<1>1. hash[o] \in Nat /\ t.capacity \in Nat \ {0}
  BY HtAssumption DEF Shape
<1>2. ht_hash(t, o) = hash[o] % t.capacity
  BY DEF ht_hash
<1> QED BY <1>1, <1>2 DEF Slots

\* The table t with chain c in slot k and n for its count.
WithChain(t, k, c, n) == [t EXCEPT !.entries[k] = c, !.num_entries = n]

\* A chain holds the entries of the table that hash to its slot.
LEMMA ChainsOf ==
    ASSUME NEW V, NEW t, Table(t, V), NEW s \in Slots(t)
    PROVE  /\ Chain(t.entries[s], Entry(V)) /\ Len(t.entries[s]) \in Nat
           /\ ToSet(t.entries[s]) = {e \in Held(t) : hash[e.key] % t.capacity = s}
<1> DEFINE c == t.entries[s]
<1>1. Shape(t, V) /\ Once(t) /\ Hashed(t)
  BY DEF Table
<1>2. c \in Seq(Entry(V))
  BY <1>1 DEF Shape
<1>3. \A i, j \in 1 .. Len(c) : c[i] = c[j] => i = j
  BY <1>1 DEF Once
<1>4. ASSUME NEW e \in ToSet(c) PROVE e \in Held(t) /\ hash[e.key] % t.capacity = s
  <2>1. PICK i \in 1 .. Len(c) : c[i] = e
    BY <1>2, ToSetIs
  <2>2. t.entries[s][i] \in Held(t)
    BY <1>1, HeldIs
  <2>3. hash[t.entries[s][i].key] % t.capacity = s
    BY <1>1, Zenon DEF Hashed
  <2> QED BY <2>1, <2>2, <2>3
<1>5. ASSUME NEW e \in Held(t), hash[e.key] % t.capacity = s PROVE e \in ToSet(c)
  <2>1. PICK r \in Slots(t) : \E i \in 1 .. Len(t.entries[r]) : t.entries[r][i] = e
    BY <1>1, HeldIs
  <2>2. PICK i \in 1 .. Len(t.entries[r]) : t.entries[r][i] = e
    BY <2>1
  <2>3. hash[t.entries[r][i].key] % t.capacity = r
    BY <1>1, Zenon DEF Hashed
  <2>4. r = s /\ c[i] = e /\ i \in 1 .. Len(c)
    BY <1>5, <2>2, <2>3
  <2> QED BY <1>2, <2>4, ToSetIs
<1>6. Chain(c, Entry(V)) /\ Len(c) \in Nat
  BY <1>2, <1>3 DEF Chain
<1> HIDE DEF c
<1>7. ToSet(c) = {e \in Held(t) : hash[e.key] % t.capacity = s}
  BY <1>4, <1>5
<1> QED BY <1>6, <1>7 DEF c

\* Changing one chain for another of entries that hash to its slot.
LEMMA ChainChanged ==
    ASSUME NEW V, NEW t, Table(t, V), NEW k \in Slots(t), NEW c, Chain(c, Entry(V)),
           \A e \in ToSet(c) : hash[e.key] % t.capacity = k,
           NEW n \in Nat, n <= t.capacity, n = t.num_entries + Len(c) - Len(t.entries[k])
    PROVE  /\ Table(WithChain(t, k, c, n), V)
           /\ WithChain(t, k, c, n).num_entries = n
           /\ WithChain(t, k, c, n).capacity = t.capacity
           /\ Held(WithChain(t, k, c, n)) = (Held(t) \ ToSet(t.entries[k])) \cup ToSet(c)
<1> DEFINE u == WithChain(t, k, c, n)
<1>1. /\ Shape(t, V) /\ Once(t) /\ Hashed(t) /\ t.num_entries = Len(InOrder(t))
      /\ c \in Seq(Entry(V)) /\ t.capacity \in Nat \ {0}
  BY DEF Table, Chain, Shape
<1>2. /\ u.capacity = t.capacity /\ u.num_entries = n /\ Slots(u) = Slots(t)
      /\ u.entries = [t.entries EXCEPT ![k] = c]
      /\ u = [entries |-> u.entries, num_entries |-> u.num_entries, capacity |-> u.capacity]
  <2> DEFINE es == t.entries
             m == t.num_entries
             cap == t.capacity
  <2>1. t = [entries |-> es, num_entries |-> m, capacity |-> cap]
    BY <1>1 DEF Shape
  <2> HIDE DEF es, m, cap
  <2>2. u = [entries |-> [es EXCEPT ![k] = c], num_entries |-> n, capacity |-> cap]
    <3> DEFINE fs == [es EXCEPT ![k] = c]
               v == [entries |-> fs, num_entries |-> m, capacity |-> cap]
    <3>1. t.entries = es
      BY DEF es
    <3> HIDE DEF fs
    <3>2. [t EXCEPT !.entries = fs] = v
      BY <2>1
    <3>3. [v EXCEPT !.num_entries = n] = [entries |-> fs, num_entries |-> n, capacity |-> cap]
      OBVIOUS
    <3> HIDE DEF v
    <3>4. u = [v EXCEPT !.num_entries = n]
      BY <3>1, <3>2 DEF WithChain, fs
    <3> QED BY <3>3, <3>4 DEF fs
  <2> HIDE DEF u
  <2>3. u.capacity = cap /\ u.num_entries = n /\ u.entries = [es EXCEPT ![k] = c]
    BY <2>2
  <2> QED BY <2>2, <2>3 DEF es, cap, Slots
<1> HIDE DEF u
<1>3. /\ u.entries \in [Slots(t) -> Seq(Entry(V))] /\ u.entries[k] = c
      /\ \A s \in Slots(t) : s # k => u.entries[s] = t.entries[s]
  BY <1>1, <1>2 DEF Shape
<1>4. Shape(u, V)
  BY <1>1, <1>2, <1>3 DEF Shape
<1>5. Once(u)
  <2> SUFFICES ASSUME NEW s \in Slots(t), NEW i \in 1 .. Len(u.entries[s]),
                      NEW j \in 1 .. Len(u.entries[s]), u.entries[s][i] = u.entries[s][j]
               PROVE  i = j
    BY <1>2 DEF Once
  <2>1. CASE s = k
    BY <1>3, <2>1 DEF Chain
  <2>2. CASE s # k
    BY <1>1, <1>3, <2>2 DEF Once
  <2> QED BY <2>1, <2>2
<1>6. Hashed(u)
  <2> SUFFICES ASSUME NEW s \in Slots(t), NEW i \in 1 .. Len(u.entries[s])
               PROVE  hash[u.entries[s][i].key] % t.capacity = s
    BY <1>2 DEF Hashed
  <2>1. CASE s = k
    <3>1. c[i] \in ToSet(c) /\ u.entries[s][i] = c[i]
      BY <1>1, <1>3, <2>1, ToSetIs
    <3> QED BY <2>1, <3>1
  <2>2. CASE s # k
    <3>1. u.entries[s] = t.entries[s]
      BY <1>3, <2>2
    <3> QED BY <1>1, <3>1, Zenon DEF Hashed
  <2> QED BY <2>1, <2>2
<1>7. Len(InOrder(u)) = n
  <2>1. Len(InOrder(u)) = Len(InOrder(t)) + Len(u.entries[k]) - Len(t.entries[k])
    <3>1. u.capacity = t.capacity /\ Shape(t, V)
      BY <1>1, <1>2
    <3>2. \A s \in Slots(t) : s # k => u.entries[s] = t.entries[s]
      BY <1>3
    <3> QED BY <1>4, <3>1, <3>2, OneChainDiffers
  <2> QED BY <1>1, <1>3, <2>1
<1>8. Table(u, V)
  BY <1>2, <1>4, <1>5, <1>6, <1>7 DEF Table
<1>9. ASSUME NEW e \in Held(u) PROVE e \in (Held(t) \ ToSet(t.entries[k])) \cup ToSet(c)
  <2>1. PICK s \in Slots(t) : \E i \in 1 .. Len(u.entries[s]) : u.entries[s][i] = e
    <3>1. \E s \in Slots(u) : \E i \in 1 .. Len(u.entries[s]) : u.entries[s][i] = e
      BY <1>4, HeldIs
    <3> QED BY <1>2, <3>1
  <2>2. PICK i \in 1 .. Len(u.entries[s]) : u.entries[s][i] = e
    BY <2>1
  <2>3. CASE s = k
    BY <1>1, <1>3, <2>2, <2>3, ToSetIs
  <2>4. CASE s # k
    <3>1. t.entries[s][i] = e /\ i \in 1 .. Len(t.entries[s])
      BY <1>3, <2>2, <2>4
    <3>2. hash[e.key] % t.capacity = s
      BY <1>1, <3>1, Zenon DEF Hashed
    <3>3. e \in Held(t)
      BY <1>1, <3>1, HeldIs
    <3>4. e \notin ToSet(t.entries[k])
      BY <2>4, <3>2, ChainsOf
    <3> QED BY <3>3, <3>4
  <2> QED BY <2>3, <2>4
<1>10. ASSUME NEW e \in ToSet(c) PROVE e \in Held(u)
  <2>1. PICK i \in 1 .. Len(c) : c[i] = e
    BY <1>1, ToSetIs
  <2>2. k \in Slots(u) /\ i \in 1 .. Len(u.entries[k]) /\ u.entries[k][i] = e
    BY <1>2, <1>3, <2>1
  <2> QED BY <1>4, <2>2, HeldIs
<1>11. ASSUME NEW e \in Held(t), e \notin ToSet(t.entries[k]) PROVE e \in Held(u)
  <2>1. PICK s \in Slots(t) : \E i \in 1 .. Len(t.entries[s]) : t.entries[s][i] = e
    BY <1>1, HeldIs
  <2>2. PICK i \in 1 .. Len(t.entries[s]) : t.entries[s][i] = e
    BY <2>1
  <2>3. s # k
    <3> SUFFICES ASSUME s = k PROVE FALSE
      OBVIOUS
    <3>1. t.entries[k] \in Seq(Entry(V))
      BY <1>1 DEF Shape
    <3> QED BY <1>11, <2>2, <3>1, ToSetIs
  <2>4. s \in Slots(u) /\ i \in 1 .. Len(u.entries[s]) /\ u.entries[s][i] = e
    BY <1>2, <1>3, <2>2, <2>3
  <2> QED BY <1>4, <2>4, HeldIs
<1>12. Held(u) = (Held(t) \ ToSet(t.entries[k])) \cup ToSet(c)
  BY <1>9, <1>10, <1>11
<1> QED BY <1>2, <1>8, <1>12 DEF u

\* The walk down the chain of o's slot.
LEMMA LookupIs ==
    ASSUME NEW V, NEW t, Table(t, V), NEW o \in Objs
    PROVE  /\ Lookup(t, o) = 0 =>
                  \A e \in ToSet(t.entries[ht_hash(t, o)]) : ~object_cmp_eq(o, e.key)
           /\ Lookup(t, o) # 0 =>
                  /\ Lookup(t, o) \in 1 .. Len(t.entries[ht_hash(t, o)])
                  /\ object_cmp_eq(o, EntryOf(t, o).key)
                  /\ EntryOf(t, o) \in Held(t) /\ EntryOf(t, o) \in Entry(V)
                  /\ EntryOf(t, o) \in ToSet(t.entries[ht_hash(t, o)])
<1> DEFINE h == ht_hash(t, o)
           c == t.entries[h]
           I == {i \in 1 .. Len(c) : object_cmp_eq(o, c[i].key)}
           l == Lookup(t, o)
<1>1. h \in Slots(t) /\ Shape(t, V)
  BY HashIsSlot DEF Table
<1>2. Chain(c, Entry(V)) /\ Len(c) \in Nat
  BY <1>1, ChainsOf
<1>3. l = IF I # {} THEN Min(I) ELSE 0
  BY DEF Lookup, SelectInSeq
<1> HIDE DEF l
<1>4. c \in Seq(Entry(V)) /\ \A i \in 1 .. Len(c) : c[i] \in ToSet(c)
  BY <1>2, ToSetIs DEF Chain
<1>5. CASE I = {}
  <2>1. l = 0
    BY <1>3, <1>5
  <2>2. \A e \in ToSet(c) : ~object_cmp_eq(o, e.key)
    BY SMTT(60), <1>4, <1>5, ToSetIs
  <2> QED BY <2>1, <2>2 DEF l
<1>6. CASE I # {}
  <2>1. l \in I
    <3>1. I \subseteq Nat
      BY <1>2
    <3> HIDE DEF I
    <3> QED BY <1>3, <1>6, <3>1, MinOf
  <2>2. l \in 1 .. Len(c) /\ object_cmp_eq(o, c[l].key)
    BY <2>1
  <2>3. l # 0
    BY <1>2, <2>2
  <2>4. c[l] \in Held(t) /\ c[l] \in Entry(V) /\ c[l] \in ToSet(c)
    BY <1>1, <1>4, <2>2, HeldIs
  <2>5. EntryOf(t, o) = c[l]
    BY DEF EntryOf, l
  <2> QED BY <2>2, <2>3, <2>4, <2>5 DEF l
<1> QED BY <1>5, <1>6

\* A new entry: the table has room and does not hold it.
LEMMA AddedIs ==
    ASSUME NEW V, NEW t, Table(t, V), t.num_entries < t.capacity, NEW o \in Objs, NEW v \in V,
           [key |-> o, val |-> v] \notin Held(t)
    PROVE  /\ Table(Added(t, o, v), V)
           /\ Held(Added(t, o, v)) = Held(t) \cup {[key |-> o, val |-> v]}
<1> DEFINE e == [key |-> o, val |-> v]
           k == ht_hash(t, o)
           c == <<e>> \o t.entries[k]
           n == t.num_entries + 1
<1>1. /\ Shape(t, V) /\ t.num_entries \in Nat /\ t.capacity \in Nat \ {0}
      /\ t = [entries |-> t.entries, num_entries |-> t.num_entries, capacity |-> t.capacity]
  BY DEF Table, Shape
<1>2. k \in Slots(t) /\ k = hash[o] % t.capacity
  BY <1>1, HashIsSlot
<1>3. e \in Entry(V) /\ e.key = o
  BY DEF Entry
<1>4. Added(t, o, v) = WithChain(t, k, c, n)
  BY <1>1 DEF Added, WithChain
<1> HIDE DEF e, k
<1>5. /\ Chain(t.entries[k], Entry(V)) /\ Len(t.entries[k]) \in Nat
      /\ ToSet(t.entries[k]) = {x \in Held(t) : hash[x.key] % t.capacity = k}
  BY <1>2, ChainsOf
<1>6. e \notin ToSet(t.entries[k])
  BY <1>5 DEF e
<1>7. Chain(c, Entry(V)) /\ Len(c) = Len(t.entries[k]) + 1 /\ ToSet(c) = ToSet(t.entries[k]) \cup {e}
  BY <1>3, <1>5, <1>6, ChainPushed
<1> HIDE DEF c
<1>8. \A x \in ToSet(c) : hash[x.key] % t.capacity = k
  BY <1>2, <1>3, <1>5, <1>7
<1>9. n \in Nat /\ n <= t.capacity /\ n = t.num_entries + Len(c) - Len(t.entries[k])
  BY <1>1, <1>5, <1>7
<1> HIDE DEF n
<1>10. /\ Table(WithChain(t, k, c, n), V)
       /\ Held(WithChain(t, k, c, n)) = (Held(t) \ ToSet(t.entries[k])) \cup ToSet(c)
  BY <1>2, <1>7, <1>8, <1>9, ChainChanged
<1>11. (Held(t) \ ToSet(t.entries[k])) \cup ToSet(c) = Held(t) \cup {e}
  BY <1>5, <1>7
<1> QED BY <1>4, <1>10, <1>11 DEF e

\* The value of the entry found is overwritten by one that no entry has.
LEMMA OverwrittenIs ==
    ASSUME NEW V, NEW t, Table(t, V), NEW o \in Objs, Lookup(t, o) # 0, NEW v \in V,
           \A e \in Held(t) : e.val # v
    PROVE  LET u == [t EXCEPT !.entries[ht_hash(t, o)][Lookup(t, o)].val = v]
               old == EntryOf(t, o)
           IN  /\ Table(u, V)
               /\ Held(u) = (Held(t) \ {old}) \cup {[key |-> old.key, val |-> v]}
<1> DEFINE k == ht_hash(t, o)
           i == Lookup(t, o)
           old == EntryOf(t, o)
           e == [key |-> old.key, val |-> v]
           c == [t.entries[k] EXCEPT ![i] = e]
           n == t.num_entries
           u == [t EXCEPT !.entries[ht_hash(t, o)][Lookup(t, o)].val = v]
<1>1. /\ Shape(t, V) /\ n \in Nat /\ n <= t.capacity
      /\ t = [entries |-> t.entries, num_entries |-> t.num_entries, capacity |-> t.capacity]
      /\ t.entries \in [Slots(t) -> Seq(Entry(V))]
  BY DEF Table, Shape
<1>2. k \in Slots(t) /\ k = hash[o] % t.capacity
  BY <1>1, HashIsSlot
<1>3. /\ i \in 1 .. Len(t.entries[k]) /\ old = t.entries[k][i]
      /\ old \in Held(t) /\ old \in Entry(V) /\ old \in ToSet(t.entries[k])
  BY LookupIs DEF EntryOf
<1>4. e \in Entry(V) /\ e.key = old.key /\ e.val = v /\ e = [old EXCEPT !.val = v]
  BY SMTT(60), <1>3 DEF Entry
<1>5. u = WithChain(t, k, c, n)
  BY <1>1, <1>2, <1>3, <1>4 DEF WithChain
<1> HIDE DEF e, k, i, old, u
<1>6. /\ Chain(t.entries[k], Entry(V)) /\ Len(t.entries[k]) \in Nat
      /\ ToSet(t.entries[k]) = {x \in Held(t) : hash[x.key] % t.capacity = k}
  BY <1>2, ChainsOf
<1>7. e \notin ToSet(t.entries[k])
  BY <1>4, <1>6
<1>8. /\ Chain(c, Entry(V)) /\ Len(c) = Len(t.entries[k])
      /\ ToSet(c) = (ToSet(t.entries[k]) \ {old}) \cup {e}
  BY SMTT(60), <1>3, <1>4, <1>6, <1>7, ChainReplaced
<1> HIDE DEF c
<1>9. \A x \in ToSet(c) : hash[x.key] % t.capacity = k
  BY <1>3, <1>4, <1>6, <1>8
<1>10. n = t.num_entries + Len(c) - Len(t.entries[k])
  BY <1>1, <1>6, <1>8
<1> HIDE DEF n
<1>11. /\ Table(WithChain(t, k, c, n), V)
       /\ Held(WithChain(t, k, c, n)) = (Held(t) \ ToSet(t.entries[k])) \cup ToSet(c)
  BY <1>1, <1>2, <1>8, <1>9, <1>10, ChainChanged
<1>12. (Held(t) \ ToSet(t.entries[k])) \cup ToSet(c) = (Held(t) \ {old}) \cup {e}
  BY <1>3, <1>6, <1>8
<1> QED BY <1>5, <1>11, <1>12 DEF e, u, old

\* The entry found is taken out.
LEMMA RemovedIs ==
    ASSUME NEW V, NEW t, Table(t, V), NEW o \in Objs, Lookup(t, o) # 0
    PROVE  LET u == [t EXCEPT !.entries[ht_hash(t, o)] = RemoveAt(@, Lookup(t, o)),
                              !.num_entries = @ - 1]
           IN  Table(u, V) /\ Held(u) = Held(t) \ {EntryOf(t, o)}
<1> DEFINE k == ht_hash(t, o)
           i == Lookup(t, o)
           old == EntryOf(t, o)
           c == RemoveAt(t.entries[k], i)
           n == t.num_entries - 1
           u == [t EXCEPT !.entries[ht_hash(t, o)] = RemoveAt(@, Lookup(t, o)),
                          !.num_entries = @ - 1]
<1>1. /\ Shape(t, V) /\ t.num_entries \in Nat /\ t.num_entries <= t.capacity
      /\ t.capacity \in Nat /\ t.num_entries = Len(InOrder(t))
      /\ t = [entries |-> t.entries, num_entries |-> t.num_entries, capacity |-> t.capacity]
  BY DEF Table, Shape
<1>2. k \in Slots(t) /\ k = hash[o] % t.capacity
  BY <1>1, HashIsSlot
<1>3. /\ i \in 1 .. Len(t.entries[k]) /\ old = t.entries[k][i]
      /\ old \in Held(t) /\ old \in Entry(V) /\ old \in ToSet(t.entries[k])
  BY LookupIs DEF EntryOf
<1>4. u = WithChain(t, k, c, n)
  BY <1>1 DEF WithChain
<1> HIDE DEF k, i, old, u
<1>5. /\ Chain(t.entries[k], Entry(V)) /\ Len(t.entries[k]) \in Nat
      /\ ToSet(t.entries[k]) = {x \in Held(t) : hash[x.key] % t.capacity = k}
  BY SMTT(60), <1>2, ChainsOf
<1>6. /\ Chain(c, Entry(V)) /\ Len(c) = Len(t.entries[k]) - 1
      /\ ToSet(c) = ToSet(t.entries[k]) \ {old}
  BY <1>3, <1>5, ChainRemoved
<1> HIDE DEF c
<1>7. \A x \in ToSet(c) : hash[x.key] % t.capacity = k
  BY <1>5, <1>6
<1>8. n \in Nat /\ n <= t.capacity
  <2>1. PICK m \in 1 .. Len(InOrder(t)) : InOrder(t)[m] = old
    BY <1>1, <1>3, HeldIs
  <2> QED BY <1>1, <2>1
<1>9. n = t.num_entries + Len(c) - Len(t.entries[k])
  BY SMTT(60), <1>1, <1>5, <1>6
<1> HIDE DEF n
<1>10. /\ Table(WithChain(t, k, c, n), V)
       /\ Held(WithChain(t, k, c, n)) = (Held(t) \ ToSet(t.entries[k])) \cup ToSet(c)
  BY <1>2, <1>6, <1>7, <1>8, <1>9, ChainChanged
<1>11. (Held(t) \ ToSet(t.entries[k])) \cup ToSet(c) = Held(t) \ {old}
  BY <1>3, <1>5, <1>6
<1> QED BY <1>4, <1>10, <1>11 DEF u, old

-----------------------------------------------------------------------------
(* FoldLeft of module SequencesExt *)

\* Max on the sets that the folds take apart.
LEMMA MaxOf ==
    ASSUME NEW n \in Nat, NEW z, z \subseteq 1 .. n, z # {}
    PROVE  Max(z) \in z /\ \A y \in z : Max(z) >= y
<1> DEFINE T == {n - i : i \in z}
<1>1. T \subseteq Nat /\ T # {}
  <2>1. \A i \in z : n - i \in Nat
    OBVIOUS
  <2> QED BY <2>1, Zenon
<1>2. PICK t \in T : \A u \in T : t <= u
  <2> HIDE DEF T
  <2> QED BY <1>1, Least
<1>3. PICK i \in z : t = n - i
  BY <1>2
<1>4. \A j \in z : i >= j
  <2> TAKE j \in z
  <2>1. n - j \in T
    OBVIOUS
  <2> QED BY <2>1, <1>2, <1>3
<1> QED BY <1>4 DEF Max

\* The element that a fold over 1 .. n takes first.
LEMMA MaxIsLast ==
    ASSUME NEW n \in Nat, NEW z, z \subseteq 1 .. n, n \in z
    PROVE  Max(z) = n
<1>1. Max(z) \in z /\ \A y \in z : Max(z) >= y
  BY MaxOf
<1>2. Max(z) \in 1 .. n /\ Max(z) >= n
  BY <1>1
<1> HIDE DEF Max
<1> QED BY <1>2

\* The function a fold over es is defined by; G is the operator folded with.
FoldsBy(iter, S, G, b, es) ==
    /\ iter \in [SUBSET (1 .. Len(es)) -> S]
    /\ \A z \in SUBSET (1 .. Len(es)) :
           iter[z] = IF z = {} THEN b ELSE G[<<iter[z \ {Max(z)}], es[Max(z)]>>]

\* A fold over a sequence is computed: the recursive function behind FoldLeft
\* exists for every total step function G.
LEMMA FoldExists ==
    ASSUME NEW S, NEW X, NEW G \in [S \X X -> S], NEW b \in S, NEW es \in Seq(X)
    PROVE  \E iter : FoldsBy(iter, S, G, b, es)
<1> DEFINE n == Len(es)
           Eq(f, z) == f[z] = IF z = {} THEN b ELSE G[<<f[z \ {Max(z)}], es[Max(z)]>>]
           P(k) == \E f \in [SUBSET (1 .. k) -> S] : \A z \in SUBSET (1 .. k) : Eq(f, z)
           T == {k \in 0 .. n : P(k)}
<1>1. n \in Nat /\ \A i \in 1 .. n : es[i] \in X
  OBVIOUS
<1> HIDE DEF n
<1>2. 0 \in T
  <2> DEFINE f == [z \in SUBSET (1 .. 0) |-> b]
  <2>1. f \in [SUBSET (1 .. 0) -> S]
    OBVIOUS
  <2>2. \A z \in SUBSET (1 .. 0) : z = {} /\ f[z] = b
    OBVIOUS
  <2> HIDE DEF f
  <2>3. \A z \in SUBSET (1 .. 0) : Eq(f, z)
    BY <2>2
  <2>4. P(0)
    BY <2>1, <2>3
  <2>5. 0 \in 0 .. n
    BY <1>1
  <2> HIDE DEF P
  <2> QED BY <2>4, <2>5
<1>3. ASSUME NEW k \in 0 .. (n - 1), k \in T PROVE k + 1 \in T
  <2>1. k \in Nat /\ k + 1 \in 0 .. n /\ k + 1 \in 1 .. n
    BY <1>1
  <2>2. PICK f \in [SUBSET (1 .. k) -> S] : \A z \in SUBSET (1 .. k) : Eq(f, z)
    BY <1>3
  <2> DEFINE g == [z \in SUBSET (1 .. (k + 1)) |->
                       IF k + 1 \in z THEN G[<<f[z \ {k + 1}], es[k + 1]>>] ELSE f[z]]
  <2>3. \A z \in SUBSET (1 .. (k + 1)) :
            IF k + 1 \in z THEN z \ {k + 1} \in SUBSET (1 .. k) ELSE z \in SUBSET (1 .. k)
    BY <2>1
  <2>4. es[k + 1] \in X
    BY <1>1, <2>1
  <2>5. \A z \in SUBSET (1 .. (k + 1)) :
            IF k + 1 \in z THEN G[<<f[z \ {k + 1}], es[k + 1]>>] \in S ELSE f[z] \in S
    BY <2>2, <2>3, <2>4
  <2>6. g \in [SUBSET (1 .. (k + 1)) -> S]
    BY <2>5
  <2>7. \A z \in SUBSET (1 .. (k + 1)) :
            g[z] = IF k + 1 \in z THEN G[<<f[z \ {k + 1}], es[k + 1]>>] ELSE f[z]
    OBVIOUS
  <2>8. \A z \in SUBSET (1 .. k) : z \in SUBSET (1 .. (k + 1)) /\ k + 1 \notin z
    BY <2>1
  <2> HIDE DEF g
  <2>9. \A z \in SUBSET (1 .. k) : g[z] = f[z]
    BY <2>7, <2>8
  <2>10. ASSUME NEW z \in SUBSET (1 .. (k + 1)) PROVE Eq(g, z)
    <3>1. CASE k + 1 \in z
      <4>1. Max(z) = k + 1
        <5>1. k + 1 \in Nat /\ z \subseteq 1 .. (k + 1)
          BY <2>1
        <5> QED BY <3>1, <5>1, MaxIsLast
      <4>2. z \ {k + 1} \in SUBSET (1 .. k)
        BY <2>3, <3>1
      <4> QED BY <2>7, <2>9, <3>1, <4>1, <4>2
    <3>2. CASE k + 1 \notin z
      <4>1. z \in SUBSET (1 .. k) /\ z \ {Max(z)} \in SUBSET (1 .. k)
        BY <2>3, <3>2
      <4> QED BY <2>2, <2>9, <4>1
    <3> QED BY <3>1, <3>2
  <2>11. P(k + 1)
    BY <2>6, <2>10
  <2> QED BY <2>1, <2>11
<1>4. \A i \in 0 .. n : i \in T
  <2> HIDE DEF T
  <2> QED BY <1>1, <1>2, <1>3, Climb
<1>5. P(n)
  <2>1. n \in 0 .. n
    BY <1>1
  <2> HIDE DEF P
  <2> QED BY <2>1, <1>4
<1> QED BY <1>5 DEF n, FoldsBy

-----------------------------------------------------------------------------
(* Growing *)

\* The array after the first i entries have been moved to it.
Moves(t, h) ==
    /\ h[0] = EmptySlots(2 * t.capacity)
    /\ \A i \in 1 .. Len(InOrder(t)) :
           h[i] = [h[i - 1] EXCEPT ![hash[InOrder(t)[i].key] % (2 * t.capacity)] = <<InOrder(t)[i]>> \o @]

\* ht_resize moves the entries one by one into a table of twice the capacity.
LEMMA ResizeMoves ==
    ASSUME NEW V, NEW t, Shape(t, V)
    PROVE  \E h : Moves(t, h) /\ ht_resize(t) = [entries     |-> h[Len(InOrder(t))],
                                                 num_entries |-> t.num_entries,
                                                 capacity    |-> 2 * t.capacity]
<1> DEFINE cap == 2 * t.capacity
           b == EmptySlots(cap)
           es == InOrder(t)
           n == Len(es)
           X == Entry(V)
           S == [0 .. (cap - 1) -> Seq(X)]
           Next1(s, e) == [s EXCEPT ![hash[e.key] % cap] = <<e>> \o @]
           G == [p \in S \X X |-> Next1(p[1], p[2])]
           Q(it) == it = [z \in SUBSET (DOMAIN es) |->
                              IF z = {} THEN b ELSE Next1(it[z \ {Max(z)}], es[Max(z)])]
<1>1. es \in Seq(X)
  BY InOrderPlaces
<1>2. b \in S
  BY DEF EmptySlots
<1>3. n \in Nat /\ DOMAIN es = 1 .. n
  BY <1>1
<1>4. ASSUME NEW s \in S, NEW e \in X PROVE Next1(s, e) \in S
  <2> HIDE DEF cap, X
  <2>1. \A k \in 0 .. (cap - 1) : <<e>> \o s[k] \in Seq(X)
    <3>1. \A k \in 0 .. (cap - 1) : s[k] \in Seq(X)
      OBVIOUS
    <3>2. <<e>> \in Seq(X)
      OBVIOUS
    <3> QED BY <3>1, <3>2, ConcatPlaces
  <2> QED BY <2>1
<1>5. G \in [S \X X -> S]
  <2> HIDE DEF S, X, Next1
  <2> QED BY <1>4
<1>6. \E it : Q(it)
  <2>0. PICK it : FoldsBy(it, S, G, b, es)
    <3> HIDE DEF S, X, G, b, es
    <3> QED BY <1>1, <1>2, <1>5, FoldExists
  <2>1. /\ it \in [SUBSET (1 .. n) -> S]
        /\ \A z \in SUBSET (1 .. n) :
               it[z] = IF z = {} THEN b ELSE G[<<it[z \ {Max(z)}], es[Max(z)]>>]
    <3> HIDE DEF S, X, G, b, es
    <3> QED BY <2>0 DEF FoldsBy
  <2>2. ASSUME NEW z \in SUBSET (1 .. n), z # {}
        PROVE  it[z] = Next1(it[z \ {Max(z)}], es[Max(z)])
    <3>1. Max(z) \in 1 .. n
      <4> HIDE DEF n
      <4> QED BY <1>3, <2>2, MaxOf
    <3>2. es[Max(z)] \in X
      BY <1>1, <3>1
    <3>3. it[z \ {Max(z)}] \in S
      BY <2>1
    <3> HIDE DEF S, X, Next1, es, n
    <3>4. \A s \in S, e \in X : G[<<s, e>>] = Next1(s, e)
      BY SMTT(60)
    <3> HIDE DEF G
    <3> QED BY <2>1, <2>2, <3>2, <3>3, <3>4
  <2>3. it = [z \in SUBSET (1 .. n) |-> it[z]]
    BY <2>1
  <2> HIDE DEF Next1, es, n, S, X, b
  <2>4. it = [z \in SUBSET (1 .. n) |-> IF z = {} THEN b ELSE Next1(it[z \ {Max(z)}], es[Max(z)])]
    BY <2>1, <2>2, <2>3
  <2> QED BY <1>3, <2>4
<1> DEFINE it == CHOOSE f : Q(f)
<1>7. Q(it)
  <2> HIDE DEF Q
  <2> QED BY <1>6, Zenon
<1>8. FoldLeft(LAMBDA s, e : Next1(s, e), b, es) = it[DOMAIN es]
  BY DEF FoldLeft, MapThenFoldSet
<1> DEFINE h == [i \in 0 .. n |-> it[1 .. i]]
<1>9. ht_resize(t) = [entries |-> it[1 .. n], num_entries |-> t.num_entries, capacity |-> cap]
  BY <1>3, <1>8 DEF ht_resize
<1> HIDE DEF b, es, n, Next1, it
<1>10. h[0] = b
  <2>1. 1 .. 0 = {} /\ {} \in SUBSET (1 .. n) /\ 0 \in 0 .. n
    BY <1>3
  <2> QED BY <1>3, <1>7, <2>1
<1>11. ASSUME NEW i \in 1 .. n PROVE h[i] = Next1(h[i - 1], es[i])
  <2>1. i \in 0 .. n /\ i - 1 \in 0 .. n /\ i \in Nat \ {0} /\ i \in 1 .. i /\ 1 .. i \in SUBSET (1 .. n)
    BY <1>3
  <2>2. Max(1 .. i) = i /\ (1 .. i) \ {i} = 1 .. (i - 1)
    BY <2>1, MaxOfInterval
  <2>3. it[1 .. i] = Next1(it[1 .. (i - 1)], es[i])
    BY <1>3, <1>7, <2>1, <2>2
  <2> QED BY <2>1, <2>3
<1>12. n \in 0 .. n
  BY <1>3
<1>13. h[n] = it[1 .. n]
  BY <1>12
<1> HIDE DEF h
<1>14. Moves(t, h)
  BY <1>10, <1>11 DEF Moves, b, es, n, Next1
<1> QED BY <1>9, <1>13, <1>14 DEF es, n

\* The table of n slots without entries.
LEMMA EmptyTable ==
    ASSUME NEW V, NEW c \in Nat \ {0}
    PROVE  LET t == [entries |-> EmptySlots(c), num_entries |-> 0, capacity |-> c]
           IN  Table(t, V) /\ Held(t) = {} /\ Len(InOrder(t)) = 0
<1> DEFINE t == [entries |-> EmptySlots(c), num_entries |-> 0, capacity |-> c]
<1>1. /\ t = [entries |-> t.entries, num_entries |-> t.num_entries, capacity |-> t.capacity]
      /\ t.capacity = c /\ t.num_entries = 0 /\ t.entries = EmptySlots(c)
  OBVIOUS
<1> HIDE DEF t
<1>2. /\ t.entries \in [Slots(t) -> Seq(Entry(V))]
      /\ \A s \in Slots(t) : Len(t.entries[s]) = 0
  BY <1>1 DEF Slots, EmptySlots
<1>3. Shape(t, V)
  BY <1>1, <1>2 DEF Shape
<1>4. Once(t) /\ Hashed(t)
  BY <1>2 DEF Once, Hashed
<1>5. \A e \in Held(t) : FALSE
  BY <1>2, <1>3, HeldIs
<1>6. Len(InOrder(t)) = 0
  <2>1. Len(InOrder(t)) \in Nat
    BY <1>3, InOrderPlaces
  <2>2. \A m \in 1 .. Len(InOrder(t)) : FALSE
    BY <1>3, <1>5, HeldIs
  <2>3. Len(InOrder(t)) # 0 => 1 \in 1 .. Len(InOrder(t))
    BY <2>1
  <2> QED BY <2>2, <2>3
<1>7. Table(t, V)
  BY <1>1, <1>3, <1>4, <1>6 DEF Table
<1> QED BY <1>5, <1>6, <1>7 DEF t

\* Growing moves every entry, to the slot its key hashes to in the larger array.
LEMMA ResizedIs ==
    ASSUME NEW V, NEW t, Table(t, V)
    PROVE  /\ Table(ht_resize(t), V) /\ Held(ht_resize(t)) = Held(t)
           /\ ht_resize(t).num_entries = t.num_entries
           /\ ht_resize(t).num_entries < ht_resize(t).capacity
<1> DEFINE cap == 2 * t.capacity
           es == InOrder(t)
           n == Len(es)
<1>1. /\ Shape(t, V) /\ Once(t) /\ Hashed(t) /\ t.capacity \in Nat \ {0}
      /\ t.num_entries = n /\ n <= t.capacity
  BY DEF Table, Shape
<1>2. es \in Seq(Entry(V)) /\ n \in Nat
  BY <1>1, InOrderPlaces
<1>3. cap \in Nat \ {0} /\ n < cap
  BY <1>1, <1>2
<1>4. PICK h : Moves(t, h) /\ ht_resize(t) = [entries |-> h[n], num_entries |-> t.num_entries, capacity |-> cap]
  BY SMTT(60), <1>1, ResizeMoves
<1>5. /\ h[0] = EmptySlots(cap)
      /\ \A i \in 1 .. n : h[i] = [h[i - 1] EXCEPT ![hash[es[i].key] % cap] = <<es[i]>> \o @]
  BY <1>4 DEF Moves
<1>6. \A i, j \in 1 .. n : es[i] = es[j] => i = j
  BY <1>1, InOrderOnce
<1> HIDE DEF cap, es, n
<1> DEFINE u(i) == [entries |-> h[i], num_entries |-> i, capacity |-> cap]
           P(i) == Table(u(i), V) /\ Held(u(i)) = {es[j] : j \in 1 .. i}
           T == {i \in 0 .. n : P(i)}
<1>7. 0 \in T
  <2>1. 0 \in 0 .. n /\ {es[j] : j \in 1 .. 0} = {}
    BY SMTT(60), <1>2
  <2>2. Table(u(0), V) /\ Held(u(0)) = {}
    BY <1>3, <1>5, EmptyTable
  <2> HIDE DEF u
  <2> QED BY <2>1, <2>2
<1>8. ASSUME NEW i \in 0 .. (n - 1), i \in T PROVE i + 1 \in T
  <2>1. i \in Nat /\ i + 1 \in 0 .. n /\ i + 1 \in 1 .. n /\ (i + 1) - 1 = i /\ i < cap
    BY <1>2, <1>3
  <2> DEFINE e == es[i + 1]
  <2>2. e \in Entry(V)
    BY <1>2, <2>1 DEF n
  <2>3. e.key \in Objs /\ e.val \in V /\ e = [key |-> e.key, val |-> e.val]
    BY SMTT(60), <2>2 DEF Entry
  <2>4. h[i + 1] = [h[i] EXCEPT ![hash[e.key] % cap] = <<e>> \o @]
    BY <1>5, <2>1
  <2>5. \A j \in 1 .. i : e # es[j]
    <3>1. \A j \in 1 .. i : j \in 1 .. n /\ j # i + 1
      BY <1>2, <2>1
    <3> QED BY <1>6, <2>1, <3>1
  <2> HIDE DEF e
  <2>6. Table(u(i), V) /\ Held(u(i)) = {es[j] : j \in 1 .. i}
    BY <1>8
  <2>7. u(i).num_entries < u(i).capacity
    BY SMTT(60), <2>1
  <2>8. Added(u(i), e.key, e.val) = u(i + 1)
    <3> DEFINE f == [key |-> e.key, val |-> e.val]
    <3>1. f = e
      BY SMTT(60), <2>3
    <3>2. Added(u(i), e.key, e.val) =
              [entries     |-> [h[i] EXCEPT ![hash[e.key] % cap] = <<f>> \o @],
               num_entries |-> i + 1, capacity |-> cap]
      <4> DEFINE w == u(i)
      <4>1. /\ w = [entries |-> w.entries, num_entries |-> w.num_entries, capacity |-> w.capacity]
            /\ w.entries = h[i] /\ w.num_entries = i /\ w.capacity = cap
        OBVIOUS
      <4> HIDE DEF w
      <4> DEFINE x == [w.entries EXCEPT ![hash[e.key] % w.capacity] = <<f>> \o @]
                 r == [[w EXCEPT !.entries = x] EXCEPT !.num_entries = w.num_entries + 1]
      <4>2. Added(w, e.key, e.val) = r
        BY Zenon DEF Added, ht_hash
      <4>3. r = [entries |-> x, num_entries |-> w.num_entries + 1, capacity |-> w.capacity]
        <5> HIDE DEF x
        <5> DEFINE y == [w EXCEPT !.entries = x]
                   m == w.num_entries + 1
        <5>1. y = [entries |-> x, num_entries |-> w.num_entries, capacity |-> w.capacity]
          BY <4>1
        <5> HIDE DEF y, m
        <5>2. [y EXCEPT !.num_entries = m] = [entries |-> x, num_entries |-> m, capacity |-> w.capacity]
          BY <5>1
        <5> QED BY <5>2 DEF y, m
      <4>4. x = [h[i] EXCEPT ![hash[e.key] % cap] = <<f>> \o @]
        BY <4>1
      <4> HIDE DEF x, r
      <4> QED BY <4>1, <4>2, <4>3, <4>4 DEF w
    <3> HIDE DEF f
    <3> QED BY <2>4, <3>1, <3>2
  <2> HIDE DEF u
  <2>9. [key |-> e.key, val |-> e.val] \notin Held(u(i))
    BY <2>3, <2>5, <2>6
  <2>10. /\ Table(Added(u(i), e.key, e.val), V)
         /\ Held(Added(u(i), e.key, e.val)) = Held(u(i)) \cup {[key |-> e.key, val |-> e.val]}
    BY <2>3, <2>6, <2>7, <2>9, AddedIs
  <2>11. {es[j] : j \in 1 .. (i + 1)} = {es[j] : j \in 1 .. i} \cup {e}
    <3>1. \A j \in 1 .. (i + 1) : j \in 1 .. i \/ j = i + 1
      BY <2>1
    <3>2. \A j \in 1 .. i : j \in 1 .. (i + 1)
      BY <2>1
    <3>3. i + 1 \in 1 .. (i + 1)
      BY <2>1
    <3> QED BY <3>1, <3>2, <3>3 DEF e
  <2>12. P(i + 1)
    BY <2>3, <2>6, <2>8, <2>10, <2>11
  <2> HIDE DEF P
  <2> QED BY <2>1, <2>12
<1>9. P(n)
  <2>1. \A i \in 0 .. n : i \in T
    <3> HIDE DEF T
    <3> QED BY <1>2, <1>7, <1>8, Climb
  <2>2. n \in 0 .. n
    BY <1>2
  <2> HIDE DEF P
  <2> QED BY <2>1, <2>2
<1>10. Held(t) = {es[j] : j \in 1 .. n}
  BY <1>1, <1>2, HeldIs DEF es, n
<1>11. ht_resize(t) = u(n)
  BY <1>1, <1>4
<1> QED BY <1>1, <1>3, <1>9, <1>10, <1>11

\* An insertion grows a full table first.
LEMMA GrownIs ==
    ASSUME NEW V, NEW t, Table(t, V), NEW u,
           u = IF t.num_entries >= t.capacity THEN ht_resize(t) ELSE t
    PROVE  /\ u = Grown(t) /\ Table(u, V) /\ Held(u) = Held(t)
           /\ u.num_entries < u.capacity
<1>1. t.num_entries \in Nat /\ t.capacity \in Nat /\ t.num_entries <= t.capacity
  BY DEF Table, Shape
<1>2. u = Grown(t)
  BY <1>1 DEF Grown, IsFull
<1>3. CASE t.num_entries = t.capacity
  <2>1. u = ht_resize(t)
    BY <1>1, <1>3
  <2> QED BY <1>2, <2>1, ResizedIs
<1>4. CASE t.num_entries # t.capacity
  BY <1>1, <1>2, <1>4
<1> QED BY <1>3, <1>4

-----------------------------------------------------------------------------
(* Freeing what a collection holds *)

\* A heap is a record: the keys and values allocated, and whether one was freed twice.
IsHeap(h) ==
    /\ h = [keys |-> h.keys, vals |-> h.vals, twice |-> h.twice]
    /\ h.twice \in BOOLEAN

\* The heap without the keys at K and the values in W, all allocated in h.
Without(h, K, W) == [keys |-> h.keys \ K, vals |-> h.vals \ W, twice |-> FALSE]

\* The addresses of the keys of a set of entries, and their values.
RepsOf(E) == {e.key.rep : e \in E} \ {0}
\* The values of a set of entries.
ValsOf(E) == {e.val : e \in E}

\* What freeing does to a heap.
LEMMA FreeIs ==
    ASSUME NEW h, NEW K, NEW W, NEW v, v \in h.vals \ W
    PROVE  object_free(Without(h, K, W), v) = Without(h, K, W \cup {v})
<1> DEFINE g == Without(h, K, W)
<1>1. g.keys = h.keys \ K /\ g.vals = h.vals \ W /\ g.twice = FALSE /\ g = [keys |-> g.keys, vals |-> g.vals, twice |-> g.twice]
  BY DEF Without
<1>2. object_free(g, v) = [keys |-> g.keys, vals |-> g.vals \ {v}, twice |-> FALSE]
  <2>1. (g.twice \/ v \notin g.vals) = FALSE
    BY <1>1
  <2> DEFINE y == [g EXCEPT !.vals = g.vals \ {v}]
  <2> HIDE DEF g
  <2>2. y = [keys |-> g.keys, vals |-> g.vals \ {v}, twice |-> g.twice]
    BY <1>1
  <2>3. object_free(g, v) = [y EXCEPT !.twice = FALSE]
    <3>1. object_free(g, v) = [y EXCEPT !.twice = g.twice \/ v \notin g.vals]
      BY Zenon DEF object_free
    <3> QED BY <2>1, <3>1
  <2> HIDE DEF y
  <2> QED BY <2>2, <2>3
<1>3. (h.vals \ W) \ {v} = h.vals \ (W \cup {v})
  OBVIOUS
<1> QED BY <1>1, <1>2, <1>3 DEF Without

\* Freeing a key frees the memory it owns, if it owns any.
LEMMA FreeKeyIs ==
    ASSUME NEW h, NEW K, NEW W, NEW o, o.rep \in h.keys \ K \/ o.rep = 0
    PROVE  object_free_key(Without(h, K, W), o) = Without(h, K \cup ({o.rep} \ {0}), W)
<1> DEFINE g == Without(h, K, W)
<1>1. g.keys = h.keys \ K /\ g.vals = h.vals \ W /\ g.twice = FALSE /\ g = [keys |-> g.keys, vals |-> g.vals, twice |-> g.twice]
  BY DEF Without
<1>2. CASE o.rep # 0
  <2>1. object_free_key(g, o) = [keys |-> g.keys \ {o.rep}, vals |-> g.vals, twice |-> FALSE]
    <3>1. (g.twice \/ o.rep \notin g.keys) = FALSE
      BY <1>1, <1>2
    <3> DEFINE y == [g EXCEPT !.keys = g.keys \ {o.rep}]
    <3> HIDE DEF g
    <3>2. y = [keys |-> g.keys \ {o.rep}, vals |-> g.vals, twice |-> g.twice]
      BY <1>1
    <3>3. object_free_key(g, o) = [y EXCEPT !.twice = FALSE]
      <4>1. object_free_key(g, o) = [y EXCEPT !.twice = g.twice \/ o.rep \notin g.keys]
        BY <1>2, Zenon DEF object_free_key, OwnsMemory
      <4> QED BY <3>1, <4>1
    <3> HIDE DEF y
    <3> QED BY <3>2, <3>3
  <2>2. (h.keys \ K) \ {o.rep} = h.keys \ (K \cup ({o.rep} \ {0}))
    BY <1>2
  <2> QED BY <1>1, <2>1, <2>2 DEF Without
<1>3. CASE o.rep = 0
  <2>1. K \cup ({o.rep} \ {0}) = K
    BY <1>3
  <2> QED BY <1>3, <2>1 DEF object_free_key, OwnsMemory
<1> QED BY <1>2, <1>3

\* The heap after each step of the loop that frees the elements of a vector or a queue.
ValsFreed(b, es) == FoldLeft(object_free, b, es)
\* h[i] is the heap after vec_free has freed the first i values.
ValsFreedSteps(h, b, es) ==
    /\ h[0] = b /\ ValsFreed(b, es) = h[Len(es)]
    /\ \A i \in 1 .. Len(es) : h[i] = object_free(h[i - 1], es[i])

\* There are such steps.
LEMMA ValsFreeSteps ==
    ASSUME NEW X, NEW b, IsHeap(b), NEW es \in Seq(X)
    PROVE  \E h : ValsFreedSteps(h, b, es)
<1> DEFINE n == Len(es)
           S == [keys : SUBSET b.keys, vals : SUBSET b.vals, twice : BOOLEAN]
           Step(s, e) == object_free(s, e)
           G == [p \in S \X X |-> Step(p[1], p[2])]
           Q(it) == it = [z \in SUBSET (DOMAIN es) |->
                              IF z = {} THEN b ELSE Step(it[z \ {Max(z)}], es[Max(z)])]
<1>2. b \in S
  BY DEF IsHeap
<1>3. n \in Nat /\ DOMAIN es = 1 .. n
  OBVIOUS
<1>4. ASSUME NEW s \in S, NEW e \in X PROVE Step(s, e) \in S
  <2> DEFINE y == [s EXCEPT !.vals = s.vals \ {e}]
  <2>1. y \in S
    OBVIOUS
  <2>2. Step(s, e) = [y EXCEPT !.twice = s.twice \/ e \notin s.vals]
    BY DEF object_free
  <2> HIDE DEF y
  <2> QED BY <2>1, <2>2
<1>5. G \in [S \X X -> S]
  <2> HIDE DEF S, Step
  <2> QED BY <1>4
<1>6. \E it : Q(it)
  <2>0. PICK it : FoldsBy(it, S, G, b, es)
    <3> HIDE DEF S, G
    <3> QED BY <1>2, <1>5, FoldExists
  <2>1. /\ it \in [SUBSET (1 .. n) -> S]
        /\ \A z \in SUBSET (1 .. n) :
               it[z] = IF z = {} THEN b ELSE G[<<it[z \ {Max(z)}], es[Max(z)]>>]
    <3> HIDE DEF S, G
    <3> QED BY <2>0 DEF FoldsBy
  <2>2. ASSUME NEW z \in SUBSET (1 .. n), z # {}
        PROVE  it[z] = Step(it[z \ {Max(z)}], es[Max(z)])
    <3>1. Max(z) \in 1 .. n
      <4> HIDE DEF n
      <4> QED BY <1>3, <2>2, MaxOf
    <3>2. es[Max(z)] \in X
      BY <3>1
    <3> HIDE DEF S, Step, n
    <3>3. it[z \ {Max(z)}] \in S
      BY <2>1
    <3>4. \A s \in S, e \in X : G[<<s, e>>] = Step(s, e)
      OBVIOUS
    <3> HIDE DEF G
    <3> QED BY <2>1, <2>2, <3>2, <3>3, <3>4
  <2> HIDE DEF Step, n, S
  <2>3. it = [z \in SUBSET (1 .. n) |-> it[z]]
    BY <2>1
  <2>4. it = [z \in SUBSET (1 .. n) |-> IF z = {} THEN b ELSE Step(it[z \ {Max(z)}], es[Max(z)])]
    BY <2>1, <2>2, <2>3
  <2> QED BY <1>3, <2>4
<1> DEFINE it == CHOOSE f : Q(f)
<1>7. Q(it)
  <2> HIDE DEF Q
  <2> QED BY <1>6, Zenon
<1>8. FoldLeft(object_free, b, es) = it[DOMAIN es]
  BY DEF FoldLeft, MapThenFoldSet
<1> DEFINE h == [i \in 0 .. n |-> it[1 .. i]]
<1> HIDE DEF n, Step, it
<1>10. h[0] = b
  <2>1. 1 .. 0 = {} /\ {} \in SUBSET (1 .. n) /\ 0 \in 0 .. n
    BY <1>3
  <2> QED BY <1>3, <1>7, <2>1
<1>11. ASSUME NEW i \in 1 .. n PROVE h[i] = Step(h[i - 1], es[i])
  <2>1. i \in 0 .. n /\ i - 1 \in 0 .. n /\ i \in Nat \ {0} /\ i \in 1 .. i /\ 1 .. i \in SUBSET (1 .. n)
    BY <1>3
  <2>2. Max(1 .. i) = i /\ (1 .. i) \ {i} = 1 .. (i - 1)
    BY <2>1, MaxOfInterval
  <2>3. it[1 .. i] = Step(it[1 .. (i - 1)], es[i])
    BY <1>3, <1>7, <2>1, <2>2
  <2> QED BY <2>1, <2>3
<1>12. n \in 0 .. n
  BY <1>3
<1>13. h[n] = FoldLeft(object_free, b, es)
  BY <1>3, <1>8, <1>12
<1> HIDE DEF h
<1> QED BY <1>10, <1>11, <1>13, Zenon DEF n, Step, ValsFreedSteps, ValsFreed

\* The loop over the members of a set.
KeysFreed(b, es) == FoldLeft(LAMBDA s, e : object_free_key(s, e.key), b, es)
\* h[i] is the heap after set_free has freed the first i keys.
KeysFreedSteps(h, b, es) ==
    /\ h[0] = b /\ KeysFreed(b, es) = h[Len(es)]
    /\ \A i \in 1 .. Len(es) : h[i] = object_free_key(h[i - 1], es[i].key)

\* There are such steps.
LEMMA KeysFreeSteps ==
    ASSUME NEW X, NEW b, IsHeap(b), NEW es \in Seq(X)
    PROVE  \E h : KeysFreedSteps(h, b, es)
<1> DEFINE n == Len(es)
           S == [keys : SUBSET b.keys, vals : SUBSET b.vals, twice : BOOLEAN]
           Step(s, e) == object_free_key(s, e.key)
           G == [p \in S \X X |-> Step(p[1], p[2])]
           Q(it) == it = [z \in SUBSET (DOMAIN es) |->
                              IF z = {} THEN b ELSE Step(it[z \ {Max(z)}], es[Max(z)])]
<1>2. b \in S
  BY DEF IsHeap
<1>3. n \in Nat /\ DOMAIN es = 1 .. n
  OBVIOUS
<1>4. ASSUME NEW s \in S, NEW e \in X PROVE Step(s, e) \in S
  <2> DEFINE y == [s EXCEPT !.keys = s.keys \ {e.key.rep}]
  <2>1. y \in S
    OBVIOUS
  <2>2. Step(s, e) = IF e.key.rep = 0 THEN s ELSE [y EXCEPT !.twice = s.twice \/ e.key.rep \notin s.keys]
    BY DEF object_free_key, OwnsMemory
  <2> HIDE DEF y
  <2> QED BY <2>1, <2>2
<1>5. G \in [S \X X -> S]
  <2> HIDE DEF S, Step
  <2> QED BY <1>4
<1>6. \E it : Q(it)
  <2>0. PICK it : FoldsBy(it, S, G, b, es)
    <3> HIDE DEF S, G
    <3> QED BY <1>2, <1>5, FoldExists
  <2>1. /\ it \in [SUBSET (1 .. n) -> S]
        /\ \A z \in SUBSET (1 .. n) :
               it[z] = IF z = {} THEN b ELSE G[<<it[z \ {Max(z)}], es[Max(z)]>>]
    <3> HIDE DEF S, G
    <3> QED BY <2>0 DEF FoldsBy
  <2>2. ASSUME NEW z \in SUBSET (1 .. n), z # {}
        PROVE  it[z] = Step(it[z \ {Max(z)}], es[Max(z)])
    <3>1. Max(z) \in 1 .. n
      <4> HIDE DEF n
      <4> QED BY <1>3, <2>2, MaxOf
    <3>2. es[Max(z)] \in X
      BY <3>1
    <3> HIDE DEF S, Step, n
    <3>3. it[z \ {Max(z)}] \in S
      BY <2>1
    <3>4. \A s \in S, e \in X : G[<<s, e>>] = Step(s, e)
      OBVIOUS
    <3> HIDE DEF G
    <3> QED BY <2>1, <2>2, <3>2, <3>3, <3>4
  <2> HIDE DEF Step, n, S
  <2>3. it = [z \in SUBSET (1 .. n) |-> it[z]]
    BY <2>1
  <2>4. it = [z \in SUBSET (1 .. n) |-> IF z = {} THEN b ELSE Step(it[z \ {Max(z)}], es[Max(z)])]
    BY <2>1, <2>2, <2>3
  <2> QED BY <1>3, <2>4
<1> DEFINE it == CHOOSE f : Q(f)
<1>7. Q(it)
  <2> HIDE DEF Q
  <2> QED BY <1>6, Zenon
<1>8. FoldLeft(LAMBDA s, e : object_free_key(s, e.key), b, es) = it[DOMAIN es]
  BY DEF FoldLeft, MapThenFoldSet
<1> DEFINE h == [i \in 0 .. n |-> it[1 .. i]]
<1> HIDE DEF n, Step, it
<1>10. h[0] = b
  <2>1. 1 .. 0 = {} /\ {} \in SUBSET (1 .. n) /\ 0 \in 0 .. n
    BY <1>3
  <2> QED BY <1>3, <1>7, <2>1
<1>11. ASSUME NEW i \in 1 .. n PROVE h[i] = Step(h[i - 1], es[i])
  <2>1. i \in 0 .. n /\ i - 1 \in 0 .. n /\ i \in Nat \ {0} /\ i \in 1 .. i /\ 1 .. i \in SUBSET (1 .. n)
    BY <1>3
  <2>2. Max(1 .. i) = i /\ (1 .. i) \ {i} = 1 .. (i - 1)
    BY <2>1, MaxOfInterval
  <2>3. it[1 .. i] = Step(it[1 .. (i - 1)], es[i])
    BY <1>3, <1>7, <2>1, <2>2
  <2> QED BY <2>1, <2>3
<1>12. n \in 0 .. n
  BY <1>3
<1>13. h[n] = FoldLeft(LAMBDA s, e : object_free_key(s, e.key), b, es)
  BY <1>3, <1>8, <1>12
<1> HIDE DEF h
<1> QED BY <1>10, <1>11, <1>13, Zenon DEF n, Step, KeysFreedSteps, KeysFreed

\* The loop over the entries of a table.
EntriesFreed(b, es) == FoldLeft(EntryFreed, b, es)
\* h[i] is the heap after ht_free has freed the first i entries.
EntriesFreedSteps(h, b, es) ==
    /\ h[0] = b /\ EntriesFreed(b, es) = h[Len(es)]
    /\ \A i \in 1 .. Len(es) : h[i] = EntryFreed(h[i - 1], es[i])

\* There are such steps.
LEMMA EntriesFreeSteps ==
    ASSUME NEW X, NEW b, IsHeap(b), NEW es \in Seq(X)
    PROVE  \E h : EntriesFreedSteps(h, b, es)
<1> DEFINE n == Len(es)
           S == [keys : SUBSET b.keys, vals : SUBSET b.vals, twice : BOOLEAN]
           Step(s, e) == EntryFreed(s, e)
           G == [p \in S \X X |-> Step(p[1], p[2])]
           Q(it) == it = [z \in SUBSET (DOMAIN es) |->
                              IF z = {} THEN b ELSE Step(it[z \ {Max(z)}], es[Max(z)])]
<1>2. b \in S
  BY DEF IsHeap
<1>3. n \in Nat /\ DOMAIN es = 1 .. n
  OBVIOUS
<1>4. ASSUME NEW s \in S, NEW e \in X PROVE Step(s, e) \in S
  <2> DEFINE v == e.val
             k == e.key.rep
             y == [s EXCEPT !.vals = s.vals \ {v}]
             r == [y EXCEPT !.twice = s.twice \/ v \notin s.vals]
             x == [r EXCEPT !.keys = r.keys \ {k}]
  <2>1. y \in S
    OBVIOUS
  <2>2. r \in S
    <3> HIDE DEF y
    <3> QED BY <2>1
  <2>3. x \in S
    <3> HIDE DEF r
    <3> QED BY <2>2
  <2>4. Step(s, e) = IF k = 0 THEN r ELSE [x EXCEPT !.twice = r.twice \/ k \notin r.keys]
    BY Zenon DEF EntryFreed, object_free_key, object_free, OwnsMemory
  <2> HIDE DEF r, x
  <2> QED BY <2>2, <2>3, <2>4
<1>5. G \in [S \X X -> S]
  <2> HIDE DEF S, Step
  <2> QED BY <1>4
<1>6. \E it : Q(it)
  <2>0. PICK it : FoldsBy(it, S, G, b, es)
    <3> HIDE DEF S, G
    <3> QED BY <1>2, <1>5, FoldExists
  <2>1. /\ it \in [SUBSET (1 .. n) -> S]
        /\ \A z \in SUBSET (1 .. n) :
               it[z] = IF z = {} THEN b ELSE G[<<it[z \ {Max(z)}], es[Max(z)]>>]
    <3> HIDE DEF S, G
    <3> QED BY <2>0 DEF FoldsBy
  <2>2. ASSUME NEW z \in SUBSET (1 .. n), z # {}
        PROVE  it[z] = Step(it[z \ {Max(z)}], es[Max(z)])
    <3>1. Max(z) \in 1 .. n
      <4> HIDE DEF n
      <4> QED BY <1>3, <2>2, MaxOf
    <3>2. es[Max(z)] \in X
      BY <3>1
    <3> HIDE DEF S, Step, n
    <3>3. it[z \ {Max(z)}] \in S
      BY <2>1
    <3>4. \A s \in S, e \in X : G[<<s, e>>] = Step(s, e)
      OBVIOUS
    <3> HIDE DEF G
    <3> QED BY <2>1, <2>2, <3>2, <3>3, <3>4
  <2> HIDE DEF Step, n, S
  <2>3. it = [z \in SUBSET (1 .. n) |-> it[z]]
    BY <2>1
  <2>4. it = [z \in SUBSET (1 .. n) |-> IF z = {} THEN b ELSE Step(it[z \ {Max(z)}], es[Max(z)])]
    BY <2>1, <2>2, <2>3
  <2> QED BY <1>3, <2>4
<1> DEFINE it == CHOOSE f : Q(f)
<1>7. Q(it)
  <2> HIDE DEF Q
  <2> QED BY <1>6, Zenon
<1>8. FoldLeft(EntryFreed, b, es) = it[DOMAIN es]
  BY DEF FoldLeft, MapThenFoldSet
<1> DEFINE h == [i \in 0 .. n |-> it[1 .. i]]
<1> HIDE DEF n, Step, it
<1>10. h[0] = b
  <2>1. 1 .. 0 = {} /\ {} \in SUBSET (1 .. n) /\ 0 \in 0 .. n
    BY <1>3
  <2> QED BY <1>3, <1>7, <2>1
<1>11. ASSUME NEW i \in 1 .. n PROVE h[i] = Step(h[i - 1], es[i])
  <2>1. i \in 0 .. n /\ i - 1 \in 0 .. n /\ i \in Nat \ {0} /\ i \in 1 .. i /\ 1 .. i \in SUBSET (1 .. n)
    BY <1>3
  <2>2. Max(1 .. i) = i /\ (1 .. i) \ {i} = 1 .. (i - 1)
    BY <2>1, MaxOfInterval
  <2>3. it[1 .. i] = Step(it[1 .. (i - 1)], es[i])
    BY <1>3, <1>7, <2>1, <2>2
  <2> QED BY <2>1, <2>3
<1>12. n \in 0 .. n
  BY <1>3
<1>13. h[n] = FoldLeft(EntryFreed, b, es)
  BY <1>3, <1>8, <1>12
<1> HIDE DEF h
<1> QED BY <1>10, <1>11, <1>13, Zenon DEF n, Step, EntriesFreedSteps, EntriesFreed

\* The first i elements.
FirstOf(es, i) == {es[j] : j \in 1 .. i}

\* What the first i elements own grows by what the next one owns.
LEMMA FirstOfIs ==
    ASSUME NEW X, NEW es \in Seq(X)
    PROVE  /\ FirstOf(es, 0) = {} /\ RepsOf({}) = {} /\ ValsOf({}) = {}
           /\ FirstOf(es, Len(es)) = ToSet(es)
           /\ \A i \in 0 .. (Len(es) - 1) :
                  /\ FirstOf(es, i + 1) = FirstOf(es, i) \cup {es[i + 1]}
                  /\ RepsOf(FirstOf(es, i + 1)) = RepsOf(FirstOf(es, i)) \cup ({es[i + 1].key.rep} \ {0})
                  /\ ValsOf(FirstOf(es, i + 1)) = ValsOf(FirstOf(es, i)) \cup {es[i + 1].val}
<1>1. FirstOf(es, 0) = {} /\ RepsOf({}) = {} /\ ValsOf({}) = {}
  BY DEF FirstOf, RepsOf, ValsOf
<1>2. FirstOf(es, Len(es)) = ToSet(es)
  BY DEF FirstOf, ToSet
<1>3. ASSUME NEW i \in 0 .. (Len(es) - 1) PROVE FirstOf(es, i + 1) = FirstOf(es, i) \cup {es[i + 1]}
  <2>1. i \in Nat
    OBVIOUS
  <2>2. \A j \in 1 .. (i + 1) : j \in 1 .. i \/ j = i + 1
    BY <2>1
  <2>3. \A j \in 1 .. i : j \in 1 .. (i + 1)
    BY <2>1
  <2>4. i + 1 \in 1 .. (i + 1)
    BY <2>1
  <2> QED BY <2>2, <2>3, <2>4 DEF FirstOf
<1>4. \A E, e : RepsOf(E \cup {e}) = RepsOf(E) \cup ({e.key.rep} \ {0}) /\ ValsOf(E \cup {e}) = ValsOf(E) \cup {e.val}
  BY DEF RepsOf, ValsOf
<1> QED BY <1>1, <1>2, <1>3, <1>4

\* Values that are allocated and differ are all freed, each once.
LEMMA FreedVals ==
    ASSUME NEW X, NEW b, IsHeap(b), ~b.twice, NEW es \in Seq(X), ToSet(es) \subseteq b.vals,
           \A i, j \in 1 .. Len(es) : es[i] = es[j] => i = j
    PROVE  ValsFreed(b, es) = Without(b, {}, ToSet(es))
<1> DEFINE n == Len(es)
<1>0. PICK h : ValsFreedSteps(h, b, es)
  BY ValsFreeSteps
<1>1. /\ h[0] = b /\ ValsFreed(b, es) = h[n]
      /\ \A i \in 1 .. n : h[i] = object_free(h[i - 1], es[i])
  BY <1>0 DEF ValsFreedSteps
<1>2. n \in Nat
  OBVIOUS
<1>3. \A i \in 1 .. n : es[i] \in b.vals
  BY ToSetIs
<1> DEFINE T == {i \in 0 .. n : h[i] = Without(b, {}, FirstOf(es, i))}
<1>4. 0 \in T
  <2>1. 0 \in 0 .. n /\ FirstOf(es, 0) = {}
    BY <1>2, FirstOfIs
  <2>2. Without(b, {}, {}) = b
    BY DEF Without, IsHeap
  <2> QED BY <1>1, <2>1, <2>2
<1>5. ASSUME NEW i \in 0 .. (n - 1), i \in T PROVE i + 1 \in T
  <2>1. i + 1 \in 0 .. n /\ i + 1 \in 1 .. n /\ (i + 1) - 1 = i
    BY <1>2
  <2>2. \A j \in 1 .. i : j \in 1 .. n /\ j # i + 1
    BY <1>2
  <2>3. es[i + 1] \notin FirstOf(es, i)
    BY <2>1, <2>2 DEF FirstOf
  <2>4. h[i + 1] = object_free(Without(b, {}, FirstOf(es, i)), es[i + 1])
    BY <1>1, <1>5, <2>1
  <2>5. es[i + 1] \in b.vals \ FirstOf(es, i)
    BY <1>3, <2>1, <2>3
  <2>6. h[i + 1] = Without(b, {}, FirstOf(es, i) \cup {es[i + 1]})
    BY <2>4, <2>5, FreeIs
  <2>7. FirstOf(es, i + 1) = FirstOf(es, i) \cup {es[i + 1]}
    BY FirstOfIs
  <2> QED BY <2>1, <2>6, <2>7
<1>6. n \in T
  <2>1. \A i \in 0 .. n : i \in T
    <3> HIDE DEF T, n
    <3> QED BY <1>2, <1>4, <1>5, Climb
  <2>2. n \in 0 .. n
    BY <1>2
  <2> HIDE DEF T, n
  <2> QED BY <2>1, <2>2
<1>7. FirstOf(es, n) = ToSet(es)
  BY FirstOfIs
<1> QED BY <1>1, <1>6, <1>7

\* Two entries never share the address of a key.
OwnReps(es) ==
    \A i, j \in 1 .. Len(es) : es[i].key.rep = es[j].key.rep => i = j \/ es[i].key.rep = 0

\* So are keys that own their memory.
LEMMA FreedKeys ==
    ASSUME NEW X, NEW b, IsHeap(b), ~b.twice, NEW es \in Seq(X), RepsOf(ToSet(es)) \subseteq b.keys,
           OwnReps(es)
    PROVE  KeysFreed(b, es) = Without(b, RepsOf(ToSet(es)), {})
<1> DEFINE n == Len(es)
           R(i) == RepsOf(FirstOf(es, i))
<1>0. PICK h : KeysFreedSteps(h, b, es)
  BY KeysFreeSteps
<1>1. /\ h[0] = b /\ KeysFreed(b, es) = h[n]
      /\ \A i \in 1 .. n : h[i] = object_free_key(h[i - 1], es[i].key)
  BY <1>0 DEF KeysFreedSteps
<1>2. n \in Nat
  OBVIOUS
<1>3. \A i \in 1 .. n : es[i].key.rep \in b.keys \/ es[i].key.rep = 0
  BY ToSetIs DEF RepsOf
<1> DEFINE T == {i \in 0 .. n : h[i] = Without(b, R(i), {})}
<1>4. 0 \in T
  <2>0. FirstOf(es, 0) = {} /\ RepsOf({}) = {}
    BY FirstOfIs
  <2>1. R(0) = {}
    BY <2>0, Zenon
  <2>2. Without(b, {}, {}) = b
    BY DEF Without, IsHeap
  <2>3. 0 \in 0 .. n
    BY <1>2
  <2> QED BY <1>1, <2>1, <2>2, <2>3
<1>5. ASSUME NEW i \in 0 .. (n - 1), i \in T PROVE i + 1 \in T
  <2>1. i + 1 \in 0 .. n /\ i + 1 \in 1 .. n /\ (i + 1) - 1 = i
    BY <1>2
  <2>2. \A j \in 1 .. i : j \in 1 .. n /\ j # i + 1
    BY <1>2
  <2>3. es[i + 1].key.rep \notin R(i)
    BY <2>1, <2>2 DEF FirstOf, RepsOf, OwnReps
  <2>4. h[i + 1] = object_free_key(Without(b, R(i), {}), es[i + 1].key)
    BY <1>1, <1>5, <2>1
  <2>5. es[i + 1].key.rep \in b.keys \ R(i) \/ es[i + 1].key.rep = 0
    BY <1>3, <2>1, <2>3
  <2> HIDE DEF R
  <2>6. h[i + 1] = Without(b, R(i) \cup ({es[i + 1].key.rep} \ {0}), {})
    BY <2>4, <2>5, FreeKeyIs
  <2>7. R(i + 1) = R(i) \cup ({es[i + 1].key.rep} \ {0})
    BY FirstOfIs DEF R
  <2> QED BY <2>1, <2>6, <2>7
<1>6. n \in T
  <2>1. \A i \in 0 .. n : i \in T
    <3> HIDE DEF T, n
    <3> QED BY <1>2, <1>4, <1>5, Climb
  <2>2. n \in 0 .. n
    BY <1>2
  <2> HIDE DEF T, n
  <2> QED BY <2>1, <2>2
<1>7. FirstOf(es, n) = ToSet(es)
  BY FirstOfIs
<1> QED BY <1>1, <1>6, <1>7

\* And entries, key and value.
LEMMA FreedEntries ==
    ASSUME NEW X, NEW b, IsHeap(b), ~b.twice, NEW es \in Seq(X),
           RepsOf(ToSet(es)) \subseteq b.keys, ValsOf(ToSet(es)) \subseteq b.vals, OwnReps(es),
           \A i, j \in 1 .. Len(es) : es[i].val = es[j].val => i = j
    PROVE  EntriesFreed(b, es) = Without(b, RepsOf(ToSet(es)), ValsOf(ToSet(es)))
<1> DEFINE n == Len(es)
           R(i) == RepsOf(FirstOf(es, i))
           W(i) == ValsOf(FirstOf(es, i))
<1>0. PICK h : EntriesFreedSteps(h, b, es)
  BY EntriesFreeSteps
<1>1. /\ h[0] = b /\ EntriesFreed(b, es) = h[n]
      /\ \A i \in 1 .. n : h[i] = EntryFreed(h[i - 1], es[i])
  BY <1>0 DEF EntriesFreedSteps
<1>2. n \in Nat
  OBVIOUS
<1>3. /\ \A i \in 1 .. n : es[i].key.rep \in b.keys \/ es[i].key.rep = 0
      /\ \A i \in 1 .. n : es[i].val \in b.vals
  BY ToSetIs DEF RepsOf, ValsOf
<1> DEFINE T == {i \in 0 .. n : h[i] = Without(b, R(i), W(i))}
<1>4. 0 \in T
  <2>0. FirstOf(es, 0) = {} /\ RepsOf({}) = {} /\ ValsOf({}) = {}
    BY FirstOfIs
  <2>1. R(0) = {} /\ W(0) = {}
    BY <2>0, Zenon
  <2>2. Without(b, {}, {}) = b
    BY DEF Without, IsHeap
  <2>3. 0 \in 0 .. n
    BY <1>2
  <2> QED BY <1>1, <2>1, <2>2, <2>3
<1>5. ASSUME NEW i \in 0 .. (n - 1), i \in T PROVE i + 1 \in T
  <2>1. i + 1 \in 0 .. n /\ i + 1 \in 1 .. n /\ (i + 1) - 1 = i
    BY <1>2
  <2>2. \A j \in 1 .. i : j \in 1 .. n /\ j # i + 1
    BY <1>2
  <2>3. es[i + 1].key.rep \notin R(i) /\ es[i + 1].val \notin W(i)
    <3>1. ASSUME es[i + 1].key.rep \in R(i) PROVE FALSE
      <4>1. PICK j \in 1 .. i : es[j].key.rep = es[i + 1].key.rep /\ es[i + 1].key.rep # 0
        BY <3>1 DEF FirstOf, RepsOf
      <4>2. j \in 1 .. Len(es) /\ i + 1 \in 1 .. Len(es) /\ j # i + 1
        BY <2>1, <2>2
      <4> QED BY <4>1, <4>2 DEF OwnReps
    <3>2. ASSUME es[i + 1].val \in W(i) PROVE FALSE
      <4>1. PICK j \in 1 .. i : es[j].val = es[i + 1].val
        BY <3>2 DEF FirstOf, ValsOf
      <4>2. j \in 1 .. Len(es) /\ i + 1 \in 1 .. Len(es) /\ j # i + 1
        BY <2>1, <2>2
      <4> QED BY <4>1, <4>2
    <3> HIDE DEF R, W
    <3> QED BY <3>1, <3>2
  <2>4. h[i + 1] = EntryFreed(Without(b, R(i), W(i)), es[i + 1])
    BY <1>1, <1>5, <2>1
  <2>5. /\ es[i + 1].key.rep \in b.keys \ R(i) \/ es[i + 1].key.rep = 0
        /\ es[i + 1].val \in b.vals \ W(i)
    BY <1>3, <2>1, <2>3
  <2> HIDE DEF R, W
  <2>6. object_free(Without(b, R(i), W(i)), es[i + 1].val) = Without(b, R(i), W(i) \cup {es[i + 1].val})
    BY <2>5, FreeIs
  <2>7. h[i + 1] = Without(b, R(i) \cup ({es[i + 1].key.rep} \ {0}), W(i) \cup {es[i + 1].val})
    BY <2>4, <2>5, <2>6, FreeKeyIs DEF EntryFreed
  <2>8. R(i + 1) = R(i) \cup ({es[i + 1].key.rep} \ {0}) /\ W(i + 1) = W(i) \cup {es[i + 1].val}
    BY FirstOfIs DEF R, W
  <2> QED BY <2>1, <2>7, <2>8
<1>6. n \in T
  <2>1. \A i \in 0 .. n : i \in T
    <3> HIDE DEF T, n
    <3> QED BY <1>2, <1>4, <1>5, Climb
  <2>2. n \in 0 .. n
    BY <1>2
  <2> HIDE DEF T, n
  <2> QED BY <2>1, <2>2
<1>7. FirstOf(es, n) = ToSet(es)
  BY FirstOfIs
<1> QED BY <1>1, <1>6, <1>7

-----------------------------------------------------------------------------
(* The inductive invariant *)

\* What a table of entries owns it owns once.
OwnsApart(E) ==
    \A e, f \in E : e.key.rep = f.key.rep => e = f \/ e.key.rep = 0
\* No two entries share a value.
ValsApart(E) == \A e, f \in E : e.val = f.val => e = f

\* Both tables are well-formed, and no memory belongs to two of their entries.
TablesInv ==
    /\ Table(ht, HtVals) /\ OwnsApart(Held(ht))
    /\ ValsApart(Held(ht))
    /\ Table(set, {""}) /\ OwnsApart(Held(set))

\* The vector is a part of an allocated array, and holds no value twice.
VecInv ==
    /\ vec = [data |-> vec.data, len |-> vec.len]
    /\ vec.data \in Seq(HtVals \cup {Zero}) /\ vec.data # <<>>
    /\ vec.len \in 0 .. Len(vec.data) /\ vec.len <= MaxLen
    /\ \A i \in 1 .. vec.len : vec.data[i] \in HtVals
    /\ \A i, j \in 1 .. vec.len : vec.data[i] = vec.data[j] => i = j

\* q is the line of nodes from head to tail.
LineOf(c, q) ==
    /\ c = [next |-> c.next, head |-> c.head, tail |-> c.tail, num_el |-> c.num_el]
    /\ q \in Seq(HtVals) /\ Len(q) = c.num_el
    /\ \A i, j \in 1 .. Len(q) : q[i] = q[j] => i = j
    /\ c.next = [n \in ToSet(q) |-> c.next[n]]
    /\ c.num_el # 0 => c.head = q[1] /\ c.tail = q[c.num_el]
    /\ c.num_el = 0 => c.head = Null /\ c.tail = Null
    /\ \A i \in 1 .. (c.num_el - 1) : c.next[q[i]] = q[i + 1]

\* The nodes form one line from first to end, num_el of them.
QueueInv == LineOf(queue, QueueContents)

\* The collections that are not worked on are empty.
PartInv ==
    /\ part \in Parts \cup {"freed"}
    /\ part \notin {"dict", "args", "freed"} => Held(ht) = {}
    /\ part \notin {"vec", "freed"} => vec.len = 0
    /\ part \notin {"queue", "freed"} => queue.num_el = 0
    /\ part \notin {"set", "freed"} => Held(set) = {}

\* The keys and values the collections own: none once they are freed.
OwnedKeys == IF part = "freed" THEN {} ELSE RepsOf(Held(ht) \cup Held(set))
\* The values that are owned until the database has been freed.
OwnedVals == IF part = "freed" THEN {} ELSE HeldVals

\* Nothing was freed twice, nothing owned was freed, and what was leaked is at most
\* a key and a value for each allocation that failed.
HeapInv ==
    /\ IsHeap(heap) /\ ~heap.twice /\ ooms \in Nat
    /\ IsFiniteSet(heap.keys) /\ IsFiniteSet(heap.vals)
    /\ OwnedKeys \subseteq heap.keys /\ OwnedVals \subseteq heap.vals
    /\ Cardinality(heap.keys \ OwnedKeys) + Cardinality(heap.vals \ OwnedVals) <= 2 * ooms

\* The inductive invariant.  OwnedOnce alone is not inductive: that a free hits its
\* own allocation needs the shape of the container the free walks over.
IInv == TablesInv /\ VecInv /\ QueueInv /\ PartInv /\ HeapInv

-----------------------------------------------------------------------------
(* The queue's nodes *)

\* QueueContents of any queue c.
NodesOf(c) ==
    LET node[i \in 1 .. c.num_el] ==
            IF i = 1 THEN c.head
            ELSE IF node[i - 1] \in DOMAIN c.next THEN c.next[node[i - 1]] ELSE Null
    IN  [i \in 1 .. c.num_el |-> node[i]]

\* There is at most one line of nodes.
LEMMA NodesAre ==
    ASSUME NEW c, NEW q, LineOf(c, q)
    PROVE  NodesOf(c) = q
<1> DEFINE n == c.num_el
           Q(f) == f = [i \in 1 .. n |->
                           IF i = 1 THEN c.head
                           ELSE IF f[i - 1] \in DOMAIN c.next THEN c.next[f[i - 1]] ELSE Null]
           f == CHOOSE g : Q(g)
<1>1. /\ q \in Seq(HtVals) /\ Len(q) = n /\ n \in Nat
      /\ n # 0 => c.head = q[1]
      /\ \A i \in 1 .. (n - 1) : c.next[q[i]] = q[i + 1]
  BY DEF LineOf
<1>2. \A i \in 1 .. n : q[i] \in DOMAIN c.next
  <2>1. DOMAIN c.next = ToSet(q)
    BY DEF LineOf
  <2> QED BY <1>1, <2>1, ToSetIs
<1>3. q = [i \in 1 .. n |-> q[i]]
  BY <1>1
<1> HIDE DEF n
<1>4. ASSUME NEW i \in 1 .. n
      PROVE  q[i] = IF i = 1 THEN c.head
                    ELSE IF q[i - 1] \in DOMAIN c.next THEN c.next[q[i - 1]] ELSE Null
  <2>1. CASE i = 1
    BY <1>1, <2>1
  <2>2. CASE i # 1
    <3>1. i - 1 \in 1 .. (n - 1) /\ i - 1 \in 1 .. n /\ (i - 1) + 1 = i
      BY <1>1, <2>2
    <3> QED BY <1>1, <1>2, <2>2, <3>1
  <2> QED BY <2>1, <2>2
<1>5. Q(q)
  BY <1>3, <1>4
<1>6. Q(f)
  <2> HIDE DEF Q
  <2> QED BY <1>5, Zenon
<1>7. NodesOf(c) = [i \in 1 .. n |-> f[i]]
  BY DEF NodesOf, n
<1> HIDE DEF f
<1> DEFINE T == {i \in 1 .. n : f[i] = q[i]}
<1>8. \A i \in 1 .. n : f[i] = IF i = 1 THEN c.head
                                ELSE IF f[i - 1] \in DOMAIN c.next THEN c.next[f[i - 1]] ELSE Null
  BY <1>6
<1>9. ASSUME n # 0 PROVE \A i \in 1 .. n : i \in T
  <2>1. 1 \in 1 .. n /\ n \in Nat
    BY <1>1, <1>9
  <2>2. 1 \in T
    BY <1>1, <1>8, <1>9, <2>1
  <2>3. ASSUME NEW i \in 1 .. (n - 1), i \in T PROVE i + 1 \in T
    <3>1. i + 1 \in 1 .. n /\ i \in 1 .. n /\ (i + 1) - 1 = i /\ i + 1 # 1
      BY <1>1
    <3>2. f[i] = q[i] /\ q[i] \in DOMAIN c.next /\ c.next[q[i]] = q[i + 1]
      BY <1>1, <1>2, <2>3, <3>1
    <3> QED BY <1>8, <3>1, <3>2
  <2> HIDE DEF T
  <2> QED BY <2>1, <2>2, <2>3, Climb
<1>10. \A i \in 1 .. n : f[i] = q[i]
  BY <1>1, <1>9
<1> QED BY <1>3, <1>7, <1>10

-----------------------------------------------------------------------------
(* The heap *)

\* A heap in which nothing was freed twice.
Heap(K, W) == [keys |-> K, vals |-> W, twice |-> FALSE]

\* A heap in which nothing was freed twice, by its parts.
LEMMA HeapIs ==
    ASSUME NEW K, NEW W
    PROVE  /\ Heap(K, W).keys = K /\ Heap(K, W).vals = W
           /\ IsHeap(Heap(K, W)) /\ ~Heap(K, W).twice
BY DEF Heap, IsHeap

\* Every such heap is one.
LEMMA HeapIsHeap ==
    ASSUME NEW h, IsHeap(h), ~h.twice
    PROVE  h = Heap(h.keys, h.vals)
<1>1. h.twice = FALSE
  BY DEF IsHeap
<1> QED BY <1>1 DEF IsHeap, Heap

\* What a key owns.
Own(o) == {o.rep} \ {0}

\* The operations on such a heap, a free only of what is allocated.
LEMMA HeapSteps ==
    ASSUME NEW K, NEW W
    PROVE  /\ \A o : WithKey(Heap(K, W), o) = Heap(K \cup Own(o), W)
           /\ \A v : WithVal(Heap(K, W), v) = Heap(K, W \cup {v})
           /\ \A v \in W : object_free(Heap(K, W), v) = Heap(K, W \ {v})
           /\ \A o : Own(o) \subseteq K => object_free_key(Heap(K, W), o) = Heap(K \ Own(o), W)
<1> DEFINE h == Heap(K, W)
<1>1. h.keys = K /\ h.vals = W /\ h = [keys |-> K, vals |-> W, twice |-> FALSE]
  BY DEF Heap
<1>0. h = [keys |-> h.keys, vals |-> h.vals, twice |-> h.twice] /\ h.twice = FALSE
  BY DEF Heap
<1>2. ASSUME NEW o PROVE WithKey(h, o) = Heap(K \cup Own(o), W)
  <2>1. CASE o.rep = 0
    <3>1. K \cup Own(o) = K
      BY <2>1 DEF Own
    <3> QED BY <2>1, <3>1 DEF WithKey, OwnsMemory
  <2>2. CASE o.rep # 0
    <3>1. Own(o) = {o.rep}
      BY <2>2 DEF Own
    <3> DEFINE k == h.keys \cup {o.rep}
    <3>2. WithKey(h, o) = [h EXCEPT !.keys = k]
      BY <2>2, Zenon DEF WithKey, OwnsMemory
    <3>3. k = K \cup Own(o)
      BY <1>1, <3>1
    <3> HIDE DEF k, h
    <3>4. [h EXCEPT !.keys = k] = [keys |-> k, vals |-> h.vals, twice |-> h.twice]
      BY <1>0
    <3> QED BY <1>0, <1>1, <3>2, <3>3, <3>4 DEF Heap
  <2> QED BY <2>1, <2>2
<1>3. ASSUME NEW v PROVE WithVal(h, v) = Heap(K, W \cup {v})
  <2> DEFINE w == h.vals \cup {v}
  <2>1. WithVal(h, v) = [h EXCEPT !.vals = w]
    BY Zenon DEF WithVal
  <2>2. w = W \cup {v}
    BY <1>1
  <2> HIDE DEF w, h
  <2>3. [h EXCEPT !.vals = w] = [keys |-> h.keys, vals |-> w, twice |-> h.twice]
    BY <1>0
  <2> QED BY <1>0, <1>1, <2>1, <2>2, <2>3 DEF Heap
<1>4. ASSUME NEW v \in W PROVE object_free(h, v) = Heap(K, W \ {v})
  <2>1. Without(h, {}, {}) = h /\ Without(h, {}, {} \cup {v}) = Heap(K, W \ {v})
    BY <1>1 DEF Without, Heap
  <2>2. object_free(Without(h, {}, {}), v) = Without(h, {}, {} \cup {v})
    BY <1>1, FreeIs
  <2> QED BY <2>1, <2>2
<1>5. ASSUME NEW o, Own(o) \subseteq K PROVE object_free_key(h, o) = Heap(K \ Own(o), W)
  <2>1. Without(h, {}, {}) = h /\ Without(h, {} \cup Own(o), {}) = Heap(K \ Own(o), W)
    BY <1>1 DEF Without, Heap
  <2>2. o.rep \in h.keys \ {} \/ o.rep = 0
    BY <1>1, <1>5 DEF Own
  <2>3. object_free_key(Without(h, {}, {}), o) = Without(h, {} \cup Own(o), {})
    BY <2>2, FreeKeyIs DEF Own
  <2> QED BY <2>1, <2>3
<1> QED BY <1>2, <1>3, <1>4, <1>5 DEF h

\* What stays allocated without an owner.
LEMMA NoMoreLost ==
    ASSUME NEW A, NEW B, IsFiniteSet(A), IsFiniteSet(B), NEW m \in Nat,
           Cardinality(A) + Cardinality(B) <= m,
           NEW C, NEW D, C \subseteq A, D \subseteq B
    PROVE  Cardinality(C) + Cardinality(D) <= m
<1>1. Cardinality(A) \in Nat /\ Cardinality(B) \in Nat
  BY FS_CardinalityType
<1>2. Cardinality(C) \in Nat /\ Cardinality(C) <= Cardinality(A)
  BY FS_Subset, FS_CardinalityType
<1>3. Cardinality(D) \in Nat /\ Cardinality(D) <= Cardinality(B)
  BY FS_Subset, FS_CardinalityType
<1> QED BY <1>1, <1>2, <1>3

\* A set with one more element.
LEMMA OneMore ==
    ASSUME NEW S, IsFiniteSet(S), NEW x
    PROVE  /\ IsFiniteSet(S \cup {x}) /\ Cardinality(S) \in Nat
           /\ Cardinality(S \cup {x}) \in Nat /\ Cardinality(S \cup {x}) <= Cardinality(S) + 1
<1>1. IsFiniteSet(S \cup {x}) /\ Cardinality(S) \in Nat
  BY FS_CardinalityType, FS_AddElement
<1>2. Cardinality(S \cup {x}) = IF x \in S THEN Cardinality(S) ELSE Cardinality(S) + 1
  BY FS_AddElement
<1> QED BY <1>1, <1>2

\* Two leaks per failed allocation at most.
LEMMA TwoMoreLost ==
    ASSUME NEW A, NEW B, IsFiniteSet(A), IsFiniteSet(B), NEW m \in Nat,
           Cardinality(A) + Cardinality(B) <= m, NEW x, NEW y,
           NEW C, NEW D, C \subseteq A \cup {x}, D \subseteq B \cup {y}
    PROVE  Cardinality(C) + Cardinality(D) <= m + 2
<1>1. /\ Cardinality(A) \in Nat /\ Cardinality(B) \in Nat
      /\ IsFiniteSet(A \cup {x}) /\ IsFiniteSet(B \cup {y})
      /\ Cardinality(A \cup {x}) \in Nat /\ Cardinality(B \cup {y}) \in Nat
      /\ Cardinality(A \cup {x}) <= Cardinality(A) + 1
      /\ Cardinality(B \cup {y}) <= Cardinality(B) + 1
  BY OneMore
<1>2. Cardinality(A \cup {x}) + Cardinality(B \cup {y}) <= m + 2 /\ m + 2 \in Nat
  BY <1>1
<1> QED BY <1>1, <1>2, NoMoreLost

\* The heap after a step that leaks nothing, and after one that ran out of memory.
LEMMA HeapKept ==
    ASSUME HeapInv, NEW K, NEW W, heap' = Heap(K, W), IsFiniteSet(K), IsFiniteSet(W),
           OwnedKeys' \subseteq K, OwnedVals' \subseteq W, ooms' = ooms,
           K \ OwnedKeys' \subseteq heap.keys \ OwnedKeys,
           W \ OwnedVals' \subseteq heap.vals \ OwnedVals
    PROVE  HeapInv'
<1>1. /\ IsFiniteSet(heap.keys \ OwnedKeys) /\ IsFiniteSet(heap.vals \ OwnedVals) /\ 2 * ooms \in Nat
      /\ Cardinality(heap.keys \ OwnedKeys) + Cardinality(heap.vals \ OwnedVals) <= 2 * ooms
  <2>1. IsFiniteSet(heap.keys) /\ IsFiniteSet(heap.vals)
    BY DEF HeapInv
  <2>2. IsFiniteSet(heap.keys \ OwnedKeys) /\ IsFiniteSet(heap.vals \ OwnedVals)
    BY <2>1, FS_Difference
  <2> QED BY <2>2 DEF HeapInv
<1>2. Cardinality(K \ OwnedKeys') + Cardinality(W \ OwnedVals') <= 2 * ooms
  BY <1>1, NoMoreLost
<1>3. /\ heap'.keys = K /\ heap'.vals = W /\ IsHeap(heap') /\ ~heap'.twice
  BY HeapIs
<1>4. ooms' \in Nat
  BY DEF HeapInv
<1> QED BY <1>2, <1>3, <1>4 DEF HeapInv

\* A has at most one element that B has not.
OneMoreThan(A, B) == \E x : A \subseteq B \cup {x}

\* A failed allocation may leak a key and a value.
LEMMA HeapLeaks ==
    ASSUME HeapInv, NEW K, NEW W, heap' = Heap(K, W), IsFiniteSet(K), IsFiniteSet(W),
           OwnedKeys' \subseteq K, OwnedVals' \subseteq W, ooms' = ooms + 1,
           OneMoreThan(K \ OwnedKeys', heap.keys \ OwnedKeys),
           OneMoreThan(W \ OwnedVals', heap.vals \ OwnedVals)
    PROVE  HeapInv'
<1>1. /\ IsFiniteSet(heap.keys \ OwnedKeys) /\ IsFiniteSet(heap.vals \ OwnedVals) /\ 2 * ooms \in Nat
      /\ Cardinality(heap.keys \ OwnedKeys) + Cardinality(heap.vals \ OwnedVals) <= 2 * ooms
  <2>1. IsFiniteSet(heap.keys) /\ IsFiniteSet(heap.vals)
    BY DEF HeapInv
  <2>2. IsFiniteSet(heap.keys \ OwnedKeys) /\ IsFiniteSet(heap.vals \ OwnedVals)
    BY <2>1, FS_Difference
  <2> QED BY <2>2 DEF HeapInv
<1>2. Cardinality(K \ OwnedKeys') + Cardinality(W \ OwnedVals') <= 2 * ooms + 2
  <2> DEFINE m == 2 * ooms
  <2>1. m \in Nat /\ Cardinality(heap.keys \ OwnedKeys) + Cardinality(heap.vals \ OwnedVals) <= m
    BY <1>1
  <2> DEFINE A == heap.keys \ OwnedKeys
             B == heap.vals \ OwnedVals
             C == K \ OwnedKeys'
             D == W \ OwnedVals'
  <2>2. /\ IsFiniteSet(A) /\ IsFiniteSet(B) /\ Cardinality(A) + Cardinality(B) <= m
        /\ OneMoreThan(C, A) /\ OneMoreThan(D, B)
    BY <1>1
  <2> HIDE DEF m, A, B, C, D
  <2>4. PICK x, y : C \subseteq A \cup {x} /\ D \subseteq B \cup {y}
    BY <2>2 DEF OneMoreThan
  <2>3. Cardinality(C) + Cardinality(D) <= m + 2
    BY ZenonT(60), <2>1, <2>2, <2>4, TwoMoreLost
  <2> QED BY <2>3 DEF m, C, D
<1>3. /\ heap'.keys = K /\ heap'.vals = W /\ IsHeap(heap') /\ ~heap'.twice
  BY HeapIs
<1>4. ooms' \in Nat /\ 2 * ooms' = 2 * ooms + 2
  BY DEF HeapInv
<1> QED BY <1>2, <1>3, <1>4 DEF HeapInv

-----------------------------------------------------------------------------
(* What the collections own *)

\* What the vector holds is the first len elements of its array.
VecHolds ==
    /\ VecContents \in Seq(HtVals) /\ Len(VecContents) = vec.len
    /\ \A i \in 1 .. vec.len : VecContents[i] = vec.data[i]
    /\ ToSet(VecContents) = {vec.data[i] : i \in 1 .. vec.len}

\* VecContents is that part.
LEMMA VecContentsIs == VecInv => VecHolds
<1> SUFFICES ASSUME VecInv PROVE VecHolds
  OBVIOUS
<1> DEFINE d == vec.data
           n == vec.len
           q == VecContents
<1>1. /\ d \in Seq(HtVals \cup {Zero}) /\ n \in Nat /\ n <= Len(d)
      /\ \A i \in 1 .. n : d[i] \in HtVals
  BY DEF VecInv
<1>2. q = [i \in 1 .. n |-> d[i]]
  <2>1. q = SubSeq(d, 1, n)
    BY DEF VecContents
  <2> HIDE DEF d, n, q
  <2> QED BY <1>1, <2>1
<1> HIDE DEF d, n, q
<1>3. q \in [1 .. n -> HtVals]
  BY <1>1, <1>2
<1>4. q \in Seq(HtVals) /\ Len(q) = n
  BY <1>1, <1>3, FunctionIsSeq
<1>5. \A i \in 1 .. n : q[i] = d[i]
  BY <1>2
<1>6. ToSet(q) = {d[i] : i \in 1 .. n}
  BY <1>2 DEF ToSet
<1> QED BY <1>4, <1>5, <1>6 DEF d, n, q, VecHolds

\* And in the next state.
LEMMA VecContentsIsNext == VecInv' => VecHolds'
BY VecContentsIs, PTL

\* What the container in use owns.
LEMMA OwnedAre ==
    VecInv /\ QueueInv /\ PartInv =>
        /\ part \in {"dict", "args"} => OwnedKeys = RepsOf(Held(ht)) /\ OwnedVals = ValsOf(Held(ht))
        /\ part = "vec" => OwnedKeys = {} /\ OwnedVals = ToSet(VecContents)
        /\ part = "queue" => OwnedKeys = {} /\ OwnedVals = ToSet(QueueContents)
        /\ part = "set" => OwnedKeys = RepsOf(Held(set)) /\ OwnedVals = {}
        /\ part = "freed" => OwnedKeys = {} /\ OwnedVals = {}
<1> SUFFICES ASSUME VecInv, QueueInv, PartInv
             PROVE  /\ part \in {"dict", "args"} => OwnedKeys = RepsOf(Held(ht)) /\ OwnedVals = ValsOf(Held(ht))
                    /\ part = "vec" => OwnedKeys = {} /\ OwnedVals = ToSet(VecContents)
                    /\ part = "queue" => OwnedKeys = {} /\ OwnedVals = ToSet(QueueContents)
                    /\ part = "set" => OwnedKeys = RepsOf(Held(set)) /\ OwnedVals = {}
                    /\ part = "freed" => OwnedKeys = {} /\ OwnedVals = {}
  OBVIOUS
<1> DEFINE A == Held(ht)
           B == Held(set)
           C == ToSet(VecContents)
           D == ToSet(QueueContents)
<1>1. /\ part \notin {"dict", "args", "freed"} => A = {}
      /\ part \notin {"set", "freed"} => B = {}
  BY DEF PartInv
<1>2. part \notin {"vec", "freed"} => C = {}
  <2>1. part \notin {"vec", "freed"} => vec.len = 0
    BY DEF PartInv
  <2>2. vec.len = 0 => C = {}
    BY VecContentsIs DEF VecHolds
  <2> QED BY <2>1, <2>2
<1>3. part \notin {"queue", "freed"} => D = {}
  <2>1. part \notin {"queue", "freed"} => queue.num_el = 0
    BY DEF PartInv
  <2>2. QueueContents \in Seq(HtVals) /\ Len(QueueContents) = queue.num_el
    BY DEF QueueInv, LineOf
  <2>3. queue.num_el = 0 => D = {}
    <3> DEFINE q == QueueContents
    <3>1. \A e \in ToSet(q) : \E i \in 1 .. Len(q) : q[i] = e
      <4> HIDE DEF q
      <4> QED BY <2>2, ToSetIs DEF q
    <3> HIDE DEF q
    <3>2. Len(q) = 0 => ToSet(q) = {}
      BY <3>1
    <3> QED BY <2>2, <3>2 DEF q
  <2> QED BY <2>1, <2>3
<1>4. OwnedKeys = IF part = "freed" THEN {} ELSE RepsOf(A \cup B)
  BY DEF OwnedKeys
<1>5. OwnedVals = IF part = "freed" THEN {} ELSE ValsOf(A) \cup C \cup D
  BY DEF OwnedVals, HeldVals, ValsOf, Held
<1>6. RepsOf({}) = {} /\ ValsOf({}) = {}
  BY DEF RepsOf, ValsOf
<1> HIDE DEF A, B, C, D
<1>7. A \cup {} = A /\ {} \cup B = B /\ {} \cup {} = {}
  OBVIOUS
<1>8. part \in {"dict", "args"} => OwnedKeys = RepsOf(A) /\ OwnedVals = ValsOf(A)
  BY <1>1, <1>2, <1>3, <1>4, <1>5, <1>7
<1>9. part = "vec" => OwnedKeys = {} /\ OwnedVals = C
  BY <1>1, <1>3, <1>4, <1>5, <1>6, <1>7
<1>10. part = "queue" => OwnedKeys = {} /\ OwnedVals = D
  BY <1>1, <1>2, <1>4, <1>5, <1>6, <1>7
<1>11. part = "set" => OwnedKeys = RepsOf(B) /\ OwnedVals = {}
  BY <1>1, <1>2, <1>3, <1>4, <1>5, <1>6, <1>7
<1> QED BY <1>4, <1>5, <1>8, <1>9, <1>10, <1>11 DEF A, B, C, D

\* And in the next state.
LEMMA OwnedAreNext ==
    (VecInv /\ QueueInv /\ PartInv)' =>
        (/\ part \in {"dict", "args"} => OwnedKeys = RepsOf(Held(ht)) /\ OwnedVals = ValsOf(Held(ht))
         /\ part = "vec" => OwnedKeys = {} /\ OwnedVals = ToSet(VecContents)
         /\ part = "queue" => OwnedKeys = {} /\ OwnedVals = ToSet(QueueContents)
         /\ part = "set" => OwnedKeys = RepsOf(Held(set)) /\ OwnedVals = {}
         /\ part = "freed" => OwnedKeys = {} /\ OwnedVals = {})'
BY OwnedAre, PTL

\* A step that leaves the vector alone keeps its invariant.
LEMMA VecSame ==
    ASSUME VecInv, vec' = vec
    PROVE  VecInv' /\ VecContents' = VecContents
BY DEF VecInv, VecContents

\* The contents of the queue are read off its nodes.
LEMMA QueueIsNodes ==
    QueueContents = NodesOf(queue) /\ QueueContents' = NodesOf(queue')
BY DEF QueueContents, NodesOf

\* A step that leaves the queue alone keeps its invariant.
LEMMA QueueSame ==
    ASSUME QueueInv, queue' = queue
    PROVE  QueueInv' /\ QueueContents' = QueueContents
<1>1. QueueContents' = QueueContents
  BY QueueIsNodes
<1> QED BY <1>1 DEF QueueInv

-----------------------------------------------------------------------------
(* Sets of entries *)

\* An entry with memory of its own joins a set of entries.
LEMMA EntryAdded ==
    ASSUME NEW E, OwnsApart(E), NEW e, e.key.rep \notin RepsOf(E)
    PROVE  /\ OwnsApart(E \cup {e})
           /\ RepsOf(E \cup {e}) = RepsOf(E) \cup Own(e.key)
           /\ ValsOf(E \cup {e}) = ValsOf(E) \cup {e.val}
           /\ ValsApart(E) /\ e.val \notin ValsOf(E) => ValsApart(E \cup {e})
<1>1. \A f \in E : f.key.rep = e.key.rep => e.key.rep = 0
  BY DEF RepsOf
<1>2. OwnsApart(E \cup {e})
  BY <1>1 DEF OwnsApart
<1>3. RepsOf(E \cup {e}) = RepsOf(E) \cup Own(e.key)
  BY DEF RepsOf, Own
<1>4. ValsOf(E \cup {e}) = ValsOf(E) \cup {e.val}
  BY DEF ValsOf
<1>5. ValsApart(E) /\ e.val \notin ValsOf(E) => ValsApart(E \cup {e})
  BY DEF ValsApart, ValsOf
<1> QED BY <1>2, <1>3, <1>4, <1>5

\* An entry leaves and takes only its own memory with it.
LEMMA EntryRemoved ==
    ASSUME NEW E, OwnsApart(E), NEW e \in E
    PROVE  /\ OwnsApart(E \ {e})
           /\ RepsOf(E \ {e}) = RepsOf(E) \ Own(e.key)
           /\ Own(e.key) \subseteq RepsOf(E) /\ e.val \in ValsOf(E)
           /\ ValsApart(E) => ValsApart(E \ {e}) /\ ValsOf(E \ {e}) = ValsOf(E) \ {e.val}
<1>1. OwnsApart(E \ {e})
  BY DEF OwnsApart
<1>2. RepsOf(E \ {e}) \subseteq RepsOf(E) \ Own(e.key)
  BY DEF RepsOf, Own, OwnsApart
<1>3. RepsOf(E) \ Own(e.key) \subseteq RepsOf(E \ {e})
  BY DEF RepsOf, Own
<1>4. Own(e.key) \subseteq RepsOf(E) /\ e.val \in ValsOf(E)
  BY DEF Own, RepsOf, ValsOf
<1>5. ValsApart(E) => ValsApart(E \ {e}) /\ ValsOf(E \ {e}) = ValsOf(E) \ {e.val}
  BY DEF ValsApart, ValsOf
<1> QED BY <1>1, <1>2, <1>3, <1>4, <1>5

\* An entry gets a new value: ht_insert keeps the stored key.
LEMMA EntryReplaced ==
    ASSUME NEW E, OwnsApart(E), ValsApart(E), NEW e \in E, NEW f, f.key = e.key, f.val \notin ValsOf(E)
    PROVE  /\ OwnsApart((E \ {e}) \cup {f}) /\ ValsApart((E \ {e}) \cup {f})
           /\ RepsOf((E \ {e}) \cup {f}) = RepsOf(E)
           /\ ValsOf((E \ {e}) \cup {f}) = (ValsOf(E) \ {e.val}) \cup {f.val}
<1> DEFINE D == E \ {e}
<1>1. /\ OwnsApart(D) /\ RepsOf(D) = RepsOf(E) \ Own(e.key) /\ Own(e.key) \subseteq RepsOf(E)
      /\ ValsApart(D) /\ ValsOf(D) = ValsOf(E) \ {e.val}
  BY EntryRemoved
<1>2. f.key.rep \notin RepsOf(D) /\ f.val \notin ValsOf(D)
  BY <1>1 DEF Own, RepsOf
<1> HIDE DEF D
<1>3. /\ OwnsApart(D \cup {f}) /\ ValsApart(D \cup {f})
      /\ RepsOf(D \cup {f}) = RepsOf(D) \cup Own(f.key)
      /\ ValsOf(D \cup {f}) = ValsOf(D) \cup {f.val}
  BY <1>1, <1>2, EntryAdded
<1>4. Own(f.key) = Own(e.key)
  BY DEF Own
<1>5. RepsOf(D) \cup Own(f.key) = RepsOf(E)
  BY <1>1, <1>4
<1> QED BY <1>1, <1>3, <1>5 DEF D

-----------------------------------------------------------------------------
(* The steps on the table *)

\* The heap as a step on the table finds it.
LEMMA DictFacts ==
    ASSUME IInv, part \in {"dict", "args"}
    PROVE  /\ Table(ht, HtVals) /\ OwnsApart(Held(ht)) /\ ValsApart(Held(ht))
           /\ heap = Heap(heap.keys, heap.vals)
           /\ IsFiniteSet(heap.keys) /\ IsFiniteSet(heap.vals)
           /\ RepsOf(Held(ht)) \subseteq heap.keys /\ ValsOf(Held(ht)) \subseteq heap.vals
<1>1. OwnedKeys = RepsOf(Held(ht)) /\ OwnedVals = ValsOf(Held(ht))
  BY OwnedAre DEF IInv
<1> QED BY <1>1, HeapIsHeap DEF IInv, TablesInv, HeapInv

\* A step on the table that keeps it in order and accounts for what it frees.
LEMMA DictStep ==
    ASSUME IInv, part \in {"dict", "args"}, part' = part, vec' = vec, queue' = queue, set' = set,
           Table(ht', HtVals), OwnsApart(Held(ht')), ValsApart(Held(ht')),
           NEW K, NEW W, heap' = Heap(K, W), IsFiniteSet(K), IsFiniteSet(W),
           RepsOf(Held(ht')) \subseteq K, ValsOf(Held(ht')) \subseteq W,
           \/ /\ ooms' = ooms
              /\ K \ RepsOf(Held(ht')) \subseteq heap.keys \ RepsOf(Held(ht))
              /\ W \ ValsOf(Held(ht')) \subseteq heap.vals \ ValsOf(Held(ht))
           \/ /\ ooms' = ooms + 1
              /\ OneMoreThan(K \ RepsOf(Held(ht')), heap.keys \ RepsOf(Held(ht)))
              /\ OneMoreThan(W \ ValsOf(Held(ht')), heap.vals \ ValsOf(Held(ht)))
    PROVE  IInv'
<1>1. VecInv' /\ QueueInv'
  BY VecSame, QueueSame DEF IInv
<1>2. TablesInv'
  BY DEF TablesInv, IInv
<1>3. PartInv'
  <2>1. Held(set') = Held(set)
    OBVIOUS
  <2> QED BY <2>1 DEF PartInv, IInv
<1>4. OwnedKeys = RepsOf(Held(ht)) /\ OwnedVals = ValsOf(Held(ht))
  BY OwnedAre DEF IInv
<1>5. OwnedKeys' = RepsOf(Held(ht')) /\ OwnedVals' = ValsOf(Held(ht'))
  BY <1>1, <1>3, OwnedAreNext
<1>6. HeapInv
  BY DEF IInv
<1>7. HeapInv'
  <2>1. CASE ooms' = ooms + 1
    <3>1. /\ OneMoreThan(K \ OwnedKeys', heap.keys \ OwnedKeys)
          /\ OneMoreThan(W \ OwnedVals', heap.vals \ OwnedVals)
      BY <1>4, <1>5, <2>1 DEF OneMoreThan
    <3> QED BY <1>5, <1>6, <2>1, <3>1, HeapLeaks
  <2>2. CASE ooms' # ooms + 1
    <3>1. /\ K \ OwnedKeys' \subseteq heap.keys \ OwnedKeys
          /\ W \ OwnedVals' \subseteq heap.vals \ OwnedVals
      BY <1>4, <1>5, <2>2
    <3> QED BY <1>5, <1>6, <2>2, <3>1, HeapKept
  <2> QED BY <2>1, <2>2
<1> QED BY <1>1, <1>2, <1>3, <1>7 DEF IInv

\* The key of a command is allocated, looked at and freed.
LEMMA KeyComesAndGoes ==
    ASSUME NEW K, NEW W, NEW o, o.rep \notin K
    PROVE  object_free_key(WithKey(Heap(K, W), o), o) = Heap(K, W)
<1>1. WithKey(Heap(K, W), o) = Heap(K \cup Own(o), W)
  BY HeapSteps
<1>2. object_free_key(Heap(K \cup Own(o), W), o) = Heap((K \cup Own(o)) \ Own(o), W)
  BY HeapSteps
<1>3. (K \cup Own(o)) \ Own(o) = K
  BY DEF Own
<1> QED BY <1>1, <1>2, <1>3

\* GET keeps the invariant.
LEMMA GetKeeps ==
    ASSUME IInv, NEW o \in Objs, execute_get_command(o)
    PROVE  IInv'
<1> DEFINE K == heap.keys
           W == heap.vals
<1>1. /\ part \in {"dict", "args"} /\ part' = part /\ vec' = vec /\ queue' = queue /\ set' = set
      /\ ht' = ht /\ ooms' = ooms /\ o.rep \notin K
      /\ heap' = object_free_key(WithKey(heap, o), o)
  BY DEF execute_get_command, onDict, FreshKey, ht_get
<1>2. /\ Table(ht, HtVals) /\ OwnsApart(Held(ht)) /\ ValsApart(Held(ht))
      /\ heap = Heap(K, W) /\ IsFiniteSet(K) /\ IsFiniteSet(W)
      /\ RepsOf(Held(ht)) \subseteq K /\ ValsOf(Held(ht)) \subseteq W
  BY <1>1, DictFacts
<1>3. heap' = Heap(K, W)
  <2> HIDE DEF K, W
  <2> QED BY <1>1, <1>2, KeyComesAndGoes
<1> QED BY <1>1, <1>2, <1>3, DictStep

\* SET does, whether it adds an entry, replaces a value or resizes first.
LEMMA SetKeeps ==
    ASSUME IInv, NEW o \in Objs, NEW v \in HtVals, execute_set_command(o, v)
    PROVE  IInv'
<1> DEFINE K == heap.keys
           W == heap.vals
           E == Held(ht)
           t == Grown(ht)
           h == WithVal(WithKey(heap, o), v)
<1>1. /\ part \in {"dict", "args"} /\ part' = part /\ vec' = vec /\ queue' = queue /\ set' = set
      /\ ooms' = ooms /\ o.rep \notin K /\ v \notin W
      /\ ht' = IF Lookup(t, o) = 0 THEN Added(t, o, v)
               ELSE [t EXCEPT !.entries[ht_hash(t, o)][Lookup(t, o)].val = v]
      /\ heap' = IF Lookup(t, o) = 0 THEN h ELSE KeyKept(h, t, o)
  BY DEF execute_set_command, onDict, FreshKey, FreshVal, ht_insert
<1>2. /\ Table(ht, HtVals) /\ OwnsApart(E) /\ ValsApart(E)
      /\ heap = Heap(K, W) /\ IsFiniteSet(K) /\ IsFiniteSet(W)
      /\ RepsOf(E) \subseteq K /\ ValsOf(E) \subseteq W
  BY <1>1, DictFacts
<1>3. Table(t, HtVals) /\ Held(t) = E /\ t.num_entries < t.capacity
  BY <1>2, GrownIs
<1> HIDE DEF K, W, E, t
<1>4. h = Heap(K \cup Own(o), W \cup {v})
  <2>1. WithKey(heap, o) = Heap(K \cup Own(o), W)
    BY <1>2, HeapSteps
  <2> QED BY <2>1, HeapSteps
<1> HIDE DEF h
<1>5. \A e \in E : e.val # v
  BY SMTT(60), <1>1, <1>2 DEF ValsOf
<1>6. CASE Lookup(t, o) = 0
  <2> DEFINE e == [key |-> o, val |-> v]
  <2>1. e.key = o /\ e.val = v
    OBVIOUS
  <2>2. e \notin E
    BY <1>5, <2>1
  <2>3. Table(Added(t, o, v), HtVals) /\ Held(Added(t, o, v)) = E \cup {e}
    BY <1>3, <2>2, AddedIs
  <2>4. ht' = Added(t, o, v) /\ heap' = Heap(K \cup Own(o), W \cup {v})
    BY <1>1, <1>4, <1>6
  <2> HIDE DEF e
  <2>5. e.key.rep \notin RepsOf(E) /\ e.val \notin ValsOf(E)
    BY <1>1, <1>2, <2>1
  <2>6. /\ OwnsApart(E \cup {e}) /\ ValsApart(E \cup {e})
        /\ RepsOf(E \cup {e}) = RepsOf(E) \cup Own(o)
        /\ ValsOf(E \cup {e}) = ValsOf(E) \cup {v}
    BY <1>2, <2>1, <2>5, EntryAdded
  <2>7. IsFiniteSet(K \cup Own(o)) /\ IsFiniteSet(W \cup {v})
    <3>1. Own(o) = {} \/ Own(o) = {o.rep}
      BY DEF Own
    <3>2. K \cup {} = K
      OBVIOUS
    <3> QED BY <1>2, <3>1, <3>2, FS_AddElement
  <2>8. /\ (K \cup Own(o)) \ RepsOf(Held(ht')) \subseteq K \ RepsOf(E)
        /\ (W \cup {v}) \ ValsOf(Held(ht')) \subseteq W \ ValsOf(E)
        /\ RepsOf(Held(ht')) \subseteq K \cup Own(o) /\ ValsOf(Held(ht')) \subseteq W \cup {v}
    BY <1>2, <2>3, <2>4, <2>6
  <2>9. Table(ht', HtVals) /\ OwnsApart(Held(ht')) /\ ValsApart(Held(ht'))
    BY SMTT(60), <2>3, <2>4, <2>6
  <2> QED BY <1>1, <2>4, <2>7, <2>8, <2>9, DictStep DEF K, W, E
<1>7. CASE Lookup(t, o) # 0
  <2> DEFINE old == EntryOf(t, o)
             e == [key |-> old.key, val |-> v]
  <2>1. old \in E
    BY <1>3, <1>7, LookupIs
  <2>2. e.key = old.key /\ e.val = v /\ e.val \notin ValsOf(E)
    BY <1>1, <1>2
  <2>3. Table(ht', HtVals) /\ Held(ht') = (E \ {old}) \cup {e}
    <3>1. ht' = [t EXCEPT !.entries[ht_hash(t, o)][Lookup(t, o)].val = v]
      BY <1>1, <1>7
    <3> QED BY <1>3, <1>5, <1>7, <3>1, OverwrittenIs
  <2>4. heap' = object_free_key(object_free(h, old.val), o)
    BY <1>1, <1>7 DEF KeyKept
  <2> HIDE DEF old, e
  <2>5. /\ OwnsApart(Held(ht')) /\ ValsApart(Held(ht'))
        /\ RepsOf(Held(ht')) = RepsOf(E)
        /\ ValsOf(Held(ht')) = (ValsOf(E) \ {old.val}) \cup {v}
    BY <1>2, <2>1, <2>2, <2>3, EntryReplaced
  <2>6. old.val \in W
    BY <1>2, <2>1, EntryRemoved
  <2> DEFINE W2 == (W \cup {v}) \ {old.val}
  <2>7. heap' = Heap(K, W2)
    <3>1. object_free(Heap(K \cup Own(o), W \cup {v}), old.val) = Heap(K \cup Own(o), W2)
      BY <2>6, HeapSteps
    <3>2. object_free_key(Heap(K \cup Own(o), W2), o) = Heap((K \cup Own(o)) \ Own(o), W2)
      <4> HIDE DEF W2
      <4> QED BY HeapSteps
    <3>3. (K \cup Own(o)) \ Own(o) = K
      BY <1>1 DEF Own
    <3> QED BY <1>4, <2>4, <3>1, <3>2, <3>3
  <2>8. IsFiniteSet(W2)
    BY <1>2, FS_AddElement, FS_Difference
  <2>9. /\ ValsOf(Held(ht')) \subseteq W2
        /\ W2 \ ValsOf(Held(ht')) \subseteq W \ ValsOf(E)
    BY <1>1, <1>2, <2>5, <2>6
  <2> HIDE DEF W2
  <2> QED BY <1>1, <1>2, <2>3, <2>5, <2>7, <2>8, <2>9, DictStep DEF K, W, E
<1> QED BY <1>6, <1>7

\* DEL does: the entry it frees is unlinked.
LEMMA DelKeeps ==
    ASSUME IInv, NEW o \in Objs, execute_del_command(o)
    PROVE  IInv'
<1> DEFINE K == heap.keys
           W == heap.vals
           E == Held(ht)
           h == WithKey(heap, o)
<1>1. /\ part \in {"dict", "args"} /\ part' = part /\ vec' = vec /\ queue' = queue /\ set' = set
      /\ ooms' = ooms /\ o.rep \notin K
      /\ ht' = IF Lookup(ht, o) = 0 THEN ht
               ELSE [ht EXCEPT !.entries[ht_hash(ht, o)] = RemoveAt(@, Lookup(ht, o)),
                               !.num_entries = @ - 1]
      /\ heap' = object_free_key(IF Lookup(ht, o) = 0 THEN h ELSE EntryFreed(h, EntryOf(ht, o)), o)
  BY DEF execute_del_command, onDict, FreshKey, ht_delete
<1>2. /\ Table(ht, HtVals) /\ OwnsApart(E) /\ ValsApart(E)
      /\ heap = Heap(K, W) /\ IsFiniteSet(K) /\ IsFiniteSet(W)
      /\ RepsOf(E) \subseteq K /\ ValsOf(E) \subseteq W
  BY <1>1, DictFacts
<1> HIDE DEF K, W, E
<1>3. h = Heap(K \cup Own(o), W)
  BY <1>2, HeapSteps
<1>4. CASE Lookup(ht, o) = 0
  <2>1. ht' = ht /\ heap' = Heap(K, W)
    BY <1>1, <1>2, <1>4, KeyComesAndGoes
  <2> QED BY <1>1, <1>2, <2>1, DictStep DEF K, W, E
<1>5. CASE Lookup(ht, o) # 0
  <2> DEFINE old == EntryOf(ht, o)
             K2 == K \ Own(old.key)
             W2 == W \ {old.val}
  <2>1. old \in E
    BY <1>2, <1>5, LookupIs DEF E
  <2>2. Table(ht', HtVals) /\ Held(ht') = E \ {old}
    <3>1. ht' = [ht EXCEPT !.entries[ht_hash(ht, o)] = RemoveAt(@, Lookup(ht, o)), !.num_entries = @ - 1]
      BY <1>1, <1>5
    <3> QED BY <1>2, <1>5, <3>1, RemovedIs DEF E
  <2>3. heap' = object_free_key(object_free_key(object_free(h, old.val), old.key), o)
    BY <1>1, <1>5 DEF EntryFreed
  <2> HIDE DEF old, h
  <2>4. /\ OwnsApart(Held(ht')) /\ ValsApart(Held(ht'))
        /\ RepsOf(Held(ht')) = RepsOf(E) \ Own(old.key) /\ Own(old.key) \subseteq RepsOf(E)
        /\ ValsOf(Held(ht')) = ValsOf(E) \ {old.val} /\ old.val \in ValsOf(E)
    <3> DEFINE D == E \ {old}
    <3>1. /\ OwnsApart(D) /\ ValsApart(D)
          /\ RepsOf(D) = RepsOf(E) \ Own(old.key) /\ Own(old.key) \subseteq RepsOf(E)
          /\ ValsOf(D) = ValsOf(E) \ {old.val} /\ old.val \in ValsOf(E)
      BY <1>2, <2>1, EntryRemoved
    <3>2. Held(ht') = D
      BY <2>2
    <3> HIDE DEF D
    <3> QED BY <3>1, <3>2
  <2>5. heap' = Heap(K2, W2)
    <3>1. object_free(h, old.val) = Heap(K \cup Own(o), W2)
      BY <1>2, <1>3, <2>4, HeapSteps
    <3>2. object_free_key(Heap(K \cup Own(o), W2), old.key) = Heap((K \cup Own(o)) \ Own(old.key), W2)
      <4>1. Own(old.key) \subseteq K \cup Own(o)
        BY <1>2, <2>4
      <4> HIDE DEF W2
      <4> QED BY <4>1, HeapSteps
    <3>3. (K \cup Own(o)) \ Own(old.key) = K2 \cup Own(o)
      BY <1>1, <1>2, <2>4 DEF Own
    <3>4. object_free_key(Heap(K2 \cup Own(o), W2), o) = Heap((K2 \cup Own(o)) \ Own(o), W2)
      <4> HIDE DEF W2, K2
      <4> QED BY HeapSteps
    <3>5. (K2 \cup Own(o)) \ Own(o) = K2
      BY <1>1 DEF Own
    <3> QED BY <2>3, <3>1, <3>2, <3>3, <3>4, <3>5
  <2>6. IsFiniteSet(K2) /\ IsFiniteSet(W2)
    BY <1>2, FS_Difference
  <2>7. /\ RepsOf(Held(ht')) \subseteq K2 /\ ValsOf(Held(ht')) \subseteq W2
        /\ K2 \ RepsOf(Held(ht')) \subseteq K \ RepsOf(E)
        /\ W2 \ ValsOf(Held(ht')) \subseteq W \ ValsOf(E)
    BY <1>2, <2>4
  <2> HIDE DEF W2, K2
  <2> QED BY <1>1, <2>2, <2>4, <2>5, <2>6, <2>7, DictStep DEF K, W, E
<1> QED BY <1>4, <1>5

\* ht_try_insert does, whether or not the key is there.
LEMMA TryInsertKeeps ==
    ASSUME IInv, NEW o \in Objs, NEW v \in HtVals, try_insert(o, v)
    PROVE  IInv'
<1> DEFINE K == heap.keys
           W == heap.vals
           E == Held(ht)
           t == Grown(ht)
<1>1. /\ part \in {"dict", "args"} /\ part' = part /\ vec' = vec /\ queue' = queue /\ set' = set
      /\ ooms' = ooms /\ o.rep = 0 /\ v \notin W
      /\ ht' = IF Lookup(t, o) = 0 THEN Added(t, o, v) ELSE t
      /\ heap' = IF Lookup(t, o) = 0 THEN WithVal(heap, v) ELSE heap
  BY DEF try_insert, onArgs, OwnsMemory, FreshVal, ht_try_insert, Res
<1>2. /\ Table(ht, HtVals) /\ OwnsApart(E) /\ ValsApart(E)
      /\ heap = Heap(K, W) /\ IsFiniteSet(K) /\ IsFiniteSet(W)
      /\ RepsOf(E) \subseteq K /\ ValsOf(E) \subseteq W
  BY <1>1, DictFacts
<1>3. Table(t, HtVals) /\ Held(t) = E /\ t.num_entries < t.capacity
  BY <1>2, GrownIs
<1> HIDE DEF K, W, E, t
<1>4. CASE Lookup(t, o) = 0
  <2> DEFINE e == [key |-> o, val |-> v]
  <2>1. e.key = o /\ e.val = v
    OBVIOUS
  <2>2. e \notin E
    BY <1>1, <1>2, <2>1 DEF ValsOf
  <2>3. Table(Added(t, o, v), HtVals) /\ Held(Added(t, o, v)) = E \cup {e}
    BY <1>3, <2>2, AddedIs
  <2>4. ht' = Added(t, o, v) /\ heap' = Heap(K, W \cup {v})
    <3>1. WithVal(Heap(K, W), v) = Heap(K, W \cup {v})
      BY HeapSteps
    <3> QED BY <1>1, <1>2, <1>4, <3>1
  <2> HIDE DEF e
  <2>5. e.key.rep \notin RepsOf(E) /\ e.val \notin ValsOf(E)
    BY <1>1, <1>2, <2>1 DEF RepsOf
  <2>6. /\ OwnsApart(E \cup {e}) /\ ValsApart(E \cup {e})
        /\ RepsOf(E \cup {e}) = RepsOf(E) \cup Own(o)
        /\ ValsOf(E \cup {e}) = ValsOf(E) \cup {v}
    BY <1>2, <2>1, <2>5, EntryAdded
  <2>7. Own(o) = {} /\ IsFiniteSet(W \cup {v})
    BY <1>1, <1>2, FS_AddElement DEF Own
  <2>8. /\ K \ RepsOf(Held(ht')) \subseteq K \ RepsOf(E)
        /\ (W \cup {v}) \ ValsOf(Held(ht')) \subseteq W \ ValsOf(E)
        /\ RepsOf(Held(ht')) \subseteq K /\ ValsOf(Held(ht')) \subseteq W \cup {v}
    BY <1>2, <2>3, <2>4, <2>6, <2>7
  <2>9. Table(ht', HtVals) /\ OwnsApart(Held(ht')) /\ ValsApart(Held(ht'))
    BY <2>3, <2>4, <2>6
  <2> QED BY <1>1, <1>2, <2>4, <2>7, <2>8, <2>9, DictStep DEF K, W, E
<1>5. CASE Lookup(t, o) # 0
  <2>1. ht' = t /\ heap' = Heap(K, W)
    BY <1>1, <1>2, <1>5
  <2> QED BY <1>1, <1>2, <1>3, <2>1, DictStep DEF K, W, E
<1> QED BY <1>4, <1>5

\* Out of memory: the arguments are lost.
LEMMA DictOomKeeps ==
    ASSUME IInv, NEW o \in Objs,
           try_insert_oom(o) \/ \E v \in HtVals : execute_set_command_oom(o, v)
    PROVE  IInv'
<1> DEFINE K == heap.keys
           W == heap.vals
<1>1. /\ part \in {"dict", "args"} /\ part' = part /\ vec' = vec /\ queue' = queue /\ set' = set
      /\ ht' = ht /\ ooms' = ooms + 1
  BY DEF try_insert_oom, execute_set_command_oom, onDict, onArgs, InsertOom, Oom
<1>2. /\ Table(ht, HtVals) /\ OwnsApart(Held(ht)) /\ ValsApart(Held(ht))
      /\ heap = Heap(K, W) /\ IsFiniteSet(K) /\ IsFiniteSet(W)
      /\ RepsOf(Held(ht)) \subseteq K /\ ValsOf(Held(ht)) \subseteq W
  BY <1>1, DictFacts
<1>3. CASE try_insert_oom(o)
  <2>1. heap' = Heap(K, W)
    BY <1>2, <1>3 DEF try_insert_oom
  <2>2. \A A : OneMoreThan(A, A)
    BY DEF OneMoreThan
  <2> QED BY <1>1, <1>2, <2>1, <2>2, DictStep
<1>4. CASE \E v \in HtVals : execute_set_command_oom(o, v)
  <2>1. PICK v \in HtVals : execute_set_command_oom(o, v)
    BY <1>4
  <2> HIDE DEF K, W
  <2>2. heap' = Heap(K \cup Own(o), W \cup {v})
    <3>1. heap' = WithVal(WithKey(heap, o), v)
      BY <2>1 DEF execute_set_command_oom
    <3>2. WithKey(heap, o) = Heap(K \cup Own(o), W)
      BY <1>2, HeapSteps
    <3> QED BY <3>1, <3>2, HeapSteps
  <2>3. Own(o) \subseteq {o.rep} /\ IsFiniteSet(W \cup {v}) /\ IsFiniteSet(K \cup Own(o))
    <3>1. Own(o) = {} \/ Own(o) = {o.rep}
      BY DEF Own
    <3>2. K \cup {} = K
      OBVIOUS
    <3> QED BY <1>2, <3>1, <3>2, FS_AddElement
  <2>4. /\ RepsOf(Held(ht')) \subseteq K \cup Own(o) /\ ValsOf(Held(ht')) \subseteq W \cup {v}
        /\ OneMoreThan((K \cup Own(o)) \ RepsOf(Held(ht')), K \ RepsOf(Held(ht)))
        /\ OneMoreThan((W \cup {v}) \ ValsOf(Held(ht')), W \ ValsOf(Held(ht)))
    BY <1>1, <1>2, <2>3 DEF OneMoreThan
  <2> QED BY <1>1, <1>2, <2>2, <2>3, <2>4, DictStep DEF K, W
<1> QED BY <1>3, <1>4

-----------------------------------------------------------------------------
(* The steps on the set *)

\* What is known while the set is in use.
LEMMA SetFacts ==
    ASSUME IInv, part = "set"
    PROVE  /\ Table(set, {""}) /\ OwnsApart(Held(set))
           /\ heap = Heap(heap.keys, heap.vals)
           /\ IsFiniteSet(heap.keys) /\ IsFiniteSet(heap.vals)
           /\ RepsOf(Held(set)) \subseteq heap.keys
<1>1. OwnedKeys = RepsOf(Held(set))
  BY OwnedAre DEF IInv
<1> QED BY <1>1, HeapIsHeap DEF IInv, TablesInv, HeapInv

\* A step of the set keeps the invariant when it keeps the set's own part of it.
LEMMA SetStep ==
    ASSUME IInv, part = "set", part' = part, vec' = vec, queue' = queue, ht' = ht,
           Table(set', {""}), OwnsApart(Held(set')),
           NEW K, heap' = Heap(K, heap.vals), IsFiniteSet(K),
           RepsOf(Held(set')) \subseteq K,
           \/ ooms' = ooms /\ K \ RepsOf(Held(set')) \subseteq heap.keys \ RepsOf(Held(set))
           \/ ooms' = ooms + 1 /\ OneMoreThan(K \ RepsOf(Held(set')), heap.keys \ RepsOf(Held(set)))
    PROVE  IInv'
<1> DEFINE W == heap.vals
<1>1. VecInv' /\ QueueInv'
  BY VecSame, QueueSame DEF IInv
<1>2. TablesInv'
  BY DEF TablesInv, IInv
<1>3. PartInv'
  <2>1. Held(ht') = Held(ht)
    OBVIOUS
  <2> QED BY <2>1 DEF PartInv, IInv
<1>4. OwnedKeys = RepsOf(Held(set)) /\ OwnedVals = {}
  BY OwnedAre DEF IInv
<1>5. OwnedKeys' = RepsOf(Held(set')) /\ OwnedVals' = {}
  BY <1>1, <1>3, OwnedAreNext
<1>6. HeapInv /\ IsFiniteSet(W) /\ OwnedVals' \subseteq W
  BY <1>5 DEF IInv, HeapInv
<1>7. HeapInv'
  <2>1. CASE ooms' = ooms + 1
    <3>1. /\ OneMoreThan(K \ OwnedKeys', heap.keys \ OwnedKeys)
          /\ OneMoreThan(W \ OwnedVals', heap.vals \ OwnedVals)
      BY <1>4, <1>5, <2>1 DEF OneMoreThan
    <3>2. heap' = Heap(K, W) /\ OwnedKeys' \subseteq K
      BY <1>5
    <3>3. HeapInv /\ IsFiniteSet(W) /\ OwnedVals' \subseteq W
      BY <1>6
    <3> HIDE DEF W
    <3> QED BY <2>1, <3>1, <3>2, <3>3, HeapLeaks
  <2>2. CASE ooms' # ooms + 1
    <3>1. /\ K \ OwnedKeys' \subseteq heap.keys \ OwnedKeys
          /\ W \ OwnedVals' \subseteq heap.vals \ OwnedVals
      BY <1>4, <1>5, <2>2
    <3> QED BY <1>5, <1>6, <2>2, <3>1, HeapKept
  <2> QED BY <2>1, <2>2
<1> QED BY <1>1, <1>2, <1>3, <1>7 DEF IInv

\* A key that a walk of its slot does not find is not in the table: a key that
\* differs from itself owns memory, and the new one's is fresh.
LEMMA NotHeld ==
    ASSUME NEW V, NEW t, Table(t, V), NEW v, NEW o \in Objs, Lookup(t, o) = 0,
           o.rep \notin RepsOf(Held(t))
    PROVE  [key |-> o, val |-> v] \notin Held(t)
<1> DEFINE e == [key |-> o, val |-> v]
<1>1. e.key = o
  OBVIOUS
<1> HIDE DEF e
<1> SUFFICES ASSUME e \in Held(t) PROVE FALSE
  BY DEF e
<1>2. o.rep = 0
  BY <1>1 DEF RepsOf
<1>3. object_cmp_eq(o, o)
  BY <1>2, KeysAssumption DEF OwnsMemory
<1>4. ht_hash(t, o) \in Slots(t) /\ ht_hash(t, o) = hash[o] % t.capacity
  BY HashIsSlot DEF Table
<1>5. e \in ToSet(t.entries[ht_hash(t, o)])
  <2> DEFINE s == ht_hash(t, o)
  <2>1. s \in Slots(t) /\ hash[e.key] % t.capacity = s
    BY <1>1, <1>4
  <2> HIDE DEF s
  <2>2. ToSet(t.entries[s]) = {f \in Held(t) : hash[f.key] % t.capacity = s}
    BY <2>1, ChainsOf
  <2> QED BY <2>1, <2>2 DEF s
<1>6. ~object_cmp_eq(o, e.key)
  BY <1>5, LookupIs
<1> QED BY <1>1, <1>3, <1>6

\* The set has room for one more member after the resize.
LEMMA SetGrownIs ==
    ASSUME Table(set, {""})
    PROVE  /\ Table(SetGrown, {""}) /\ Held(SetGrown) = Held(set)
           /\ SetGrown.num_entries < SetGrown.capacity
<1> DEFINE u == SetGrown
<1>1. u = IF set.num_entries >= set.capacity THEN ht_resize(set) ELSE set
  BY DEF SetGrown, set_resize
<1> HIDE DEF u
<1>2. Table(u, {""}) /\ Held(u) = Held(set) /\ u.num_entries < u.capacity
  BY <1>1, GrownIs
<1> QED BY <1>2 DEF u

\* set_insert keeps the invariant.
LEMMA InsertKeeps ==
    ASSUME IInv, NEW o \in Objs, set_insert(o)
    PROVE  IInv'
<1> DEFINE K == heap.keys
           W == heap.vals
           E == Held(set)
           t == SetGrown
           h == WithKey(heap, o)
<1>1. /\ part = "set" /\ part' = part /\ vec' = vec /\ queue' = queue /\ ht' = ht
      /\ ooms' = ooms /\ o.rep \notin K
      /\ set' = IF Lookup(t, o) = 0 THEN Added(t, o, "") ELSE t
      /\ heap' = IF Lookup(t, o) = 0 THEN h ELSE object_free_key(h, o)
  BY DEF set_insert, onSet, FreshKey, htVars
<1>2. /\ Table(set, {""}) /\ OwnsApart(E) /\ RepsOf(E) \subseteq K
      /\ heap = Heap(K, W) /\ IsFiniteSet(K) /\ IsFiniteSet(W)
  BY <1>1, SetFacts
<1>3. Table(t, {""}) /\ Held(t) = E /\ t.num_entries < t.capacity
  BY <1>2, SetGrownIs
<1> HIDE DEF K, W, E, t
<1>4. h = Heap(K \cup Own(o), W)
  <2>1. WithKey(Heap(K, W), o) = Heap(K \cup Own(o), W)
    BY HeapSteps
  <2> QED BY <1>2, <2>1
<1>5. CASE Lookup(t, o) = 0
  <2> DEFINE e == [key |-> o, val |-> ""]
  <2>1. e.key = o /\ o.rep \notin RepsOf(E)
    BY <1>1, <1>2
  <2>2. e \notin E
    BY <1>3, <1>5, <2>1, NotHeld
  <2>3. Table(Added(t, o, ""), {""}) /\ Held(Added(t, o, "")) = E \cup {e}
    <3> DEFINE v == ""
               V == {v}
    <3>1. /\ v \in V /\ Table(t, V) /\ t.num_entries < t.capacity
          /\ [key |-> o, val |-> v] \notin Held(t)
      BY <1>3, <2>2
    <3> HIDE DEF v, V, e
    <3>2. Table(Added(t, o, v), V) /\ Held(Added(t, o, v)) = Held(t) \cup {[key |-> o, val |-> v]}
      BY <3>1, AddedIs
    <3> QED BY <1>3, <3>2 DEF v, V, e
  <2>4. set' = Added(t, o, "") /\ heap' = Heap(K \cup Own(o), W)
    BY <1>1, <1>4, <1>5
  <2> HIDE DEF e
  <2>5. OwnsApart(E \cup {e}) /\ RepsOf(E \cup {e}) = RepsOf(E) \cup Own(o)
    BY <1>2, <2>1, EntryAdded
  <2>6. IsFiniteSet(K \cup Own(o))
    <3>1. Own(o) = {} \/ Own(o) = {o.rep}
      BY DEF Own
    <3>2. K \cup {} = K
      OBVIOUS
    <3> QED BY <1>2, <3>1, <3>2, FS_AddElement
  <2>7. /\ (K \cup Own(o)) \ RepsOf(Held(set')) \subseteq K \ RepsOf(E)
        /\ RepsOf(Held(set')) \subseteq K \cup Own(o)
    BY <1>2, <2>3, <2>4, <2>5
  <2>8. Table(set', {""}) /\ OwnsApart(Held(set'))
    BY <2>3, <2>4, <2>5
  <2> QED BY <1>1, <2>4, <2>6, <2>7, <2>8, SetStep DEF K, W, E
<1>6. CASE Lookup(t, o) # 0
  <2>1. set' = t /\ heap' = Heap(K, W)
    BY <1>1, <1>2, <1>6, KeyComesAndGoes
  <2> QED BY <1>1, <1>2, <1>3, <2>1, SetStep DEF K, W, E
<1> QED BY <1>5, <1>6

\* set_has does.
LEMMA HasKeeps ==
    ASSUME IInv, NEW o \in Objs, set_has(o)
    PROVE  IInv'
<1> DEFINE K == heap.keys
           W == heap.vals
<1>1. /\ part = "set" /\ part' = part /\ vec' = vec /\ queue' = queue /\ ht' = ht
      /\ set' = set /\ ooms' = ooms /\ o.rep \notin K
      /\ heap' = object_free_key(WithKey(heap, o), o)
  BY DEF set_has, onSet, FreshKey, htVars
<1>2. /\ Table(set, {""}) /\ OwnsApart(Held(set)) /\ RepsOf(Held(set)) \subseteq K
      /\ heap = Heap(K, W) /\ IsFiniteSet(K)
  BY <1>1, SetFacts
<1>3. heap' = Heap(K, W)
  <2> HIDE DEF K, W
  <2> QED BY <1>1, <1>2, KeyComesAndGoes
<1> QED BY <1>1, <1>2, <1>3, SetStep

\* set_delete does.
LEMMA DeleteKeeps ==
    ASSUME IInv, NEW o \in Objs, set_delete(o)
    PROVE  IInv'
<1> DEFINE K == heap.keys
           W == heap.vals
           E == Held(set)
           h == WithKey(heap, o)
<1>1. /\ part = "set" /\ part' = part /\ vec' = vec /\ queue' = queue /\ ht' = ht
      /\ ooms' = ooms /\ o.rep \notin K
      /\ set' = IF Lookup(set, o) = 0 THEN set
                ELSE [set EXCEPT !.entries[ht_hash(set, o)] = RemoveAt(@, Lookup(set, o)),
                                 !.num_entries = @ - 1]
      /\ heap' = IF Lookup(set, o) = 0 THEN object_free_key(h, o)
                 ELSE object_free_key(object_free_key(h, EntryOf(set, o).key), o)
  BY DEF set_delete, onSet, FreshKey, htVars
<1>2. /\ Table(set, {""}) /\ OwnsApart(E) /\ RepsOf(E) \subseteq K
      /\ heap = Heap(K, W) /\ IsFiniteSet(K) /\ IsFiniteSet(W)
  BY <1>1, SetFacts
<1> HIDE DEF K, W, E
<1>3. h = Heap(K \cup Own(o), W)
  <2>1. WithKey(Heap(K, W), o) = Heap(K \cup Own(o), W)
    BY HeapSteps
  <2> QED BY <1>2, <2>1
<1>4. CASE Lookup(set, o) = 0
  <2>1. set' = set /\ heap' = Heap(K, W)
    BY <1>1, <1>2, <1>4, KeyComesAndGoes
  <2> QED BY <1>1, <1>2, <2>1, SetStep DEF K, W, E
<1>5. CASE Lookup(set, o) # 0
  <2> DEFINE old == EntryOf(set, o)
             K2 == K \ Own(old.key)
             D == E \ {old}
  <2>1. old \in E
    BY <1>2, <1>5, LookupIs DEF E
  <2>2. Table(set', {""}) /\ Held(set') = D
    <3>1. set' = [set EXCEPT !.entries[ht_hash(set, o)] = RemoveAt(@, Lookup(set, o)), !.num_entries = @ - 1]
      BY <1>1, <1>5
    <3> QED BY <1>2, <1>5, <3>1, RemovedIs DEF E
  <2>3. heap' = object_free_key(object_free_key(h, old.key), o)
    BY <1>1, <1>5
  <2> HIDE DEF old, h
  <2>4. OwnsApart(D) /\ RepsOf(D) = RepsOf(E) \ Own(old.key) /\ Own(old.key) \subseteq RepsOf(E)
    BY <1>2, <2>1, EntryRemoved
  <2> HIDE DEF D
  <2>5. heap' = Heap(K2, W)
    <3>1. object_free_key(Heap(K \cup Own(o), W), old.key) = Heap((K \cup Own(o)) \ Own(old.key), W)
      <4>1. Own(old.key) \subseteq K \cup Own(o)
        BY <1>2, <2>4
      <4> QED BY <4>1, HeapSteps
    <3>2. (K \cup Own(o)) \ Own(old.key) = K2 \cup Own(o)
      BY <1>1, <1>2, <2>4 DEF Own
    <3>3. object_free_key(Heap(K2 \cup Own(o), W), o) = Heap((K2 \cup Own(o)) \ Own(o), W)
      <4> HIDE DEF K2
      <4> QED BY HeapSteps
    <3>4. (K2 \cup Own(o)) \ Own(o) = K2
      BY <1>1 DEF Own
    <3> QED BY <1>3, <2>3, <3>1, <3>2, <3>3, <3>4
  <2>6. IsFiniteSet(K2)
    BY <1>2, FS_Difference
  <2>7. /\ OwnsApart(Held(set')) /\ RepsOf(Held(set')) \subseteq K2
        /\ K2 \ RepsOf(Held(set')) \subseteq K \ RepsOf(E)
    BY <1>2, <2>2, <2>4
  <2> HIDE DEF K2
  <2> QED BY <1>1, <2>2, <2>5, <2>6, <2>7, SetStep DEF K, W, E
<1> QED BY <1>4, <1>5

\* set_insert does when an allocation fails, before or after the resize.
LEMMA SetOomKeeps ==
    ASSUME IInv, NEW o \in Objs, set_insert_no_resize(o) \/ set_insert_no_entry(o)
    PROVE  IInv'
<1> DEFINE K == heap.keys
           W == heap.vals
           E == Held(set)
<1>1. /\ part = "set" /\ part' = part /\ vec' = vec /\ queue' = queue /\ ht' = ht
      /\ ooms' = ooms + 1 /\ heap' = WithKey(heap, o) /\ (set' = set \/ set' = SetGrown)
  BY DEF set_insert_no_resize, set_insert_no_entry, onSet, htVars, Oom
<1>2. /\ Table(set, {""}) /\ OwnsApart(E) /\ RepsOf(E) \subseteq K
      /\ heap = Heap(K, W) /\ IsFiniteSet(K)
  BY <1>1, SetFacts
<1>3. Table(set', {""}) /\ Held(set') = E
  BY <1>1, <1>2, SetGrownIs
<1> HIDE DEF K, W, E
<1>4. heap' = Heap(K \cup Own(o), W)
  <2>1. WithKey(Heap(K, W), o) = Heap(K \cup Own(o), W)
    BY HeapSteps
  <2> QED BY <1>1, <1>2, <2>1
<1>5. Own(o) \subseteq {o.rep} /\ IsFiniteSet(K \cup Own(o))
  <2>1. Own(o) = {} \/ Own(o) = {o.rep}
    BY DEF Own
  <2>2. K \cup {} = K
    OBVIOUS
  <2> QED BY <1>2, <2>1, <2>2, FS_AddElement
<1>6. /\ RepsOf(Held(set')) \subseteq K \cup Own(o)
      /\ OneMoreThan((K \cup Own(o)) \ RepsOf(Held(set')), K \ RepsOf(E))
  BY <1>2, <1>3, <1>5 DEF OneMoreThan
<1> QED BY <1>1, <1>2, <1>3, <1>4, <1>5, <1>6, SetStep DEF K, W, E

-----------------------------------------------------------------------------
(* The steps on the vector *)

\* The values in the vector.
VecSet == {vec.data[i] : i \in 1 .. vec.len}

\* What is known while the vector is in use.
LEMMA VecFacts ==
    ASSUME IInv, part = "vec"
    PROVE  /\ VecInv /\ VecSet \subseteq heap.vals /\ heap = Heap(heap.keys, heap.vals)
           /\ IsFiniteSet(heap.keys) /\ IsFiniteSet(heap.vals)
<1>1. OwnedVals = VecSet
  BY OwnedAre, VecContentsIs DEF IInv, VecSet, VecHolds
<1> QED BY <1>1, HeapIsHeap DEF IInv, HeapInv

\* A step of the vector keeps the invariant when it keeps the vector's own part of it.
LEMMA VecStep ==
    ASSUME IInv, part = "vec", part' = part, ht' = ht, queue' = queue, set' = set, VecInv',
           NEW W, heap' = Heap(heap.keys, W), IsFiniteSet(W), VecSet' \subseteq W,
           \/ ooms' = ooms /\ W \ VecSet' \subseteq heap.vals \ VecSet
           \/ ooms' = ooms + 1 /\ OneMoreThan(W \ VecSet', heap.vals \ VecSet)
    PROVE  IInv'
<1> DEFINE K == heap.keys
<1>1. QueueInv'
  BY QueueSame DEF IInv
<1>2. TablesInv'
  BY DEF TablesInv, IInv
<1>3. PartInv'
  <2>1. Held(ht') = Held(ht) /\ Held(set') = Held(set)
    OBVIOUS
  <2> QED BY <2>1 DEF PartInv, IInv
<1>4. OwnedKeys = {} /\ OwnedVals = VecSet
  BY OwnedAre, VecContentsIs DEF IInv, VecSet, VecHolds
<1>5. OwnedKeys' = {} /\ OwnedVals' = VecSet'
  BY <1>1, <1>3, OwnedAreNext, VecContentsIsNext DEF VecSet, VecHolds
<1>6. HeapInv /\ IsFiniteSet(K) /\ OwnedKeys' \subseteq K /\ heap' = Heap(K, W) /\ OwnedVals' \subseteq W
  BY <1>5 DEF IInv, HeapInv
<1>7. HeapInv'
  <2>1. CASE ooms' = ooms + 1
    <3>1. /\ OneMoreThan(K \ OwnedKeys', heap.keys \ OwnedKeys)
          /\ OneMoreThan(W \ OwnedVals', heap.vals \ OwnedVals)
      BY <1>4, <1>5, <2>1 DEF OneMoreThan
    <3> HIDE DEF K
    <3> QED BY <1>6, <2>1, <3>1, HeapLeaks
  <2>2. CASE ooms' # ooms + 1
    <3>1. /\ K \ OwnedKeys' \subseteq heap.keys \ OwnedKeys
          /\ W \ OwnedVals' \subseteq heap.vals \ OwnedVals
      BY <1>4, <1>5, <2>2
    <3>2. ooms' = ooms
      BY <2>2
    <3> HIDE DEF K
    <3> QED BY <1>6, <3>1, <3>2, HeapKept
  <2> QED BY <2>1, <2>2
<1> QED BY <1>1, <1>2, <1>3, <1>7 DEF IInv

\* The array with room for one more.
Room == IF VecFull THEN vec_realloc ELSE vec.data

\* vec_push has room for one more value and keeps those it has.
LEMMA RoomIs ==
    ASSUME VecInv
    PROVE  /\ Room \in Seq(HtVals \cup {Zero}) /\ vec.len + 1 \in 1 .. Len(Room)
           /\ \A i \in 1 .. vec.len : Room[i] = vec.data[i]
<1> DEFINE d == vec.data
           n == vec.len
           X == HtVals \cup {Zero}
           z == [i \in 1 .. Len(d) |-> Zero]
<1>1. d \in Seq(X) /\ Len(d) \in Nat \ {0} /\ n \in 0 .. Len(d)
  BY EmptySeq DEF VecInv
<1>2. Room = IF n = Len(d) THEN d \o z ELSE d
  BY DEF Room, VecFull, vec_realloc
<1>3. z \in Seq(X) /\ Len(z) = Len(d)
  <2> DEFINE m == Len(d)
  <2>1. Zero \in X /\ m \in Nat
    BY <1>1
  <2> HIDE DEF m, X
  <2>2. z \in [1 .. m -> X]
    BY <2>1 DEF m
  <2> HIDE DEF z
  <2> QED BY <2>1, <2>2, FunctionIsSeq DEF m
<1> HIDE DEF d, n, X, z
<1>4. CASE n = Len(d)
  <2>1. /\ d \o z \in Seq(X) /\ Len(d \o z) = Len(d) + Len(z)
        /\ \A i \in 1 .. Len(d) : (d \o z)[i] = d[i]
    BY SMTT(60), <1>1, <1>3, ConcatPlaces
  <2>2. n + 1 \in 1 .. Len(d \o z)
    BY <1>1, <1>3, <1>4, <2>1
  <2> QED BY <1>2, <1>4, <2>1, <2>2 DEF d, n, X
<1>5. CASE n # Len(d)
  <2>1. n + 1 \in 1 .. Len(d)
    BY <1>1, <1>5
  <2> QED BY <1>1, <1>2, <1>5, <2>1 DEF d, n, X
<1> QED BY <1>4, <1>5

\* vec_push keeps the invariant.
LEMMA PushKeeps ==
    ASSUME IInv, NEW v \in HtVals, vec_push(v)
    PROVE  IInv'
<1> DEFINE d == vec.data
           n == vec.len
           W == heap.vals
           e == [Room EXCEPT ![n + 1] = v]
           X == HtVals \cup {Zero}
<1>1. /\ part = "vec" /\ part' = part /\ ht' = ht /\ queue' = queue /\ set' = set
      /\ ooms' = ooms /\ v \notin W /\ n < MaxLen
      /\ vec' = [data |-> e, len |-> n + 1] /\ heap' = WithVal(heap, v)
  BY DEF vec_push, onVec, htVars, FreshVal, Room
<1>2. /\ VecInv /\ VecSet \subseteq W /\ heap = Heap(heap.keys, W) /\ IsFiniteSet(W)
  BY <1>1, VecFacts
<1>3. /\ Room \in Seq(X) /\ n + 1 \in 1 .. Len(Room)
      /\ \A i \in 1 .. n : Room[i] = d[i]
  BY <1>2, RoomIs
<1>4. /\ n \in Nat /\ MaxLen \in Nat
      /\ \A i \in 1 .. n : d[i] \in HtVals
      /\ \A i, j \in 1 .. n : d[i] = d[j] => i = j
  BY <1>2, CollectionsAssumption DEF VecInv
<1>5. \A i \in 1 .. n : d[i] # v
  BY <1>1, <1>2 DEF VecSet
<1>6. vec'.data = e /\ vec'.len = n + 1 /\ vec' = [data |-> vec'.data, len |-> vec'.len]
  BY <1>1
<1> HIDE DEF W, n, d
<1>7. v \in X
  OBVIOUS
<1> HIDE DEF X
<1>8. e \in Seq(X) /\ Len(e) = Len(Room) /\ e[n + 1] = v /\ \A i \in 1 .. n : e[i] = d[i]
  <2>1. \A i \in 1 .. n : i \in 1 .. Len(Room) /\ i # n + 1
    BY <1>3, <1>4
  <2> QED BY <1>3, <1>7, <2>1
<1> HIDE DEF e
<1>9. \A i \in 1 .. (n + 1) : i \in 1 .. n \/ i = n + 1
  BY <1>4
<1>10. VecInv'
  <2>1. n + 1 \in 0 .. Len(e) /\ n + 1 <= MaxLen /\ e # <<>>
    BY <1>1, <1>3, <1>4, <1>8
  <2>2. \A i \in 1 .. (n + 1) : e[i] \in HtVals
    BY <1>4, <1>8, <1>9
  <2>3. \A i, j \in 1 .. (n + 1) : e[i] = e[j] => i = j
    BY <1>4, <1>5, <1>8, <1>9
  <2> QED BY <1>6, <1>8, <2>1, <2>2, <2>3 DEF VecInv, X
<1>11. VecSet' = VecSet \cup {v}
  <2>1. VecSet' = {e[i] : i \in 1 .. (n + 1)} /\ VecSet = {d[i] : i \in 1 .. n}
    BY <1>6 DEF VecSet, n, d
  <2>2. \A i \in 1 .. n : i \in 1 .. (n + 1)
    BY <1>4
  <2>3. n + 1 \in 1 .. (n + 1)
    BY <1>4
  <2> QED BY <1>8, <1>9, <2>1, <2>2, <2>3
<1>12. heap' = Heap(heap.keys, W \cup {v})
  <2>1. WithVal(Heap(heap.keys, W), v) = Heap(heap.keys, W \cup {v})
    BY HeapSteps
  <2> QED BY <1>1, <1>2, <2>1
<1>13. IsFiniteSet(W \cup {v})
  BY <1>2, FS_AddElement
<1>14. VecSet' \subseteq W \cup {v} /\ (W \cup {v}) \ VecSet' \subseteq W \ VecSet
  BY <1>2, <1>11
<1> QED BY <1>1, <1>10, <1>12, <1>13, <1>14, VecStep DEF W

\* vec_push does when realloc fails.
LEMMA PushOomKeeps ==
    ASSUME IInv, NEW v \in HtVals, vec_push_oom(v)
    PROVE  IInv'
<1> DEFINE W == heap.vals
<1>1. /\ part = "vec" /\ part' = part /\ ht' = ht /\ queue' = queue /\ set' = set
      /\ vec' = vec /\ ooms' = ooms + 1 /\ heap' = WithVal(heap, v)
  BY DEF vec_push_oom, onVec, htVars, Oom
<1>2. /\ VecInv /\ VecSet \subseteq W /\ heap = Heap(heap.keys, W) /\ IsFiniteSet(W)
  BY <1>1, VecFacts
<1>3. VecInv' /\ VecSet' = VecSet
  BY <1>1, <1>2, VecSame DEF VecSet
<1> HIDE DEF W
<1>4. heap' = Heap(heap.keys, W \cup {v})
  <2>1. WithVal(Heap(heap.keys, W), v) = Heap(heap.keys, W \cup {v})
    BY HeapSteps
  <2> QED BY <1>1, <1>2, <2>1
<1>5. IsFiniteSet(W \cup {v})
  BY <1>2, FS_AddElement
<1>6. VecSet' \subseteq W \cup {v} /\ OneMoreThan((W \cup {v}) \ VecSet', W \ VecSet)
  BY <1>2, <1>3 DEF OneMoreThan
<1> QED BY <1>1, <1>3, <1>4, <1>5, <1>6, VecStep DEF W

\* Element k is taken out and freed.
LEMMA VecDrop ==
    ASSUME IInv, part = "vec", part' = part, ht' = ht, queue' = queue, set' = set, ooms' = ooms,
           NEW k \in 1 .. vec.len, NEW e \in Seq(HtVals \cup {Zero}), Len(e) = Len(vec.data),
           \A j \in 1 .. (vec.len - 1) : e[j] = vec.data[IF j < k THEN j ELSE j + 1],
           vec' = [data |-> e, len |-> vec.len - 1], heap' = object_free(heap, vec.data[k])
    PROVE  IInv'
<1> DEFINE d == vec.data
           n == vec.len
           W == heap.vals
           X == HtVals \cup {Zero}
           at(j) == IF j < k THEN j ELSE j + 1
<1>1. /\ VecInv /\ VecSet \subseteq W /\ heap = Heap(heap.keys, W) /\ IsFiniteSet(W)
  BY VecFacts
<1>2. /\ n \in 0 .. Len(d) /\ n <= MaxLen /\ Len(d) \in Nat /\ d # <<>> /\ d \in Seq(X)
      /\ \A i \in 1 .. n : d[i] \in HtVals
      /\ \A i, j \in 1 .. n : d[i] = d[j] => i = j
  BY <1>1 DEF VecInv
<1>3. /\ vec'.data = e /\ vec'.len = n - 1 /\ vec' = [data |-> vec'.data, len |-> vec'.len]
      /\ e \in Seq(X) /\ Len(e) = Len(d) /\ k \in 1 .. n /\ heap' = object_free(heap, d[k])
      /\ \A j \in 1 .. (n - 1) : e[j] = d[at(j)]
  OBVIOUS
<1>4. VecSet = {d[i] : i \in 1 .. n} /\ VecSet' = {e[i] : i \in 1 .. (n - 1)}
  BY <1>3 DEF VecSet
<1> HIDE DEF d, n, W, X
<1>5. n \in Nat \ {0} /\ MaxLen \in Nat
  BY <1>2, <1>3, CollectionsAssumption
<1>6. \A j \in 1 .. (n - 1) : at(j) \in 1 .. n /\ at(j) # k
  BY <1>3, <1>5
<1>7. \A i, j \in 1 .. (n - 1) : at(i) = at(j) => i = j
  BY <1>3, <1>5
<1>8. \A i \in 1 .. n : i # k => \E j \in 1 .. (n - 1) : at(j) = i
  <2> TAKE i \in 1 .. n
  <2>1. CASE i < k
    <3>1. i \in 1 .. (n - 1) /\ at(i) = i
      BY <1>3, <1>5, <2>1
    <3> QED BY <3>1
  <2>2. CASE i > k
    <3>1. i - 1 \in 1 .. (n - 1) /\ at(i - 1) = i
      BY <1>3, <1>5, <2>2
    <3> QED BY <3>1
  <2> QED BY <1>3, <1>5, <2>1, <2>2
<1> HIDE DEF at
<1>9. VecInv'
  <2>1. n - 1 \in 0 .. Len(e) /\ n - 1 <= MaxLen /\ e # <<>>
    <3>1. Len(d) # 0
      BY <1>2, <1>5
    <3> QED BY <1>2, <1>3, <1>5, <3>1
  <2>2. \A i \in 1 .. (n - 1) : e[i] \in HtVals
    BY <1>2, <1>3, <1>6
  <2>3. \A i, j \in 1 .. (n - 1) : e[i] = e[j] => i = j
    BY <1>2, <1>3, <1>6, <1>7
  <2> QED BY <1>3, <2>1, <2>2, <2>3 DEF VecInv, X
<1>10. VecSet' = VecSet \ {d[k]}
  <2>1. ASSUME NEW y \in VecSet' PROVE y \in VecSet /\ y # d[k]
    <3>1. PICK j \in 1 .. (n - 1) : y = e[j]
      BY <1>4
    <3> QED BY <1>2, <1>3, <1>4, <1>6, <3>1
  <2>2. ASSUME NEW y \in VecSet, y # d[k] PROVE y \in VecSet'
    <3>1. PICK i \in 1 .. n : y = d[i]
      BY <1>4
    <3>2. PICK j \in 1 .. (n - 1) : at(j) = i
      BY <1>8, <2>2, <3>1
    <3> QED BY <1>3, <1>4, <3>1, <3>2
  <2> QED BY <2>1, <2>2
<1>11. d[k] \in VecSet /\ d[k] \in W
  BY <1>1, <1>3, <1>4
<1>12. heap' = Heap(heap.keys, W \ {d[k]})
  <2>1. object_free(Heap(heap.keys, W), d[k]) = Heap(heap.keys, W \ {d[k]})
    BY <1>11, HeapSteps
  <2> QED BY <1>1, <1>3, <2>1
<1>13. IsFiniteSet(W \ {d[k]})
  BY <1>1, FS_Difference
<1>14. VecSet' \subseteq W \ {d[k]} /\ (W \ {d[k]}) \ VecSet' \subseteq W \ VecSet
  BY <1>1, <1>10
<1> QED BY <1>9, <1>12, <1>13, <1>14, VecStep DEF W

\* vec_pop does.
LEMMA PopKeeps ==
    ASSUME IInv, vec_pop, vec.len # 0
    PROVE  IInv'
<1> DEFINE k == vec.len
           e == vec.data
<1>1. /\ part = "vec" /\ part' = part /\ ht' = ht /\ queue' = queue /\ set' = set /\ ooms' = ooms
      /\ vec' = [vec EXCEPT !.len = @ - 1] /\ heap' = object_free(heap, e[k])
  BY DEF vec_pop, onVec, htVars
<1>2. /\ VecInv /\ k \in 1 .. vec.len /\ e \in Seq(HtVals \cup {Zero}) /\ Len(e) = Len(vec.data)
      /\ vec = [data |-> vec.data, len |-> vec.len]
  BY DEF IInv, VecInv
<1>3. \A j \in 1 .. (vec.len - 1) : e[j] = vec.data[IF j < k THEN j ELSE j + 1]
  <2>1. \A j \in 1 .. (vec.len - 1) : j < vec.len
    BY <1>2
  <2> QED BY <2>1
<1>4. vec' = [data |-> e, len |-> vec.len - 1]
  BY <1>1, <1>2
<1>5. heap' = object_free(heap, vec.data[k])
  BY <1>1
<1> HIDE DEF k, e
<1> QED BY <1>1, <1>2, <1>3, <1>4, <1>5, VecDrop

\* vec_remove_at does: the values behind the one removed move down.
LEMMA RemoveKeeps ==
    ASSUME IInv, NEW i \in Nat, vec_remove_at(i), i < vec.len
    PROVE  IInv'
<1> DEFINE n == vec.len
           d == vec.data
           k == i + 1
           e == MovedDown(d, i, n - 1)
           X == HtVals \cup {Zero}
<1>1. VecInv /\ n \in Nat \ {0} /\ d \in Seq(X) /\ Len(d) \in Nat /\ n <= Len(d) /\ Zero \in X
  BY DEF IInv, VecInv
<1>2. /\ part = "vec" /\ part' = part /\ ht' = ht /\ queue' = queue /\ set' = set /\ ooms' = ooms
      /\ vec' = [data |-> e, len |-> n - 1] /\ heap' = object_free(heap, d[k])
  BY <1>1 DEF vec_remove_at, onVec, htVars
<1>3. e = [j \in 1 .. Len(d) |-> IF j = n THEN Zero ELSE IF j \in (i + 1) .. (n - 1) THEN d[j + 1] ELSE d[j]]
  <2>1. DOMAIN d = 1 .. Len(d) /\ (n - 1) + 1 = n
    BY <1>1
  <2> HIDE DEF d, n
  <2> QED BY <2>1 DEF MovedDown
<1>4. i < n
  OBVIOUS
<1> HIDE DEF n, d, e, X
<1>5. e \in Seq(X) /\ Len(e) = Len(d)
  <2>1. \A j \in 1 .. Len(d) : d[j] \in X /\ (j \in (i + 1) .. (n - 1) => d[j + 1] \in X)
    BY <1>1
  <2>2. e \in [1 .. Len(d) -> X]
    BY <1>1, <1>3, <2>1
  <2> QED BY <1>1, <2>2, FunctionIsSeq
<1>6. ASSUME NEW j \in 1 .. (n - 1) PROVE e[j] = d[IF j < k THEN j ELSE j + 1]
  <2>1. j \in 1 .. Len(d) /\ j # n /\ (j < k => j \notin (i + 1) .. (n - 1)) /\ (~(j < k) => j \in (i + 1) .. (n - 1))
    BY <1>1, <1>4
  <2> QED BY <1>3, <2>1
<1>7. k \in 1 .. n
  BY <1>1, <1>4
<1> HIDE DEF k
<1> QED BY <1>2, <1>5, <1>6, <1>7, VecDrop DEF n, d, X

\* Calls that look at a collection, or are refused, and commands that are not
\* executed: the heap is as it was.
LEMMA NothingKeeps ==
    ASSUME IInv, part' = part, ht' = ht, vec' = vec, queue' = queue, set' = set,
           heap' = heap, ooms' = ooms
    PROVE  IInv'
<1>1. VecInv' /\ VecContents' = VecContents /\ QueueInv' /\ QueueContents' = QueueContents
  BY VecSame, QueueSame DEF IInv
<1>2. TablesInv' /\ Held(ht') = Held(ht) /\ Held(set') = Held(set)
  BY DEF TablesInv, IInv
<1>3. PartInv'
  BY <1>2 DEF PartInv, IInv
<1>4. OwnedKeys' = OwnedKeys
  BY <1>2 DEF OwnedKeys
<1>5. OwnedVals' = OwnedVals
  BY <1>1, <1>2 DEF OwnedVals, HeldVals
<1>6. HeapInv'
  BY <1>4, <1>5 DEF HeapInv, IInv
<1> QED BY <1>1, <1>2, <1>3, <1>6 DEF IInv

\* Looking up an option keeps it.
LEMMA ArgsGetKeeps ==
    ASSUME IInv, NEW o \in Objs, args_get(o)
    PROVE  IInv'
BY NothingKeeps DEF args_get, onArgs, ht_get

\* Freeing a command that was refused frees nothing the containers own.
LEMMA CmdFreeKeeps ==
    ASSUME IInv, NEW o \in Objs, NEW v \in HtVals, cmd_free(o, v)
    PROVE  IInv'
<1> DEFINE K == heap.keys
           W == heap.vals
<1>1. /\ part' = part /\ ht' = ht /\ vec' = vec /\ queue' = queue /\ set' = set /\ ooms' = ooms
      /\ o.rep \notin K /\ v \notin W
      /\ heap' = object_free(object_free_key(WithVal(WithKey(heap, o), v), o), v)
  BY DEF cmd_free, FreshKey, FreshVal, htVars
<1>2. heap = Heap(K, W)
  BY HeapIsHeap DEF IInv, HeapInv
<1> HIDE DEF K, W
<1>3. WithKey(Heap(K, W), o) = Heap(K \cup Own(o), W)
  BY HeapSteps
<1>4. WithVal(Heap(K \cup Own(o), W), v) = Heap(K \cup Own(o), W \cup {v})
  BY HeapSteps
<1>5. object_free_key(Heap(K \cup Own(o), W \cup {v}), o) = Heap((K \cup Own(o)) \ Own(o), W \cup {v})
  BY HeapSteps
<1>6. (K \cup Own(o)) \ Own(o) = K /\ (W \cup {v}) \ {v} = W
  BY <1>1 DEF Own
<1>7. object_free(Heap(K, W \cup {v}), v) = Heap(K, (W \cup {v}) \ {v})
  BY HeapSteps
<1>8. heap' = heap
  BY <1>1, <1>2, <1>3, <1>4, <1>5, <1>6, <1>7
<1> QED BY <1>1, <1>8, NothingKeeps

-----------------------------------------------------------------------------
(* The steps on the queue *)

\* What is known while the queue is in use.
LEMMA QueueFacts ==
    ASSUME IInv, part = "queue"
    PROVE  /\ LineOf(queue, QueueContents) /\ ToSet(QueueContents) \subseteq heap.vals
           /\ heap = Heap(heap.keys, heap.vals) /\ IsFiniteSet(heap.vals)
<1>1. OwnedVals = ToSet(QueueContents)
  BY OwnedAre DEF IInv
<1> QED BY <1>1, HeapIsHeap DEF IInv, HeapInv, QueueInv

\* A step of the queue keeps the invariant when its nodes form a line again.
LEMMA QueueStep ==
    ASSUME IInv, part = "queue", part' = part, ht' = ht, vec' = vec, set' = set,
           NEW q, LineOf(queue', q), NEW W, heap' = Heap(heap.keys, W), IsFiniteSet(W), ToSet(q) \subseteq W,
           \/ ooms' = ooms /\ W \ ToSet(q) \subseteq heap.vals \ ToSet(QueueContents)
           \/ ooms' = ooms + 1 /\ OneMoreThan(W \ ToSet(q), heap.vals \ ToSet(QueueContents))
    PROVE  IInv' /\ QueueContents' = q
<1> DEFINE K == heap.keys
           Q == ToSet(QueueContents)
           Q2 == ToSet(q)
<1>0. QueueContents' = q
  BY QueueIsNodes, NodesAre
<1>1. QueueInv' /\ VecInv'
  BY <1>0, VecSame DEF IInv, QueueInv
<1>2. TablesInv'
  BY DEF TablesInv, IInv
<1>3. PartInv'
  <2>1. Held(ht') = Held(ht) /\ Held(set') = Held(set)
    OBVIOUS
  <2> QED BY <2>1 DEF PartInv, IInv
<1>4. OwnedKeys = {} /\ OwnedVals = Q
  BY OwnedAre DEF IInv
<1>5. OwnedKeys' = {} /\ OwnedVals' = Q2
  BY <1>0, <1>1, <1>3, OwnedAreNext
<1>6. HeapInv /\ IsFiniteSet(K) /\ OwnedKeys' \subseteq K /\ heap' = Heap(K, W) /\ OwnedVals' \subseteq W
  BY <1>5 DEF IInv, HeapInv
<1>7. HeapInv'
  <2>1. CASE ooms' = ooms + 1
    <3>1. /\ OneMoreThan(K \ OwnedKeys', heap.keys \ OwnedKeys)
          /\ OneMoreThan(W \ OwnedVals', heap.vals \ OwnedVals)
      BY <1>4, <1>5, <2>1 DEF OneMoreThan
    <3> HIDE DEF K
    <3> QED BY <1>6, <2>1, <3>1, HeapLeaks
  <2>2. CASE ooms' # ooms + 1
    <3>1. /\ K \ OwnedKeys' \subseteq heap.keys \ OwnedKeys
          /\ W \ OwnedVals' \subseteq heap.vals \ OwnedVals
      BY <1>4, <1>5, <2>2
    <3>2. ooms' = ooms
      BY <2>2
    <3> HIDE DEF K
    <3> QED BY <1>6, <3>1, <3>2, HeapKept
  <2> QED BY <2>1, <2>2
<1> QED BY <1>0, <1>1, <1>2, <1>3, <1>7 DEF IInv

\* queue_enque keeps the invariant and adds at the end.
LEMMA EnqueKeeps ==
    ASSUME IInv, NEW v \in HtVals, queue_enque(v)
    PROVE  IInv' /\ QueueContents' = Append(QueueContents, v)
<1> DEFINE c == queue
           d == queue'
           q == QueueContents
           n == c.num_el
           W == heap.vals
           r == Append(q, v)
           L == Linked(v, c.tail)
<1>1. /\ part = "queue" /\ part' = part /\ ht' = ht /\ vec' = vec /\ set' = set
      /\ ooms' = ooms /\ v \notin W /\ heap' = WithVal(heap, v)
      /\ d = [next |-> L, num_el |-> n + 1, head |-> IF n + 1 = 1 THEN v ELSE c.head, tail |-> v]
  BY DEF queue_enque, onQueue, htVars, FreshVal
<1>2. LineOf(c, q) /\ ToSet(q) \subseteq W /\ heap = Heap(heap.keys, W) /\ IsFiniteSet(W)
  BY <1>1, QueueFacts
<1>3. /\ q \in Seq(HtVals) /\ Len(q) = n /\ n \in Nat
      /\ \A i, j \in 1 .. n : q[i] = q[j] => i = j
      /\ DOMAIN c.next = ToSet(q)
      /\ n # 0 => c.head = q[1] /\ c.tail = q[n]
      /\ \A i \in 1 .. (n - 1) : c.next[q[i]] = q[i + 1]
  BY <1>2 DEF LineOf
<1>4. L = [m \in DOMAIN c.next \cup {v} |-> IF m = v THEN Null ELSE IF m = c.tail THEN v ELSE c.next[m]]
  BY DEF Linked
<1>5. /\ d.next = L /\ d.num_el = n + 1 /\ d.tail = v /\ d.head = IF n = 0 THEN v ELSE c.head
      /\ d = [next |-> d.next, head |-> d.head, tail |-> d.tail, num_el |-> d.num_el]
  BY <1>1, <1>3
<1> HIDE DEF c, d, q, n, W, L
<1>6. /\ r \in Seq(HtVals) /\ Len(r) = n + 1 /\ r[n + 1] = v /\ \A i \in 1 .. n : r[i] = q[i]
  BY <1>3
<1>7. \A i \in 1 .. n : q[i] \in ToSet(q) /\ q[i] # v
  <2>1. \A i \in 1 .. Len(q) : q[i] \in ToSet(q)
    BY <1>3, ToSetIs
  <2> QED BY <1>1, <1>2, <1>3, <2>1
<1>8. \A i \in 1 .. (n + 1) : i \in 1 .. n \/ i = n + 1
  BY <1>3
<1> HIDE DEF r
<1>9. ToSet(r) = ToSet(q) \cup {v}
  <2>1. ToSet(q) = {q[i] : i \in 1 .. n} /\ ToSet(r) = {r[i] : i \in 1 .. (n + 1)}
    <3>1. DOMAIN q = 1 .. n /\ DOMAIN r = 1 .. (n + 1)
      BY <1>3, <1>6
    <3> QED BY <3>1, Zenon DEF ToSet
  <2>2. (\A i \in 1 .. n : i \in 1 .. (n + 1)) /\ n + 1 \in 1 .. (n + 1)
    BY <1>3
  <2> QED BY <1>6, <1>8, <2>1, <2>2
<1>10. LineOf(d, r)
  <2>1. \A i, j \in 1 .. (n + 1) : r[i] = r[j] => i = j
    BY <1>3, <1>6, <1>7, <1>8
  <2>2. d.next = [m \in ToSet(r) |-> d.next[m]]
    BY <1>3, <1>4, <1>5, <1>9
  <2>3. d.head = r[1] /\ d.tail = r[n + 1]
    <3>1. n # 0 => 1 \in 1 .. n
      BY <1>3
    <3> QED BY <1>3, <1>5, <1>6, <3>1
  <2>4. ASSUME NEW i \in 1 .. n PROVE d.next[r[i]] = r[i + 1]
    <3>1. q[i] \in DOMAIN c.next \cup {v} /\ q[i] # v /\ r[i] = q[i] /\ n # 0
      BY <1>3, <1>6, <1>7
    <3>2. d.next[r[i]] = IF q[i] = c.tail THEN v ELSE c.next[q[i]]
      BY <1>4, <1>5, <3>1
    <3>3. CASE i = n
      BY <1>3, <1>6, <3>1, <3>2, <3>3
    <3>4. CASE i # n
      <4>1. i \in 1 .. (n - 1) /\ i + 1 \in 1 .. n /\ n \in 1 .. n
        BY <1>3, <3>4
      <4>2. q[i] # c.tail
        BY <1>3, <3>1, <3>4, <4>1
      <4> QED BY <1>3, <1>6, <3>2, <4>1, <4>2
    <3> QED BY <3>3, <3>4
  <2>5. (n + 1) - 1 = n /\ n + 1 # 0
    BY <1>3
  <2> QED BY <1>5, <1>6, <2>1, <2>2, <2>3, <2>4, <2>5 DEF LineOf
<1>11. heap' = Heap(heap.keys, W \cup {v})
  <2>1. WithVal(Heap(heap.keys, W), v) = Heap(heap.keys, W \cup {v})
    BY HeapSteps
  <2> QED BY <1>1, <1>2, <2>1
<1>12. IsFiniteSet(W \cup {v})
  BY <1>2, FS_AddElement
<1>13. ToSet(r) \subseteq W \cup {v} /\ (W \cup {v}) \ ToSet(r) \subseteq W \ ToSet(q)
  BY <1>2, <1>9
<1>14. IInv' /\ QueueContents' = r
  BY <1>1, <1>10, <1>11, <1>12, <1>13, QueueStep DEF W, q, d
<1> QED BY <1>14 DEF r, q

\* queue_enque keeps it when the node cannot be allocated.
LEMMA EnqueOomKeeps ==
    ASSUME IInv, NEW v \in HtVals, queue_enque_oom(v)
    PROVE  IInv'
<1> DEFINE q == QueueContents
           W == heap.vals
<1>1. /\ part = "queue" /\ part' = part /\ ht' = ht /\ vec' = vec /\ set' = set
      /\ queue' = queue /\ ooms' = ooms + 1 /\ heap' = WithVal(heap, v)
  BY DEF queue_enque_oom, onQueue, htVars, Oom
<1>2. LineOf(queue, q) /\ ToSet(q) \subseteq W /\ heap = Heap(heap.keys, W) /\ IsFiniteSet(W)
  BY <1>1, QueueFacts
<1>3. LineOf(queue', q)
  BY <1>1, <1>2
<1> HIDE DEF W, q
<1>4. heap' = Heap(heap.keys, W \cup {v})
  <2>1. WithVal(Heap(heap.keys, W), v) = Heap(heap.keys, W \cup {v})
    BY HeapSteps
  <2> QED BY <1>1, <1>2, <2>1
<1>5. IsFiniteSet(W \cup {v})
  BY <1>2, FS_AddElement
<1>6. ToSet(q) \subseteq W \cup {v} /\ OneMoreThan((W \cup {v}) \ ToSet(q), W \ ToSet(q))
  BY <1>2 DEF OneMoreThan
<1> QED BY <1>1, <1>3, <1>4, <1>5, <1>6, QueueStep DEF W, q

\* queue_deque keeps it and takes from the front.
LEMMA DequeKeeps ==
    ASSUME IInv, queue_deque, queue.num_el # 0
    PROVE  IInv' /\ QueueContents' = Tail(QueueContents)
<1> DEFINE c == queue
           d == queue'
           q == QueueContents
           n == c.num_el
           W == heap.vals
           r == Tail(q)
           L == [m \in DOMAIN c.next \ {c.head} |-> c.next[m]]
<1>1. /\ part = "queue" /\ part' = part /\ ht' = ht /\ vec' = vec /\ set' = set
      /\ ooms' = ooms /\ heap' = object_free(heap, c.head)
      /\ d = [next |-> L, num_el |-> n - 1, head |-> IF n = 1 THEN Null ELSE c.next[c.head],
              tail |-> IF n = 1 THEN Null ELSE c.tail]
  BY DEF queue_deque, onQueue, htVars
<1>2. LineOf(c, q) /\ ToSet(q) \subseteq W /\ heap = Heap(heap.keys, W) /\ IsFiniteSet(W)
  BY <1>1, QueueFacts
<1>3. /\ q \in Seq(HtVals) /\ Len(q) = n /\ n \in Nat \ {0}
      /\ \A i, j \in 1 .. n : q[i] = q[j] => i = j
      /\ DOMAIN c.next = ToSet(q)
      /\ c.head = q[1] /\ c.tail = q[n]
      /\ \A i \in 1 .. (n - 1) : c.next[q[i]] = q[i + 1]
  BY <1>2 DEF LineOf
<1>5. /\ d.next = L /\ d.num_el = n - 1
      /\ d.tail = IF n = 1 THEN Null ELSE c.tail
      /\ d.head = IF n = 1 THEN Null ELSE c.next[c.head]
      /\ d = [next |-> d.next, head |-> d.head, tail |-> d.tail, num_el |-> d.num_el]
  BY <1>1, <1>3
<1> HIDE DEF c, d, q, n, W
<1>6. /\ r \in Seq(HtVals) /\ Len(r) = n - 1 /\ \A i \in 1 .. (n - 1) : r[i] = q[i + 1]
  <2>1. q # <<>>
    BY <1>3
  <2> QED BY <1>3, <2>1
<1> HIDE DEF r
<1>7. \A i \in 1 .. (n - 1) : i + 1 \in 1 .. n /\ i + 1 # 1
  BY <1>3
<1>8. 1 \in 1 .. n /\ \A i \in 1 .. n : i # 1 => i - 1 \in 1 .. (n - 1) /\ (i - 1) + 1 = i
  BY <1>3
<1>9. ToSet(r) = ToSet(q) \ {c.head} /\ c.head \in ToSet(q)
  <2>1. ToSet(q) = {q[i] : i \in 1 .. n} /\ ToSet(r) = {r[i] : i \in 1 .. (n - 1)}
    BY <1>3, <1>6 DEF ToSet
  <2>2. ASSUME NEW y \in ToSet(r) PROVE y \in ToSet(q) /\ y # c.head
    <3>1. PICK i \in 1 .. (n - 1) : y = r[i]
      BY <2>1
    <3> QED BY <1>3, <1>6, <1>7, <1>8, <2>1, <3>1
  <2>3. ASSUME NEW y \in ToSet(q), y # c.head PROVE y \in ToSet(r)
    <3>1. PICK i \in 1 .. n : y = q[i]
      BY <2>1
    <3>2. i # 1
      BY <1>3, <2>3, <3>1
    <3> QED BY <1>6, <1>8, <2>1, <3>1, <3>2
  <2>4. c.head \in ToSet(q)
    BY <1>3, <1>8, <2>1
  <2> QED BY <2>2, <2>3, <2>4
<1>10. LineOf(d, r)
  <2>1. \A i, j \in 1 .. (n - 1) : r[i] = r[j] => i = j
    BY <1>3, <1>6, <1>7
  <2>2. d.next = [m \in ToSet(r) |-> d.next[m]]
    BY <1>3, <1>5, <1>9
  <2>3. n - 1 # 0 => d.head = r[1] /\ d.tail = r[n - 1]
    <3> SUFFICES ASSUME n - 1 # 0 PROVE d.head = r[1] /\ d.tail = r[n - 1]
      OBVIOUS
    <3>1. n # 1 /\ 1 \in 1 .. (n - 1) /\ n - 1 \in 1 .. (n - 1) /\ (n - 1) + 1 = n
      BY <1>3
    <3> QED BY <1>3, <1>5, <1>6, <3>1
  <2>4. n - 1 = 0 => d.head = Null /\ d.tail = Null
    BY <1>3, <1>5
  <2>5. ASSUME NEW i \in 1 .. ((n - 1) - 1) PROVE d.next[r[i]] = r[i + 1]
    <3>1. i \in 1 .. (n - 1) /\ i + 1 \in 1 .. (n - 1)
      BY <1>3
    <3>2. r[i] = q[i + 1] /\ r[i + 1] = q[(i + 1) + 1] /\ c.next[q[i + 1]] = q[(i + 1) + 1]
      BY <1>3, <1>6, <3>1
    <3>3. r[i] \in ToSet(r)
      <4>1. i \in 1 .. Len(r)
        BY <1>6, <3>1
      <4> QED BY <1>6, <4>1, ToSetIs
    <3>4. d.next[r[i]] = c.next[r[i]]
      BY <1>3, <1>5, <1>9, <3>3
    <3> QED BY <3>2, <3>4
  <2>6. n - 1 \in Nat
    BY <1>3
  <2> QED BY <1>5, <1>6, <2>1, <2>2, <2>3, <2>4, <2>5, <2>6 DEF LineOf
<1> DEFINE x == c.head
<1>11. heap' = Heap(heap.keys, W \ {x})
  <2>1. x \in W
    BY <1>2, <1>9
  <2> HIDE DEF x
  <2>2. object_free(Heap(heap.keys, W), x) = Heap(heap.keys, W \ {x})
    BY <2>1, HeapSteps
  <2> QED BY <1>1, <1>2, <2>2 DEF x
<1>12. IsFiniteSet(W \ {x})
  BY <1>2, FS_Difference
<1>13. ToSet(r) \subseteq W \ {x} /\ (W \ {x}) \ ToSet(r) \subseteq W \ ToSet(q)
  BY <1>2, <1>9
<1> HIDE DEF x
<1>14. IInv' /\ QueueContents' = r
  BY <1>1, <1>10, <1>11, <1>12, <1>13, QueueStep DEF W, q, d
<1> QED BY <1>14 DEF r, q

-----------------------------------------------------------------------------
(* The end of a database *)

\* The walk over a table meets no address twice.
LEMMA WalkOwnsApart ==
    ASSUME NEW V, NEW t, Table(t, V), OwnsApart(Held(t))
    PROVE  /\ InOrder(t) \in Seq(Entry(V)) /\ OwnReps(InOrder(t))
           /\ ValsApart(Held(t)) =>
                  \A i, j \in 1 .. Len(InOrder(t)) : InOrder(t)[i].val = InOrder(t)[j].val => i = j
<1> DEFINE es == InOrder(t)
<1>1. Shape(t, V) /\ Once(t) /\ Hashed(t)
  BY DEF Table
<1>2. es \in Seq(Entry(V))
  BY <1>1, InOrderPlaces
<1>3. \A i \in 1 .. Len(es) : es[i] \in Held(t)
  BY <1>1, HeldIs
<1>4. \A i, j \in 1 .. Len(es) : es[i] = es[j] => i = j
  BY <1>1, InOrderOnce
<1> HIDE DEF es
<1>5. OwnReps(es)
  BY <1>3, <1>4 DEF OwnReps, OwnsApart
<1>6. ValsApart(Held(t)) => \A i, j \in 1 .. Len(es) : es[i].val = es[j].val => i = j
  BY <1>3, <1>4 DEF ValsApart
<1> QED BY <1>2, <1>5, <1>6 DEF es

\* lexidb_free and clap_free keep it: they free what the container owns, each piece
\* once.
LEMMA FreeKeeps ==
    ASSUME IInv, lexidb_free \/ clap_free
    PROVE  IInv'
<1> DEFINE K == heap.keys \ OwnedKeys
           W == heap.vals \ OwnedVals
<1>1. /\ part # "freed" /\ part' = "freed" /\ ht' = ht /\ vec' = vec /\ queue' = queue /\ set' = set
      /\ ooms' = ooms
      /\ part \in {"dict", "args"} => heap' = EntriesFreed(heap, InOrder(ht))
      /\ part = "vec" => heap' = ValsFreed(heap, VecContents)
      /\ part = "queue" => heap' = ValsFreed(heap, QueueContents)
      /\ part = "set" => heap' = KeysFreed(heap, InOrder(set))
  BY DEF lexidb_free, clap_free, htVars, EntriesFreed, ValsFreed, KeysFreed
<1>2. part \in {"dict", "args", "vec", "queue", "set"}
  BY <1>1, CollectionsAssumption DEF IInv, PartInv
<1>3. /\ IsHeap(heap) /\ ~heap.twice /\ IsFiniteSet(heap.keys) /\ IsFiniteSet(heap.vals) /\ HeapInv
      /\ OwnedKeys \subseteq heap.keys /\ OwnedVals \subseteq heap.vals
  BY DEF IInv, HeapInv
<1>4. /\ part \in {"dict", "args"} => OwnedKeys = RepsOf(Held(ht)) /\ OwnedVals = ValsOf(Held(ht))
      /\ part = "vec" => OwnedKeys = {} /\ OwnedVals = ToSet(VecContents)
      /\ part = "queue" => OwnedKeys = {} /\ OwnedVals = ToSet(QueueContents)
      /\ part = "set" => OwnedKeys = RepsOf(Held(set)) /\ OwnedVals = {}
  BY OwnedAre DEF IInv
<1>5. heap' = Without(heap, OwnedKeys, OwnedVals)
  <2>1. CASE part \in {"dict", "args"}
    <3> DEFINE es == InOrder(ht)
    <3>1. Table(ht, HtVals) /\ OwnsApart(Held(ht)) /\ ValsApart(Held(ht))
      BY DEF IInv, TablesInv
    <3>2. /\ es \in Seq(Entry(HtVals)) /\ OwnReps(es)
          /\ \A i, j \in 1 .. Len(es) : es[i].val = es[j].val => i = j
      BY <3>1, WalkOwnsApart
    <3>3. OwnedKeys = RepsOf(ToSet(es)) /\ OwnedVals = ValsOf(ToSet(es))
      BY <1>4, <2>1 DEF Held
    <3> HIDE DEF es
    <3>4. EntriesFreed(heap, es) = Without(heap, RepsOf(ToSet(es)), ValsOf(ToSet(es)))
      BY <1>3, <3>2, <3>3, FreedEntries
    <3> QED BY <1>1, <2>1, <3>3, <3>4 DEF es
  <2>2. CASE part = "vec"
    <3> DEFINE q == VecContents
    <3>1. q \in Seq(HtVals) /\ \A i, j \in 1 .. Len(q) : q[i] = q[j] => i = j
      BY VecContentsIs DEF VecHolds, IInv, VecInv
    <3>2. OwnedKeys = {} /\ OwnedVals = ToSet(q)
      BY <1>4, <2>2
    <3> HIDE DEF q
    <3>3. ValsFreed(heap, q) = Without(heap, {}, ToSet(q))
      BY <1>3, <3>1, <3>2, FreedVals
    <3> QED BY <1>1, <2>2, <3>2, <3>3 DEF q
  <2>3. CASE part = "queue"
    <3> DEFINE q == QueueContents
    <3>1. q \in Seq(HtVals) /\ \A i, j \in 1 .. Len(q) : q[i] = q[j] => i = j
      BY DEF IInv, QueueInv, LineOf
    <3>2. OwnedKeys = {} /\ OwnedVals = ToSet(q)
      BY <1>4, <2>3
    <3> HIDE DEF q
    <3>3. ValsFreed(heap, q) = Without(heap, {}, ToSet(q))
      BY <1>3, <3>1, <3>2, FreedVals
    <3> QED BY <1>1, <2>3, <3>2, <3>3 DEF q
  <2>4. CASE part = "set"
    <3> DEFINE es == InOrder(set)
               V == {""}
    <3>1. Table(set, V) /\ OwnsApart(Held(set))
      BY DEF IInv, TablesInv
    <3> HIDE DEF V
    <3>2. es \in Seq(Entry(V)) /\ OwnReps(es)
      BY <3>1, WalkOwnsApart
    <3>3. OwnedKeys = RepsOf(ToSet(es)) /\ OwnedVals = {}
      BY <1>4, <2>4 DEF Held
    <3> HIDE DEF es
    <3>4. KeysFreed(heap, es) = Without(heap, RepsOf(ToSet(es)), {})
      BY <1>3, <3>2, <3>3, FreedKeys
    <3> QED BY <1>1, <2>4, <3>3, <3>4 DEF es
  <2> QED BY <1>2, <2>1, <2>2, <2>3, <2>4
<1>6. heap' = Heap(K, W)
  BY <1>5 DEF Without, Heap
<1>7. VecInv' /\ QueueInv' /\ TablesInv' /\ PartInv'
  <2>1. VecInv' /\ QueueInv'
    BY <1>1, VecSame, QueueSame DEF IInv
  <2>2. TablesInv'
    BY <1>1 DEF TablesInv, IInv
  <2> QED BY <1>1, <2>1, <2>2 DEF PartInv
<1>8. OwnedKeys' = {} /\ OwnedVals' = {}
  BY <1>1 DEF OwnedKeys, OwnedVals
<1>9. IsFiniteSet(K) /\ IsFiniteSet(W)
  BY <1>3, FS_Difference
<1>10. /\ OwnedKeys' \subseteq K /\ OwnedVals' \subseteq W
       /\ K \ OwnedKeys' \subseteq heap.keys \ OwnedKeys
       /\ W \ OwnedVals' \subseteq heap.vals \ OwnedVals
  BY <1>8
<1> HIDE DEF K, W
<1>11. HeapInv'
  BY <1>1, <1>3, <1>6, <1>9, <1>10, HeapKept
<1> QED BY <1>7, <1>11 DEF IInv

-----------------------------------------------------------------------------
(* The theorems *)

\* The invariant holds of the empty containers.
LEMMA InitInv == CollectionsInit => IInv
<1> SUFFICES ASSUME CollectionsInit PROVE IInv
  OBVIOUS
<1>1. /\ ht = ht_new /\ set = ht_new /\ part \in Parts
      /\ vec = [data |-> [i \in 1 .. VEC_INITIAL_CAP |-> Zero], len |-> 0]
      /\ queue = [next |-> <<>>, head |-> Null, tail |-> Null, num_el |-> 0]
      /\ heap = Heap({}, {}) /\ ooms = 0
  BY DEF CollectionsInit, Init, Heap
<1>2. \A V : Table(ht_new, V) /\ Held(ht_new) = {}
  BY HtAssumption, EmptyTable DEF ht_new
<1>3. TablesInv
  BY <1>1, <1>2 DEF TablesInv, OwnsApart, ValsApart
<1>4. VecInv
  <2> DEFINE d == [i \in 1 .. VEC_INITIAL_CAP |-> Zero]
             X == HtVals \cup {Zero}
             n == VEC_INITIAL_CAP
  <2>1. Zero \in X /\ n \in Nat \ {0} /\ MaxLen \in Nat
    BY CollectionsAssumption
  <2> HIDE DEF n, X
  <2>2. d \in [1 .. n -> X]
    BY <2>1 DEF n
  <2>3. vec.data = d /\ vec.len = 0 /\ vec = [data |-> vec.data, len |-> vec.len]
    BY <1>1
  <2> HIDE DEF d
  <2>4. d \in Seq(X) /\ Len(d) = n /\ d # <<>>
    BY <2>1, <2>2, FunctionIsSeq
  <2> QED BY <2>1, <2>3, <2>4 DEF VecInv, X
<1>5. LineOf(queue, <<>>)
  <2>1. /\ queue.next = <<>> /\ queue.head = Null /\ queue.tail = Null /\ queue.num_el = 0
        /\ queue = [next |-> queue.next, head |-> queue.head, tail |-> queue.tail, num_el |-> queue.num_el]
    BY <1>1
  <2>2. <<>> \in Seq(HtVals) /\ Len(<<>>) = 0 /\ ToSet(<<>>) = {}
    BY DEF ToSet
  <2>3. <<>> = [n \in {} |-> queue.next[n]]
    OBVIOUS
  <2> QED BY <2>1, <2>2, <2>3 DEF LineOf
<1>6. QueueInv /\ QueueContents = <<>>
  BY <1>5, NodesAre, QueueIsNodes DEF QueueInv
<1>7. PartInv
  BY <1>1, <1>2 DEF PartInv
<1>8. HeapInv
  <2>1. heap.keys = {} /\ heap.vals = {} /\ IsHeap(heap) /\ ~heap.twice
    BY <1>1, HeapIs
  <2>2. OwnedKeys = {} /\ OwnedVals = {}
    <3>1. part # "freed" /\ part \in {"dict", "args", "vec", "queue", "set"}
      BY <1>1, CollectionsAssumption
    <3>2. RepsOf(Held(ht)) = {} /\ RepsOf(Held(set)) = {} /\ ValsOf(Held(ht)) = {}
      BY <1>1, <1>2 DEF RepsOf, ValsOf
    <3>3. ToSet(VecContents) = {} /\ ToSet(QueueContents) = {}
      <4>1. ToSet(VecContents) = {vec.data[i] : i \in 1 .. vec.len} /\ vec.len = 0
        BY <1>1, <1>4, VecContentsIs DEF VecHolds
      <4>2. ToSet(<<>>) = {}
        BY DEF ToSet
      <4> QED BY <1>6, <4>1, <4>2
    <3> QED BY <1>4, <1>6, <1>7, <3>1, <3>2, <3>3, OwnedAre
  <2>3. IsFiniteSet({}) /\ Cardinality({}) = 0
    BY FS_EmptySet
  <2>4. heap.keys \ OwnedKeys = {} /\ heap.vals \ OwnedVals = {}
    BY <2>1
  <2>5. Cardinality(heap.keys \ OwnedKeys) = 0 /\ Cardinality(heap.vals \ OwnedVals) = 0
    BY <2>3, <2>4
  <2>6. IsFiniteSet(heap.keys) /\ IsFiniteSet(heap.vals)
    BY <2>1, <2>3
  <2>7. ooms \in Nat /\ 0 + 0 <= 2 * ooms
    BY <1>1
  <2> QED BY <2>1, <2>2, <2>5, <2>6, <2>7 DEF HeapInv
<1> QED BY <1>3, <1>4, <1>6, <1>7, <1>8 DEF IInv

\* Calls that find nothing to change in the vector.
LEMMA VecLooks ==
    ASSUME \/ \E i \in 0 .. vec.len : vec_get_at(i) \/ (vec_remove_at(i) /\ i >= vec.len)
           \/ \E v \in HtVals : vec_find(v)
           \/ vec_pop /\ vec.len = 0
    PROVE  part' = part /\ ht' = ht /\ vec' = vec /\ queue' = queue /\ set' = set /\ heap' = heap /\ ooms' = ooms
BY DEF vec_get_at, vec_remove_at, vec_find, vec_pop, onVec, htVars

\* And in the queue.
LEMMA QueueLooks ==
    ASSUME queue_peek \/ (queue_deque /\ queue.num_el = 0)
    PROVE  part' = part /\ ht' = ht /\ vec' = vec /\ queue' = queue /\ set' = set /\ heap' = heap /\ ooms' = ooms
BY DEF queue_peek, queue_deque, onQueue, htVars

\* Every step keeps the invariant.
LEMMA NextInv == IInv /\ [CollectionsNext]_collectionVars => IInv'
<1> SUFFICES ASSUME IInv, [CollectionsNext]_collectionVars PROVE IInv'
  OBVIOUS
<1>1. ASSUME NEW o \in Objs,
             \/ execute_get_command(o) \/ execute_del_command(o) \/ try_insert_oom(o) \/ args_get(o)
             \/ set_insert(o) \/ set_insert_no_resize(o) \/ set_insert_no_entry(o)
             \/ set_has(o) \/ set_delete(o)
      PROVE  IInv'
  BY <1>1, GetKeeps, ArgsGetKeeps, DelKeeps, DictOomKeeps, InsertKeeps, SetOomKeeps, HasKeeps, DeleteKeeps
<1>2. ASSUME NEW o \in Objs, NEW v \in HtVals,
             \/ execute_set_command(o, v) \/ execute_set_command_oom(o, v)
             \/ try_insert(o, v) \/ cmd_free(o, v)
      PROVE  IInv'
  BY <1>2, SetKeeps, DictOomKeeps, TryInsertKeeps, CmdFreeKeeps
<1>3. ASSUME NEW v \in HtVals,
             vec_push(v) \/ vec_push_oom(v) \/ vec_find(v) \/ queue_enque(v) \/ queue_enque_oom(v)
      PROVE  IInv'
  BY <1>3, PushKeeps, PushOomKeeps, VecLooks, NothingKeeps, EnqueKeeps, EnqueOomKeeps
<1>4. ASSUME NEW i \in 0 .. vec.len, vec_get_at(i) \/ vec_remove_at(i)
      PROVE  IInv'
  <2>1. vec.len \in Nat /\ i \in Nat
    BY DEF IInv, VecInv
  <2>2. CASE vec_remove_at(i) /\ i < vec.len
    BY <2>1, <2>2, RemoveKeeps
  <2>3. CASE vec_get_at(i) \/ (vec_remove_at(i) /\ i >= vec.len)
    BY <2>3, VecLooks, NothingKeeps
  <2> QED BY <1>4, <2>1, <2>2, <2>3
<1>5. ASSUME vec_pop PROVE IInv'
  BY <1>5, PopKeeps, VecLooks, NothingKeeps
<1>6. ASSUME queue_deque \/ queue_peek PROVE IInv'
  BY <1>6, DequeKeeps, QueueLooks, NothingKeeps
<1>7. ASSUME lexidb_free \/ clap_free PROVE IInv'
  BY <1>7, FreeKeeps
<1>8. ASSUME UNCHANGED collectionVars PROVE IInv'
  BY <1>8, NothingKeeps DEF collectionVars, htVars
<1> QED BY <1>1, <1>2, <1>3, <1>4, <1>5, <1>6, <1>7, <1>8 DEF CollectionsNext

\* Every behaviour of the collections keeps the inductive invariant.
THEOREM CollectionsInvariant == CollectionsSpec => []IInv
BY InitInv, NextInv, PTL DEF CollectionsSpec

\* It implies the type invariant.
LEMMA TypeOKFromInv == IInv => CollectionsTypeOK
<1> SUFFICES ASSUME IInv PROVE CollectionsTypeOK
  OBVIOUS
<1>1. ASSUME NEW V, NEW t, Table(t, V)
      PROVE  /\ t.num_entries = Len(InOrder(t)) /\ t.num_entries <= t.capacity
             /\ \A s \in 0 .. (t.capacity - 1) : \A i \in DOMAIN t.entries[s] :
                    t.entries[s][i].key \in Objs /\ ht_hash(t, t.entries[s][i].key) = s
  <2>1. /\ t.num_entries = Len(InOrder(t)) /\ t.num_entries <= t.capacity /\ Hashed(t)
        /\ t.entries \in [Slots(t) -> Seq(Entry(V))]
    BY <1>1 DEF Table, Shape
  <2>2. ASSUME NEW s \in 0 .. (t.capacity - 1), NEW i \in DOMAIN t.entries[s]
        PROVE  t.entries[s][i].key \in Objs /\ ht_hash(t, t.entries[s][i].key) = s
    <3>1. s \in Slots(t)
      BY DEF Slots
    <3>2. t.entries[s] \in Seq(Entry(V))
      BY <2>1, <3>1
    <3>3. i \in 1 .. Len(t.entries[s]) /\ t.entries[s][i] \in Entry(V)
      BY <3>2
    <3>4. hash[t.entries[s][i].key] % t.capacity = s
      BY <2>1, <3>1, <3>3, Zenon DEF Hashed
    <3> QED BY <3>3, <3>4 DEF Entry, ht_hash
  <2> QED BY <2>1, <2>2
<1>2. TypeOK
  <2>1. Table(ht, HtVals)
    BY DEF IInv, TablesInv
  <2> QED BY <1>1, <2>1 DEF TypeOK
<1>3. /\ set.num_entries = Len(InOrder(set)) /\ set.num_entries <= set.capacity
      /\ \A s \in 0 .. (set.capacity - 1) : \A i \in DOMAIN set.entries[s] :
             ht_hash(set, set.entries[s][i].key) = s
  <2> DEFINE V == {""}
  <2>1. Table(set, V)
    BY DEF IInv, TablesInv
  <2> HIDE DEF V
  <2> QED BY <1>1, <2>1
<1>4. vec.len <= Len(vec.data)
  BY DEF IInv, VecInv
<1>5. /\ DOMAIN queue.next = ToSet(QueueContents)
      /\ queue.tail = IF queue.num_el = 0 THEN Null ELSE Last(QueueContents)
  <2> DEFINE q == QueueContents
  <2>1. LineOf(queue, q)
    BY DEF IInv, QueueInv
  <2> HIDE DEF q
  <2>2. DOMAIN queue.next = ToSet(q)
    BY <2>1 DEF LineOf
  <2>3. queue.tail = IF queue.num_el = 0 THEN Null ELSE q[Len(q)]
    BY <2>1 DEF LineOf
  <2> QED BY <2>2, <2>3 DEF q, Last
<1> QED BY <1>2, <1>3, <1>4, <1>5 DEF CollectionsTypeOK

\* The tables are counted and hashed right through every resize, and the queue's
\* nodes are those between head and tail.
THEOREM CollectionsTyped == CollectionsSpec => []CollectionsTypeOK
BY CollectionsInvariant, TypeOKFromInv, PTL

\* It implies that nothing is freed twice and nothing in use is freed.
LEMMA OwnedOnceFromInv == IInv => OwnedOnce
<1> SUFFICES ASSUME IInv PROVE OwnedOnce
  OBVIOUS
<1> DEFINE keys == {o.rep : o \in {k \in HeldKeys : OwnsMemory(k)}}
           K == heap.keys
           W == heap.vals
<1>1. /\ ~heap.twice /\ IsFiniteSet(K) /\ IsFiniteSet(W) /\ ooms \in Nat
      /\ OwnedKeys \subseteq K /\ OwnedVals \subseteq W
      /\ Cardinality(K \ OwnedKeys) + Cardinality(W \ OwnedVals) <= 2 * ooms
  BY DEF IInv, HeapInv
<1>2. part # "freed" => OwnedKeys = keys /\ OwnedVals = HeldVals
  <2>1. keys = RepsOf(Held(ht) \cup Held(set))
    BY DEF RepsOf, HeldKeys, OwnsMemory, Held
  <2> QED BY <2>1 DEF OwnedKeys, OwnedVals
<1>3. part = "freed" => OwnedKeys = {} /\ OwnedVals = {}
  BY DEF OwnedKeys, OwnedVals
<1> HIDE DEF keys, K, W
<1>4. ASSUME NEW S, NEW T, IsFiniteSet(S), T \subseteq S
      PROVE  /\ Cardinality(S) = Cardinality(T) + Cardinality(S \ T)
             /\ Cardinality(S) \in Nat /\ Cardinality(T) \in Nat /\ Cardinality(S \ T) \in Nat
  <2>1. IsFiniteSet(T) /\ IsFiniteSet(S \ T)
    BY <1>4, FS_Subset, FS_Difference
  <2>2. S \cap T = T
    BY <1>4
  <2>3. Cardinality(S \ T) = Cardinality(S) - Cardinality(T)
    <3>1. Cardinality(S \ T) = Cardinality(S) - Cardinality(S \cap T)
      BY <1>4, FS_Difference
    <3> QED BY <3>1, <2>2
  <2>4. /\ Cardinality(S) \in Nat /\ Cardinality(T) \in Nat /\ Cardinality(S \ T) \in Nat
    BY <1>4, <2>1, FS_CardinalityType
  <2> QED BY <2>3, <2>4
<1>5. /\ Cardinality(K) = Cardinality(OwnedKeys) + Cardinality(K \ OwnedKeys)
      /\ Cardinality(W) = Cardinality(OwnedVals) + Cardinality(W \ OwnedVals)
      /\ Cardinality(OwnedKeys) \in Nat /\ Cardinality(K \ OwnedKeys) \in Nat
      /\ Cardinality(OwnedVals) \in Nat /\ Cardinality(W \ OwnedVals) \in Nat
  BY <1>1, <1>4
<1>6. Cardinality(K) + Cardinality(W) <= Cardinality(OwnedKeys) + Cardinality(OwnedVals) + 2 * ooms
  BY <1>1, <1>5
<1>7. CASE part = "freed"
  <2>1. Cardinality({}) = 0
    BY FS_EmptySet
  <2>2. Cardinality(OwnedKeys) = 0 /\ Cardinality(OwnedVals) = 0
    BY <1>3, <1>7, <2>1
  <2>3. Cardinality(K) + Cardinality(W) <= 2 * ooms
    BY <1>1, <1>6, <2>2
  <2> QED BY <1>1, <1>7, <2>3 DEF OwnedOnce, K, W
<1>8. CASE part # "freed"
  <2>1. OwnedKeys = keys /\ OwnedVals = HeldVals
    BY <1>2, <1>8
  <2>2. /\ keys \subseteq K /\ HeldVals \subseteq W
        /\ Cardinality(K) + Cardinality(W) <= Cardinality(keys) + Cardinality(HeldVals) + 2 * ooms
    BY <1>1, <1>6, <2>1
  <2> QED BY <1>1, <1>8, <2>2 DEF OwnedOnce, K, W, keys
<1> QED BY <1>7, <1>8

\* Every object of a collection is allocated, none is freed twice, only the
\* arguments of insertions that ran out of memory are lost, and lexidb_free leaves
\* nothing else.
THEOREM CollectionsOwnedOnce == CollectionsSpec => []OwnedOnce
BY CollectionsInvariant, OwnedOnceFromInv, PTL

-----------------------------------------------------------------------------
(* The iterators *)

\* Position p of a table is that of its n-th entry.
PlaceOf(t, start, n, p) ==
    /\ p \in Slots(t) \X Nat
    /\ p[2] \in 1 .. Len(t.entries[p[1]]) /\ start[p[1]] + p[2] = n

\* The starts grow from slot to slot, by nothing where the chains are empty.
LEMMA StartsGrow ==
    ASSUME NEW V, NEW t, Shape(t, V), NEW start, Starts(t, start),
           NEW a \in 0 .. t.capacity, NEW b \in 0 .. t.capacity, a <= b
    PROVE  /\ start[a] <= start[b]
           /\ (\A s \in a .. (b - 1) : t.entries[s] = <<>>) => start[a] = start[b]
<1> DEFINE c == t.capacity
           S == {i \in a .. b : start[a] <= start[i]
                     /\ ((\A s \in a .. (b - 1) : t.entries[s] = <<>>) => start[a] = start[i])}
<1>1. c \in Nat \ {0} /\ Slots(t) = 0 .. (c - 1) /\ start \in [0 .. c -> Nat]
  BY DEF Shape, Slots, Starts
<1>2. \A s \in 0 .. (c - 1) : /\ start[s + 1] = start[s] + Len(t.entries[s])
                              /\ Len(t.entries[s]) \in Nat
                              /\ t.entries[s] = <<>> => Len(t.entries[s]) = 0
  <2>1. \A s \in 0 .. (c - 1) : t.entries[s] \in Seq(Entry(V))
    BY <1>1 DEF Shape
  <2> QED BY SMTT(60), <1>1, <2>1 DEF Starts
<1> HIDE DEF c
<1>3. a \in Nat /\ b \in Nat /\ a \in 0 .. c /\ b \in 0 .. c
  BY <1>1 DEF c
<1>4. a \in S
  BY <1>1, <1>3
<1>5. ASSUME NEW i \in a .. (b - 1), i \in S PROVE i + 1 \in S
  <2>1. i \in 0 .. (c - 1) /\ i \in 0 .. c /\ i + 1 \in a .. b /\ i + 1 \in 0 .. c
    BY <1>1, <1>3
  <2>2. start[i] \in Nat /\ start[a] \in Nat /\ start[i + 1] \in Nat
    BY <1>1, <1>3, <2>1
  <2>3. start[i + 1] = start[i] + Len(t.entries[i]) /\ Len(t.entries[i]) \in Nat
    BY <1>2, <2>1
  <2>4. start[a] <= start[i + 1]
    BY <1>5, <2>2, <2>3
  <2>5. ASSUME \A s \in a .. (b - 1) : t.entries[s] = <<>>
        PROVE  start[a] = start[i + 1]
    <3>1. Len(t.entries[i]) = 0
      BY <1>2, <2>1, <2>5
    <3>2. start[a] = start[i]
      BY <1>5, <2>5
    <3> QED BY <2>2, <2>3, <3>1, <3>2
  <2> QED BY <2>1, <2>4, <2>5
<1>6. \A i \in a .. b : i \in S
  <2> HIDE DEF S
  <2> QED BY <1>3, <1>4, <1>5, Climb
<1>7. b \in S
  BY <1>3, <1>6
<1> QED BY <1>7

\* No two entries have the same number.
LEMMA PlacesDiffer ==
    ASSUME NEW V, NEW t, Shape(t, V), NEW start, Starts(t, start), NEW n, NEW p, NEW q,
           PlaceOf(t, start, n, p), PlaceOf(t, start, n, q)
    PROVE  p = q
<1> DEFINE c == t.capacity
<1>1. c \in Nat \ {0} /\ Slots(t) = 0 .. (c - 1) /\ start \in [0 .. c -> Nat]
  BY DEF Shape, Slots, Starts
<1>2. \A s \in 0 .. (c - 1) : /\ start[s + 1] = start[s] + Len(t.entries[s])
                              /\ Len(t.entries[s]) \in Nat
  <2>1. \A s \in 0 .. (c - 1) : t.entries[s] \in Seq(Entry(V))
    BY <1>1 DEF Shape
  <2> QED BY <1>1, <2>1 DEF Starts
<1>3. ASSUME NEW x, NEW y, PlaceOf(t, start, n, x), PlaceOf(t, start, n, y)
      PROVE  ~(x[1] < y[1])
  <2> SUFFICES ASSUME x[1] < y[1] PROVE FALSE
    OBVIOUS
  <2>1. /\ x[1] \in 0 .. (c - 1) /\ x[2] \in 1 .. Len(t.entries[x[1]]) /\ start[x[1]] + x[2] = n
        /\ y[1] \in 0 .. (c - 1) /\ y[2] \in 1 .. Len(t.entries[y[1]]) /\ start[y[1]] + y[2] = n
    BY <1>1, <1>3 DEF PlaceOf
  <2>2. x[1] + 1 \in 0 .. c /\ y[1] \in 0 .. c /\ x[1] \in 0 .. c /\ x[1] + 1 <= y[1]
    BY SMTT(60), <1>1, <2>1
  <2>3. start[x[1] + 1] <= start[y[1]]
    BY <2>2, StartsGrow DEF c
  <2>4. start[x[1] + 1] = start[x[1]] + Len(t.entries[x[1]])
    BY <1>2, <2>1
  <2>5. start[x[1]] \in Nat /\ start[y[1]] \in Nat
    BY <1>1, <2>2
  <2>6. Len(t.entries[x[1]]) \in Nat /\ Len(t.entries[y[1]]) \in Nat
    BY <1>2, <2>1
  <2>7. x[2] \in Nat /\ y[2] \in Nat /\ x[2] <= Len(t.entries[x[1]]) /\ 1 <= y[2]
    BY <2>1, <2>6
  <2>8. \A a, l, b, u, w \in Nat : a + l <= b /\ u <= l /\ 1 <= w => a + u # b + w
    OBVIOUS
  <2>9. start[x[1]] + x[2] # start[y[1]] + y[2]
    BY <2>3, <2>4, <2>5, <2>6, <2>7, <2>8
  <2> QED BY <2>1, <2>9
<1>4. /\ p[1] \in 0 .. (c - 1) /\ p[2] \in Nat /\ start[p[1]] + p[2] = n /\ p = <<p[1], p[2]>>
      /\ q[1] \in 0 .. (c - 1) /\ q[2] \in Nat /\ start[q[1]] + q[2] = n /\ q = <<q[1], q[2]>>
  BY <1>1 DEF PlaceOf
<1>5. p[1] = q[1]
  BY <1>1, <1>3, <1>4
<1>6. start[p[1]] \in Nat
  BY <1>1, <1>4
<1>7. p[2] = q[2]
  BY <1>4, <1>5, <1>6
<1> QED BY <1>4, <1>5, <1>7

\* The walk from slot i goes to the next entry, or to the end when there is none.
LEMMA FirstFromIs ==
    ASSUME NEW V, Shape(ht, V), NEW start, Starts(ht, start), NEW i \in 0 .. ht.capacity
    PROVE  /\ start[i] = Len(InOrder(ht)) =>
                  FirstFrom(i) = [next |-> End, next_slot |-> ht.capacity]
           /\ start[i] # Len(InOrder(ht)) =>
                  \E j \in Slots(ht) : /\ FirstFrom(i) = [next |-> <<j, 1>>, next_slot |-> j]
                                       /\ PlaceOf(ht, start, start[i] + 1, <<j, 1>>)
<1> DEFINE c == ht.capacity
           used == {j \in i .. (c - 1) : ht.entries[j] # <<>>}
<1>1. c \in Nat \ {0} /\ Slots(ht) = 0 .. (c - 1) /\ start \in [0 .. c -> Nat]
  BY DEF Shape, Slots, Starts
<1>2. \A s \in 0 .. (c - 1) : /\ start[s + 1] = start[s] + Len(ht.entries[s])
                              /\ Len(ht.entries[s]) \in Nat
                              /\ ht.entries[s] # <<>> => Len(ht.entries[s]) # 0
  <2>1. \A s \in 0 .. (c - 1) : ht.entries[s] \in Seq(Entry(V))
    BY <1>1 DEF Shape
  <2>2. \A s \in 0 .. (c - 1) : ht.entries[s] # <<>> => Len(ht.entries[s]) # 0
    BY <2>1, EmptySeq
  <2>3. \A s \in 0 .. (c - 1) : start[s + 1] = start[s] + Len(ht.entries[s])
    BY <1>1 DEF Starts
  <2>4. \A s \in 0 .. (c - 1) : Len(ht.entries[s]) \in Nat
    BY <2>1
  <2> HIDE DEF c
  <2> QED BY <2>2, <2>3, <2>4
<1>3. Len(InOrder(ht)) = start[c] /\ i \in 0 .. c /\ c \in 0 .. c /\ i <= c
  BY <1>1 DEF Starts
<1>4. CASE used = {}
  <2>1. FirstFrom(i) = [next |-> End, next_slot |-> c]
    BY <1>4 DEF FirstFrom
  <2>2. \A s \in i .. (c - 1) : ht.entries[s] = <<>>
    BY <1>4
  <2>3. start[i] = start[c]
    BY <1>3, <2>2, StartsGrow
  <2> QED BY <1>3, <2>1, <2>3
<1>5. CASE used # {}
  <2> DEFINE j == CHOOSE j \in used : \A k \in used : j <= k
  <2>1. used \subseteq Nat
    BY <1>1
  <2>2. j \in used /\ \A k \in used : j <= k
    <3> HIDE DEF used
    <3> QED BY <1>5, <2>1, Least
  <2>3. FirstFrom(i) = [next |-> <<j, 1>>, next_slot |-> j]
    BY <1>5, Zenon DEF FirstFrom
  <2> HIDE DEF j
  <2>4. j \in 0 .. (c - 1) /\ j \in 0 .. c /\ i <= j /\ ht.entries[j] # <<>> /\ j + 1 \in 0 .. c
    BY <1>1, <2>2
  <2>5. \A s \in i .. (j - 1) : ht.entries[s] = <<>>
    <3> SUFFICES ASSUME NEW s \in i .. (j - 1), ht.entries[s] # <<>> PROVE FALSE
      OBVIOUS
    <3>1. s \in used /\ s < j
      BY <1>1, <2>4
    <3> QED BY <1>1, <2>2, <2>4, <3>1
  <2>6. start[i] = start[j]
    BY <1>3, <2>4, <2>5, StartsGrow
  <2>7. start[j + 1] = start[j] + Len(ht.entries[j]) /\ Len(ht.entries[j]) \in Nat \ {0}
    BY <1>2, <2>4
  <2>8. start[j + 1] <= start[c]
    <3>1. j + 1 <= c
      BY <1>1, <2>4
    <3> QED BY <1>3, <2>4, <3>1, StartsGrow
  <2>9. start[i] \in Nat /\ start[j] \in Nat /\ start[j + 1] \in Nat /\ start[c] \in Nat
    BY <1>1, <1>3, <2>4
  <2>10. start[i] # Len(InOrder(ht))
    BY <1>3, <2>6, <2>7, <2>8, <2>9
  <2>11. PlaceOf(ht, start, start[i] + 1, <<j, 1>>)
    BY <1>1, <2>4, <2>6, <2>7 DEF PlaceOf
  <2> QED BY <1>1, <2>3, <2>4, <2>10, <2>11
<1> QED BY <1>4, <1>5

\* The n-th call of the loop over the table is at its n-th entry, and at the end
\* from then on.
LEMMA IterAtIs ==
    ASSUME NEW V, Shape(ht, V), NEW start, Starts(ht, start), NEW n \in Nat
    PROVE  /\ n \in 1 .. Len(InOrder(ht)) => PlaceOf(ht, start, n, IterAt(n))
           /\ n > Len(InOrder(ht)) => IterAt(n) = End
<1> DEFINE L == Len(InOrder(ht))
           c == ht.capacity
           at == [m \in 1 .. L |-> CHOOSE p : PlaceOf(ht, start, m, p)]
           P(m) == IF m \in 1 .. L THEN at[m] ELSE End
           slot(m) == IF m = 0 THEN 0 ELSE IF m <= L THEN P(m)[1] ELSE c
           w == [i \in Nat |-> [cur |-> P(i - 1), next |-> P(i), next_slot |-> slot(i)]]
           z == [cur |-> End, next |-> End, next_slot |-> 0]
           Q(f) == f = [i \in Nat |-> IF i = 0 THEN z ELSE ht_iter_next(f[i - 1])]
           it == CHOOSE f : Q(f)
<1>1. /\ c \in Nat \ {0} /\ Slots(ht) = 0 .. (c - 1) /\ start \in [0 .. c -> Nat] /\ start[0] = 0
      /\ L = start[c] /\ L \in Nat
  <2>1. c \in Nat \ {0} /\ Slots(ht) = 0 .. (c - 1) /\ start \in [0 .. c -> Nat]
    BY DEF Shape, Slots, Starts
  <2>2. start[0] = 0 /\ L = start[c] /\ c \in 0 .. c
    BY <2>1 DEF Starts
  <2> QED BY <2>1, <2>2
<1>2. \A m \in 1 .. L : PlaceOf(ht, start, m, at[m])
  <2> SUFFICES ASSUME NEW m \in 1 .. L PROVE PlaceOf(ht, start, m, at[m])
    OBVIOUS
  <2>1. PICK s \in Slots(ht) : \E i \in 1 .. Len(ht.entries[s]) : m = start[s] + i
    BY DEF Starts
  <2>2. PICK i \in 1 .. Len(ht.entries[s]) : m = start[s] + i
    BY <2>1
  <2>3. ht.entries[s] \in Seq(Entry(V))
    BY DEF Shape
  <2>4. PlaceOf(ht, start, m, <<s, i>>)
    BY <2>2, <2>3 DEF PlaceOf
  <2>5. PlaceOf(ht, start, m, CHOOSE p : PlaceOf(ht, start, m, p))
    BY <2>4, Zenon
  <2>6. at[m] = CHOOSE p : PlaceOf(ht, start, m, p)
    BY Zenon
  <2> QED BY <2>5, <2>6
<1> HIDE DEF at, L
<1>3. ASSUME NEW m \in 1 .. L
      PROVE  /\ at[m] = <<at[m][1], at[m][2]>> /\ at[m][1] \in 0 .. (c - 1) /\ at[m][2] \in Nat
             /\ at[m][2] \in 1 .. Len(ht.entries[at[m][1]]) /\ start[at[m][1]] + at[m][2] = m
             /\ Len(ht.entries[at[m][1]]) \in Nat
             /\ start[at[m][1] + 1] = start[at[m][1]] + Len(ht.entries[at[m][1]])
             /\ at[m] # End
  <2>1. PlaceOf(ht, start, m, at[m])
    BY <1>2
  <2>2. /\ at[m] \in (0 .. (c - 1)) \X Nat
        /\ at[m][2] \in 1 .. Len(ht.entries[at[m][1]]) /\ start[at[m][1]] + at[m][2] = m
    BY <1>1, <2>1 DEF PlaceOf
  <2>3. at[m] = <<at[m][1], at[m][2]>> /\ at[m][1] \in 0 .. (c - 1) /\ at[m][2] \in Nat
    BY <2>2
  <2>4. ht.entries[at[m][1]] \in Seq(Entry(V))
    BY <1>1, <2>3 DEF Shape
  <2>5. start[at[m][1] + 1] = start[at[m][1]] + Len(ht.entries[at[m][1]])
    BY <1>1, <2>3 DEF Starts
  <2>6. at[m] # End
    BY <1>1, <2>3 DEF End
  <2> QED BY <2>2, <2>3, <2>4, <2>5, <2>6
<1>4. ASSUME NEW m \in 1 .. L, NEW p, PlaceOf(ht, start, m, p) PROVE at[m] = p
  BY <1>2, <1>4, PlacesDiffer
<1>5. ASSUME NEW i \in 0 .. c, start[i] + 1 \in 1 .. (L + 1)
      PROVE  FirstFrom(i) = [next |-> P(start[i] + 1), next_slot |-> slot(start[i] + 1)]
  <2>1. start[i] \in Nat
    BY <1>1
  <2>2. CASE start[i] = L
    <3>1. FirstFrom(i) = [next |-> End, next_slot |-> c]
      BY <2>2, FirstFromIs DEF L
    <3>2. P(start[i] + 1) = End /\ slot(start[i] + 1) = c
      BY <1>1, <2>2
    <3> QED BY <3>1, <3>2
  <2>3. CASE start[i] # L
    <3> DEFINE m == start[i] + 1
    <3>1. PICK j \in Slots(ht) : /\ FirstFrom(i) = [next |-> <<j, 1>>, next_slot |-> j]
                                 /\ PlaceOf(ht, start, m, <<j, 1>>)
      BY <2>3, FirstFromIs DEF L
    <3>2. m \in 1 .. L
      BY <1>1, <1>5, <2>1, <2>3
    <3> HIDE DEF m
    <3>3. at[m] = <<j, 1>>
      BY <1>4, <3>1, <3>2
    <3>4. m # 0 /\ m <= L
      BY <1>1, <3>2
    <3>5. P(m) = <<j, 1>> /\ slot(m) = j
      BY <3>2, <3>3, <3>4
    <3> QED BY <3>1, <3>5 DEF m
  <2> QED BY <2>2, <2>3
<1>6. \A i \in Nat : w[i] = [cur |-> P(i - 1), next |-> P(i), next_slot |-> slot(i)]
  <2> HIDE DEF P, slot
  <2> QED OBVIOUS
<1>7. w[0] = z
  <2>1. P(0) = End /\ P(0 - 1) = End /\ slot(0) = 0
    BY <1>1
  <2> HIDE DEF P, slot, w
  <2> QED BY <1>6, <2>1
<1> HIDE DEF w
<1>8. ASSUME NEW i \in Nat \ {0} PROVE w[i] = ht_iter_next(w[i - 1])
  <2> DEFINE k == i - 1
             r == w[k]
  <2>0. k \in Nat /\ i = k + 1
    OBVIOUS
  <2>1. /\ r = [cur |-> P(k - 1), next |-> P(k), next_slot |-> slot(k)]
        /\ w[i] = [cur |-> P(k), next |-> P(k + 1), next_slot |-> slot(k + 1)]
    <3> HIDE DEF P, slot
    <3> QED BY <1>6, <2>0
  <2> HIDE DEF k, r
  <2>2. r.next = P(k) /\ r.next_slot = slot(k)
    <3> HIDE DEF P, slot
    <3> QED BY <2>1
  <2>3. CASE k = 0
    <3>1. P(0) = End /\ slot(0) = 0 /\ slot(0) # c
      BY <1>1
    <3>2. FirstFrom(0) = [next |-> P(1), next_slot |-> slot(1)]
      <4>1. start[0] + 1 = 1 /\ 1 \in 1 .. (L + 1) /\ 0 \in 0 .. c
        BY <1>1
      <4> HIDE DEF P, slot
      <4> QED BY <1>5, <4>1
    <3> HIDE DEF P, slot
    <3>3. ht_iter_next(r) = [cur |-> r.next, next |-> FirstFrom(0).next, next_slot |-> FirstFrom(0).next_slot]
      BY <2>2, <2>3, <3>1 DEF ht_iter_next
    <3>4. ht_iter_next(r) = [cur |-> P(0), next |-> P(1), next_slot |-> slot(1)]
      BY <2>2, <2>3, <3>2, <3>3
    <3>5. k + 1 = 1
      BY <2>3
    <3> QED BY <2>1, <2>3, <3>4, <3>5 DEF k, r
  <2>4. CASE k \in 1 .. L
    <3> DEFINE p == at[k]
    <3>1. P(k) = p /\ slot(k) = p[1]
      <4>1. k # 0 /\ k <= L
        BY <1>1, <2>4
      <4> QED BY <2>4, <4>1
    <3>2. /\ p = <<p[1], p[2]>> /\ p[1] \in 0 .. (c - 1) /\ p[2] \in Nat
          /\ p[2] \in 1 .. Len(ht.entries[p[1]]) /\ start[p[1]] + p[2] = k
          /\ Len(ht.entries[p[1]]) \in Nat
          /\ start[p[1] + 1] = start[p[1]] + Len(ht.entries[p[1]])
          /\ p # End
      BY <1>3, <2>4
    <3> HIDE DEF p
    <3>3. slot(k) # c /\ start[p[1]] \in Nat
      BY SMTT(60), <1>1, <3>1, <3>2
    <3>4. CASE p[2] < Len(ht.entries[p[1]])
      <4> DEFINE q == <<p[1], p[2] + 1>>
      <4>0. p[2] + 1 \in 1 .. Len(ht.entries[p[1]]) /\ start[p[1]] + (p[2] + 1) = k + 1
        <5> DEFINE l == Len(ht.entries[p[1]])
                   a == start[p[1]]
                   b == p[2]
        <5>1. l \in Nat /\ a \in Nat /\ b \in 1 .. l /\ b < l /\ a + b = k
          BY <3>2, <3>3, <3>4
        <5> HIDE DEF l, a, b
        <5>2. b + 1 \in 1 .. l /\ a + (b + 1) = k + 1
          BY <5>1
        <5> QED BY <5>2 DEF l, a, b
      <4>1. PlaceOf(ht, start, k + 1, q)
        <5>1. p[1] \in Slots(ht) /\ p[2] + 1 \in Nat
          BY <1>1, <3>2
        <5>2. q \in Slots(ht) \X Nat /\ q[1] = p[1] /\ q[2] = p[2] + 1
          BY <5>1
        <5> HIDE DEF q
        <5> QED BY <4>0, <5>2 DEF PlaceOf
      <4>2. k + 1 \in 1 .. L
        <5>1. p[1] + 1 \in 0 .. c /\ c \in 0 .. c /\ p[1] + 1 <= c
          BY <1>1, <3>2
        <5>2. start[p[1] + 1] <= start[c]
          BY <5>1, StartsGrow
        <5>3. start[p[1] + 1] \in Nat /\ start[c] \in Nat
          BY <1>1, <5>1
        <5> DEFINE l == Len(ht.entries[p[1]])
                   a == start[p[1]]
                   b == p[2]
                   d == start[p[1] + 1]
        <5>4. l \in Nat /\ a \in Nat /\ b \in 1 .. l /\ b < l /\ a + b = k /\ d = a + l
          BY <3>2, <3>3, <3>4
        <5>5. d <= L /\ L \in Nat
          BY <1>1, <5>2
        <5> HIDE DEF l, a, b, d
        <5> QED BY <5>4, <5>5
      <4>3. at[k + 1] = q
        BY <1>4, <4>1, <4>2
      <4>4. k + 1 # 0 /\ k + 1 <= L
        BY <1>1, <4>2
      <4>5. P(k + 1) = q /\ slot(k + 1) = p[1]
        BY <4>2, <4>3, <4>4
      <4> HIDE DEF P, slot
      <4>6. ht_iter_next(r) = [r EXCEPT !.cur = r.next, !.next = <<r.next[1], r.next[2] + 1>>]
        BY <2>2, <3>1, <3>2, <3>3, <3>4 DEF ht_iter_next
      <4>7. ht_iter_next(r) = [cur |-> p, next |-> q, next_slot |-> slot(k)]
        BY <2>1, <2>2, <3>1, <4>6
      <4> QED BY <2>1, <3>1, <4>5, <4>7 DEF k, r
    <3>5. CASE ~(p[2] < Len(ht.entries[p[1]]))
      <4>1. p[1] + 1 \in 0 .. c /\ start[p[1] + 1] = k
        BY SMTT(60), <1>1, <3>2, <3>3, <3>5
      <4>2. FirstFrom(p[1] + 1) = [next |-> P(k + 1), next_slot |-> slot(k + 1)]
        <5>1. k + 1 \in 1 .. (L + 1)
          BY <1>1, <2>4
        <5> HIDE DEF P, slot
        <5> QED BY <1>5, <4>1, <5>1
      <4> HIDE DEF P, slot
      <4>3. ht_iter_next(r) = [cur |-> r.next, next |-> FirstFrom(slot(k) + 1).next,
                               next_slot |-> FirstFrom(slot(k) + 1).next_slot]
        BY <2>2, <3>1, <3>2, <3>3, <3>5 DEF ht_iter_next
      <4>4. ht_iter_next(r) = [cur |-> P(k), next |-> P(k + 1), next_slot |-> slot(k + 1)]
        BY <2>2, <3>1, <4>2, <4>3
      <4> QED BY <2>1, <4>4 DEF k, r
    <3> QED BY <3>4, <3>5
  <2>5. CASE k > L
    <3>1. P(k) = End /\ P(k + 1) = End /\ slot(k) = c /\ slot(k + 1) = c
      BY <1>1, <2>0, <2>5
    <3> HIDE DEF P, slot
    <3>2. ht_iter_next(r) = [r EXCEPT !.cur = r.next, !.next = End]
      BY <2>2, <3>1 DEF ht_iter_next
    <3>3. ht_iter_next(r) = [cur |-> End, next |-> End, next_slot |-> c]
      BY <2>1, <2>2, <3>1, <3>2
    <3> QED BY <2>1, <3>1, <3>3 DEF k, r
  <2> QED BY <1>1, <2>0, <2>3, <2>4, <2>5
<1>9. Q(w)
  <2>1. w = [i \in Nat |-> w[i]]
    BY DEF w
  <2>2. \A i \in Nat : w[i] = IF i = 0 THEN z ELSE ht_iter_next(w[i - 1])
    BY <1>7, <1>8
  <2> HIDE DEF z
  <2> QED BY <2>1, <2>2
<1>10. Q(it)
  BY <1>9, Zenon DEF Q
<1>11. IterAt(n) = it[n + 1].cur
  BY Zenon DEF IterAt
<1>12. it[0] = z /\ \A i \in Nat : it[i + 1] = ht_iter_next(it[i])
  <2> HIDE DEF it, z
  <2> QED BY <1>10
<1> HIDE DEF it, Q
<1> DEFINE S == {i \in 0 .. (n + 1) : it[i] = w[i]}
<1>13. 0 \in S
  BY <1>7, <1>12
<1>14. ASSUME NEW i \in 0 .. ((n + 1) - 1), i \in S PROVE i + 1 \in S
  <2>1. it[i] = w[i] /\ i + 1 \in 0 .. (n + 1) /\ i \in Nat /\ i + 1 \in Nat \ {0} /\ (i + 1) - 1 = i
    BY <1>14
  <2>2. w[i + 1] = ht_iter_next(w[i])
    BY <1>8, <2>1
  <2> QED BY <1>12, <2>1, <2>2
<1>15. n + 1 \in S
  <2>1. n + 1 \in Nat /\ n + 1 \in 0 .. (n + 1) /\ 0 \in Nat
    OBVIOUS
  <2> HIDE DEF S
  <2>2. \A i \in 0 .. (n + 1) : i \in S
    BY <1>13, <1>14, <2>1, Climb
  <2> QED BY <2>1, <2>2
<1>16. IterAt(n) = P(n)
  <2>1. it[n + 1] = w[n + 1] /\ (n + 1) - 1 = n /\ n + 1 \in Nat
    BY <1>15
  <2>2. w[n + 1].cur = P((n + 1) - 1)
    <3> DEFINE y == n + 1
               r == [cur |-> P(y - 1), next |-> P(y), next_slot |-> slot(y)]
    <3> HIDE DEF P, slot
    <3>1. y \in Nat
      BY <2>1
    <3> HIDE DEF y
    <3>2. w[y] = r
      BY <1>6, <3>1
    <3>3. r.cur = P(y - 1)
      OBVIOUS
    <3> QED BY <3>2, <3>3 DEF y
  <2> HIDE DEF P
  <2> QED BY <1>11, <2>1, <2>2
<1>17. n \in 1 .. L => PlaceOf(ht, start, n, IterAt(n))
  BY <1>2, <1>16
<1>18. n > L => IterAt(n) = End
  BY <1>1, <1>16
<1> QED BY <1>17, <1>18 DEF L

\* The n-th call of the loop over a vector that is not empty is at its n-th element,
\* and at the end after the last.
LEMMA VecIterAtIs ==
    ASSUME VecInv, vec.len > 0, NEW n \in 1 .. (vec.len + 1)
    PROVE  VecIterAt(n) = IF n > vec.len THEN None ELSE n - 1
<1> DEFINE L == vec.len
           last == (vec.len - 1) % size_modulus
           P(m) == IF m \in 1 .. L THEN m - 1 ELSE None
           w == [i \in Nat |-> [cur |-> P(i - 1), next |-> P(i), next_idx |-> i, end_idx |-> last]]
           z == [cur |-> None, next |-> None, next_idx |-> 0, end_idx |-> last]
           Q(f) == f = [i \in Nat |-> IF i = 0 THEN z ELSE vec_iter_next(f[i - 1])]
           it == CHOOSE f : Q(f)
<1>1. L \in Nat \ {0} /\ L <= MaxLen /\ MaxLen \in Nat /\ size_modulus \in Nat /\ size_modulus > MaxLen + 1
  BY CollectionsAssumption DEF VecInv
<1>2. last = L - 1
  <2>1. L - 1 \in 0 .. (size_modulus - 1)
    BY <1>1
  <2> QED BY <1>1, <2>1
<1> HIDE DEF L, last
<1>3. \A i \in Nat : w[i] = [cur |-> P(i - 1), next |-> P(i), next_idx |-> i, end_idx |-> last]
  <2> HIDE DEF P
  <2> QED OBVIOUS
<1>4. w[0] = z
  <2>1. P(0) = None /\ P(0 - 1) = None
    BY <1>1
  <2> HIDE DEF P, w
  <2> QED BY <1>3, <2>1
<1> HIDE DEF w
<1>5. ASSUME NEW i \in Nat \ {0} PROVE w[i] = vec_iter_next(w[i - 1])
  <2> DEFINE k == i - 1
             r == w[k]
  <2>0. k \in Nat /\ i = k + 1
    OBVIOUS
  <2>1. /\ r = [cur |-> P(k - 1), next |-> P(k), next_idx |-> k, end_idx |-> last]
        /\ w[i] = [cur |-> P(k), next |-> P(k + 1), next_idx |-> k + 1, end_idx |-> last]
    <3> HIDE DEF P
    <3> QED BY <1>3, <2>0
  <2> HIDE DEF k, r
  <2>2. P(k + 1) = IF k > last THEN None ELSE k
    BY <1>1, <1>2, <2>0
  <2> HIDE DEF P
  <2>3. r.next = P(k) /\ r.next_idx = k /\ r.end_idx = last
    BY <2>1
  <2>4. vec_iter_next(r) = [cur |-> r.next, next |-> IF r.next_idx > r.end_idx THEN None ELSE r.next_idx,
                            next_idx |-> r.next_idx + 1, end_idx |-> r.end_idx]
    BY DEF vec_iter_next
  <2>5. vec_iter_next(r) = w[i]
    BY <2>1, <2>2, <2>3, <2>4
  <2> QED BY <2>5 DEF k, r
<1>6. Q(w)
  <2>1. w = [i \in Nat |-> w[i]]
    BY DEF w
  <2>2. \A i \in Nat : w[i] = IF i = 0 THEN z ELSE vec_iter_next(w[i - 1])
    BY <1>4, <1>5
  <2> HIDE DEF z
  <2> QED BY <2>1, <2>2
<1>7. Q(it)
  BY <1>6, Zenon DEF Q
<1>8. VecIterAt(n) = it[n + 1].cur
  BY Zenon DEF VecIterAt, last
<1>9. it[0] = z /\ \A i \in Nat : it[i + 1] = vec_iter_next(it[i])
  <2> HIDE DEF it, z
  <2> QED BY <1>7
<1> HIDE DEF it, Q
<1>10. n \in Nat
  BY <1>1 DEF L
<1> DEFINE S == {i \in 0 .. (n + 1) : it[i] = w[i]}
<1>11. 0 \in S
  BY <1>4, <1>9, <1>10
<1>12. ASSUME NEW i \in 0 .. ((n + 1) - 1), i \in S PROVE i + 1 \in S
  <2>1. it[i] = w[i] /\ i + 1 \in 0 .. (n + 1) /\ i \in Nat /\ i + 1 \in Nat \ {0} /\ (i + 1) - 1 = i
    BY <1>10, <1>12
  <2>2. w[i + 1] = vec_iter_next(w[i])
    BY <1>5, <2>1
  <2> QED BY <1>9, <2>1, <2>2
<1>13. n + 1 \in S
  <2>1. n + 1 \in Nat /\ n + 1 \in 0 .. (n + 1) /\ 0 \in Nat
    BY <1>10
  <2> HIDE DEF S
  <2>2. \A i \in 0 .. (n + 1) : i \in S
    BY <1>11, <1>12, <2>1, Climb
  <2> QED BY <2>1, <2>2
<1>14. VecIterAt(n) = P(n)
  <2> DEFINE y == n + 1
             r == [cur |-> P(y - 1), next |-> P(y), next_idx |-> y, end_idx |-> last]
  <2>1. y \in Nat /\ y - 1 = n /\ it[y] = w[y]
    BY <1>10, <1>13
  <2> HIDE DEF P
  <2>2. VecIterAt(n) = it[y].cur
    BY <1>8
  <2> HIDE DEF y
  <2>3. w[y] = r
    BY <1>3, <2>1
  <2>4. r.cur = P(y - 1)
    OBVIOUS
  <2> QED BY <2>1, <2>2, <2>3, <2>4
<1> QED BY <1>1, <1>10, <1>14 DEF L

\* It implies that the iterators visit everything once.
LEMMA IteratorsFromInv == IInv => IteratorsComplete
<1> SUFFICES ASSUME IInv PROVE IteratorsComplete
  OBVIOUS
<1> DEFINE all == InOrder(ht)
<1>1. Shape(ht, HtVals) /\ VecInv
  BY DEF IInv, TablesInv, Table
<1>2. PICK start : Starts(ht, start)
  BY <1>1, InOrderPlaces
<1>3. Len(all) \in Nat
  BY <1>1, InOrderPlaces
<1>4. ASSUME NEW n \in 1 .. Len(all)
      PROVE  LET p == IterAt(n) IN p # End /\ ht.entries[p[1]][p[2]] = all[n]
  <2> DEFINE p == IterAt(n)
  <2>1. PlaceOf(ht, start, n, p)
    <3>1. n \in Nat
      BY <1>3
    <3> QED BY <1>1, <1>2, <3>1, IterAtIs
  <2> HIDE DEF p
  <2>2. p[1] \in Slots(ht) /\ p[2] \in 1 .. Len(ht.entries[p[1]]) /\ start[p[1]] + p[2] = n
    BY <2>1 DEF PlaceOf
  <2>3. all[start[p[1]] + p[2]] = ht.entries[p[1]][p[2]]
    BY <1>2, <2>2 DEF Starts
  <2>4. p # End
    BY <2>2 DEF End, Slots
  <2> QED BY <2>2, <2>3, <2>4 DEF p
<1>5. IterAt(Len(all) + 1) = End
  <2>1. Len(all) + 1 \in Nat /\ Len(all) + 1 > Len(all)
    BY <1>3
  <2> QED BY <1>1, <1>2, <2>1, IterAtIs
<1>6. IterationIsComplete
  BY <1>4, <1>5 DEF IterationIsComplete
<1>7. vec.len > 0 => \A n \in 1 .. (vec.len + 1) : VecIterAt(n) = IF n > vec.len THEN None ELSE n - 1
  BY <1>1, VecIterAtIs
<1> QED BY <1>6, <1>7 DEF IteratorsComplete

\* Whatever was inserted, removed, moved by a resize or refused, a loop over the
\* table sees every entry once, in order, and then the end, and so does a loop over
\* a vector that is not empty.
THEOREM CollectionsIterated == CollectionsSpec => []IteratorsComplete
BY CollectionsInvariant, IteratorsFromInv, PTL

-----------------------------------------------------------------------------
(* The table is a dictionary *)

\* No two entries have keys of the same meaning.
MeaningsApart(S) == \A e, f \in S : Meaning(e.key) = Meaning(f.key) => e = f

\* The keys that a set of entries stands for.
MeaningsOf(S) == {Meaning(e.key) : e \in S}

\* The dictionary that the entries of table t are, as the refinement maps it.
DictOf(t) ==
    [k \in {Meaning(InOrder(t)[i].key) : i \in DOMAIN InOrder(t)} |->
         InOrder(t)[CHOOSE i \in {i \in DOMAIN InOrder(t) : Meaning(InOrder(t)[i].key) = k} : TRUE].val]

\* d maps the meaning of every key in S to its value, and nothing else.
Maps(d, S) ==
    /\ d = [k \in MeaningsOf(S) |-> d[k]]
    /\ \A e \in S : d[Meaning(e.key)] = e.val

\* A table in which no two keys mean the same is the dictionary it stands for.
LEMMA DictIs ==
    ASSUME NEW V, NEW t, Table(t, V), MeaningsApart(Held(t))
    PROVE  Maps(DictOf(t), Held(t)) /\ DOMAIN DictOf(t) = MeaningsOf(Held(t))
<1> DEFINE F == InOrder(t)
           d == DictOf(t)
           At(k) == {i \in DOMAIN F : Meaning(F[i].key) = k}
<1>1. Shape(t, V)
  BY DEF Table
<1>2. DOMAIN F = 1 .. Len(F)
  <2>1. F \in Seq(Entry(V))
    BY <1>1, InOrderPlaces
  <2> QED BY <2>1
<1>3. /\ \A e \in Held(t) : \E m \in DOMAIN F : F[m] = e
      /\ \A m \in DOMAIN F : F[m] \in Held(t)
  BY <1>1, <1>2, HeldIs
<1>4. d = [k \in {Meaning(F[i].key) : i \in DOMAIN F} |-> F[CHOOSE i \in At(k) : TRUE].val]
  BY Zenon DEF DictOf
<1> HIDE DEF F, d
<1>5. {Meaning(F[i].key) : i \in DOMAIN F} = MeaningsOf(Held(t))
  BY <1>3 DEF MeaningsOf
<1>6. d = [k \in MeaningsOf(Held(t)) |-> F[CHOOSE i \in At(k) : TRUE].val]
  BY <1>4, <1>5, Zenon
<1>7. ASSUME NEW e \in Held(t) PROVE d[Meaning(e.key)] = e.val
  <2> DEFINE k == Meaning(e.key)
             j == CHOOSE i \in At(k) : TRUE
  <2>1. k \in MeaningsOf(Held(t))
    BY DEF MeaningsOf
  <2>2. d[k] = F[j].val
    BY <1>6, <2>1, Zenon
  <2>3. At(k) # {}
    BY <1>3
  <2>4. j \in At(k)
    <3> HIDE DEF At, k
    <3> QED BY <2>3, Zenon
  <2> HIDE DEF j
  <2>5. F[j] \in Held(t) /\ Meaning(F[j].key) = Meaning(e.key)
    BY <1>3, <2>4
  <2>6. F[j] = e
    BY <2>5 DEF MeaningsApart
  <2> QED BY <2>2, <2>6
<1>8. d = [k \in MeaningsOf(Held(t)) |-> d[k]] /\ DOMAIN d = MeaningsOf(Held(t))
  BY <1>6
<1> QED BY <1>7, <1>8 DEF Maps, d

\* The walk finds the key of the same meaning, if there is one.
LEMMA LookupFinds ==
    ASSUME KeysToldApart, NEW V, NEW t, Table(t, V), NEW o \in Objs
    PROVE  /\ Lookup(t, o) = 0 => Meaning(o) \notin MeaningsOf(Held(t))
           /\ Lookup(t, o) # 0 => /\ EntryOf(t, o) \in Held(t)
                                  /\ Meaning(EntryOf(t, o).key) = Meaning(o)
                                  /\ Meaning(o) \in MeaningsOf(Held(t))
<1>1. Shape(t, V)
  BY DEF Table
<1>2. ht_hash(t, o) \in Slots(t) /\ ht_hash(t, o) = hash[o] % t.capacity
  BY <1>1, HashIsSlot
<1>3. Held(t) \subseteq Entry(V)
  BY <1>1, HeldIs
<1>4. CASE Lookup(t, o) = 0
  <2> SUFFICES ASSUME NEW e \in Held(t), Meaning(e.key) = Meaning(o) PROVE FALSE
    BY <1>4 DEF MeaningsOf
  <2>1. e.key \in Objs
    BY <1>3 DEF Entry
  <2>2. hash[e.key] = hash[o] /\ object_cmp_eq(o, e.key)
    BY <2>1 DEF KeysToldApart
  <2>3. e \in ToSet(t.entries[ht_hash(t, o)])
    BY <1>2, <2>2, ChainsOf
  <2> QED BY <1>4, <2>2, <2>3, LookupIs
<1>5. CASE Lookup(t, o) # 0
  <2>1. EntryOf(t, o) \in Held(t) /\ object_cmp_eq(o, EntryOf(t, o).key)
    BY <1>5, LookupIs
  <2>2. EntryOf(t, o).key \in Objs
    BY <1>3, <2>1 DEF Entry
  <2>3. Meaning(EntryOf(t, o).key) = Meaning(o)
    BY <2>1, <2>2 DEF KeysToldApart
  <2> QED BY <1>5, <2>1, <2>3 DEF MeaningsOf
<1> QED BY <1>4, <1>5

\* f is d, with keys M, when k gets value v or is dropped.
IsPut(f, d, M, k, v) == f = [x \in M \cup {k} |-> IF x = k THEN v ELSE d[x]]
\* f is the dictionary d, with the keys M, without k.
IsDropped(f, d, M, k) == f = [x \in M \ {k} |-> d[x]]

\* A new key.
LEMMA MapsAdded ==
    ASSUME NEW S, MeaningsApart(S), NEW d, Maps(d, S), NEW e, Meaning(e.key) \notin MeaningsOf(S),
           NEW f, Maps(f, S \cup {e})
    PROVE  /\ MeaningsApart(S \cup {e})
           /\ IsPut(f, d, MeaningsOf(S), Meaning(e.key), e.val)
<1> DEFINE M == MeaningsOf(S)
           k == Meaning(e.key)
<1>1. MeaningsApart(S \cup {e})
  BY DEF MeaningsApart, MeaningsOf
<1>2. MeaningsOf(S \cup {e}) = M \cup {k}
  BY DEF MeaningsOf
<1>3. f = [x \in M \cup {k} |-> f[x]] /\ f[k] = e.val
  BY <1>2 DEF Maps
<1>4. \A x \in M : f[x] = d[x]
  BY DEF MeaningsOf, Maps
<1> HIDE DEF M, k
<1>5. \A x \in M \cup {k} : f[x] = IF x = k THEN e.val ELSE d[x]
  BY <1>3, <1>4
<1>6. f = [x \in M \cup {k} |-> IF x = k THEN e.val ELSE d[x]]
  BY <1>3, <1>5
<1> QED BY <1>1, <1>6 DEF M, k, IsPut

\* The value of a key replaced.
LEMMA MapsReplaced ==
    ASSUME NEW S, MeaningsApart(S), NEW d, Maps(d, S), NEW old \in S, NEW e, e.key = old.key,
           NEW f, Maps(f, (S \ {old}) \cup {e})
    PROVE  /\ MeaningsApart((S \ {old}) \cup {e})
           /\ IsPut(f, d, MeaningsOf(S), Meaning(old.key), e.val)
<1> DEFINE M == MeaningsOf(S)
           k == Meaning(old.key)
           T == (S \ {old}) \cup {e}
<1>1. MeaningsApart(T)
  BY DEF MeaningsApart
<1>2. MeaningsOf(T) = M \cup {k}
  BY DEF MeaningsOf
<1>3. f = [x \in M \cup {k} |-> f[x]] /\ f[k] = e.val
  BY <1>2 DEF Maps
<1>4. \A x \in M : x # k => f[x] = d[x]
  BY DEF MeaningsOf, Maps
<1> HIDE DEF M, k
<1>5. \A x \in M \cup {k} : f[x] = IF x = k THEN e.val ELSE d[x]
  BY <1>3, <1>4
<1>6. f = [x \in M \cup {k} |-> IF x = k THEN e.val ELSE d[x]]
  BY <1>3, <1>5
<1> QED BY <1>1, <1>6 DEF M, k, IsPut

\* A key removed.
LEMMA MapsRemoved ==
    ASSUME NEW S, MeaningsApart(S), NEW d, Maps(d, S), NEW old \in S, NEW f, Maps(f, S \ {old})
    PROVE  /\ MeaningsApart(S \ {old})
           /\ IsDropped(f, d, MeaningsOf(S), Meaning(old.key))
<1> DEFINE M == MeaningsOf(S)
           k == Meaning(old.key)
           T == S \ {old}
<1>1. MeaningsApart(T)
  BY DEF MeaningsApart
<1>2. MeaningsOf(T) = M \ {k}
  BY DEF MeaningsOf, MeaningsApart
<1>3. f = [x \in M \ {k} |-> f[x]]
  BY <1>2 DEF Maps
<1>4. \A x \in M \ {k} : f[x] = d[x]
  <2>1. \A x \in M \ {k} : \E e \in T : x = Meaning(e.key)
    BY <1>2 DEF MeaningsOf
  <2> QED BY ZenonT(60), <2>1 DEF Maps
<1> HIDE DEF M, k
<1>5. f = [x \in M \ {k} |-> d[x]]
  BY <1>3, <1>4
<1> QED BY <1>1, <1>5 DEF M, k, IsDropped

\* The same entries are the same dictionary.
LEMMA MapsSame ==
    ASSUME NEW S, NEW d, Maps(d, S), NEW f, Maps(f, S)
    PROVE  f = d
<1> DEFINE M == MeaningsOf(S)
<1>1. f = [x \in M |-> f[x]] /\ d = [x \in M |-> d[x]]
  BY DEF Maps
<1>2. \A x \in M : f[x] = d[x]
  BY DEF MeaningsOf, Maps
<1> HIDE DEF M
<1> QED BY <1>1, <1>2

\* SET puts the value under the key's meaning.
LEMMA SetInserts ==
    ASSUME KeysToldApart, IInv, MeaningsApart(Held(ht)), NEW o \in Objs, NEW v \in HtVals,
           execute_set_command(o, v)
    PROVE  MeaningsApart(Held(ht')) /\ Abstract!DictInsert(Meaning(o), v)
<1> DEFINE E == Held(ht)
           t == Grown(ht)
           D == DictOf(ht)
           D2 == DictOf(ht')
           M == MeaningsOf(E)
           k == Meaning(o)
<1>1. /\ part \in {"dict", "args"} /\ v \notin heap.vals
      /\ ht' = IF Lookup(t, o) = 0 THEN Added(t, o, v)
               ELSE [t EXCEPT !.entries[ht_hash(t, o)][Lookup(t, o)].val = v]
      /\ result' = Res("insert", o, "HT_OK")
  BY DEF execute_set_command, onDict, FreshVal, ht_insert
<1>2. Table(ht, HtVals) /\ ValsOf(E) \subseteq heap.vals
  BY <1>1, DictFacts
<1>3. Table(t, HtVals) /\ Held(t) = E /\ t.num_entries < t.capacity
  BY <1>2, GrownIs
<1>4. Table(ht', HtVals)
  BY SetKeeps DEF IInv, TablesInv
<1>5. Maps(D, E) /\ DOMAIN D = M
  BY <1>2, DictIs
<1> HIDE DEF E, t, D, D2
<1>6. \A e \in E : e.val # v
  BY <1>1, <1>2 DEF ValsOf
<1>7. MeaningsApart(E)
  BY DEF E
<1>8. ASSUME MeaningsApart(Held(ht')) PROVE Maps(D2, Held(ht'))
  BY <1>4, <1>8, DictIs DEF D2
<1>9. /\ MeaningsApart(Held(ht'))
      /\ IsPut(D2, D, M, k, v)
  <2>1. CASE Lookup(t, o) = 0
    <3> DEFINE e == [key |-> o, val |-> v]
    <3>1. e.key = o /\ e.val = v
      OBVIOUS
    <3>2. Held(ht') = E \cup {e}
      <4>1. e \notin E
        BY <1>6, <3>1
      <4>2. Held(Added(t, o, v)) = Held(t) \cup {e}
        BY <1>3, <4>1, AddedIs
      <4> QED BY <1>1, <1>3, <2>1, <4>2
    <3> HIDE DEF e
    <3>3. Meaning(e.key) \notin M
      BY <1>3, <2>1, <3>1, LookupFinds
    <3>4. MeaningsApart(E \cup {e})
      BY <1>7, <3>3 DEF MeaningsApart, MeaningsOf
    <3>5. Maps(D2, E \cup {e})
      BY <1>8, <3>2, <3>4
    <3>6. IsPut(D2, D, M, Meaning(e.key), e.val)
      BY <1>5, <1>7, <3>3, <3>5, MapsAdded
    <3> QED BY <3>1, <3>2, <3>4, <3>6
  <2>2. CASE Lookup(t, o) # 0
    <3> DEFINE old == EntryOf(t, o)
               e == [key |-> old.key, val |-> v]
    <3>1. e.key = old.key /\ e.val = v
      OBVIOUS
    <3>2. Held(ht') = (E \ {old}) \cup {e}
      <4>1. ht' = [t EXCEPT !.entries[ht_hash(t, o)][Lookup(t, o)].val = v]
        BY <1>1, <2>2
      <4> QED BY <1>3, <1>6, <2>2, <4>1, OverwrittenIs
    <3>3. old \in E /\ Meaning(old.key) = k
      BY <1>3, <2>2, LookupFinds
    <3> HIDE DEF old, e
    <3>4. MeaningsApart((E \ {old}) \cup {e})
      BY <1>7, <3>1, <3>3 DEF MeaningsApart
    <3>5. Maps(D2, (E \ {old}) \cup {e})
      BY <1>8, <3>2, <3>4
    <3>6. IsPut(D2, D, M, Meaning(old.key), e.val)
      BY <1>5, <1>7, <3>1, <3>3, <3>5, MapsReplaced
    <3> QED BY <3>1, <3>2, <3>3, <3>4, <3>6
  <2> QED BY <2>1, <2>2
<1>10. D2 = [x \in DOMAIN D \cup {k} |-> IF x = k THEN v ELSE D[x]]
  BY <1>5, <1>9 DEF IsPut
<1>11. result' = [op |-> "insert", key |-> Meaning(o), res |-> "HT_OK"]
  BY <1>1 DEF Res
<1> QED BY <1>9, <1>10, <1>11, Zenon DEF Abstract!DictInsert, Abstract!Put, Abstract!Result, D, D2, DictOf, Stored

\* The options of the command line: a key that is there is refused.
LEMMA TryInserts ==
    ASSUME KeysToldApart, IInv, MeaningsApart(Held(ht)), NEW o \in Objs, NEW v \in HtVals,
           try_insert(o, v)
    PROVE  MeaningsApart(Held(ht')) /\ Abstract!DictTryInsert(Meaning(o), v)
<1> DEFINE E == Held(ht)
           t == Grown(ht)
           D == DictOf(ht)
           D2 == DictOf(ht')
           M == MeaningsOf(E)
           k == Meaning(o)
<1>1. /\ part \in {"dict", "args"} /\ v \notin heap.vals
      /\ ht' = IF Lookup(t, o) = 0 THEN Added(t, o, v) ELSE t
      /\ result' = Res("try_insert", o, IF Lookup(t, o) = 0 THEN "HT_OK" ELSE "HT_INV_KEY")
  BY DEF try_insert, onArgs, FreshVal, ht_try_insert
<1>2. Table(ht, HtVals) /\ ValsOf(E) \subseteq heap.vals
  BY <1>1, DictFacts
<1>3. Table(t, HtVals) /\ Held(t) = E /\ t.num_entries < t.capacity
  BY <1>2, GrownIs
<1>4. Table(ht', HtVals)
  BY TryInsertKeeps DEF IInv, TablesInv
<1>5. Maps(D, E) /\ DOMAIN D = M
  BY <1>2, DictIs
<1> HIDE DEF E, t, D, D2
<1>6. \A e \in E : e.val # v
  BY <1>1, <1>2 DEF ValsOf
<1>7. MeaningsApart(E)
  BY DEF E
<1>8. ASSUME MeaningsApart(Held(ht')) PROVE Maps(D2, Held(ht'))
  BY <1>4, <1>8, DictIs DEF D2
<1>9. CASE Lookup(t, o) = 0
  <2> DEFINE e == [key |-> o, val |-> v]
  <2>1. e.key = o /\ e.val = v
    OBVIOUS
  <2>2. Held(ht') = E \cup {e}
    <3>1. e \notin E
      BY <1>6, <2>1
    <3>2. Held(Added(t, o, v)) = Held(t) \cup {e}
      BY <1>3, <3>1, AddedIs
    <3> QED BY <1>1, <1>3, <1>9, <3>2
  <2> HIDE DEF e
  <2>3. Meaning(e.key) \notin M
    BY <1>3, <1>9, <2>1, LookupFinds
  <2>4. MeaningsApart(E \cup {e})
    BY <1>7, <2>3 DEF MeaningsApart, MeaningsOf
  <2>5. Maps(D2, E \cup {e})
    BY <1>8, <2>2, <2>4
  <2>6. IsPut(D2, D, M, Meaning(e.key), e.val)
    BY <1>5, <1>7, <2>3, <2>5, MapsAdded
  <2>7. D2 = [x \in DOMAIN D \cup {k} |-> IF x = k THEN v ELSE D[x]]
    BY <1>5, <2>1, <2>6 DEF IsPut
  <2>8. result' = [op |-> "try_insert", key |-> Meaning(o), res |-> "HT_OK"]
    BY <1>1, <1>9 DEF Res
  <2>9. k \notin DOMAIN D
    BY <1>5, <2>1, <2>3
  <2>10. Abstract!DictTryInsert(Meaning(o), v)
    BY <2>7, <2>8, <2>9, Zenon
       DEF Abstract!DictTryInsert, Abstract!Put, Abstract!Result, D, D2, DictOf, Stored
  <2> QED BY <2>2, <2>4, <2>10
<1>10. CASE Lookup(t, o) # 0
  <2>1. Held(ht') = E
    BY <1>1, <1>3, <1>10
  <2>2. Maps(D2, E)
    BY <1>7, <1>8, <2>1
  <2>3. D2 = D
    BY <1>5, <2>2, MapsSame
  <2>4. k \in DOMAIN D
    BY <1>3, <1>5, <1>10, LookupFinds
  <2>5. result' = [op |-> "try_insert", key |-> Meaning(o), res |-> "HT_INV_KEY"]
    BY <1>1, <1>10 DEF Res
  <2>6. Abstract!DictTryInsert(Meaning(o), v)
    BY <2>3, <2>4, <2>5, Zenon DEF Abstract!DictTryInsert, Abstract!Result, D, D2, DictOf, Stored
  <2> QED BY <1>7, <2>1, <2>6
<1> QED BY <1>9, <1>10

\* GET answers with the value under the key's meaning.
LEMMA GetGets ==
    ASSUME KeysToldApart, IInv, MeaningsApart(Held(ht)), NEW o \in Objs, execute_get_command(o) \/ args_get(o)
    PROVE  MeaningsApart(Held(ht')) /\ Abstract!DictGet(Meaning(o))
<1> DEFINE D == DictOf(ht)
           M == MeaningsOf(Held(ht))
           k == Meaning(o)
           r == IF Lookup(ht, o) = 0 THEN "NULL" ELSE EntryOf(ht, o).val
<1>1. part \in {"dict", "args"} /\ ht' = ht /\ result' = Res("get", o, r)
  BY DEF execute_get_command, args_get, onDict, onArgs, ht_get, EntryOf
<1>2. Table(ht, HtVals)
  BY <1>1, DictFacts
<1>3. Maps(D, Held(ht)) /\ DOMAIN D = M
  BY <1>2, DictIs
<1> HIDE DEF D
<1>4. r = IF k \in DOMAIN D THEN D[k] ELSE "NULL"
  <2>1. CASE Lookup(ht, o) = 0
    BY <1>2, <1>3, <2>1, LookupFinds
  <2>2. CASE Lookup(ht, o) # 0
    <3> DEFINE e == EntryOf(ht, o)
    <3>1. e \in Held(ht) /\ Meaning(e.key) = k /\ k \in M
      BY <1>2, <2>2, LookupFinds
    <3> HIDE DEF e
    <3>2. D[k] = e.val
      BY <1>3, <3>1 DEF Maps
    <3> QED BY <1>3, <2>2, <3>1, <3>2 DEF e
  <2> QED BY <2>1, <2>2
<1> HIDE DEF r
<1>5. result' = [op |-> "get", key |-> Meaning(o), res |-> IF k \in DOMAIN D THEN D[k] ELSE "NULL"]
  BY <1>1, <1>4 DEF Res
<1>6. D' = D
  BY <1>1 DEF D, DictOf
<1>7. Abstract!DictGet(Meaning(o))
  BY <1>5, <1>6, Zenon DEF Abstract!DictGet, Abstract!Result, D, DictOf, Stored
<1> QED BY <1>1, <1>7

\* DEL removes the key of the same meaning.
LEMMA DelDeletes ==
    ASSUME KeysToldApart, IInv, MeaningsApart(Held(ht)), NEW o \in Objs, execute_del_command(o)
    PROVE  MeaningsApart(Held(ht')) /\ Abstract!DictDelete(Meaning(o))
<1> DEFINE E == Held(ht)
           D == DictOf(ht)
           D2 == DictOf(ht')
           M == MeaningsOf(E)
           k == Meaning(o)
<1>1. /\ part \in {"dict", "args"}
      /\ ht' = IF Lookup(ht, o) = 0 THEN ht
               ELSE [ht EXCEPT !.entries[ht_hash(ht, o)] = RemoveAt(@, Lookup(ht, o)),
                               !.num_entries = @ - 1]
      /\ result' = Res("delete", o, IF Lookup(ht, o) = 0 THEN "HT_INV_KEY" ELSE "HT_OK")
  BY DEF execute_del_command, onDict, ht_delete
<1>2. Table(ht, HtVals)
  BY <1>1, DictFacts
<1>3. Table(ht', HtVals)
  BY DelKeeps DEF IInv, TablesInv
<1>4. Maps(D, E) /\ DOMAIN D = M
  BY <1>2, DictIs
<1>5. MeaningsApart(E) /\ E = Held(ht)
  OBVIOUS
<1>6. CASE Lookup(ht, o) = 0
  <2>1. ht' = ht /\ D' = D
    BY <1>1, <1>6 DEF DictOf
  <2> HIDE DEF D
  <2>2. k \notin DOMAIN D
    BY <1>2, <1>4, <1>6, LookupFinds
  <2>3. result' = [op |-> "delete", key |-> Meaning(o), res |-> "HT_INV_KEY"]
    BY <1>1, <1>6 DEF Res
  <2>4. Abstract!DictDelete(Meaning(o))
    BY <2>1, <2>2, <2>3, Zenon DEF Abstract!DictDelete, Abstract!Result, D, DictOf, Stored
  <2> QED BY <2>1, <2>4
<1>7. CASE Lookup(ht, o) # 0
  <2> DEFINE old == EntryOf(ht, o)
  <2>1. old \in E /\ Meaning(old.key) = k /\ k \in M
    BY <1>2, <1>7, LookupFinds
  <2>2. Held(ht') = E \ {old}
    <3>1. ht' = [ht EXCEPT !.entries[ht_hash(ht, o)] = RemoveAt(@, Lookup(ht, o)), !.num_entries = @ - 1]
      BY <1>1, <1>7
    <3> QED BY <1>2, <1>7, <3>1, RemovedIs
  <2> HIDE DEF old, D, D2, E
  <2>3. MeaningsApart(E \ {old})
    BY <1>5 DEF MeaningsApart
  <2>4. Maps(D2, E \ {old})
    <3>1. MeaningsApart(Held(ht'))
      BY <2>2, <2>3
    <3> QED BY <1>3, <2>2, <3>1, DictIs DEF D2
  <2>5. IsDropped(D2, D, M, k)
    BY <1>4, <1>5, <2>1, <2>4, MapsRemoved
  <2>6. D2 = [x \in DOMAIN D \ {k} |-> D[x]]
    BY <1>4, <2>5 DEF IsDropped
  <2>7. result' = [op |-> "delete", key |-> Meaning(o), res |-> "HT_OK"]
    BY <1>1, <1>7 DEF Res
  <2>8. k \in DOMAIN D
    BY <1>4, <2>1
  <2>9. Abstract!DictDelete(Meaning(o))
    BY <2>6, <2>7, <2>8, Zenon
       DEF Abstract!DictDelete, Abstract!Result, Abstract!Restrict, D, D2, DictOf, Stored
  <2> QED BY <2>2, <2>3, <2>9
<1> QED BY <1>6, <1>7

\* A refused insertion leaves the dictionary as it was.
LEMMA OomRefuses ==
    ASSUME MeaningsApart(Held(ht)), NEW o \in Objs,
           try_insert_oom(o) \/ \E v \in HtVals : execute_set_command_oom(o, v)
    PROVE  MeaningsApart(Held(ht')) /\ Abstract!DictOom(Meaning(o))
<1> DEFINE D == DictOf(ht)
<1>1. ht' = ht /\ \E op \in {"insert", "try_insert"} : result' = Res(op, o, "HT_OOM")
  BY DEF try_insert_oom, execute_set_command_oom, InsertOom
<1>2. \E op \in {"insert", "try_insert"} :
          result' = [op |-> op, key |-> Meaning(o), res |-> "HT_OOM"]
  BY <1>1 DEF Res
<1>3. D' = D
  BY <1>1 DEF DictOf
<1> HIDE DEF D
<1>4. Abstract!DictOom(Meaning(o))
  BY <1>2, <1>3, Zenon DEF Abstract!DictOom, Abstract!Result, D, DictOf, Stored
<1> QED BY <1>1, <1>4

\* Every step of the table is a step of the dictionary.
LEMMA DictSteps ==
    ASSUME KeysToldApart, IInv, MeaningsApart(Held(ht)), [CollectionsNext]_collectionVars
    PROVE  MeaningsApart(Held(ht')) /\ [Abstract!DictNext]_(Abstract!dictVars)
<1>1. ASSUME ht' = ht, result' = result
      PROVE  MeaningsApart(Held(ht')) /\ [Abstract!DictNext]_(Abstract!dictVars)
  <2> DEFINE D == DictOf(ht)
  <2>1. D' = D
    BY <1>1 DEF DictOf
  <2> HIDE DEF D
  <2>2. <<D, result>>' = <<D, result>>
    BY <1>1, <2>1
  <2>3. UNCHANGED Abstract!dictVars
    BY <2>2, Zenon DEF Abstract!dictVars, D, DictOf, Stored
  <2> QED BY <1>1, <2>3
<1> DEFINE K == {Meaning(o) : o \in Objs}
<1>2. ASSUME NEW o \in Objs,
             \/ execute_get_command(o) \/ args_get(o) \/ execute_del_command(o) \/ try_insert_oom(o)
             \/ \E v \in HtVals :
                    execute_set_command(o, v) \/ execute_set_command_oom(o, v) \/ try_insert(o, v)
      PROVE  MeaningsApart(Held(ht')) /\ Abstract!DictNext
  <2>1. Meaning(o) \in {Meaning(x) : x \in Objs}
    OBVIOUS
  <2>2. MeaningsApart(Held(ht'))
        /\ \/ Abstract!DictGet(Meaning(o)) \/ Abstract!DictDelete(Meaning(o))
           \/ Abstract!DictOom(Meaning(o))
           \/ \E v \in HtVals :
                  Abstract!DictInsert(Meaning(o), v) \/ Abstract!DictTryInsert(Meaning(o), v)
    BY <1>2, GetGets, DelDeletes, OomRefuses, SetInserts, TryInserts
  <2> QED BY <2>1, <2>2, Zenon DEF Abstract!DictNext
<1>3. CASE \/ \E o \in Objs : \/ execute_get_command(o) \/ execute_del_command(o)
                              \/ try_insert_oom(o) \/ args_get(o)
           \/ \E o \in Objs, v \in HtVals :
                  execute_set_command(o, v) \/ execute_set_command_oom(o, v) \/ try_insert(o, v)
  BY <1>2, <1>3
<1>4. ASSUME onVec \/ onQueue \/ onSet PROVE ht' = ht /\ result' = result
  BY <1>4 DEF onVec, onQueue, onSet, htVars
<1>5. CASE \/ \E o \in Objs, v \in HtVals : cmd_free(o, v)
           \/ lexidb_free \/ clap_free \/ UNCHANGED collectionVars
  <2>1. ht' = ht /\ result' = result
    BY <1>5 DEF cmd_free, lexidb_free, clap_free, collectionVars, htVars
  <2> QED BY <1>1, <2>1
<1>6. CASE \/ \E v \in HtVals : vec_push(v) \/ vec_push_oom(v) \/ vec_find(v)
           \/ \E i \in 0 .. vec.len : vec_get_at(i) \/ vec_remove_at(i)
           \/ vec_pop
  <2>1. onVec
    BY <1>6 DEF vec_push, vec_push_oom, vec_find, vec_get_at, vec_remove_at, vec_pop
  <2> QED BY <1>1, <1>4, <2>1
<1>7. CASE queue_deque \/ queue_peek \/ \E v \in HtVals : queue_enque(v) \/ queue_enque_oom(v)
  <2>1. onQueue
    BY <1>7 DEF queue_deque, queue_peek, queue_enque, queue_enque_oom
  <2> QED BY <1>1, <1>4, <2>1
<1>8. CASE \/ \E o \in Objs : set_insert(o) \/ set_insert_no_resize(o) \/ set_insert_no_entry(o)
           \/ \E o \in Objs : set_has(o) \/ set_delete(o)
  <2>1. onSet
    BY <1>8 DEF set_insert, set_insert_no_resize, set_insert_no_entry, set_has, set_delete
  <2> QED BY <1>1, <1>4, <2>1
<1> QED BY <1>3, <1>5, <1>6, <1>7, <1>8 DEF CollectionsNext

\* The empty table is the empty dictionary.
LEMMA DictInitially ==
    ASSUME CollectionsInit
    PROVE  MeaningsApart(Held(ht)) /\ Abstract!DictInit
<1> DEFINE D == DictOf(ht)
<1>1. Table(ht, HtVals) /\ Held(ht) = {}
  <2>1. ht = ht_new
    BY DEF CollectionsInit, Init
  <2>2. Table(ht_new, HtVals) /\ Held(ht_new) = {}
    BY HtAssumption, EmptyTable DEF ht_new
  <2> QED BY <2>1, <2>2
<1>2. MeaningsApart(Held(ht))
  BY <1>1 DEF MeaningsApart
<1>3. Maps(D, Held(ht)) /\ MeaningsOf(Held(ht)) = {}
  BY <1>1, <1>2, DictIs DEF MeaningsOf
<1> HIDE DEF D
<1>4. D = [k \in {} |-> D[k]]
  BY <1>3 DEF Maps
<1>5. D = [k \in {} |-> "none"]
  BY <1>4
<1>6. result = [op |-> "none", key |-> "none", res |-> "none"]
  BY DEF CollectionsInit, Init
<1>7. Abstract!DictInit
  BY <1>5, <1>6, Zenon DEF Abstract!DictInit, Abstract!NoResult, Abstract!Result, D, DictOf, Stored
<1> QED BY <1>2, <1>7

\* Where object_cmp and the hash agree with what keys mean, the table is a
\* dictionary, through collisions, resizes and refused allocations.
THEOREM CollectionsImplementDict ==
    ASSUME KeysToldApart
    PROVE  CollectionsSpec => ImplementsDict
<1> DEFINE DictInv == MeaningsApart(Held(ht))
<1>1. CollectionsInit => DictInv /\ Abstract!DictInit
  BY DictInitially
<1>2. IInv /\ DictInv /\ [CollectionsNext]_collectionVars
         => DictInv' /\ [Abstract!DictNext]_(Abstract!dictVars)
  BY DictSteps
<1> HIDE DEF DictInv
<1> QED BY <1>1, <1>2, CollectionsInvariant, PTL DEF CollectionsSpec, ImplementsDict, Abstract!DictSpec

-----------------------------------------------------------------------------
(* The vector is a stack, the queue a line, the set a set *)

\* The members of the abstract set, and the answer as the abstract containers give it.
SetMembers == MeaningsOf(Held(set))
SaidAnswer == [answer EXCEPT !.res = Said(@)]

\* What each of the codes that the functions return says.
LEMMA SaidIs ==
    /\ \A r \in {"-1", Null, "SET_OOM", "SET_INV_KEY"} : Said(r) = "refused"
    /\ Said("0") = "ok" /\ Said("SET_OK") = "ok" /\ Said("SET_KEY_EXISTS") = "exists"
    /\ Said("true") = "true" /\ Said("false") = "false" /\ Said("none") = "none"
    /\ \A v \in HtVals : Said(v) = v
<1>1. \A v \in HtVals : /\ v \notin {"-1", Null, "SET_OOM", "SET_INV_KEY"}
                        /\ v \notin {"0", "SET_OK"} /\ v # "SET_KEY_EXISTS"
  BY ValuesAssumption
<1>2. \A v \in HtVals : Said(v) = v
  BY <1>1 DEF Said
<1>3. \A r \in {"-1", Null, "SET_OOM", "SET_INV_KEY"} : Said(r) = "refused"
  BY DEF Said, Null
<1>4. Said("0") = "ok" /\ Said("SET_OK") = "ok" /\ Said("SET_KEY_EXISTS") = "exists"
  BY DEF Said, Null
<1>5. Said("true") = "true" /\ Said("false") = "false" /\ Said("none") = "none"
  BY DEF Said, Null
<1> QED BY <1>2, <1>3, <1>4, <1>5

\* An answer, as the abstract containers give it.
LEMMA SaidNext ==
    ASSUME NEW op, NEW r, NEW i, answer' = Answer(op, r, i)
    PROVE  SaidAnswer' = [op |-> op, res |-> Said(r), idx |-> i]
<1>1. answer' = [op |-> op, res |-> r, idx |-> i]
  BY DEF Answer
<1>2. SaidAnswer' = [answer' EXCEPT !.res = Said(answer'.res)]
  BY DEF SaidAnswer
<1>3. answer'.res = r
  BY <1>1
<1> QED BY <1>1, <1>2, <1>3

\* A call that changes nothing and returns one of the error codes is a refusal.
LEMMA RefusedIs ==
    ASSUME NEW op, NEW r \in {"-1", Null, "SET_OOM", "SET_INV_KEY"}, answer' = Answer(op, r, None),
           VecContents' = VecContents, QueueContents' = QueueContents, SetMembers' = SetMembers
    PROVE  AbstractContainers!Refused(op)
<1>1. SaidAnswer' = [op |-> op, res |-> "refused", idx |-> -1]
  BY SaidIs, SaidNext DEF None
<1> QED BY <1>1, Zenon
    DEF AbstractContainers!Refused, AbstractContainers!Answer, AbstractContainers!None,
        SaidAnswer, SetMembers, MeaningsOf, Held

\* What does not touch the vector, the queue and the set changes nothing of them.
LEMMA ContentsSame ==
    ASSUME IInv
    PROVE  /\ vec' = vec => VecContents' = VecContents
           /\ queue' = queue => QueueContents' = QueueContents
           /\ set' = set => SetMembers' = SetMembers
<1>1. VecInv /\ QueueInv
  BY DEF IInv
<1>2. set' = set => SetMembers' = SetMembers
  BY DEF SetMembers
<1> QED BY <1>1, <1>2, VecSame, QueueSame

\* vec_push is Push, or a refusal when realloc fails.
LEMMA PushPushes ==
    ASSUME IInv, NEW v \in HtVals, vec_push(v) \/ vec_push_oom(v)
    PROVE  AbstractContainers!Push(v)
<1> DEFINE s == VecContents
           s2 == VecContents'
           d == vec.data
           n == vec.len
<1>1. queue' = queue /\ set' = set
  BY DEF vec_push, vec_push_oom, onVec
<1>2. QueueContents' = QueueContents /\ SetMembers' = SetMembers
  BY <1>1, ContentsSame
<1>3. CASE vec_push_oom(v)
  <2>1. vec' = vec /\ answer' = Answer("push", "-1", None)
    BY <1>3 DEF vec_push_oom
  <2>2. AbstractContainers!Refused("push")
    <3> DEFINE r == "-1"
    <3>1. r \in {"-1", Null, "SET_OOM", "SET_INV_KEY"} /\ answer' = Answer("push", r, None)
      BY <2>1
    <3> HIDE DEF r
    <3> QED BY <1>2, <2>1, <3>1, ContentsSame, RefusedIs
  <2> QED BY <2>2 DEF AbstractContainers!Push
<1>4. CASE vec_push(v)
  <2> DEFINE e == [Room EXCEPT ![n + 1] = v]
  <2>1. vec' = [data |-> e, len |-> n + 1] /\ answer' = Answer("push", "0", None)
    BY <1>4 DEF vec_push, Room
  <2>2. VecInv /\ VecInv'
    BY <1>4, PushKeeps DEF IInv
  <2>3. vec'.data = e /\ vec'.len = n + 1 /\ n \in Nat
    BY <2>1, <2>2 DEF VecInv
  <2>4. /\ Room \in Seq(HtVals \cup {Zero}) /\ n + 1 \in 1 .. Len(Room)
        /\ \A i \in 1 .. n : Room[i] = d[i]
    BY <2>2, RoomIs
  <2>5. e[n + 1] = v /\ \A i \in 1 .. n : e[i] = d[i]
    <3> HIDE DEF n, d
    <3>1. \A i \in 1 .. n : i \in 1 .. Len(Room) /\ i # n + 1
      BY <2>3, <2>4
    <3> QED BY <2>4, <3>1
  <2>6. s \in Seq(HtVals) /\ Len(s) = n /\ \A i \in 1 .. n : s[i] = d[i]
    BY <2>2, VecContentsIs DEF VecHolds
  <2>7. s2 \in Seq(HtVals) /\ Len(s2) = vec'.len /\ \A i \in 1 .. vec'.len : s2[i] = vec'.data[i]
    BY <2>2, VecContentsIsNext DEF VecHolds
  <2>8. s2 \in Seq(HtVals) /\ Len(s2) = n + 1 /\ \A i \in 1 .. (n + 1) : s2[i] = e[i]
    BY <2>3, <2>7
  <2> HIDE DEF s, s2, d, n, e
  <2>9. s2 = Append(s, v)
    <3> DEFINE a == Append(s, v)
    <3>1. /\ a \in Seq(HtVals) /\ Len(a) = n + 1
          /\ \A i \in 1 .. n : a[i] = s[i]
      BY <2>3, <2>6, AppendProperties
    <3>2. a[n + 1] = v
      BY <2>6, AppendProperties
    <3> HIDE DEF a
    <3>3. \A i \in 1 .. (n + 1) : i \in 1 .. n \/ i = n + 1
      BY <2>3
    <3>4. \A i \in 1 .. Len(s2) : s2[i] = a[i]
      BY <2>5, <2>6, <2>8, <3>1, <3>2, <3>3
    <3>5. s2 = a
      BY <2>8, <3>1, <3>4, SeqEqual
    <3> QED BY <3>5 DEF a
  <2>10. SaidAnswer' = [op |-> "push", res |-> "ok", idx |-> -1]
    BY <2>1, SaidIs, SaidNext DEF None
  <2> QED BY <1>2, <2>9, <2>10, Zenon
      DEF AbstractContainers!Push, AbstractContainers!Answer, AbstractContainers!None,
          SaidAnswer, SetMembers, MeaningsOf, Held, s, s2
<1> QED BY <1>3, <1>4

\* An element is taken out: the vector becomes the sequence without it.
LEMMA VecTaken ==
    ASSUME VecInv, VecInv', NEW k \in 1 .. vec.len, vec'.len = vec.len - 1,
           \A j \in 1 .. (vec.len - 1) : vec'.data[j] = vec.data[IF j < k THEN j ELSE j + 1]
    PROVE  VecContents' = RemoveAt(VecContents, k)
<1> DEFINE s == VecContents
           s2 == VecContents'
           d == vec.data
           n == vec.len
           e == vec'.data
           a == RemoveAt(s, k)
<1>1. n \in Nat /\ k \in 1 .. n /\ \A j \in 1 .. (n - 1) : e[j] = d[IF j < k THEN j ELSE j + 1]
  BY DEF VecInv
<1>2. s \in Seq(HtVals) /\ Len(s) = n /\ \A i \in 1 .. n : s[i] = d[i]
  BY VecContentsIs DEF VecHolds
<1>3. s2 \in Seq(HtVals) /\ Len(s2) = vec'.len /\ \A i \in 1 .. vec'.len : s2[i] = vec'.data[i]
  BY VecContentsIsNext DEF VecHolds
<1>4. s2 \in Seq(HtVals) /\ Len(s2) = n - 1 /\ \A i \in 1 .. (n - 1) : s2[i] = e[i]
  BY <1>3
<1> HIDE DEF s, s2, d, n, e
<1>5. /\ a \in Seq(HtVals) /\ Len(a) = n - 1
      /\ \A i \in 1 .. (n - 1) : a[i] = IF i < k THEN s[i] ELSE s[i + 1]
  <2>1. k \in 1 .. Len(s)
    BY <1>1, <1>2
  <2>2. /\ a \in Seq(HtVals) /\ Len(a) = Len(s) - 1
        /\ \A i \in 1 .. (Len(s) - 1) : a[i] = IF i < k THEN s[i] ELSE s[i + 1]
    BY <1>2, <2>1, RemoveAtPlaces
  <2> QED BY <1>2, <2>2
<1> HIDE DEF a
<1>6. ASSUME NEW i \in 1 .. (n - 1) PROVE s2[i] = a[i]
  <2>1. i \in 1 .. n /\ i + 1 \in 1 .. n
    BY <1>1
  <2> QED BY <1>1, <1>2, <1>4, <1>5, <2>1
<1>7. s2 = a
  BY <1>4, <1>5, <1>6, SeqEqual
<1> QED BY <1>7 DEF s, s2, a

\* vec_pop is Pop.
LEMMA PopPops ==
    ASSUME IInv, vec_pop
    PROVE  AbstractContainers!Pop
<1> DEFINE s == VecContents
           s2 == VecContents'
           n == vec.len
<1>1. queue' = queue /\ set' = set
  BY DEF vec_pop, onVec
<1>2. QueueContents' = QueueContents /\ SetMembers' = SetMembers
  BY <1>1, ContentsSame
<1>3. VecInv /\ n \in Nat
  BY DEF IInv, VecInv
<1>4. s \in Seq(HtVals) /\ Len(s) = n /\ \A i \in 1 .. n : s[i] = vec.data[i]
  BY <1>3, VecContentsIs DEF VecHolds
<1>5. CASE n = 0
  <2>1. vec' = vec /\ answer' = Answer("pop", "-1", None)
    BY <1>5 DEF vec_pop
  <2>2. AbstractContainers!Refused("pop")
    <3> DEFINE r == "-1"
    <3>1. r \in {"-1", Null, "SET_OOM", "SET_INV_KEY"} /\ answer' = Answer("pop", r, None)
      BY <2>1
    <3> HIDE DEF r
    <3> QED BY <1>2, <2>1, <3>1, ContentsSame, RefusedIs
  <2>3. s = <<>>
    BY <1>4, <1>5, EmptySeq
  <2> QED BY <2>2, <2>3 DEF AbstractContainers!Pop
<1>6. CASE n # 0
  <2>1. answer' = Answer("pop", vec.data[n], None) /\ vec' = [vec EXCEPT !.len = @ - 1]
    BY <1>6 DEF vec_pop
  <2>2. vec = [data |-> vec.data, len |-> vec.len]
    BY <1>3 DEF VecInv
  <2>3. vec'.len = n - 1 /\ vec'.data = vec.data
    BY <2>1, <2>2
  <2>4. VecInv'
    BY <1>6, PopKeeps DEF IInv
  <2>5. n \in 1 .. n /\ \A j \in 1 .. (n - 1) : j < n
    BY <1>3, <1>6
  <2>6. s2 = RemoveAt(s, n)
    BY <1>3, <2>3, <2>4, <2>5, VecTaken
  <2>7. SaidAnswer' = [op |-> "pop", res |-> s[Len(s)], idx |-> -1]
    <3> DEFINE x == s[Len(s)]
    <3>1. x \in HtVals /\ answer' = Answer("pop", x, None)
      BY <1>4, <2>1, <2>5
    <3> HIDE DEF x
    <3>2. SaidAnswer' = [op |-> "pop", res |-> x, idx |-> -1]
      BY <3>1, SaidIs, SaidNext DEF None
    <3> QED BY <3>2 DEF x
  <2>8. s2 = SubSeq(s, 1, Len(s) - 1)
    <3> HIDE DEF s, n, s2
    <3>1. SubSeq(s, n + 1, n) = <<>>
      BY <1>3, SubSeqEmpty
    <3>2. SubSeq(s, 1, n - 1) \in Seq(HtVals)
      BY <1>3, <1>4
    <3>3. SubSeq(s, 1, n - 1) \o <<>> = SubSeq(s, 1, n - 1)
      BY <3>2
    <3> QED BY <1>4, <2>6, <3>1, <3>3 DEF RemoveAt
  <2>9. s # <<>>
    BY <1>4, <1>6
  <2> HIDE DEF s, s2
  <2> QED BY <1>2, <2>7, <2>8, <2>9, Zenon
      DEF AbstractContainers!Pop, AbstractContainers!Answer, AbstractContainers!None,
          AbstractContainers!Last, AbstractContainers!Front,
          SaidAnswer, SetMembers, MeaningsOf, Held, s, s2
<1> QED BY <1>5, <1>6

\* vec_get_at is GetAt.
LEMMA GetAtGets ==
    ASSUME IInv, NEW i \in 0 .. vec.len, vec_get_at(i)
    PROVE  AbstractContainers!GetAt(i)
<1> DEFINE s == VecContents
           n == vec.len
<1>1. queue' = queue /\ set' = set /\ vec' = vec
  BY DEF vec_get_at, onVec
<1>2. QueueContents' = QueueContents /\ SetMembers' = SetMembers /\ VecContents' = VecContents
  BY <1>1, ContentsSame
<1>3. VecInv /\ n \in Nat /\ i \in Nat
  BY DEF IInv, VecInv
<1>4. s \in Seq(HtVals) /\ Len(s) = n /\ \A j \in 1 .. n : s[j] = vec.data[j]
  BY <1>3, VecContentsIs DEF VecHolds
<1>5. CASE i >= n
  <2>1. answer' = Answer("get_at", Null, None)
    BY <1>5 DEF vec_get_at
  <2>2. AbstractContainers!Refused("get_at")
    <3>1. Null \in {"-1", Null, "SET_OOM", "SET_INV_KEY"}
      OBVIOUS
    <3> QED BY <1>2, <2>1, <3>1, RefusedIs
  <2>3. i >= Len(s)
    BY <1>4, <1>5
  <2> QED BY <2>2, <2>3 DEF AbstractContainers!GetAt
<1>6. CASE ~(i >= n)
  <2> DEFINE x == s[i + 1]
  <2>1. answer' = Answer("get_at", vec.data[i + 1], i)
    BY <1>6 DEF vec_get_at
  <2>2. i + 1 \in 1 .. n /\ ~(i >= Len(s))
    BY <1>3, <1>4, <1>6
  <2>3. x \in HtVals /\ answer' = Answer("get_at", x, i)
    BY <1>4, <2>1, <2>2
  <2> HIDE DEF x, s
  <2>4. SaidAnswer' = [op |-> "get_at", res |-> x, idx |-> i]
    BY <2>3, SaidIs, SaidNext
  <2> QED BY <1>2, <2>2, <2>4, Zenon
      DEF AbstractContainers!GetAt, AbstractContainers!Answer,
          SaidAnswer, SetMembers, MeaningsOf, Held, s, x
<1> QED BY <1>5, <1>6

\* vec_remove_at is TakeAt.
LEMMA RemoveAtTakes ==
    ASSUME IInv, NEW i \in 0 .. vec.len, vec_remove_at(i)
    PROVE  AbstractContainers!TakeAt(i)
<1> DEFINE s == VecContents
           s2 == VecContents'
           n == vec.len
           d == vec.data
<1>1. queue' = queue /\ set' = set
  BY DEF vec_remove_at, onVec
<1>2. QueueContents' = QueueContents /\ SetMembers' = SetMembers
  BY <1>1, ContentsSame
<1>3. VecInv /\ n \in Nat /\ i \in Nat /\ n <= Len(d) /\ DOMAIN d = 1 .. Len(d) /\ Len(d) \in Nat
  BY DEF IInv, VecInv
<1>4. s \in Seq(HtVals) /\ Len(s) = n /\ \A j \in 1 .. n : s[j] = d[j]
  BY <1>3, VecContentsIs DEF VecHolds
<1>5. CASE i >= n
  <2>1. answer' = Answer("remove_at", "-1", None) /\ vec' = vec
    BY <1>5 DEF vec_remove_at
  <2>2. AbstractContainers!Refused("remove_at")
    <3> DEFINE r == "-1"
    <3>1. r \in {"-1", Null, "SET_OOM", "SET_INV_KEY"} /\ answer' = Answer("remove_at", r, None)
      BY <2>1
    <3> HIDE DEF r
    <3> QED BY <1>2, <2>1, <3>1, ContentsSame, RefusedIs
  <2>3. i >= Len(s)
    BY <1>4, <1>5
  <2> QED BY <2>2, <2>3 DEF AbstractContainers!TakeAt
<1>6. CASE ~(i >= n)
  <2> DEFINE x == s[i + 1]
             k == i + 1
             e == MovedDown(d, i, n - 1)
  <2>1. /\ answer' = Answer("remove_at", d[i + 1], i)
        /\ vec' = [data |-> e, len |-> n - 1]
    BY <1>6 DEF vec_remove_at
  <2>2. k \in 1 .. n /\ ~(i >= Len(s)) /\ i < n
    BY <1>3, <1>4, <1>6
  <2>3. vec'.len = n - 1 /\ vec'.data = e
    BY <2>1
  <2>4. VecInv'
    BY <1>3, <2>2, RemoveKeeps DEF IInv
  <2>5. ASSUME NEW j \in 1 .. (n - 1) PROVE e[j] = d[IF j < k THEN j ELSE j + 1]
    <3> HIDE DEF d, n
    <3>1. /\ j \in 1 .. Len(d) /\ j # (n - 1) + 1
          /\ (j < k => j \notin (i + 1) .. (n - 1)) /\ (~(j < k) => j \in (i + 1) .. (n - 1))
      BY <1>3, <2>2
    <3> QED BY <1>3, <3>1 DEF MovedDown
  <2>6. s2 = RemoveAt(s, k)
    <3>1. \A j \in 1 .. (n - 1) : vec'.data[j] = d[IF j < k THEN j ELSE j + 1]
      BY <2>3, <2>5
    <3> HIDE DEF k, e
    <3> QED BY <1>3, <2>2, <2>3, <2>4, <3>1, VecTaken
  <2>7. x \in HtVals /\ answer' = Answer("remove_at", x, i)
    BY <1>4, <2>1, <2>2
  <2> HIDE DEF x, s, s2
  <2>8. SaidAnswer' = [op |-> "remove_at", res |-> x, idx |-> i]
    BY <2>7, SaidIs, SaidNext
  <2>9. s2 = SubSeq(s, 1, (i + 1) - 1) \o SubSeq(s, (i + 1) + 1, Len(s))
    BY <2>6 DEF RemoveAt
  <2> QED BY <1>2, <2>2, <2>8, <2>9, Zenon
      DEF AbstractContainers!TakeAt, AbstractContainers!Answer, AbstractContainers!RemoveAt,
          SaidAnswer, SetMembers, MeaningsOf, Held, s, s2, x
<1> QED BY <1>5, <1>6

\* vec_find is Find: the first index, or none.
LEMMA FindFinds ==
    ASSUME IInv, NEW v \in HtVals, vec_find(v)
    PROVE  AbstractContainers!Find(v)
<1> DEFINE I == {i \in 1 .. Len(VecContents) : VecContents[i] = v}
           at == (IF I # {} THEN Min(I) ELSE 0) - 1
<1>1. queue' = queue /\ set' = set /\ vec' = vec
  BY DEF vec_find, onVec
<1>2. QueueContents' = QueueContents /\ SetMembers' = SetMembers /\ VecContents' = VecContents
  BY <1>1, ContentsSame
<1>3. answer' = Answer("find", v, at)
  BY DEF vec_find, SelectInSeq
<1> HIDE DEF at
<1>4. SaidAnswer' = [op |-> "find", res |-> v, idx |-> at]
  BY <1>3, SaidIs, SaidNext
<1> QED BY <1>2, <1>4, Zenon
    DEF AbstractContainers!Find, AbstractContainers!Answer, AbstractContainers!SelectInSeq,
        AbstractContainers!Min, Min, SaidAnswer, SetMembers, MeaningsOf, Held, at

\* queue_enque is Enque, or a refusal when malloc fails.
LEMMA EnqueEnques ==
    ASSUME IInv, NEW v \in HtVals, queue_enque(v) \/ queue_enque_oom(v)
    PROVE  AbstractContainers!Enque(v)
<1> DEFINE q == QueueContents
           q2 == QueueContents'
<1>1. vec' = vec /\ set' = set
  BY DEF queue_enque, queue_enque_oom, onQueue
<1>2. VecContents' = VecContents /\ SetMembers' = SetMembers
  BY <1>1, ContentsSame
<1>3. CASE queue_enque_oom(v)
  <2>1. queue' = queue /\ answer' = Answer("enque", "-1", None)
    BY <1>3 DEF queue_enque_oom
  <2>2. AbstractContainers!Refused("enque")
    <3> DEFINE r == "-1"
    <3>1. r \in {"-1", Null, "SET_OOM", "SET_INV_KEY"} /\ answer' = Answer("enque", r, None)
      BY <2>1
    <3> HIDE DEF r
    <3> QED BY <1>2, <2>1, <3>1, ContentsSame, RefusedIs
  <2> QED BY <2>2 DEF AbstractContainers!Enque
<1>4. CASE queue_enque(v)
  <2>1. answer' = Answer("enque", "0", None)
    BY <1>4 DEF queue_enque
  <2>2. q2 = Append(q, v)
    BY <1>4, EnqueKeeps
  <2> HIDE DEF q, q2
  <2>3. SaidAnswer' = [op |-> "enque", res |-> "ok", idx |-> -1]
    BY <2>1, SaidIs, SaidNext DEF None
  <2> QED BY <1>2, <2>2, <2>3, Zenon
      DEF AbstractContainers!Enque, AbstractContainers!Answer, AbstractContainers!None,
          SaidAnswer, SetMembers, MeaningsOf, Held, q, q2
<1> QED BY <1>3, <1>4

\* queue_deque is Deque and queue_peek is Peek.
LEMMA DequeDeques ==
    ASSUME IInv, queue_deque \/ queue_peek
    PROVE  AbstractContainers!Deque \/ AbstractContainers!Peek
<1> DEFINE q == QueueContents
           q2 == QueueContents'
           n == queue.num_el
<1>1. vec' = vec /\ set' = set
  BY DEF queue_deque, queue_peek, onQueue
<1>2. VecContents' = VecContents /\ SetMembers' = SetMembers
  BY <1>1, ContentsSame
<1>3. /\ q \in Seq(HtVals) /\ Len(q) = n /\ n \in Nat
      /\ n # 0 => queue.head = q[1]
  BY DEF IInv, QueueInv, LineOf
<1>4. q = <<>> <=> n = 0
  BY <1>3, EmptySeq
<1>5. n # 0 => Head(q) = q[1] /\ q[1] \in HtVals
  BY <1>3, <1>4
<1>6. CASE queue_deque /\ n = 0
  <2>1. queue' = queue /\ answer' = Answer("deque", "-1", None)
    BY <1>6 DEF queue_deque
  <2>2. AbstractContainers!Refused("deque")
    <3> DEFINE r == "-1"
    <3>1. r \in {"-1", Null, "SET_OOM", "SET_INV_KEY"} /\ answer' = Answer("deque", r, None)
      BY <2>1
    <3> HIDE DEF r
    <3> QED BY <1>2, <2>1, <3>1, ContentsSame, RefusedIs
  <2> QED BY <1>4, <1>6, <2>2 DEF AbstractContainers!Deque
<1>7. CASE queue_deque /\ n # 0
  <2> DEFINE x == Head(q)
  <2>1. x \in HtVals /\ answer' = Answer("deque", x, None)
    BY <1>3, <1>5, <1>7 DEF queue_deque
  <2>2. q2 = Tail(q)
    BY <1>7, DequeKeeps
  <2>3. q # <<>>
    BY <1>4, <1>7
  <2> HIDE DEF q, q2, x
  <2>4. SaidAnswer' = [op |-> "deque", res |-> x, idx |-> -1]
    BY <2>1, SaidIs, SaidNext DEF None
  <2>5. AbstractContainers!Deque
    BY <1>2, <2>2, <2>3, <2>4, Zenon
      DEF AbstractContainers!Deque, AbstractContainers!Answer, AbstractContainers!None,
          SaidAnswer, SetMembers, MeaningsOf, Held, q, q2, x
  <2> QED BY <2>5
<1>8. CASE queue_peek /\ n = 0
  <2>1. queue' = queue /\ answer' = Answer("peek", Null, None)
    BY <1>8 DEF queue_peek
  <2>2. AbstractContainers!Refused("peek")
    <3>1. Null \in {"-1", Null, "SET_OOM", "SET_INV_KEY"}
      OBVIOUS
    <3> QED BY <1>2, <2>1, <3>1, ContentsSame, RefusedIs
  <2> QED BY <1>4, <1>8, <2>2 DEF AbstractContainers!Peek
<1>9. CASE queue_peek /\ n # 0
  <2> DEFINE x == Head(q)
  <2>1. x \in HtVals /\ answer' = Answer("peek", x, None) /\ queue' = queue
    BY <1>3, <1>5, <1>9 DEF queue_peek
  <2>2. q2 = q
    BY <2>1, ContentsSame
  <2>3. q # <<>>
    BY <1>4, <1>9
  <2> HIDE DEF q, q2, x
  <2>4. SaidAnswer' = [op |-> "peek", res |-> x, idx |-> -1]
    BY <2>1, SaidIs, SaidNext DEF None
  <2>5. AbstractContainers!Peek
    BY <1>2, <2>2, <2>3, <2>4, Zenon
      DEF AbstractContainers!Peek, AbstractContainers!Answer, AbstractContainers!None,
          SaidAnswer, SetMembers, MeaningsOf, Held, q, q2, x
  <2> QED BY <2>5
<1> QED BY <1>6, <1>7, <1>8, <1>9

\* Inserting, looking and deleting work on the member of the same meaning.
LEMMA InsertInserts ==
    ASSUME KeysToldApart, IInv, MeaningsApart(Held(set)), NEW o \in Objs, set_insert(o)
    PROVE  MeaningsApart(Held(set')) /\ AbstractContainers!Insert(Meaning(o))
<1> DEFINE E == Held(set)
           t == SetGrown
           k == Meaning(o)
           M == SetMembers
           M2 == SetMembers'
           V == {""}
<1>1. /\ part = "set" /\ vec' = vec /\ queue' = queue /\ o.rep \notin heap.keys
      /\ set' = IF Lookup(t, o) = 0 THEN Added(t, o, "") ELSE t
      /\ answer' = Answer("insert", IF Lookup(t, o) = 0 THEN "SET_OK" ELSE "SET_KEY_EXISTS", None)
  BY DEF set_insert, onSet, FreshKey
<1>2. VecContents' = VecContents /\ QueueContents' = QueueContents
  BY <1>1, ContentsSame
<1>3. Table(set, V) /\ RepsOf(E) \subseteq heap.keys
  BY <1>1, SetFacts
<1>4. Table(t, V) /\ Held(t) = E /\ t.num_entries < t.capacity
  BY <1>3, SetGrownIs
<1>5. M = MeaningsOf(E) /\ M2 = MeaningsOf(Held(set')) /\ MeaningsApart(E) /\ "" \in V
  BY DEF SetMembers
<1> HIDE DEF E, t, M, M2, V
<1>6. CASE Lookup(t, o) = 0
  <2> DEFINE v == ""
             e == [key |-> o, val |-> v]
  <2>1. e.key = o /\ v \in V
    BY <1>5
  <2>2. e \notin Held(t)
    <3>1. o.rep \notin RepsOf(Held(t))
      BY <1>1, <1>3, <1>4
    <3> HIDE DEF v
    <3> QED BY <1>4, <1>6, <3>1, NotHeld
  <2>3. set' = Added(t, o, v)
    BY <1>1, <1>6
  <2> HIDE DEF v
  <2>4. Held(set') = E \cup {e}
    <3>1. Held(Added(t, o, v)) = Held(t) \cup {e}
      BY <1>4, <2>1, <2>2, AddedIs
    <3> QED BY <1>4, <2>3, <3>1
  <2>5. k \notin M
    BY <1>4, <1>5, <1>6, LookupFinds
  <2> HIDE DEF e
  <2>6. MeaningsApart(Held(set')) /\ M2 = M \cup {k}
    BY ZenonT(60), <1>5, <2>1, <2>4, <2>5 DEF MeaningsApart, MeaningsOf
  <2>7. SaidAnswer' = [op |-> "insert", res |-> "ok", idx |-> -1]
    <3>1. answer' = Answer("insert", "SET_OK", -1)
      BY <1>1, <1>6 DEF None
    <3>2. Said("SET_OK") = "ok"
      BY SaidIs
    <3> QED BY <3>1, <3>2, SaidNext
  <2>8. AbstractContainers!Insert(Meaning(o))
    BY <1>2, <2>5, <2>6, <2>7, Zenon
       DEF AbstractContainers!Insert, AbstractContainers!Answer, AbstractContainers!None,
           SaidAnswer, SetMembers, MeaningsOf, Held, M, M2
  <2> QED BY <2>6, <2>8
<1>7. CASE Lookup(t, o) # 0
  <2>1. Held(set') = E
    BY <1>1, <1>4, <1>7
  <2>2. k \in M
    BY <1>4, <1>5, <1>7, LookupFinds
  <2>3. M2 = M \cup {k}
    BY <1>5, <2>1, <2>2
  <2>4. SaidAnswer' = [op |-> "insert", res |-> "exists", idx |-> -1]
    BY <1>1, <1>7, SaidIs, SaidNext DEF None
  <2>5. AbstractContainers!Insert(Meaning(o))
    BY <1>2, <2>2, <2>3, <2>4, Zenon
       DEF AbstractContainers!Insert, AbstractContainers!Answer, AbstractContainers!None,
           SaidAnswer, SetMembers, MeaningsOf, Held, M, M2
  <2> QED BY <1>5, <2>1, <2>5
<1> QED BY <1>6, <1>7

\* set_has is Has.
LEMMA HasHas ==
    ASSUME KeysToldApart, IInv, MeaningsApart(Held(set)), NEW o \in Objs, set_has(o)
    PROVE  MeaningsApart(Held(set')) /\ AbstractContainers!Has(Meaning(o))
<1> DEFINE k == Meaning(o)
           M == SetMembers
           V == {""}
<1>1. /\ part = "set" /\ vec' = vec /\ queue' = queue /\ set' = set
      /\ answer' = Answer("has", IF Lookup(set, o) = 0 THEN "false" ELSE "true", None)
  BY DEF set_has, onSet
<1>2. VecContents' = VecContents /\ QueueContents' = QueueContents /\ SetMembers' = SetMembers
  BY <1>1, ContentsSame
<1>3. Table(set, V)
  BY <1>1, SetFacts
<1> HIDE DEF V
<1>4. k \in M <=> Lookup(set, o) # 0
  BY <1>3, LookupFinds DEF SetMembers
<1> HIDE DEF M
<1>5. SaidAnswer' = [op |-> "has", res |-> IF k \in M THEN "true" ELSE "false", idx |-> -1]
  <2>1. answer' = Answer("has", IF k \in M THEN "true" ELSE "false", -1)
    BY <1>1, <1>4 DEF None
  <2>2. CASE k \in M
    BY <2>1, <2>2, SaidIs, SaidNext
  <2>3. CASE k \notin M
    BY <2>1, <2>3, SaidIs, SaidNext
  <2> QED BY <2>2, <2>3
<1>6. AbstractContainers!Has(Meaning(o))
  BY <1>2, <1>5, Zenon
     DEF AbstractContainers!Has, AbstractContainers!Answer, AbstractContainers!None,
         SaidAnswer, SetMembers, MeaningsOf, Held, M
<1> QED BY <1>1, <1>6

\* set_delete is Delete.
LEMMA DeleteDeletes ==
    ASSUME KeysToldApart, IInv, MeaningsApart(Held(set)), NEW o \in Objs, set_delete(o)
    PROVE  MeaningsApart(Held(set')) /\ AbstractContainers!Delete(Meaning(o))
<1> DEFINE E == Held(set)
           k == Meaning(o)
           M == SetMembers
           M2 == SetMembers'
           V == {""}
<1>1. /\ part = "set" /\ vec' = vec /\ queue' = queue
      /\ set' = IF Lookup(set, o) = 0 THEN set
                ELSE [set EXCEPT !.entries[ht_hash(set, o)] = RemoveAt(@, Lookup(set, o)),
                                 !.num_entries = @ - 1]
      /\ answer' = Answer("delete", IF Lookup(set, o) = 0 THEN "SET_INV_KEY" ELSE "SET_OK", None)
  BY DEF set_delete, onSet
<1>2. VecContents' = VecContents /\ QueueContents' = QueueContents
  BY <1>1, ContentsSame
<1>3. Table(set, V)
  BY <1>1, SetFacts
<1>4. M = MeaningsOf(E) /\ M2 = MeaningsOf(Held(set')) /\ MeaningsApart(E) /\ E = Held(set)
  BY DEF SetMembers
<1> HIDE DEF V
<1>5. CASE Lookup(set, o) = 0
  <2>1. k \notin M
    BY <1>3, <1>5, LookupFinds DEF SetMembers
  <2>2. set' = set /\ SetMembers' = SetMembers
    BY <1>1, <1>5, ContentsSame
  <2>3. AbstractContainers!Refused("delete")
    <3> DEFINE r == "SET_INV_KEY"
    <3>1. r \in {"-1", Null, "SET_OOM", "SET_INV_KEY"} /\ answer' = Answer("delete", r, None)
      BY <1>1, <1>5
    <3> HIDE DEF r
    <3> QED BY <1>2, <2>2, <3>1, RefusedIs
  <2>4. AbstractContainers!Delete(Meaning(o))
    <3> HIDE DEF M
    <3> QED BY <2>1, <2>3, Zenon DEF AbstractContainers!Delete, SetMembers, MeaningsOf, Held, M
  <2> QED BY <2>2, <2>4
<1>6. CASE Lookup(set, o) # 0
  <2> DEFINE old == EntryOf(set, o)
  <2>1. old \in E /\ Meaning(old.key) = k /\ k \in M
    BY <1>3, <1>6, LookupFinds DEF SetMembers
  <2>2. Held(set') = E \ {old}
    <3>1. set' = [set EXCEPT !.entries[ht_hash(set, o)] = RemoveAt(@, Lookup(set, o)), !.num_entries = @ - 1]
      BY <1>1, <1>6
    <3> QED BY <1>3, <1>6, <3>1, RemovedIs
  <2> HIDE DEF old, E, M, M2
  <2>3. MeaningsApart(Held(set')) /\ M2 = M \ {k}
    BY <1>4, <2>1, <2>2 DEF MeaningsApart, MeaningsOf
  <2>4. SaidAnswer' = [op |-> "delete", res |-> "ok", idx |-> -1]
    <3>1. answer' = Answer("delete", "SET_OK", -1)
      BY <1>1, <1>6 DEF None
    <3>2. Said("SET_OK") = "ok"
      BY SaidIs
    <3> QED BY <3>1, <3>2, SaidNext
  <2>5. AbstractContainers!Delete(Meaning(o))
    BY <1>2, <2>1, <2>3, <2>4, Zenon
       DEF AbstractContainers!Delete, AbstractContainers!Answer, AbstractContainers!None,
           SaidAnswer, SetMembers, MeaningsOf, Held, M, M2
  <2> QED BY <2>3, <2>5
<1> QED BY <1>5, <1>6

\* set_insert is a refusal when an allocation fails, the resize included.
LEMMA SetOomRefuses ==
    ASSUME IInv, MeaningsApart(Held(set)), NEW o \in Objs,
           set_insert_no_resize(o) \/ set_insert_no_entry(o)
    PROVE  MeaningsApart(Held(set')) /\ AbstractContainers!Refused("insert")
<1>1. /\ part = "set" /\ vec' = vec /\ queue' = queue /\ (set' = set \/ set' = SetGrown)
      /\ \E r \in {"-1", "SET_OOM"} : answer' = Answer("insert", r, None)
  BY DEF set_insert_no_resize, set_insert_no_entry, onSet
<1>2. VecContents' = VecContents /\ QueueContents' = QueueContents
  BY <1>1, ContentsSame
<1>3. Held(set') = Held(set)
  <2>1. Table(set, {""})
    BY <1>1, SetFacts
  <2> QED BY <1>1, <2>1, SetGrownIs
<1>4. SetMembers' = SetMembers
  BY <1>3 DEF SetMembers
<1>5. PICK r \in {"-1", "SET_OOM"} : answer' = Answer("insert", r, None)
  BY <1>1
<1>6. r \in {"-1", Null, "SET_OOM", "SET_INV_KEY"}
  OBVIOUS
<1>7. AbstractContainers!Refused("insert")
  BY <1>2, <1>4, <1>5, <1>6, RefusedIs
<1> QED BY <1>3, <1>7

\* Every step of vector, queue and set is a step of the abstract containers.
LEMMA ContainersSteps ==
    ASSUME KeysToldApart, IInv, MeaningsApart(Held(set)), [CollectionsNext]_collectionVars
    PROVE  /\ MeaningsApart(Held(set'))
           /\ [AbstractContainers!ContainersNext]_(AbstractContainers!containerVars)
<1>1. ASSUME vec' = vec, queue' = queue, set' = set, answer' = answer
      PROVE  /\ MeaningsApart(Held(set'))
             /\ [AbstractContainers!ContainersNext]_(AbstractContainers!containerVars)
  <2>1. VecContents' = VecContents /\ QueueContents' = QueueContents /\ SetMembers' = SetMembers
    BY <1>1, ContentsSame
  <2>2. SaidAnswer' = SaidAnswer
    BY <1>1 DEF SaidAnswer
  <2>3. <<VecContents, QueueContents, SetMembers, SaidAnswer>>'
            = <<VecContents, QueueContents, SetMembers, SaidAnswer>>
    BY <2>1, <2>2
  <2>4. UNCHANGED AbstractContainers!containerVars
    BY <2>3, Zenon DEF AbstractContainers!containerVars, SaidAnswer, SetMembers, MeaningsOf, Held
  <2> QED BY <1>1, <2>4
<1>2. CASE \/ \E o \in Objs : \/ execute_get_command(o) \/ execute_del_command(o)
                              \/ try_insert_oom(o) \/ args_get(o)
           \/ \E o \in Objs, v \in HtVals :
                  execute_set_command(o, v) \/ execute_set_command_oom(o, v) \/ try_insert(o, v)
  <2>1. onDict \/ onArgs
    BY <1>2 DEF execute_get_command, execute_del_command, try_insert_oom, args_get,
                execute_set_command, execute_set_command_oom, try_insert
  <2> QED BY <1>1, <2>1 DEF onDict, onArgs
<1>3. CASE \/ \E o \in Objs, v \in HtVals : cmd_free(o, v)
           \/ lexidb_free \/ clap_free \/ UNCHANGED collectionVars
  <2>1. vec' = vec /\ queue' = queue /\ set' = set /\ answer' = answer
    BY <1>3 DEF cmd_free, lexidb_free, clap_free, collectionVars
  <2> QED BY <1>1, <2>1
<1>4. CASE \/ \E v \in HtVals : vec_push(v) \/ vec_push_oom(v) \/ vec_find(v)
           \/ \E v \in HtVals : queue_enque(v) \/ queue_enque_oom(v)
  <2>1. PICK v \in HtVals : \/ vec_push(v) \/ vec_push_oom(v) \/ vec_find(v)
                            \/ queue_enque(v) \/ queue_enque_oom(v)
    BY <1>4
  <2>2. AbstractContainers!Push(v) \/ AbstractContainers!Find(v) \/ AbstractContainers!Enque(v)
    BY <2>1, PushPushes, FindFinds, EnqueEnques
  <2>3. AbstractContainers!ContainersNext
    BY <2>2, Zenon DEF AbstractContainers!ContainersNext
  <2>4. set' = set
    BY <2>1 DEF vec_push, vec_push_oom, vec_find, onVec, queue_enque, queue_enque_oom, onQueue
  <2> QED BY <2>3, <2>4
<1>5. CASE \E i \in 0 .. vec.len : vec_get_at(i) \/ vec_remove_at(i)
  <2>1. PICK i \in 0 .. vec.len : vec_get_at(i) \/ vec_remove_at(i)
    BY <1>5
  <2>2. AbstractContainers!GetAt(i) \/ AbstractContainers!TakeAt(i)
    BY <2>1, GetAtGets, RemoveAtTakes
  <2>3. i \in 0 .. Len(VecContents)
    BY VecContentsIs DEF VecHolds, IInv
  <2>4. AbstractContainers!ContainersNext
    BY <2>2, <2>3, Zenon DEF AbstractContainers!ContainersNext
  <2>5. set' = set
    BY <2>1 DEF vec_get_at, vec_remove_at, onVec
  <2> QED BY <2>4, <2>5
<1>6. CASE vec_pop \/ queue_deque \/ queue_peek
  <2>1. AbstractContainers!Pop \/ AbstractContainers!Deque \/ AbstractContainers!Peek
    BY <1>6, PopPops, DequeDeques
  <2>2. set' = set
    BY <1>6 DEF vec_pop, onVec, queue_deque, queue_peek, onQueue
  <2> QED BY <2>1, <2>2 DEF AbstractContainers!ContainersNext
<1>7. CASE \/ \E o \in Objs : set_insert(o) \/ set_insert_no_resize(o) \/ set_insert_no_entry(o)
           \/ \E o \in Objs : set_has(o) \/ set_delete(o)
  <2>1. PICK o \in Objs : \/ set_insert(o) \/ set_insert_no_resize(o) \/ set_insert_no_entry(o)
                          \/ set_has(o) \/ set_delete(o)
    BY <1>7
  <2>2. /\ MeaningsApart(Held(set'))
        /\ \/ AbstractContainers!Insert(Meaning(o)) \/ AbstractContainers!Refused("insert")
           \/ AbstractContainers!Has(Meaning(o)) \/ AbstractContainers!Delete(Meaning(o))
    BY <2>1, InsertInserts, SetOomRefuses, HasHas, DeleteDeletes
  <2>3. \/ AbstractContainers!Insert(Meaning(o))
        \/ AbstractContainers!Has(Meaning(o)) \/ AbstractContainers!Delete(Meaning(o))
    BY <2>2 DEF AbstractContainers!Insert
  <2>4. Meaning(o) \in {Meaning(x) : x \in Objs}
    OBVIOUS
  <2>5. AbstractContainers!ContainersNext
    BY <2>3, <2>4, Zenon DEF AbstractContainers!ContainersNext
  <2> QED BY <2>2, <2>5
<1> QED BY <1>2, <1>3, <1>4, <1>5, <1>6, <1>7 DEF CollectionsNext

\* They are empty at the start.
LEMMA ContainersInitially ==
    ASSUME CollectionsInit
    PROVE  MeaningsApart(Held(set)) /\ AbstractContainers!ContainersInit
<1>1. Held(set) = {}
  <2>1. set = ht_new
    BY DEF CollectionsInit
  <2>2. Table(ht_new, {}) /\ Held(ht_new) = {}
    BY HtAssumption, EmptyTable DEF ht_new
  <2> QED BY <2>1, <2>2
<1>2. MeaningsApart(Held(set)) /\ SetMembers = {}
  BY <1>1 DEF MeaningsApart, MeaningsOf, SetMembers
<1>3. IInv
  BY InitInv
<1>4. VecContents = <<>>
  <2>1. VecContents \in Seq(HtVals) /\ Len(VecContents) = vec.len
    BY <1>3, VecContentsIs DEF IInv, VecHolds
  <2>2. vec.len = 0
    BY DEF CollectionsInit
  <2> QED BY <2>1, <2>2, EmptySeq
<1>5. QueueContents = <<>>
  <2>1. QueueContents \in Seq(HtVals) /\ Len(QueueContents) = queue.num_el
    BY <1>3 DEF IInv, QueueInv, LineOf
  <2>2. queue.num_el = 0
    BY DEF CollectionsInit
  <2> QED BY <2>1, <2>2, EmptySeq
<1>6. SaidAnswer = [op |-> "none", res |-> "none", idx |-> -1]
  <2>1. answer = [op |-> "none", res |-> "none", idx |-> -1]
    BY DEF CollectionsInit, Answer, None
  <2>2. Said("none") = "none"
    BY SaidIs
  <2> QED BY <2>1, <2>2 DEF SaidAnswer
<1>7. AbstractContainers!ContainersInit
  BY <1>2, <1>4, <1>5, <1>6, Zenon
     DEF AbstractContainers!ContainersInit, AbstractContainers!Answer, AbstractContainers!None,
         SaidAnswer, SetMembers, MeaningsOf, Held
<1> QED BY <1>2, <1>7

\* Where object_cmp and the hash agree with what keys mean, the vector is a stack
\* that can be indexed, the queue is first in first out and the set is a set,
\* through growth, collisions and failed allocations.
THEOREM CollectionsImplementContainers ==
    ASSUME KeysToldApart
    PROVE  CollectionsSpec => ImplementsContainers
<1> DEFINE SetInv == MeaningsApart(Held(set))
<1>1. CollectionsInit => SetInv /\ AbstractContainers!ContainersInit
  BY ContainersInitially
<1>2. IInv /\ SetInv /\ [CollectionsNext]_collectionVars
         => SetInv' /\ [AbstractContainers!ContainersNext]_(AbstractContainers!containerVars)
  BY ContainersSteps
<1> HIDE DEF SetInv
<1> QED BY <1>1, <1>2, CollectionsInvariant, PTL
    DEF CollectionsSpec, ImplementsContainers, AbstractContainers!ContainersSpec

-----------------------------------------------------------------------------
(* What the defect of the long strings comes down to *)

\* A GET that finds nothing was of a key that is not stored.
LEMMA GetFinds ==
    ASSUME KeysToldApart, IInv, [CollectionsNext]_collectionVars
    PROVE  [result'.op = "get" /\ result'.res = "NULL" =>
               \A i \in DOMAIN InOrder(ht) : Meaning(InOrder(ht)[i].key) # result'.key]_htVars
<1> SUFFICES ASSUME ~UNCHANGED htVars, result'.op = "get", result'.res = "NULL",
                    NEW i \in DOMAIN InOrder(ht)
             PROVE  Meaning(InOrder(ht)[i].key) # result'.key
  OBVIOUS
<1>1. Table(ht, HtVals) /\ Shape(ht, HtVals)
  BY DEF IInv, TablesInv, Table
<1>2. InOrder(ht)[i] \in Held(ht)
  BY DEF Held, ToSet
<1>3. PICK o \in Objs : execute_get_command(o) \/ args_get(o)
  <2>1. ASSUME NEW op, NEW o \in Objs, NEW r, result' = Res(op, o, r) PROVE op = "get"
    BY <2>1 DEF Res
  <2>2. ASSUME NEW o \in Objs, NEW v \in HtVals, execute_set_command(o, v) \/ try_insert(o, v)
        PROVE  FALSE
    <3>1. \E op \in {"insert", "try_insert"} : \E r : result' = Res(op, o, r)
      BY <2>2 DEF execute_set_command, try_insert, ht_insert, ht_try_insert
    <3> QED BY <2>1, <3>1
  <2>3. ASSUME NEW o \in Objs,
               \/ execute_del_command(o) \/ try_insert_oom(o)
               \/ \E v \in HtVals : execute_set_command_oom(o, v)
        PROVE  FALSE
    <3>1. \E op \in {"insert", "try_insert", "delete"} : \E r : result' = Res(op, o, r)
      BY <2>3 DEF execute_del_command, try_insert_oom, execute_set_command_oom, ht_delete, InsertOom
    <3> QED BY <2>1, <3>1
  <2>4. ~(onVec \/ onQueue \/ onSet)
    BY DEF onVec, onQueue, onSet
  <2>5. ~(\/ \E v \in HtVals : vec_push(v) \/ vec_push_oom(v) \/ vec_find(v)
          \/ \E j \in 0 .. vec.len : vec_get_at(j) \/ vec_remove_at(j)
          \/ vec_pop)
    BY <2>4 DEF vec_push, vec_push_oom, vec_find, vec_get_at, vec_remove_at, vec_pop
  <2>6. ~(queue_deque \/ queue_peek \/ \E v \in HtVals : queue_enque(v) \/ queue_enque_oom(v))
    BY <2>4 DEF queue_deque, queue_peek, queue_enque, queue_enque_oom
  <2>7. ~(\/ \E o \in Objs : set_insert(o) \/ set_insert_no_resize(o) \/ set_insert_no_entry(o)
          \/ \E o \in Objs : set_has(o) \/ set_delete(o))
    BY <2>4 DEF set_insert, set_insert_no_resize, set_insert_no_entry, set_has, set_delete
  <2>8. ~(lexidb_free \/ clap_free \/ UNCHANGED collectionVars \/ \E o \in Objs, v \in HtVals : cmd_free(o, v))
    BY DEF lexidb_free, clap_free, cmd_free, collectionVars
  <2> QED BY <2>2, <2>3, <2>5, <2>6, <2>7, <2>8 DEF CollectionsNext
<1>4. result' = Res("get", o, IF Lookup(ht, o) = 0 THEN "NULL" ELSE EntryOf(ht, o).val)
  BY <1>3 DEF execute_get_command, args_get, ht_get, EntryOf
<1>5. result'.key = Meaning(o) /\ result'.res = IF Lookup(ht, o) = 0 THEN "NULL" ELSE EntryOf(ht, o).val
  BY <1>4 DEF Res
<1>6. Lookup(ht, o) # 0 => EntryOf(ht, o).val \in HtVals
  BY <1>1, LookupIs DEF Entry
<1>7. Lookup(ht, o) = 0
  BY <1>5, <1>6, ValuesAssumption DEF Null
<1>8. Meaning(o) \notin MeaningsOf(Held(ht))
  BY <1>1, <1>7, LookupFinds
<1> QED BY <1>2, <1>5, <1>8 DEF MeaningsOf

\* While an equal key is stored a get does not come back empty, as long as object_cmp
\* and the hash agree with what keys mean.  The two copies of a long string, whose
\* hash runs over their addresses, do not.
THEOREM CollectionsGetFinds ==
    ASSUME KeysToldApart
    PROVE  CollectionsSpec => GetFindsStoredKey
<1>1. IInv /\ [CollectionsNext]_collectionVars
        => [result'.op = "get" /\ result'.res = "NULL" =>
               \A i \in DOMAIN InOrder(ht) : Meaning(InOrder(ht)[i].key) # result'.key]_htVars
  BY GetFinds
<1> QED BY <1>1, CollectionsInvariant, PTL DEF CollectionsSpec, GetFindsStoredKey
=============================================================================
