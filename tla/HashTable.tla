------------------------------ MODULE HashTable ------------------------------
(***************************************************************************)
(* The hash table of ht.c, keyed by objects (object.c): chains hanging from *)
(* an array of slots that doubles when it holds as many entries as slots.  *)
(* Module Collections calls it.                                            *)
(*                                                                         *)
(* An object is [type, val, rep]: what it means is its type and val; rep   *)
(* stands for the bytes of the struct that the meaning does not determine, *)
(* the pointer of a string too long to be kept inline or of an array.  The *)
(* hash runs over the bytes, object_cmp over the meaning.                  *)
(***************************************************************************)
EXTENDS Integers, Sequences, SequencesExt, FiniteSets

CONSTANTS
    Objs,           \* the objects used as keys
    HtVals,         \* values
    hash,           \* siphash of an object's bytes under the table's seed
    HT_INITIAL_CAP,
    int_modulus,    \* 2^32: object_cmp returns the low word of a difference
    HtOutOfMemory   \* whether calloc may fail in ht_resize

ASSUME HtAssumption ==
    /\ hash \in [Objs -> Nat]
    /\ HT_INITIAL_CAP \in Nat \ {0} /\ int_modulus \in Nat \ {0}
    /\ HtOutOfMemory \in BOOLEAN

VARIABLES ht, result

htVars == <<ht, result>>

Meaning(o) == [type |-> o.type, val |-> o.val]

Res(op, o, r) == [op |-> op, key |-> Meaning(o), res |-> r]

\* object_cmp(a, b) = 0.  Int compares the difference cut to an int; Double and
\* Bool compare a with itself; arrays and tables are never equal to anything.
object_cmp_eq(a, b) ==
    /\ a.type = b.type
    /\ CASE a.type = "Int"               -> (a.val - b.val) % int_modulus = 0
         [] a.type \in {"Double", "Bool"} -> TRUE
         [] a.type = "String"            -> a.val = b.val
         [] a.type = "Null"              -> TRUE
         [] OTHER                        -> FALSE

\* The keys for which object_cmp and the hash agree with the meaning: integers
\* that an int tells apart, strings short enough to be kept inline.
KeysToldApart ==
    \A a, b \in Objs : /\ object_cmp_eq(a, b) <=> Meaning(a) = Meaning(b)
                       /\ Meaning(a) = Meaning(b) => hash[a] = hash[b]

ht_hash(t, o) == hash[o] % t.capacity

EmptySlots(cap) == [i \in 0 .. (cap - 1) |-> <<>>]

ht_new == [entries |-> EmptySlots(HT_INITIAL_CAP), num_entries |-> 0,
           capacity |-> HT_INITIAL_CAP]

Init ==
    /\ ht = ht_new
    /\ result = [op |-> "none", key |-> "none", res |-> "none"]

-----------------------------------------------------------------------------
(* Growing *)

\* All entries, slot by slot, each chain from its head.
InOrder(t) == FlattenSeq([i \in 1 .. t.capacity |-> t.entries[i - 1]])

\* ht_resize: the loop takes the entries in that order and puts each at the head
\* of its chain in the new array.
ht_resize(t) ==
    LET cap == 2 * t.capacity
        push(slots, e) == [slots EXCEPT ![hash[e.key] % cap] = <<e>> \o @]
    IN  [entries |-> FoldLeft(push, EmptySlots(cap), InOrder(t)),
         num_entries |-> t.num_entries, capacity |-> cap]

IsFull(t) == t.num_entries = t.capacity

Grown(t) == IF IsFull(t) THEN ht_resize(t) ELSE t

-----------------------------------------------------------------------------
(* The operations *)

\* Mutant: only the head of the chain is compared.
LookupHead(t, o) ==
    LET chain == t.entries[ht_hash(t, o)]
    IN  IF chain # <<>> /\ object_cmp_eq(o, Head(chain).key) THEN 1 ELSE 0

\* The place of o in its chain, 0 when the walk finds nothing.
Lookup(t, o) ==
    SelectInSeq(t.entries[ht_hash(t, o)], LAMBDA e : object_cmp_eq(o, e.key))

\* A new entry at the head of its chain.
Added(t, o, v) ==
    [t EXCEPT !.entries[ht_hash(t, o)] = <<[key |-> o, val |-> v]>> \o @,
              !.num_entries = @ + 1]

\* An existing entry keeps its key and gets the new value.
ht_insert(o, v) ==
    LET t == Grown(ht)
        i == Lookup(t, o)
    IN  /\ ht' = IF i = 0 THEN Added(t, o, v)
                 ELSE [t EXCEPT !.entries[ht_hash(t, o)][i].val = v]
        /\ result' = Res("insert", o, "HT_OK")

ht_try_insert(o, v) ==
    LET t == Grown(ht)
    IN  IF Lookup(t, o) = 0
        THEN ht' = Added(t, o, v) /\ result' = Res("try_insert", o, "HT_OK")
        ELSE ht' = t /\ result' = Res("try_insert", o, "HT_INV_KEY")

\* ht_resize cannot allocate the larger array.
InsertOom(o) ==
    /\ HtOutOfMemory /\ IsFull(ht)
    /\ \E op \in {"insert", "try_insert"} : result' = Res(op, o, "HT_OOM")
    /\ UNCHANGED ht

ht_get(o) ==
    LET i == Lookup(ht, o)
    IN  /\ result' = Res("get", o, IF i = 0 THEN "NULL"
                                   ELSE ht.entries[ht_hash(ht, o)][i].val)
        /\ UNCHANGED ht

ht_delete(o) ==
    LET i == Lookup(ht, o)
    IN  IF i = 0 THEN result' = Res("delete", o, "HT_INV_KEY") /\ UNCHANGED ht
        ELSE /\ ht' = [ht EXCEPT !.entries[ht_hash(ht, o)] = RemoveAt(@, i),
                                 !.num_entries = @ - 1]
             /\ result' = Res("delete", o, "HT_OK")

-----------------------------------------------------------------------------
(* The iterator.  A position is a pair <<slot, place in its chain>>, End     *)
(* stands for NULL.                                                          *)

End == <<-1, 0>>

\* The head of the first chain that is not empty at or after slot i.
FirstFrom(i) ==
    LET used == {j \in i .. (ht.capacity - 1) : ht.entries[j] # <<>>}
    IN  IF used = {} THEN [next |-> End, next_slot |-> ht.capacity]
        ELSE LET j == CHOOSE j \in used : \A k \in used : j <= k
             IN  [next |-> <<j, 1>>, next_slot |-> j]

\* One call of ht_iter_next.
ht_iter_next(it) ==
    LET to(n) == [cur |-> it.next, next |-> n.next, next_slot |-> n.next_slot]
    IN  IF it.next_slot = ht.capacity THEN [it EXCEPT !.cur = it.next, !.next = End]
        ELSE IF it.next_slot = 0 /\ it.next = End THEN to(FirstFrom(0))
        ELSE IF it.next[2] < Len(ht.entries[it.next[1]])
        THEN [it EXCEPT !.cur = it.next, !.next = <<it.next[1], it.next[2] + 1>>]
        ELSE to(FirstFrom(it.next_slot + 1))

\* ht_iter_new makes the first two calls; the n-th position a loop sees.
IterAt(n) ==
    LET it[i \in Nat] == IF i = 0 THEN [cur |-> End, next |-> End, next_slot |-> 0]
                         ELSE ht_iter_next(it[i - 1])
    IN  it[n + 1].cur

-----------------------------------------------------------------------------

\* The table is counted right and every entry hangs in the slot its key hashes
\* to under the current capacity, whatever resizes it went through.
TypeOK ==
    /\ ht.num_entries = Len(InOrder(ht))
    /\ ht.num_entries <= ht.capacity
    /\ \A s \in 0 .. (ht.capacity - 1) : \A i \in DOMAIN ht.entries[s] :
           ht.entries[s][i].key \in Objs /\ ht_hash(ht, ht.entries[s][i].key) = s

\* A loop over the iterator sees every entry of the table once, in order, and
\* then the end (KEYS, server.c:741-748).
IterationIsComplete ==
    LET all == InOrder(ht)
    IN  /\ \A n \in 1 .. Len(all) :
               LET p == IterAt(n) IN p # End /\ ht.entries[p[1]][p[2]] = all[n]
        /\ IterAt(Len(all) + 1) = End

\* "Get the value associated with a key." (cmds/get.json): while an equal key is
\* stored, a get does not come back empty.
GetFindsStoredKey ==
    [][result'.op = "get" /\ result'.res = "NULL" =>
          \A i \in DOMAIN InOrder(ht) : Meaning(InOrder(ht)[i].key) # result'.key]_htVars

Stored(k) == {i \in DOMAIN InOrder(ht) : Meaning(InOrder(ht)[i].key) = k}

Abstract == INSTANCE Dict WITH
    DictKeys <- {Meaning(o) : o \in Objs},
    DictVals <- HtVals,
    dict     <- [k \in {Meaning(InOrder(ht)[i].key) : i \in DOMAIN InOrder(ht)} |->
                     InOrder(ht)[CHOOSE i \in Stored(k) : TRUE].val]

\* The table is a dictionary, through collisions, resizes and refused
\* allocations.
ImplementsDict == Abstract!DictSpec
=============================================================================
