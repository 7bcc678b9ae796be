----------------------------- MODULE Collections -----------------------------
(***************************************************************************)
(* The four collections of a database as the commands of server.c use them *)
(* -- the table of module HashTable (ht.c), the vector (vec.c), the queue  *)
(* (queue.c) and the set (set.c) -- and the memory of the objects in them. *)
(* A fifth is the table of the command line's options (clap.c).  They      *)
(* share nothing, so a behaviour works on one of them, `part'.             *)
(*                                                                         *)
(* The parser allocates a command's arguments, and from then on exactly    *)
(* one place must free each.  A key owns memory when its rep, its pointer, *)
(* is not 0; every value owns memory and is known by its address alone.    *)
(***************************************************************************)
EXTENDS HashTable

CONSTANTS
    Parts,              \* the collections to work on
    VEC_INITIAL_CAP,
    MaxLen,             \* bound: elements of the vector
    MaxOom,             \* bound: allocations that fail
    size_modulus        \* 2^64, the range of size_t

ASSUME CollectionsAssumption ==
    /\ Parts \subseteq {"dict", "args", "vec", "queue", "set"}
    /\ VEC_INITIAL_CAP \in Nat \ {0} /\ MaxLen \in Nat /\ MaxOom \in Nat
    /\ size_modulus \in Nat /\ size_modulus > MaxLen + 1

VARIABLES
    part,       \* the collection worked on, "freed" once it has been freed
    vec,        \* data holds cap slots, the first len of them in use
    queue,      \* a node is known by the element in it: next maps nodes to nodes
    set,        \* a table whose entries have the value ""
    heap,       \* the allocated objects, and whether one was freed twice
    ooms,       \* allocations that failed
    answer      \* of the last call on vec, queue or set

collectionVars == <<htVars, part, vec, queue, set, heap, ooms, answer>>

Answer(op, res, idx) == [op |-> op, res |-> res, idx |-> idx]
None == -1
Null == "NULL"
Zero == "0"

CollectionsInit ==
    /\ Init
    /\ part \in Parts
    /\ vec = [data |-> [i \in 1 .. VEC_INITIAL_CAP |-> Zero], len |-> 0]
    /\ queue = [next |-> <<>>, head |-> Null, tail |-> Null, num_el |-> 0]
    /\ set = ht_new
    /\ heap = [keys |-> {}, vals |-> {}, twice |-> FALSE]
    /\ ooms = 0
    /\ answer = Answer("none", "none", None)

-----------------------------------------------------------------------------
(* The memory of the objects *)

OwnsMemory(o) == o.rep # 0

\* Only arrays and tables differ from themselves (object.c:69-70), and they own memory.
ASSUME KeysAssumption == \A o \in Objs : object_cmp_eq(o, o) \/ OwnsMemory(o)

\* A command is parsed: its key and its value are newly allocated.
FreshKey(o) == o.rep \notin heap.keys
FreshVal(v) == v \notin heap.vals
WithKey(h, o) == IF OwnsMemory(o) THEN [h EXCEPT !.keys = @ \cup {o.rep}] ELSE h
WithVal(h, v) == [h EXCEPT !.vals = @ \cup {v}]

object_free_key(h, o) ==
    IF ~OwnsMemory(o) THEN h
    ELSE [h EXCEPT !.keys = @ \ {o.rep}, !.twice = @ \/ o.rep \notin h.keys]
object_free(h, v) ==
    [h EXCEPT !.vals = @ \ {v}, !.twice = @ \/ v \notin h.vals]

\* An allocation fails, and nobody frees the arguments.
Oom == ooms < MaxOom /\ ooms' = ooms + 1

EntryFreed(h, e) == object_free_key(object_free(h, e.val), e.key)

\* The entry a walk from o's slot finds.
EntryOf(t, o) == t.entries[ht_hash(t, o)][Lookup(t, o)]

-----------------------------------------------------------------------------
(* The table: SET, GET, DEL *)

onDict == part = "dict" /\ UNCHANGED <<part, vec, queue, set, answer>>

\* Mutant: overwriting frees the stored key, which stays, and not the new one.
KeyKept_stored(h, t, o) == object_free_key(object_free(h, EntryOf(t, o).val), EntryOf(t, o).key)

\* Overwriting frees the old value and the new key.
KeyKept(h, t, o) == object_free_key(object_free(h, EntryOf(t, o).val), o)

execute_set_command(o, v) ==
    LET h == WithVal(WithKey(heap, o), v)
        t == Grown(ht)
    IN  /\ onDict /\ FreshKey(o) /\ FreshVal(v)
        /\ ht_insert(o, v)
        /\ heap' = IF Lookup(t, o) = 0 THEN h ELSE KeyKept(h, t, o)
        /\ UNCHANGED ooms

execute_set_command_oom(o, v) ==
    /\ onDict /\ FreshKey(o) /\ FreshVal(v)
    /\ Oom /\ InsertOom(o) /\ result'.op = "insert"
    /\ heap' = WithVal(WithKey(heap, o), v)

execute_get_command(o) ==
    /\ onDict /\ FreshKey(o)
    /\ ht_get(o)
    /\ heap' = object_free_key(WithKey(heap, o), o)
    /\ UNCHANGED ooms

execute_del_command(o) ==
    LET h == WithKey(heap, o)
    IN  /\ onDict /\ FreshKey(o)
        /\ ht_delete(o)
        /\ heap' = object_free_key(IF Lookup(ht, o) = 0 THEN h ELSE EntryFreed(h, EntryOf(ht, o)), o)
        /\ UNCHANGED ooms

-----------------------------------------------------------------------------
(* The options of the command line, a table of their own.  The caller owns the   *)
(* names, and keeps a value that is refused: module Startup has what it does     *)
(* with it.                                                                      *)

onArgs == part = "args" /\ UNCHANGED <<part, vec, queue, set, answer>>

try_insert(o, v) ==
    /\ onArgs /\ ~OwnsMemory(o) /\ FreshVal(v)
    /\ ht_try_insert(o, v)
    /\ heap' = IF result'.res = "HT_OK" THEN WithVal(heap, v) ELSE heap
    /\ UNCHANGED ooms

try_insert_oom(o) ==
    /\ onArgs /\ ~OwnsMemory(o)
    /\ Oom /\ InsertOom(o) /\ result'.op = "try_insert"
    /\ UNCHANGED heap

args_get(o) ==
    /\ onArgs /\ ~OwnsMemory(o)
    /\ ht_get(o)
    /\ UNCHANGED <<heap, ooms>>

\* The names own nothing, so freeing an entry frees its value.
clap_free ==
    /\ part = "args" /\ part' = "freed"
    /\ heap' = FoldLeft(EntryFreed, heap, InOrder(ht))
    /\ UNCHANGED <<htVars, vec, queue, set, ooms, answer>>

-----------------------------------------------------------------------------
(* The vector *)

onVec == part = "vec" /\ UNCHANGED <<htVars, part, queue, set>>

VecContents == SubSeq(vec.data, 1, vec.len)
VecFull     == vec.len = Len(vec.data)
vec_realloc == vec.data \o [i \in 1 .. Len(vec.data) |-> Zero]

\* PUSH, execute_push_command and vec_push.
vec_push(v) ==
    /\ onVec /\ FreshVal(v) /\ vec.len < MaxLen
    /\ vec' = [data |-> [(IF VecFull THEN vec_realloc ELSE vec.data) EXCEPT ![vec.len + 1] = v],
               len  |-> vec.len + 1]
    /\ answer' = Answer("push", "0", None)
    /\ heap' = WithVal(heap, v)
    /\ UNCHANGED ooms

vec_push_oom(v) ==
    /\ onVec /\ FreshVal(v) /\ VecFull
    /\ Oom
    /\ answer' = Answer("push", "-1", None)
    /\ heap' = WithVal(heap, v)
    /\ UNCHANGED vec

\* POP: execute_cmd frees the object once it is in the reply.  The slot keeps
\* the pointer.
vec_pop ==
    /\ onVec /\ UNCHANGED ooms
    /\ IF vec.len = 0 THEN answer' = Answer("pop", "-1", None) /\ UNCHANGED <<vec, heap>>
       ELSE /\ answer' = Answer("pop", vec.data[vec.len], None)
            /\ vec' = [vec EXCEPT !.len = @ - 1]
            /\ heap' = object_free(heap, vec.data[vec.len])

vec_get_at(i) ==
    /\ onVec /\ UNCHANGED <<vec, heap, ooms>>
    /\ answer' = IF i >= vec.len THEN Answer("get_at", Null, None)
                 ELSE Answer("get_at", vec.data[i + 1], i)

\* Mutant: the move ends one slot early.
MovedDown_short(d, i, n) ==
    [j \in DOMAIN d |-> IF j = n + 1 THEN Zero ELSE IF j \in (i + 1) .. (n - 1) THEN d[j + 1] ELSE d[j]]

\* The slots above i move down by one, and slot n, the last, becomes zero.
MovedDown(d, i, n) ==
    [j \in DOMAIN d |-> IF j = n + 1 THEN Zero ELSE IF j \in (i + 1) .. n THEN d[j + 1] ELSE d[j]]

\* The caller frees what it takes out.
vec_remove_at(i) ==
    /\ onVec /\ UNCHANGED ooms
    /\ IF i >= vec.len THEN answer' = Answer("remove_at", "-1", None) /\ UNCHANGED <<vec, heap>>
       ELSE /\ answer' = Answer("remove_at", vec.data[i + 1], i)
            /\ vec' = [data |-> MovedDown(vec.data, i, vec.len - 1), len |-> vec.len - 1]
            /\ heap' = object_free(heap, vec.data[i + 1])

vec_find(v) ==
    /\ onVec /\ UNCHANGED <<vec, heap, ooms>>
    /\ answer' = Answer("find", v, SelectInSeq(VecContents, LAMBDA e : e = v) - 1)

\* Mutant: the last index is taken for the length.
vec_iter_next_short(it) ==
    [cur |-> it.next, next |-> IF it.next_idx >= it.end_idx THEN None ELSE it.next_idx,
     next_idx |-> it.next_idx + 1, end_idx |-> it.end_idx]

\* An element is known by its index, None is NULL.
vec_iter_next(it) ==
    [cur |-> it.next, next |-> IF it.next_idx > it.end_idx THEN None ELSE it.next_idx,
     next_idx |-> it.next_idx + 1, end_idx |-> it.end_idx]

\* vec_iter_new makes the first two calls; the n-th element a loop sees.
VecIterAt(n) ==
    LET it[i \in Nat] ==
            IF i = 0 THEN [cur |-> None, next |-> None, next_idx |-> 0,
                           end_idx |-> (vec.len - 1) % size_modulus]
            ELSE vec_iter_next(it[i - 1])
    IN  it[n + 1].cur

-----------------------------------------------------------------------------
(* The queue *)

onQueue == part = "queue" /\ UNCHANGED <<htVars, part, vec, set>>

\* Its elements, as queue_free walks them.
QueueContents ==
    LET node[i \in 1 .. queue.num_el] ==
            IF i = 1 THEN queue.head
            ELSE IF node[i - 1] \in DOMAIN queue.next THEN queue.next[node[i - 1]] ELSE Null
    IN  [i \in 1 .. queue.num_el |-> node[i]]

\* The next pointers once node v, the new last one, exists.
Linked(v, last) ==
    [n \in DOMAIN queue.next \cup {v} |->
        IF n = v THEN Null ELSE IF n = last THEN v ELSE queue.next[n]]

\* Mutant: the count is compared before it is incremented.
queue_enque_early(v) ==
    /\ onQueue /\ FreshVal(v)
    /\ queue' = [next |-> Linked(v, queue.tail), num_el |-> queue.num_el + 1,
                 head |-> IF queue.num_el = 1 THEN v ELSE queue.head, tail |-> v]
    /\ answer' = Answer("enque", "0", None)
    /\ heap' = WithVal(heap, v)
    /\ UNCHANGED ooms

queue_enque(v) ==
    /\ onQueue /\ FreshVal(v)
    /\ queue' = [next |-> Linked(v, queue.tail), num_el |-> queue.num_el + 1,
                 head |-> IF queue.num_el + 1 = 1 THEN v ELSE queue.head, tail |-> v]
    /\ answer' = Answer("enque", "0", None)
    /\ heap' = WithVal(heap, v)
    /\ UNCHANGED ooms

\* qnode_new fails.
queue_enque_oom(v) ==
    /\ onQueue /\ FreshVal(v)
    /\ Oom
    /\ answer' = Answer("enque", "-1", None)
    /\ heap' = WithVal(heap, v)
    /\ UNCHANGED queue

\* DEQUE: as with POP the reply's object is freed.
queue_deque ==
    LET left == [n \in DOMAIN queue.next \ {queue.head} |-> queue.next[n]]
    IN  /\ onQueue /\ UNCHANGED ooms
        /\ IF queue.num_el = 0
           THEN answer' = Answer("deque", "-1", None) /\ UNCHANGED <<queue, heap>>
           ELSE /\ answer' = Answer("deque", queue.head, None)
                /\ queue' = [next |-> left, num_el |-> queue.num_el - 1,
                             head |-> IF queue.num_el = 1 THEN Null ELSE queue.next[queue.head],
                             tail |-> IF queue.num_el = 1 THEN Null ELSE queue.tail]
                /\ heap' = object_free(heap, queue.head)

queue_peek ==
    /\ onQueue /\ UNCHANGED <<queue, heap, ooms>>
    /\ answer' = Answer("peek", IF queue.num_el = 0 THEN Null ELSE queue.head, None)

-----------------------------------------------------------------------------
(* The set: ZSET, ZHAS, ZDEL *)

onSet == part = "set" /\ UNCHANGED <<htVars, part, vec, queue>>

\* set_hash and set_resize repeat ht_hash and ht_resize.
set_resize(t) == ht_resize(t)
SetGrown == IF set.num_entries >= set.capacity THEN set_resize(set) ELSE set

\* A member that exists keeps its place and the argument is freed.
set_insert(o) ==
    LET t == SetGrown
        h == WithKey(heap, o)
    IN  /\ onSet /\ FreshKey(o)
        /\ IF Lookup(t, o) = 0
           THEN set' = Added(t, o, "") /\ answer' = Answer("insert", "SET_OK", None) /\ heap' = h
           ELSE /\ set' = t /\ answer' = Answer("insert", "SET_KEY_EXISTS", None)
                /\ heap' = object_free_key(h, o)
        /\ UNCHANGED ooms

\* set_resize fails.
set_insert_no_resize(o) ==
    /\ onSet /\ FreshKey(o) /\ set.num_entries >= set.capacity
    /\ Oom
    /\ answer' = Answer("insert", "SET_OOM", None)
    /\ heap' = WithKey(heap, o)
    /\ UNCHANGED set

\* set_entry_new fails, in an empty slot with a code that no caller tests.
set_insert_no_entry(o) ==
    LET t == SetGrown
    IN  /\ onSet /\ FreshKey(o) /\ Lookup(t, o) = 0
        /\ Oom
        /\ set' = t
        /\ answer' = Answer("insert", IF t.entries[ht_hash(t, o)] = <<>> THEN "-1" ELSE "SET_OOM", None)
        /\ heap' = WithKey(heap, o)

set_has(o) ==
    /\ onSet /\ FreshKey(o)
    /\ answer' = Answer("has", IF Lookup(set, o) = 0 THEN "false" ELSE "true", None)
    /\ heap' = object_free_key(WithKey(heap, o), o)
    /\ UNCHANGED <<set, ooms>>

set_delete(o) ==
    LET h == WithKey(heap, o)
        i == Lookup(set, o)
    IN  /\ onSet /\ FreshKey(o) /\ UNCHANGED ooms
        /\ IF i = 0
           THEN /\ answer' = Answer("delete", "SET_INV_KEY", None)
                /\ heap' = object_free_key(h, o) /\ UNCHANGED set
           ELSE /\ answer' = Answer("delete", "SET_OK", None)
                /\ heap' = object_free_key(object_free_key(h, EntryOf(set, o).key), o)
                /\ set' = [set EXCEPT !.entries[ht_hash(set, o)] = RemoveAt(@, i),
                                      !.num_entries = @ - 1]

-----------------------------------------------------------------------------

\* A command of a client that has not logged in: its arguments are freed.
cmd_free(o, v) ==
    /\ part \notin {"args", "freed"} /\ FreshKey(o) /\ FreshVal(v)
    /\ heap' = object_free(object_free_key(WithVal(WithKey(heap, o), v), o), v)
    /\ UNCHANGED <<htVars, part, vec, queue, set, ooms, answer>>

\* The collections' memory is gone too, nothing looks at it any more.
lexidb_free ==
    /\ part \notin {"args", "freed"} /\ part' = "freed"
    /\ heap' = CASE part = "dict"  -> FoldLeft(EntryFreed, heap, InOrder(ht))
                 [] part = "vec"   -> FoldLeft(object_free, heap, VecContents)
                 [] part = "queue" -> FoldLeft(object_free, heap, QueueContents)
                 [] part = "set"   -> FoldLeft(LAMBDA h, e : object_free_key(h, e.key), heap, InOrder(set))
    /\ UNCHANGED <<htVars, vec, queue, set, ooms, answer>>

CollectionsNext ==
    \/ \E o \in Objs : execute_get_command(o) \/ execute_del_command(o)
    \/ \E o \in Objs : try_insert_oom(o) \/ args_get(o)
    \/ \E o \in Objs, v \in HtVals :
           \/ execute_set_command(o, v) \/ execute_set_command_oom(o, v)
           \/ try_insert(o, v) \/ cmd_free(o, v)
    \/ \E v \in HtVals : vec_push(v) \/ vec_push_oom(v) \/ vec_find(v)
    \/ \E i \in 0 .. vec.len : vec_get_at(i) \/ vec_remove_at(i)
    \/ vec_pop \/ queue_deque \/ queue_peek \/ lexidb_free \/ clap_free
    \/ \E v \in HtVals : queue_enque(v) \/ queue_enque_oom(v)
    \/ \E o \in Objs : set_insert(o) \/ set_insert_no_resize(o) \/ set_insert_no_entry(o)
    \/ \E o \in Objs : set_has(o) \/ set_delete(o)

CollectionsSpec == CollectionsInit /\ [][CollectionsNext]_collectionVars

-----------------------------------------------------------------------------
(* Properties *)

\* The set's table is counted and hashed right, whatever resizes it went
\* through, and the queue's nodes are exactly those between head and tail.
CollectionsTypeOK ==
    /\ TypeOK
    /\ set.num_entries = Len(InOrder(set)) /\ set.num_entries <= set.capacity
    /\ \A s \in 0 .. (set.capacity - 1) : \A i \in DOMAIN set.entries[s] :
           ht_hash(set, set.entries[s][i].key) = s
    /\ vec.len <= Len(vec.data)
    /\ DOMAIN queue.next = ToSet(QueueContents)
    /\ queue.tail = IF queue.num_el = 0 THEN Null ELSE Last(QueueContents)

HeldKeys == {e.key : e \in ToSet(InOrder(ht)) \cup ToSet(InOrder(set))}
HeldVals == {e.val : e \in ToSet(InOrder(ht))} \cup ToSet(VecContents) \cup ToSet(QueueContents)

\* Every object of a collection is allocated, none is freed twice, and what is
\* allocated without being in a collection is the arguments of insertions that
\* ran out of memory; after lexidb_free nothing else is left (server.c:908-992,
\* 1029-1080, 441-450).
OwnedOnce ==
    LET keys == {o.rep : o \in {k \in HeldKeys : OwnsMemory(k)}}
        kept == Cardinality(heap.keys) + Cardinality(heap.vals)
    IN  /\ ~heap.twice
        /\ IF part = "freed" THEN kept <= 2 * ooms
           ELSE /\ keys \subseteq heap.keys /\ HeldVals \subseteq heap.vals
                /\ kept <= Cardinality(keys) + Cardinality(HeldVals) + 2 * ooms

\* A loop over a vector that is not empty sees its elements in order and then the
\* end (server.c:405, builder.c:204), and so does a loop over the table.
IteratorsComplete ==
    /\ IterationIsComplete
    /\ vec.len > 0 =>
           \A n \in 1 .. (vec.len + 1) : VecIterAt(n) = IF n > vec.len THEN None ELSE n - 1

\* A value is an address and none of the codes.
ASSUME ValuesAssumption ==
    HtVals \cap {"-1", Null, "SET_OOM", "SET_INV_KEY", "0", "SET_OK", "SET_KEY_EXISTS"} = {}

\* What a result code says.
Said(r) ==
    CASE r \in {"-1", Null, "SET_OOM", "SET_INV_KEY"} -> "refused"
      [] r \in {"0", "SET_OK"}                        -> "ok"
      [] r = "SET_KEY_EXISTS"                         -> "exists"
      [] OTHER                                        -> r

AbstractContainers == INSTANCE Containers WITH
    Elems   <- HtVals,
    Members <- {Meaning(o) : o \in Objs},
    stack   <- VecContents,
    line    <- QueueContents,
    members <- {Meaning(e.key) : e \in ToSet(InOrder(set))},
    answer  <- [answer EXCEPT !.res = Said(@)]

\* The vector is a stack that can be indexed, the queue is first in first out,
\* the set is a set, through growth, collisions and failed allocations.
ImplementsContainers == AbstractContainers!ContainersSpec
=============================================================================
