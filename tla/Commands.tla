------------------------------- MODULE Commands -------------------------------
(***************************************************************************)
(* What one command does to the databases and to the connection that sent  *)
(* it: execute_cmd of server.c with the execute_* functions it calls, over *)
(* the collections of db.c's lexidb (dict, vec, queue, set).               *)
(*                                                                         *)
(* A state of the server is a record                                       *)
(*    [db, cmd_executed]                                                   *)
(* and a connection, as far as commands see it, a record                   *)
(*    [authenticated, database_num]  (client->flags, client->database_num).*)
(* Every Execute operator returns the SET of outcomes the code can produce, *)
(* records [st, client, reply]: one when memory suffices, and the ones with *)
(* a failed allocation when OutOfMemory is TRUE.                           *)
(*                                                                         *)
(* Keys and values are opaque: they stand for objects that object_cmp and  *)
(* the hash treat as equal exactly when they are (module HashTable has the *)
(* others).                                                                *)
(***************************************************************************)
EXTENDS Integers, Sequences, FiniteSets, Functions

CONSTANTS
    num_databases,      \* server->num_databases; 0 in the file means default
    Keys, Vals,         \* objects used as keys and as values
    SelectArgs,         \* the integers a SELECT is tried with
    Users, Names,       \* configured users, and names an AUTH is tried with
    Passwords, password, \* password[u]: the configured password of u
    initial_cap,        \* HT_INITIAL_CAP and SET_INITIAL_CAP
    OutOfMemory         \* whether allocations may fail

ASSUME CommandsAssumption ==
    /\ num_databases \in Nat \ {0}
    /\ initial_cap \in Nat \ {0}
    /\ SelectArgs \subseteq Int
    /\ Users \subseteq Names
    /\ password \in [Users -> Passwords]
    /\ OutOfMemory \in BOOLEAN

Dbs == 0 .. (num_databases - 1)

VEC_INITIAL_CAP == 2

\* The commands as parse returns them.  Okc is the "OK" a peer may send,
\* "Illegal" everything parse rejects.
Cmd ==
    [type : {"Illegal", "Okc", "Ping", "Infoc", "Help", "Keys", "Pop", "Deque"}]
    \cup [type : {"Auth"}, username : Names, password : Passwords]
    \cup [type : {"Select"}, value : SelectArgs]
    \cup [type : {"Set"}, key : Keys, value : Vals]
    \cup [type : {"Get", "Del"}, key : Keys]
    \cup [type : {"Push", "Enque", "ZSet", "ZHas", "ZDel"}, value : Vals]

Dicts == UNION {[K -> Vals] : K \in SUBSET Keys}

\* One database: the lexidb struct.  The capacities decide when an insertion
\* has to allocate a larger table.
Lexidb ==
    [dict : Dicts, dict_cap : Nat,
     vec : Seq(Vals), vec_cap : Nat,
     queue : Seq(Vals),
     set : SUBSET Vals, set_cap : Nat]

ServerState == [db : [Dbs -> Lexidb], cmd_executed : Nat]

EmptyDict == [k \in {} |-> 0]

\* lexidb_new: every database starts empty.
lexidb_new ==
    [dict |-> EmptyDict, dict_cap |-> initial_cap,
     vec |-> <<>>, vec_cap |-> VEC_INITIAL_CAP,
     queue |-> <<>>,
     set |-> {}, set_cap |-> initial_cap]

server_new == [db |-> [d \in Dbs |-> lexidb_new], cmd_executed |-> 0]

\* The part of create_client that commands see: calloc leaves flags and
\* database_num 0.
new_client == [authenticated |-> FALSE, database_num |-> 0]

ClientView == [authenticated : BOOLEAN, database_num : Dbs]

-----------------------------------------------------------------------------
(* Replies: what execute_cmd adds to the connection's builder *)

Reply(kind)      == [kind |-> kind]
ValueReply(v)    == [kind |-> "value", value |-> v]
KeysReply(n, K)  == [kind |-> "array", len |-> n, items |-> K]
InfoReply(n, m)  == [kind |-> "info", processed |-> n, connections |-> m]
NoReply          == Reply("no reply")

Outcome(st, c, r) == [st |-> st, client |-> c, reply |-> r]

\* The selected database replaced.
WithDb(st, c, db) == [st EXCEPT !.db = [@ EXCEPT ![c.database_num] = db]]

\* s->cmd_executed++.
Count(st) == [st EXCEPT !.cmd_executed = @ + 1]

\* The reply alone; with the counter; and with a changed database.
Answer(st, c, r)  == Outcome(st, c, r)
Counted(st, c, r) == Outcome(Count(st), c, r)

\* Mutant: the first database is written, whichever is selected.
StoredInFirst(st, c, db, r) == Outcome(WithDb(Count(st), new_client, db), c, r)

Stored(st, c, db, r) == Outcome(WithDb(Count(st), c, db), c, r)

\* Outcomes of an allocation that fails; needed says whether one is made.
IfOom(needed, outcomes) == IF OutOfMemory /\ needed THEN outcomes ELSE {}

DbOf(st, c) == st.db[c.database_num]

Removed(dict, k) == Restrict(dict, DOMAIN dict \ {k})
Updated(dict, k, v) ==
    [x \in DOMAIN dict \cup {k} |-> IF x = k THEN v ELSE dict[x]]

-----------------------------------------------------------------------------
(* Connection commands *)

\* Mutant: a failed AUTH logs the connection out.
ExecuteAuthLogsOut(st, c, cmd) ==
    {IF cmd.username \in Users /\ password[cmd.username] = cmd.password
     THEN Answer(st, [c EXCEPT !.authenticated = TRUE], Reply("OK"))
     ELSE Answer(st, [c EXCEPT !.authenticated = FALSE], Reply("failed to authenticate"))}

\* execute_auth_command: the user must exist and the hashes agree; a failure
\* leaves the connection as it was, authenticated or not.
ExecuteAuth(st, c, cmd) ==
    {IF cmd.username \in Users /\ password[cmd.username] = cmd.password
     THEN Answer(st, [c EXCEPT !.authenticated = TRUE], Reply("OK"))
     ELSE Answer(st, c, Reply("failed to authenticate"))}

\* Mutant: a signed comparison.
ExecuteSelectSigned(st, c, cmd) ==
    {IF cmd.value >= num_databases
     THEN Answer(st, c, Reply("EDBRANGE"))
     ELSE Answer(st, [c EXCEPT !.database_num = cmd.value], Reply("OK"))}

\* db_num is an int64_t compared with a size_t, so a negative argument becomes
\* a huge unsigned one and is refused with the large ones.
ExecuteSelect(st, c, cmd) ==
    {IF cmd.value < 0 \/ cmd.value >= num_databases
     THEN Answer(st, c, Reply("EDBRANGE"))
     ELSE Answer(st, [c EXCEPT !.database_num = cmd.value], Reply("OK"))}

ExecuteInfo(st, c, nclients) ==
    {Counted(st, c, InfoReply(st.cmd_executed, nclients))}

-----------------------------------------------------------------------------
(* The dictionary *)

\* The array header counts the connection's database; the items come from
\* s->db, the first one.
ExecuteKeys(st, c) ==
    LET len == Cardinality(DOMAIN DbOf(st, c).dict)
    IN  {Counted(st, c, IF len = 0 THEN Reply("NONE")
                        ELSE KeysReply(len, DOMAIN st.db[0].dict))}

\* Mutant: the table is never enlarged.
ExecuteSetInPlace(st, c, cmd) ==
    {Stored(st, c, [DbOf(st, c) EXCEPT !.dict = Updated(@, cmd.key, cmd.value)], Reply("OK"))}

\* ht_insert: a full table is enlarged first, even to overwrite a key, and
\* that is the allocation whose failure is reported.
ExecuteSet(st, c, cmd) ==
    LET db   == DbOf(st, c)
        full == Cardinality(DOMAIN db.dict) = db.dict_cap
    IN  {Stored(st, c, [db EXCEPT !.dict = Updated(@, cmd.key, cmd.value),
                                  !.dict_cap = IF full THEN 2 * @ ELSE @],
                Reply("OK"))}
        \cup IfOom(full, {Answer(st, c, Reply("EOOM"))})

ExecuteGet(st, c, cmd) ==
    LET dict == DbOf(st, c).dict
    IN  {IF cmd.key \in DOMAIN dict
         THEN Counted(st, c, ValueReply(dict[cmd.key]))
         ELSE Answer(st, c, Reply("NONE"))}

ExecuteDel(st, c, cmd) ==
    LET db == DbOf(st, c)
    IN  {IF cmd.key \in DOMAIN db.dict
         THEN Stored(st, c, [db EXCEPT !.dict = Removed(@, cmd.key)], Reply("OK"))
         ELSE Answer(st, c, Reply("EINVKEY"))}

-----------------------------------------------------------------------------
(* The stack and the queue *)

ExecutePush(st, c, cmd) ==
    LET db   == DbOf(st, c)
        full == Len(db.vec) = db.vec_cap
    IN  {Stored(st, c, [db EXCEPT !.vec = Append(@, cmd.value),
                                  !.vec_cap = IF full THEN 2 * @ ELSE @],
                Reply("OK"))}
        \cup IfOom(full, {Answer(st, c, Reply("unable to push"))})

ExecutePop(st, c) ==
    LET db == DbOf(st, c)
        n  == Len(db.vec)
    IN  {IF n = 0 THEN Answer(st, c, Reply("NONE"))
         ELSE Stored(st, c, [db EXCEPT !.vec = SubSeq(@, 1, n - 1)],
                     ValueReply(db.vec[n]))}

ExecuteEnque(st, c, cmd) ==
    {Stored(st, c, [DbOf(st, c) EXCEPT !.queue = Append(@, cmd.value)], Reply("OK"))}
    \cup IfOom(TRUE, {Answer(st, c, Reply("failed to enque data"))})

ExecuteDeque(st, c) ==
    LET db == DbOf(st, c)
    IN  {IF db.queue = <<>> THEN Answer(st, c, Reply("NONE"))
         ELSE Stored(st, c, [db EXCEPT !.queue = Tail(@)], ValueReply(Head(db.queue)))}

-----------------------------------------------------------------------------
(* The set *)

\* set_insert returns SET_OOM when the table cannot grow or when the entry of an
\* occupied slot cannot be allocated, and -1 when that of an empty slot cannot.
\* Only SET_OOM is reported: SET_KEY_EXISTS and -1 are answered with OK.
ExecuteZSet(st, c, cmd) ==
    LET db    == DbOf(st, c)
        full  == Cardinality(db.set) >= db.set_cap
        grown == [db EXCEPT !.set_cap = IF full THEN 2 * @ ELSE @]
    IN  {Stored(st, c, [grown EXCEPT !.set = @ \cup {cmd.value}], Reply("OK"))}
        \cup IfOom(full, {Answer(st, c, Reply("EOOM"))})
        \cup IfOom(cmd.value \notin db.set,
                   {Stored(st, c, grown, Reply("OK")),
                    Answer(WithDb(st, c, grown), c, Reply("EOOM"))})

ExecuteZHas(st, c, cmd) ==
    {IF cmd.value \in DbOf(st, c).set
     THEN Counted(st, c, Reply("1"))
     ELSE Answer(st, c, Reply("NONE"))}

ExecuteZDel(st, c, cmd) ==
    LET db == DbOf(st, c)
    IN  {IF cmd.value \in db.set
         THEN Stored(st, c, [db EXCEPT !.set = @ \ {cmd.value}], Reply("OK"))
         ELSE Answer(st, c, Reply("EINVKEY"))}

-----------------------------------------------------------------------------
(* execute_cmd *)

\* The gate in front of the switch: no command but AUTH runs on a connection
\* that has not authenticated.
Gated(c, cmd) == ~c.authenticated /\ cmd.type # "Auth"

Dispatch(st, c, cmd, nclients) ==
    CASE cmd.type = "Okc"    -> {Answer(st, c, NoReply)}
      [] cmd.type = "Ping"   -> {Counted(st, c, Reply("PONG"))}
      [] cmd.type = "Auth"   -> ExecuteAuth(st, c, cmd)
      [] cmd.type = "Infoc"  -> ExecuteInfo(st, c, nclients)
      [] cmd.type = "Select" -> ExecuteSelect(st, c, cmd)
      [] cmd.type = "Keys"   -> ExecuteKeys(st, c)
      [] cmd.type = "Set"    -> ExecuteSet(st, c, cmd)
      [] cmd.type = "Get"    -> ExecuteGet(st, c, cmd)
      [] cmd.type = "Del"    -> ExecuteDel(st, c, cmd)
      [] cmd.type = "Push"   -> ExecutePush(st, c, cmd)
      [] cmd.type = "Pop"    -> ExecutePop(st, c)
      [] cmd.type = "Enque"  -> ExecuteEnque(st, c, cmd)
      [] cmd.type = "Deque"  -> ExecuteDeque(st, c)
      [] cmd.type = "ZSet"   -> ExecuteZSet(st, c, cmd)
      [] cmd.type = "ZHas"   -> ExecuteZHas(st, c, cmd)
      [] cmd.type = "ZDel"   -> ExecuteZDel(st, c, cmd)
      [] OTHER               -> {Answer(st, c, Reply("EINVCMD"))}

execute_cmd(st, c, cmd, nclients) ==
    IF cmd.type = "Illegal" THEN {Answer(st, c, Reply("EINVCMD"))}
    ELSE IF Gated(c, cmd) THEN {Answer(st, c, Reply("EUNAUTHED"))}
    ELSE Dispatch(st, c, cmd, nclients)
=============================================================================
