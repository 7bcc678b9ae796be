----------------------------- MODULE Store_proofs -----------------------------
(***************************************************************************)
(* Proofs about module Store, for any number of databases, connections,    *)
(* keys and values, with and without failing allocations.                  *)
(***************************************************************************)
EXTENDS Store, Commands_proofs, FiniteSetTheorems

-----------------------------------------------------------------------------
(* Capacities *)

\* CapacityCovers for one database, and what makes it inductive: the collections
\* are finite, and no capacity is 0, which doubling would leave at 0.
DbCovers(db) ==
    /\ IsFiniteSet(DOMAIN db.dict) /\ IsFiniteSet(db.set)
    /\ Cardinality(DOMAIN db.dict) <= db.dict_cap /\ db.dict_cap > 0
    /\ Len(db.vec) <= db.vec_cap /\ db.vec_cap > 0
    /\ Cardinality(db.set) <= db.set_cap /\ db.set_cap > 0

Covers(s) == \A d \in Dbs : DbCovers(s.db[d])

\* The selected database is covered when all are.
LEMMA DbOfCovers ==
    ASSUME NEW s \in ServerState, NEW c \in ClientView, Covers(s)
    PROVE  DbCovers(DbOf(s, c))
BY DEF DbOf, ServerState, ClientView, Covers

\* An answer changes no database.
LEMMA AnswerCovers ==
    ASSUME NEW s \in ServerState, NEW c, NEW r, Covers(s)
    PROVE  Covers(Answer(s, c, r).st) /\ Covers(Counted(s, c, r).st)
<1>1. Covers(Answer(s, c, r).st)
  BY DEF Answer, Outcome
<1>2. Counted(s, c, r).st.db = s.db
  BY CountType DEF Counted, Outcome
<1> QED BY <1>1, <1>2 DEF Covers

\* A covered database may replace the selected one.
LEMMA WithDbCovers ==
    ASSUME NEW s \in ServerState, NEW c \in ClientView, Covers(s),
           NEW db \in Lexidb, DbCovers(db)
    PROVE  Covers(WithDb(s, c, db))
<1>1. WithDb(s, c, db).db = [s.db EXCEPT ![c.database_num] = db]
  BY DEF WithDb, ServerState
<1>2. s.db \in [Dbs -> Lexidb]
  BY DEF ServerState
<1>3. ASSUME NEW d \in Dbs PROVE DbCovers(WithDb(s, c, db).db[d])
  <2>1. WithDb(s, c, db).db[d] \in {db, s.db[d]}
    BY <1>1, <1>2
  <2> QED BY <2>1 DEF Covers
<1> QED BY <1>3 DEF Covers

\* The same for a counted store.
LEMMA StoredCovers ==
    ASSUME NEW s \in ServerState, NEW c \in ClientView, Covers(s),
           NEW db \in Lexidb, DbCovers(db), NEW r
    PROVE  Covers(Stored(s, c, db, r).st)
<1>1. Count(s) \in ServerState /\ Count(s).db = s.db
  BY CountType
<1>2. Covers(Count(s))
  BY <1>1 DEF Covers
<1>3. Stored(s, c, db, r).st = WithDb(Count(s), c, db)
  BY DEF Stored, Outcome
<1> QED BY <1>1, <1>2, <1>3, WithDbCovers

\* A finite set with one element more or less.
LEMMA OneMore ==
    ASSUME NEW S, IsFiniteSet(S), NEW x
    PROVE  /\ Cardinality(S) \in Nat
           /\ IsFiniteSet(S \cup {x}) /\ Cardinality(S \cup {x}) \in Nat
           /\ Cardinality(S \cup {x}) <= Cardinality(S) + 1
           /\ IsFiniteSet(S \ {x}) /\ Cardinality(S \ {x}) \in Nat
           /\ Cardinality(S \ {x}) <= Cardinality(S)
<1>1. Cardinality(S) \in Nat
  BY FS_CardinalityType
<1>2. IsFiniteSet(S \cup {x}) /\ Cardinality(S \cup {x}) <= Cardinality(S) + 1
  <2>1. CASE x \in S
    <3>1. IsFiniteSet(S \cup {x}) /\ Cardinality(S \cup {x}) = Cardinality(S)
      BY <2>1, FS_AddElement, Zenon
    <3> QED BY <1>1, <3>1
  <2>2. CASE x \notin S
    <3>1. IsFiniteSet(S \cup {x}) /\ Cardinality(S \cup {x}) = Cardinality(S) + 1
      BY <2>2, FS_AddElement, Zenon
    <3> QED BY <1>1, <3>1
  <2> QED BY <2>1, <2>2
<1>3. IsFiniteSet(S \ {x}) /\ Cardinality(S \ {x}) <= Cardinality(S)
  BY <1>1, FS_RemoveElement, FS_Subset
<1> QED BY <1>1, <1>2, <1>3, FS_CardinalityType

\* SET and DEL.
LEMMA DictCovers ==
    ASSUME NEW s \in ServerState, NEW c \in ClientView, NEW cmd \in Cmd, Covers(s)
    PROVE  /\ cmd.type = "Set" => \A o \in ExecuteSet(s, c, cmd) : Covers(o.st)
           /\ cmd.type = "Del" => \A o \in ExecuteDel(s, c, cmd) : Covers(o.st)
<1> DEFINE db == DbOf(s, c)
<1>1. db \in Lexidb /\ db.dict \in Dicts /\ DbCovers(db)
  BY DbOfType, DbOfCovers DEF Lexidb
<1>2. ASSUME cmd.type = "Set" PROVE \A o \in ExecuteSet(s, c, cmd) : Covers(o.st)
  <2> DEFINE full == Cardinality(DOMAIN db.dict) = db.dict_cap
             dict == Updated(db.dict, cmd.key, cmd.value)
             cap  == IF full THEN 2 * db.dict_cap ELSE db.dict_cap
             new  == [db EXCEPT !.dict = dict, !.dict_cap = cap]
  <2>1. dict \in Dicts
    BY <1>1, <1>2, CmdFields, DictTypes
  <2>2. DOMAIN dict = DOMAIN db.dict \cup {cmd.key}
    BY DEF Updated
  <2>3. IsFiniteSet(DOMAIN dict) /\ Cardinality(DOMAIN dict) <= cap /\ cap > 0 /\ cap \in Nat
    <3>1. db.dict_cap \in Nat /\ db.dict_cap > 0 /\ IsFiniteSet(DOMAIN db.dict)
          /\ Cardinality(DOMAIN db.dict) <= db.dict_cap
      BY <1>1 DEF DbCovers, Lexidb
    <3>2. /\ IsFiniteSet(DOMAIN dict)
          /\ Cardinality(DOMAIN db.dict) \in Nat /\ Cardinality(DOMAIN dict) \in Nat
          /\ Cardinality(DOMAIN dict) <= Cardinality(DOMAIN db.dict) + 1
      <4> HIDE DEF db, dict
      <4> QED BY <2>2, <3>1, OneMore
    <3> HIDE DEF db, dict
    <3> QED BY <3>1, <3>2
  <2>4. new \in Lexidb /\ DbCovers(new)
    <3> HIDE DEF db, dict, cap
    <3>1. new \in Lexidb
      BY <1>1, <2>1, <2>3, LexidbUpdates
    <3>2. new.dict = dict /\ new.dict_cap = cap /\ new.vec = db.vec /\ new.set = db.set
          /\ new.vec_cap = db.vec_cap /\ new.set_cap = db.set_cap
      BY <1>1 DEF Lexidb
    <3> QED BY <1>1, <2>3, <3>1, <3>2 DEF DbCovers
  <2>5. ExecuteSet(s, c, cmd) \subseteq
            {Stored(s, c, new, Reply("OK")), Answer(s, c, Reply("EOOM"))}
    BY DEF ExecuteSet, IfOom
  <2> HIDE DEF new
  <2> QED BY <2>4, <2>5, StoredCovers, AnswerCovers
<1>3. ASSUME cmd.type = "Del" PROVE \A o \in ExecuteDel(s, c, cmd) : Covers(o.st)
  <2> DEFINE dict == Removed(db.dict, cmd.key)
             new  == [db EXCEPT !.dict = dict]
  <2>1. dict \in Dicts
    BY <1>1, <1>3, CmdFields, DictTypes
  <2>2. DOMAIN dict = DOMAIN db.dict \ {cmd.key}
    BY DEF Removed, Restrict
  <2>3. IsFiniteSet(DOMAIN dict) /\ Cardinality(DOMAIN dict) <= db.dict_cap
    <3>1. db.dict_cap \in Nat /\ IsFiniteSet(DOMAIN db.dict)
          /\ Cardinality(DOMAIN db.dict) <= db.dict_cap
      BY <1>1 DEF DbCovers, Lexidb
    <3>2. /\ IsFiniteSet(DOMAIN dict)
          /\ Cardinality(DOMAIN db.dict) \in Nat /\ Cardinality(DOMAIN dict) \in Nat
          /\ Cardinality(DOMAIN dict) <= Cardinality(DOMAIN db.dict)
      <4> HIDE DEF db, dict
      <4> QED BY <2>2, <3>1, OneMore
    <3> HIDE DEF db, dict
    <3> QED BY <3>1, <3>2
  <2>4. new \in Lexidb /\ DbCovers(new)
    <3> HIDE DEF db, dict
    <3>1. new \in Lexidb
      BY <1>1, <2>1, LexidbUpdates
    <3>2. new.dict = dict /\ new.dict_cap = db.dict_cap /\ new.vec = db.vec /\ new.set = db.set
          /\ new.vec_cap = db.vec_cap /\ new.set_cap = db.set_cap
      BY <1>1 DEF Lexidb
    <3> QED BY <1>1, <2>3, <3>1, <3>2 DEF DbCovers
  <2>5. ExecuteDel(s, c, cmd) \subseteq
            {Stored(s, c, new, Reply("OK")), Answer(s, c, Reply("EINVKEY"))}
    BY DEF ExecuteDel
  <2> HIDE DEF new
  <2> QED BY <2>4, <2>5, StoredCovers, AnswerCovers
<1> QED BY <1>2, <1>3

\* PUSH and POP.
LEMMA VecCovers ==
    ASSUME NEW s \in ServerState, NEW c \in ClientView, NEW cmd \in Cmd, Covers(s)
    PROVE  /\ cmd.type = "Push" => \A o \in ExecutePush(s, c, cmd) : Covers(o.st)
           /\ \A o \in ExecutePop(s, c) : Covers(o.st)
<1> DEFINE db == DbOf(s, c)
<1>1. db \in Lexidb /\ DbCovers(db)
  BY DbOfType, DbOfCovers
<1>2. db.vec \in Seq(Vals) /\ db.vec_cap \in Nat /\ db.vec_cap > 0 /\ Len(db.vec) <= db.vec_cap
  BY <1>1 DEF Lexidb, DbCovers
<1>3. ASSUME NEW vec \in Seq(Vals), NEW cap \in Nat, cap > 0, Len(vec) <= cap
      PROVE  LET new == [db EXCEPT !.vec = vec, !.vec_cap = cap]
             IN  new \in Lexidb /\ DbCovers(new)
  <2> DEFINE new == [db EXCEPT !.vec = vec, !.vec_cap = cap]
  <2> HIDE DEF db
  <2>1. new \in Lexidb
    BY <1>1, LexidbUpdates
  <2>2. new.dict = db.dict /\ new.dict_cap = db.dict_cap /\ new.vec = vec /\ new.set = db.set
        /\ new.vec_cap = cap /\ new.set_cap = db.set_cap
    BY <1>1 DEF Lexidb
  <2> QED BY <1>1, <1>3, <2>1, <2>2 DEF DbCovers
<1>4. ASSUME cmd.type = "Push" PROVE \A o \in ExecutePush(s, c, cmd) : Covers(o.st)
  <2> DEFINE full == Len(db.vec) = db.vec_cap
             vec  == Append(db.vec, cmd.value)
             cap  == IF full THEN 2 * db.vec_cap ELSE db.vec_cap
             new  == [db EXCEPT !.vec = vec, !.vec_cap = cap]
  <2>1. cmd.value \in Vals
    BY <1>4, CmdFields
  <2>2. vec \in Seq(Vals) /\ cap \in Nat /\ cap > 0 /\ Len(vec) <= cap
    <3> HIDE DEF db
    <3> QED BY <1>2, <2>1
  <2>3. new \in Lexidb /\ DbCovers(new)
    <3> HIDE DEF db, vec, cap
    <3> QED BY <1>3, <2>2
  <2>4. ExecutePush(s, c, cmd) \subseteq
            {Stored(s, c, new, Reply("OK")), Answer(s, c, Reply("unable to push"))}
    BY DEF ExecutePush, IfOom
  <2> HIDE DEF new
  <2> QED BY <2>3, <2>4, StoredCovers, AnswerCovers
<1>5. \A o \in ExecutePop(s, c) : Covers(o.st)
  <2> DEFINE n   == Len(db.vec)
             vec == SubSeq(db.vec, 1, n - 1)
             new == [db EXCEPT !.vec = vec]
  <2>1. CASE n = 0
    BY <2>1, AnswerCovers DEF ExecutePop
  <2>2. CASE n # 0
    <3>1. vec \in Seq(Vals) /\ Len(vec) <= db.vec_cap
      <4> HIDE DEF db
      <4> QED BY <1>2, <2>2
    <3>2. [db EXCEPT !.vec = vec, !.vec_cap = db.vec_cap] = new
      <4> HIDE DEF db, vec
      <4> QED BY <1>1 DEF Lexidb
    <3>3. new \in Lexidb /\ DbCovers(new)
      <4> HIDE DEF db, vec
      <4> QED BY <1>2, <1>3, <3>1, <3>2
    <3>4. ExecutePop(s, c) = {Stored(s, c, new, ValueReply(db.vec[n]))}
      BY <2>2 DEF ExecutePop
    <3> HIDE DEF new, db, n
    <3> QED BY <3>3, <3>4, StoredCovers
  <2> QED BY <2>1, <2>2
<1> QED BY <1>4, <1>5

\* ENQUE and DEQUE.
LEMMA QueueCovers ==
    ASSUME NEW s \in ServerState, NEW c \in ClientView, NEW cmd \in Cmd, Covers(s)
    PROVE  /\ cmd.type = "Enque" => \A o \in ExecuteEnque(s, c, cmd) : Covers(o.st)
           /\ \A o \in ExecuteDeque(s, c) : Covers(o.st)
<1> DEFINE db == DbOf(s, c)
<1>1. db \in Lexidb /\ DbCovers(db) /\ db.queue \in Seq(Vals)
  BY DbOfType, DbOfCovers DEF Lexidb
<1>2. ASSUME NEW q \in Seq(Vals)
      PROVE  LET new == [db EXCEPT !.queue = q]
             IN  new \in Lexidb /\ DbCovers(new)
  <2> DEFINE new == [db EXCEPT !.queue = q]
  <2> HIDE DEF db
  <2>1. new \in Lexidb
    BY <1>1, LexidbUpdates
  <2>2. new.dict = db.dict /\ new.dict_cap = db.dict_cap /\ new.vec = db.vec /\ new.set = db.set
        /\ new.vec_cap = db.vec_cap /\ new.set_cap = db.set_cap
    BY <1>1 DEF Lexidb
  <2> QED BY <1>1, <2>1, <2>2 DEF DbCovers
<1>3. ASSUME cmd.type = "Enque" PROVE \A o \in ExecuteEnque(s, c, cmd) : Covers(o.st)
  <2> DEFINE q   == Append(db.queue, cmd.value)
             new == [db EXCEPT !.queue = q]
  <2>1. q \in Seq(Vals)
    BY <1>1, <1>3, CmdFields
  <2>2. new \in Lexidb /\ DbCovers(new)
    <3> HIDE DEF db, q
    <3> QED BY <1>2, <2>1
  <2>3. ExecuteEnque(s, c, cmd) \subseteq
            {Stored(s, c, new, Reply("OK")), Answer(s, c, Reply("failed to enque data"))}
    BY DEF ExecuteEnque, IfOom
  <2> HIDE DEF new
  <2> QED BY <2>2, <2>3, StoredCovers, AnswerCovers
<1>4. \A o \in ExecuteDeque(s, c) : Covers(o.st)
  <2> DEFINE q   == Tail(db.queue)
             new == [db EXCEPT !.queue = q]
  <2>1. CASE db.queue = <<>>
    BY <2>1, AnswerCovers DEF ExecuteDeque
  <2>2. CASE db.queue # <<>>
    <3>1. q \in Seq(Vals)
      <4> HIDE DEF db
      <4> QED BY <1>1, <2>2
    <3>2. new \in Lexidb /\ DbCovers(new)
      <4> HIDE DEF db, q
      <4> QED BY <1>2, <3>1
    <3>3. ExecuteDeque(s, c) = {Stored(s, c, new, ValueReply(Head(db.queue)))}
      BY <2>2 DEF ExecuteDeque
    <3> HIDE DEF new, db
    <3> QED BY <3>2, <3>3, StoredCovers
  <2> QED BY <2>1, <2>2
<1> QED BY <1>3, <1>4

\* ZSET and ZDEL.
LEMMA SetCovers ==
    ASSUME NEW s \in ServerState, NEW c \in ClientView, NEW cmd \in Cmd, Covers(s)
    PROVE  /\ cmd.type = "ZSet" => \A o \in ExecuteZSet(s, c, cmd) : Covers(o.st)
           /\ \A o \in ExecuteZDel(s, c, cmd) : Covers(o.st)
<1> DEFINE db == DbOf(s, c)
<1>1. db \in Lexidb /\ DbCovers(db)
  BY DbOfType, DbOfCovers
<1>2. /\ db.set \in SUBSET Vals /\ IsFiniteSet(db.set) /\ Cardinality(db.set) <= db.set_cap
      /\ db.set_cap \in Nat /\ db.set_cap > 0
  BY <1>1 DEF Lexidb, DbCovers
<1>3. ASSUME NEW S \in SUBSET Vals, IsFiniteSet(S), NEW cap \in Nat, cap > 0,
             Cardinality(S) <= cap
      PROVE  LET new == [db EXCEPT !.set = S, !.set_cap = cap]
             IN  new \in Lexidb /\ DbCovers(new)
  <2> DEFINE new == [db EXCEPT !.set = S, !.set_cap = cap]
  <2> HIDE DEF db
  <2>1. new \in Lexidb
    BY <1>1 DEF Lexidb
  <2>2. new.dict = db.dict /\ new.dict_cap = db.dict_cap /\ new.vec = db.vec /\ new.set = S
        /\ new.vec_cap = db.vec_cap /\ new.set_cap = cap
    BY <1>1 DEF Lexidb
  <2> QED BY <1>1, <1>3, <2>1, <2>2 DEF DbCovers
<1>4. ASSUME cmd.type = "ZSet" PROVE \A o \in ExecuteZSet(s, c, cmd) : Covers(o.st)
  <2> DEFINE full  == Cardinality(db.set) >= db.set_cap
             cap   == IF full THEN 2 * db.set_cap ELSE db.set_cap
             grown == [db EXCEPT !.set_cap = cap]
             new   == [grown EXCEPT !.set = @ \cup {cmd.value}]
             S     == db.set \cup {cmd.value}
  <2>1. S \in SUBSET Vals
    BY <1>2, <1>4, CmdFields
  <2>2. /\ IsFiniteSet(S) /\ Cardinality(S) <= Cardinality(db.set) + 1
        /\ Cardinality(S) \in Nat /\ Cardinality(db.set) \in Nat
    <3> HIDE DEF db
    <3> QED BY <1>2, OneMore
  <2>3. cap \in Nat /\ cap > 0 /\ Cardinality(db.set) <= cap /\ Cardinality(S) <= cap
    <3> HIDE DEF db, S
    <3> QED BY <1>2, <2>2
  <2>4. /\ grown = [db EXCEPT !.set = db.set, !.set_cap = cap]
        /\ new = [db EXCEPT !.set = S, !.set_cap = cap]
    <3> HIDE DEF db, cap
    <3> QED BY <1>1 DEF Lexidb
  <2>5. grown \in Lexidb /\ DbCovers(grown) /\ new \in Lexidb /\ DbCovers(new)
    <3> HIDE DEF db, cap, S, grown, new
    <3> QED BY <1>2, <1>3, <2>1, <2>2, <2>3, <2>4
  <2>6. ExecuteZSet(s, c, cmd) \subseteq
            {Stored(s, c, new, Reply("OK")), Answer(s, c, Reply("EOOM")),
             Stored(s, c, grown, Reply("OK")),
             Answer(WithDb(s, c, grown), c, Reply("EOOM"))}
    BY DEF ExecuteZSet, IfOom
  <2>7. Covers(Answer(WithDb(s, c, grown), c, Reply("EOOM")).st)
    <3> HIDE DEF grown
    <3> QED BY <2>5, WithDbCovers DEF Answer, Outcome
  <2> HIDE DEF new, grown
  <2> QED BY <2>5, <2>6, <2>7, StoredCovers, AnswerCovers
<1>5. \A o \in ExecuteZDel(s, c, cmd) : Covers(o.st)
  <2> DEFINE S   == db.set \ {cmd.value}
             new == [db EXCEPT !.set = S]
  <2>1. S \in SUBSET Vals
    BY <1>2
  <2>2. /\ IsFiniteSet(S) /\ Cardinality(S) <= Cardinality(db.set)
        /\ Cardinality(S) \in Nat /\ Cardinality(db.set) \in Nat
    <3> HIDE DEF db
    <3> QED BY <1>2, OneMore
  <2>3. Cardinality(S) <= db.set_cap
    <3> HIDE DEF db, S
    <3> QED BY <1>2, <2>2
  <2>4. new = [db EXCEPT !.set = S, !.set_cap = db.set_cap]
    <3> HIDE DEF db, S
    <3> QED BY <1>1 DEF Lexidb
  <2>5. new \in Lexidb /\ DbCovers(new)
    <3> HIDE DEF db, S, new
    <3> QED BY <1>2, <1>3, <2>1, <2>2, <2>3, <2>4
  <2>6. ExecuteZDel(s, c, cmd) \subseteq
            {Stored(s, c, new, Reply("OK")), Answer(s, c, Reply("EINVKEY"))}
    BY DEF ExecuteZDel
  <2> HIDE DEF new
  <2> QED BY <2>5, <2>6, StoredCovers, AnswerCovers
<1> QED BY <1>4, <1>5

\* No outcome of a command leaves a collection larger than its table or array.
LEMMA ExecuteCovers ==
    ASSUME NEW s \in ServerState, NEW c \in ClientView, NEW cmd \in Cmd, NEW n,
           Covers(s), NEW o \in execute_cmd(s, c, cmd, n)
    PROVE  Covers(o.st)
<1>1. CASE cmd.type = "Illegal" \/ Gated(c, cmd)
  BY <1>1, AnswerCovers DEF execute_cmd
<1>2. CASE o \in Dispatch(s, c, cmd, n)
  <2>1. \A q \in ExecuteAuth(s, c, cmd) : Covers(q.st)
    BY AnswerCovers DEF ExecuteAuth
  <2>2. \A q \in ExecuteSelect(s, c, cmd) : Covers(q.st)
    BY AnswerCovers DEF ExecuteSelect
  <2>3. \A q \in ExecuteInfo(s, c, n) : Covers(q.st)
    BY AnswerCovers DEF ExecuteInfo
  <2>4. \A q \in ExecuteKeys(s, c) : Covers(q.st)
    BY AnswerCovers DEF ExecuteKeys
  <2>5. \A q \in ExecuteGet(s, c, cmd) : Covers(q.st)
    BY AnswerCovers DEF ExecuteGet
  <2>6. \A q \in ExecuteZHas(s, c, cmd) : Covers(q.st)
    BY AnswerCovers DEF ExecuteZHas
  <2> QED BY <1>2, <2>1, <2>2, <2>3, <2>4, <2>5, <2>6, DictCovers, VecCovers, QueueCovers,
             SetCovers, AnswerCovers DEF Dispatch
<1> QED BY <1>1, <1>2 DEF execute_cmd

-----------------------------------------------------------------------------
(* Refusals *)

\* An outcome whose reply is a refusal leaves all contents and the client alone.
RefusalOK(s, c, o) ==
    o.reply.kind \in Refusals =>
        /\ \A d \in Dbs : Contents(o.st.db[d]) = Contents(s.db[d])
        /\ o.client = c

\* An answer alone may be a refusal.
LEMMA AnswerRefuses ==
    ASSUME NEW s \in ServerState, NEW c, NEW r
    PROVE  RefusalOK(s, c, Answer(s, c, r)) /\ RefusalOK(s, c, Counted(s, c, r))
BY CountType DEF RefusalOK, Answer, Counted, Outcome

\* A reply that is no refusal: nothing is promised.
LEMMA AcceptedOutcome ==
    ASSUME NEW s, NEW c, NEW o, o.reply.kind = "OK" \/ o.reply.kind = "value"
    PROVE  RefusalOK(s, c, o)
<1>1. o.reply.kind \notin Refusals
  BY DEF Refusals
<1> QED BY <1>1 DEF RefusalOK

\* A store is never answered with a refusal.
LEMMA StoredAccepted ==
    ASSUME NEW s, NEW c, NEW db
    PROVE  /\ RefusalOK(s, c, Stored(s, c, db, Reply("OK")))
           /\ \A v : RefusalOK(s, c, Stored(s, c, db, ValueReply(v)))
<1>1. Stored(s, c, db, Reply("OK")).reply.kind = "OK"
  BY DEF Stored, Outcome, Reply
<1>2. \A v : Stored(s, c, db, ValueReply(v)).reply.kind = "value"
  BY DEF Stored, Outcome, ValueReply
<1> QED BY <1>1, <1>2, AcceptedOutcome, Zenon

\* set_insert that grew the table and then found no memory for the entry.
LEMMA GrownRefuses ==
    ASSUME NEW s \in ServerState, NEW c \in ClientView, NEW n, NEW r
    PROVE  LET grown == [DbOf(s, c) EXCEPT !.set_cap = n]
           IN  RefusalOK(s, c, Answer(WithDb(s, c, grown), c, r))
<1> DEFINE grown == [DbOf(s, c) EXCEPT !.set_cap = n]
<1>1. DbOf(s, c) \in Lexidb /\ DbOf(s, c) = s.db[c.database_num]
  BY DbOfType DEF DbOf
<1>2. Contents(grown) = Contents(DbOf(s, c))
  BY <1>1 DEF Contents, Lexidb
<1>3. WithDb(s, c, grown).db = [s.db EXCEPT ![c.database_num] = grown]
  BY DEF WithDb, ServerState
<1>4. s.db \in [Dbs -> Lexidb]
  BY DEF ServerState
<1>5. ASSUME NEW d \in Dbs
      PROVE  Contents(WithDb(s, c, grown).db[d]) = Contents(s.db[d])
  <2> HIDE DEF grown
  <2>1. CASE d = c.database_num
    <3>1. WithDb(s, c, grown).db[d] = grown
      BY <1>3, <1>4, <2>1
    <3>2. s.db[d] = DbOf(s, c)
      BY <1>1, <2>1
    <3> QED BY <1>2, <3>1, <3>2, Zenon
  <2>2. CASE d # c.database_num
    <3>1. WithDb(s, c, grown).db[d] = s.db[d]
      BY <1>3, <1>4, <2>2
    <3> QED BY <3>1, Zenon
  <2> QED BY <2>1, <2>2
<1> QED BY <1>5 DEF RefusalOK, Answer, Outcome

\* Every command, in the order of the switch.
LEMMA DispatchRefuses ==
    ASSUME NEW s \in ServerState, NEW c \in ClientView, NEW cmd, NEW n,
           NEW o \in Dispatch(s, c, cmd, n)
    PROVE  RefusalOK(s, c, o)
<1>1. \A q \in ExecuteAuth(s, c, cmd) : RefusalOK(s, c, q)
  <2>1. \A v : RefusalOK(s, c, Answer(s, v, Reply("OK")))
    <3>1. \A v : Answer(s, v, Reply("OK")).reply.kind = "OK"
      BY DEF Answer, Outcome, Reply
    <3> QED BY <3>1, AcceptedOutcome, Zenon
  <2> QED BY <2>1, AnswerRefuses DEF ExecuteAuth
<1>2. \A q \in ExecuteSelect(s, c, cmd) : RefusalOK(s, c, q)
  <2>1. \A v : RefusalOK(s, c, Answer(s, v, Reply("OK")))
    <3>1. \A v : Answer(s, v, Reply("OK")).reply.kind = "OK"
      BY DEF Answer, Outcome, Reply
    <3> QED BY <3>1, AcceptedOutcome, Zenon
  <2> QED BY <2>1, AnswerRefuses DEF ExecuteSelect
<1>3. /\ \A q \in ExecuteInfo(s, c, n) : RefusalOK(s, c, q)
      /\ \A q \in ExecuteKeys(s, c) : RefusalOK(s, c, q)
      /\ \A q \in ExecuteGet(s, c, cmd) : RefusalOK(s, c, q)
      /\ \A q \in ExecuteZHas(s, c, cmd) : RefusalOK(s, c, q)
  BY AnswerRefuses DEF ExecuteInfo, ExecuteKeys, ExecuteGet, ExecuteZHas
<1>4. /\ \A q \in ExecuteSet(s, c, cmd) : RefusalOK(s, c, q)
      /\ \A q \in ExecuteDel(s, c, cmd) : RefusalOK(s, c, q)
  BY AnswerRefuses, StoredAccepted DEF ExecuteSet, ExecuteDel, IfOom
<1>5. /\ \A q \in ExecutePush(s, c, cmd) : RefusalOK(s, c, q)
      /\ \A q \in ExecutePop(s, c) : RefusalOK(s, c, q)
  BY AnswerRefuses, StoredAccepted DEF ExecutePush, ExecutePop, IfOom
<1>6. /\ \A q \in ExecuteEnque(s, c, cmd) : RefusalOK(s, c, q)
      /\ \A q \in ExecuteDeque(s, c) : RefusalOK(s, c, q)
  BY AnswerRefuses, StoredAccepted DEF ExecuteEnque, ExecuteDeque, IfOom
<1>7. \A q \in ExecuteZSet(s, c, cmd) : RefusalOK(s, c, q)
  BY AnswerRefuses, StoredAccepted, GrownRefuses DEF ExecuteZSet, IfOom
<1>8. \A q \in ExecuteZDel(s, c, cmd) : RefusalOK(s, c, q)
  BY AnswerRefuses, StoredAccepted DEF ExecuteZDel
<1> QED BY <1>1, <1>2, <1>3, <1>4, <1>5, <1>6, <1>7, <1>8, AnswerRefuses DEF Dispatch

\* A refusal by execute_cmd leaves everything visible as it was.
LEMMA ExecuteRefuses ==
    ASSUME NEW s \in ServerState, NEW c \in ClientView, NEW cmd, NEW n,
           NEW o \in execute_cmd(s, c, cmd, n)
    PROVE  RefusalOK(s, c, o)
BY DispatchRefuses, AnswerRefuses DEF execute_cmd

-----------------------------------------------------------------------------
(* Steps of a connection *)

\* A step of a connection is one of execute_cmd's outcomes.
LEMMA ExecuteStep ==
    ASSUME StoreTypeOK, NEW c \in Conns, NEW cmd \in CmdsTried, Execute(c, cmd)
    PROVE  \E o : /\ OutcomeOK(st, client[c], o)
                  /\ ~client[c].authenticated => o.st = st
                  /\ st' = o.st
                  /\ client' = [client EXCEPT ![c] = o.client]
                  /\ last'.conn = c
                  /\ connected' = connected
<1>1. cmd \in Cmd
  BY StoreAssumption
<1>2. st \in ServerState /\ client[c] \in ClientView
  BY DEF StoreTypeOK
<1>3. PICK o \in execute_cmd(st, client[c], cmd, Cardinality(connected)) :
           /\ st' = o.st
           /\ client' = [client EXCEPT ![c] = o.client]
           /\ last' = [conn |-> c, cmd |-> cmd, reply |-> o.reply]
  BY DEF Execute
<1>4. OutcomeOK(st, client[c], o) /\ (~client[c].authenticated => o.st = st)
  BY <1>1, <1>2, ExecuteOK
<1>5. connected' = connected
  BY DEF Execute
<1> QED BY <1>3, <1>4, <1>5

-----------------------------------------------------------------------------
(* Theorems *)

\* Every step keeps the types.
LEMMA StoreNextTypeOK == StoreTypeOK /\ [StoreNext]_storeVars => StoreTypeOK'
<1> SUFFICES ASSUME StoreTypeOK, [StoreNext]_storeVars PROVE StoreTypeOK'
  OBVIOUS
<1>1. ASSUME NEW c \in Conns, Connect(c) PROVE StoreTypeOK'
  BY <1>1 DEF Connect, StoreTypeOK
<1>2. ASSUME NEW c \in Conns, Disconnect(c) PROVE StoreTypeOK'
  BY <1>2, InitialTypes DEF Disconnect, StoreTypeOK
<1>3. ASSUME NEW c \in Conns, NEW cmd \in CmdsTried, Execute(c, cmd) PROVE StoreTypeOK'
  BY <1>3, ExecuteStep DEF StoreTypeOK, OutcomeOK
<1>4. CASE Shutdown
  BY <1>4, InitialTypes DEF Shutdown, StoreTypeOK
<1>5. CASE UNCHANGED storeVars
  BY <1>5 DEF storeVars, StoreTypeOK
<1> QED BY <1>1, <1>2, <1>3, <1>4, <1>5 DEF StoreNext

\* Whatever commands connections send, with whatever arguments, the databases
\* stay well-formed and every connection's database_num an index into
\* server->db.
THEOREM StoreTypeCorrect == StoreSpec => []StoreTypeOK
<1>1. StoreInit => StoreTypeOK
  BY InitialTypes DEF StoreInit, StoreTypeOK
<1> QED BY <1>1, StoreNextTypeOK, PTL DEF StoreSpec

\* Isolation: a command changes no database but the one its connection has
\* selected, none at all before the connection has logged in, and no other
\* connection's login or selection.
THEOREM StoreIsolation == StoreSpec => OnlyOwnDatabase
<1> DEFINE A == \A c \in Conns : connected' = connected /\ last'.conn = c =>
                   /\ \A d \in Dbs : st'.db[d] # st.db[d] =>
                          d = client[c].database_num /\ client[c].authenticated
                   /\ \A e \in Conns \ {c} : client'[e] = client[e]
<1>1. StoreTypeOK /\ [StoreNext]_storeVars => [A]_storeVars
  <2> SUFFICES ASSUME StoreTypeOK, StoreNext PROVE A
    OBVIOUS
  <2>1. ASSUME NEW b \in Conns, Connect(b) \/ Disconnect(b) PROVE A
    BY <2>1 DEF Connect, Disconnect
  <2>2. ASSUME NEW b \in Conns, NEW cmd \in CmdsTried, Execute(b, cmd) PROVE A
    <3>1. PICK o : /\ OutcomeOK(st, client[b], o)
                   /\ ~client[b].authenticated => o.st = st
                   /\ st' = o.st
                   /\ client' = [client EXCEPT ![b] = o.client]
                   /\ last'.conn = b
      BY <2>2, ExecuteStep
    <3>2. \A d \in Dbs : st'.db[d] # st.db[d] =>
              d = client[b].database_num /\ client[b].authenticated
      BY <3>1 DEF OutcomeOK
    <3>3. \A e \in Conns \ {b} : client'[e] = client[e]
      BY <3>1 DEF StoreTypeOK
    <3> QED BY <3>1, <3>2, <3>3
  <2>3. CASE Shutdown
    BY <2>3 DEF Shutdown
  <2> QED BY <2>1, <2>2, <2>3 DEF StoreNext
<1> QED BY <1>1, StoreTypeCorrect, PTL DEF StoreSpec, OnlyOwnDatabase

\* No table or array is ever written behind its end, in any database, whether or
\* not an allocation failed on the way.
THEOREM StoreCapacityCovers == StoreSpec => []CapacityCovers
<1>1. StoreInit => StoreTypeOK /\ Covers(st)
  <2> SUFFICES ASSUME StoreInit PROVE StoreTypeOK /\ Covers(st)
    OBVIOUS
  <2>1. StoreTypeOK
    BY InitialTypes DEF StoreInit, StoreTypeOK
  <2>2. DbCovers(lexidb_new)
    <3>1. DOMAIN EmptyDict = {}
      BY DEF EmptyDict
    <3>2. IsFiniteSet({}) /\ Cardinality({}) = 0
      BY FS_EmptySet
    <3> QED BY <3>1, <3>2, CommandsAssumption DEF DbCovers, lexidb_new, VEC_INITIAL_CAP
  <2>3. \A d \in Dbs : st.db[d] = lexidb_new
    BY DEF StoreInit, server_new
  <2> QED BY <2>1, <2>2, <2>3, Zenon DEF Covers
<1>2. StoreTypeOK /\ Covers(st) /\ [StoreNext]_storeVars => (StoreTypeOK /\ Covers(st))'
  <2> SUFFICES ASSUME StoreTypeOK, Covers(st), [StoreNext]_storeVars PROVE Covers(st)'
    BY StoreNextTypeOK
  <2>1. ASSUME NEW c \in Conns, Connect(c) \/ Disconnect(c) PROVE Covers(st)'
    BY <2>1 DEF Connect, Disconnect, Covers
  <2>2. ASSUME NEW c \in Conns, NEW cmd \in CmdsTried, Execute(c, cmd) PROVE Covers(st)'
    <3>1. PICK o \in execute_cmd(st, client[c], cmd, Cardinality(connected)) : st' = o.st
      BY <2>2 DEF Execute
    <3>2. st \in ServerState /\ client[c] \in ClientView /\ cmd \in Cmd
      BY StoreAssumption DEF StoreTypeOK
    <3>3. Covers(o.st)
      BY <3>2, ExecuteCovers
    <3> QED BY <3>1, <3>3 DEF Covers
  <2>3. CASE Shutdown \/ UNCHANGED storeVars
    BY <2>3 DEF Shutdown, storeVars, Covers
  <2> QED BY <2>1, <2>2, <2>3 DEF StoreNext
<1>3. Covers(st) => CapacityCovers
  BY DEF Covers, DbCovers, CapacityCovers
<1> QED BY <1>1, <1>2, <1>3, PTL DEF StoreSpec

\* A command that is answered with an error or NONE has no effect that a later
\* command of any connection could see.
THEOREM StoreRefusals == StoreSpec => RefusedMeansUnchanged
<1> DEFINE A == connected' = connected /\ last'.reply.kind \in Refusals =>
                   /\ \A d \in Dbs : Contents(st'.db[d]) = Contents(st.db[d])
                   /\ client' = client
<1>1. StoreTypeOK /\ [StoreNext]_storeVars => [A]_storeVars
  <2> SUFFICES ASSUME StoreTypeOK, StoreNext PROVE A
    OBVIOUS
  <2>1. ASSUME NEW b \in Conns, Connect(b) \/ Disconnect(b) PROVE A
    BY <2>1 DEF Connect, Disconnect
  <2>2. ASSUME NEW b \in Conns, NEW cmd \in CmdsTried, Execute(b, cmd) PROVE A
    <3>1. PICK o \in execute_cmd(st, client[b], cmd, Cardinality(connected)) :
              /\ st' = o.st
              /\ client' = [client EXCEPT ![b] = o.client]
              /\ last' = [conn |-> b, cmd |-> cmd, reply |-> o.reply]
      BY <2>2 DEF Execute
    <3>2. st \in ServerState /\ client[b] \in ClientView
      BY DEF StoreTypeOK
    <3>3. RefusalOK(st, client[b], o)
      BY <3>2, ExecuteRefuses
    <3>4. ASSUME o.reply.kind \in Refusals
          PROVE  /\ \A d \in Dbs : Contents(st'.db[d]) = Contents(st.db[d])
                 /\ client' = client
      <4>1. \A d \in Dbs : Contents(st'.db[d]) = Contents(st.db[d])
        BY <3>1, <3>3, <3>4, Zenon DEF RefusalOK
      <4>2. o.client = client[b]
        BY <3>3, <3>4 DEF RefusalOK
      <4> QED BY <3>1, <4>1, <4>2 DEF StoreTypeOK
    <3>5. last'.reply = o.reply
      BY <3>1
    <3> QED BY <3>4, <3>5
  <2>3. CASE Shutdown
    BY <2>3 DEF Shutdown
  <2> QED BY <2>1, <2>2, <2>3 DEF StoreNext
<1> QED BY <1>1, StoreTypeCorrect, PTL DEF StoreSpec, RefusedMeansUnchanged
=============================================================================
