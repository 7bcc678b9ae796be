---------------------------- MODULE Commands_proofs ----------------------------
(***************************************************************************)
(* Lemmas about module Commands: what execute_cmd may do to the databases  *)
(* and to the connection that sent the command, for any number of          *)
(* databases, keys and values, with and without failing allocations.  The  *)
(* proofs about modules Store and Connections rest on them.                *)
(***************************************************************************)
EXTENDS Commands, TLAPS

-----------------------------------------------------------------------------
(* Outcomes of one command *)

\* What an outcome of a command sent on a connection c may be: well-typed, with
\* every database but c's as it was, and that one too when c has not logged in.
OutcomeOK(s, c, o) ==
    /\ o.st \in ServerState
    /\ o.client \in ClientView
    /\ \A d \in Dbs : o.st.db[d] # s.db[d] => d = c.database_num

\* Counting a command changes no database.
LEMMA CountType ==
    ASSUME NEW s \in ServerState
    PROVE  Count(s) \in ServerState /\ Count(s).db = s.db
BY DEF Count, ServerState

\* Storing into the selected database changes no other.
LEMMA WithDbType ==
    ASSUME NEW s \in ServerState, NEW c \in ClientView, NEW db \in Lexidb
    PROVE  /\ WithDb(s, c, db) \in ServerState
           /\ \A d \in Dbs : WithDb(s, c, db).db[d] # s.db[d] => d = c.database_num
BY DEF WithDb, ServerState, ClientView

\* An answer alone is an outcome.
LEMMA AnswerOK ==
    ASSUME NEW s \in ServerState, NEW c \in ClientView, NEW v \in ClientView, NEW r
    PROVE  OutcomeOK(s, c, Answer(s, v, r))
BY DEF OutcomeOK, Answer, Outcome

\* So is one that is counted.
LEMMA CountedOK ==
    ASSUME NEW s \in ServerState, NEW c \in ClientView, NEW r
    PROVE  OutcomeOK(s, c, Counted(s, c, r))
BY CountType DEF OutcomeOK, Counted, Outcome

\* So is a changed database of the connection's own.
LEMMA StoredOK ==
    ASSUME NEW s \in ServerState, NEW c \in ClientView, NEW db \in Lexidb, NEW r
    PROVE  OutcomeOK(s, c, Stored(s, c, db, r))
<1>1. Count(s) \in ServerState /\ Count(s).db = s.db
  BY CountType
<1>2. /\ WithDb(Count(s), c, db) \in ServerState
      /\ \A d \in Dbs : WithDb(Count(s), c, db).db[d] # s.db[d] => d = c.database_num
  BY <1>1, WithDbType
<1> QED BY <1>2 DEF OutcomeOK, Stored, Outcome

\* The selected database exists.
LEMMA DbOfType ==
    ASSUME NEW s \in ServerState, NEW c \in ClientView
    PROVE  DbOf(s, c) \in Lexidb
BY DEF DbOf, ServerState, ClientView

\* The fields the parser gives each command.
LEMMA CmdFields ==
    ASSUME NEW cmd \in Cmd
    PROVE  /\ cmd.type = "Select" => cmd.value \in SelectArgs
           /\ cmd.type = "Set" => cmd.key \in Keys /\ cmd.value \in Vals
           /\ cmd.type \in {"Get", "Del"} => cmd.key \in Keys
           /\ cmd.type \in {"Push", "Enque", "ZSet", "ZHas", "ZDel"} => cmd.value \in Vals
BY DEF Cmd


\* A lexidb struct with one of its collections replaced is one again.
LEMMA LexidbUpdates ==
    ASSUME NEW db \in Lexidb
    PROVE  /\ \A f \in Dicts : [db EXCEPT !.dict = f] \in Lexidb
           /\ \A f \in Dicts, n \in Nat : [db EXCEPT !.dict = f, !.dict_cap = n] \in Lexidb
           /\ \A q \in Seq(Vals) : [db EXCEPT !.vec = q] \in Lexidb
           /\ \A q \in Seq(Vals), n \in Nat : [db EXCEPT !.vec = q, !.vec_cap = n] \in Lexidb
           /\ \A q \in Seq(Vals) : [db EXCEPT !.queue = q] \in Lexidb
BY DEF Lexidb

\* Insertion and removal keep a dictionary a dictionary.
LEMMA DictTypes ==
    ASSUME NEW f \in Dicts, NEW k \in Keys
    PROVE  /\ \A v \in Vals : Updated(f, k, v) \in Dicts
           /\ Removed(f, k) \in Dicts
           /\ k \in DOMAIN f => f[k] \in Vals
<1>1. PICK K \in SUBSET Keys : f \in [K -> Vals]
  BY DEF Dicts
<1>2. ASSUME NEW v \in Vals PROVE Updated(f, k, v) \in [K \cup {k} -> Vals]
  BY <1>1 DEF Updated
<1>3. Removed(f, k) \in [K \ {k} -> Vals]
  BY <1>1 DEF Removed, Restrict
<1>4. K \cup {k} \in SUBSET Keys /\ K \ {k} \in SUBSET Keys
  OBVIOUS
<1> QED BY <1>1, <1>2, <1>3, <1>4 DEF Dicts

-----------------------------------------------------------------------------
(* The commands, one by one *)

\* AUTH, SELECT and INFO.
LEMMA ConnectionCommandsOK ==
    ASSUME NEW s \in ServerState, NEW c \in ClientView, NEW cmd \in Cmd, NEW n
    PROVE  /\ \A o \in ExecuteAuth(s, c, cmd) : OutcomeOK(s, c, o)
           /\ cmd.type = "Select" => \A o \in ExecuteSelect(s, c, cmd) : OutcomeOK(s, c, o)
           /\ \A o \in ExecuteInfo(s, c, n) : OutcomeOK(s, c, o)
<1>1. [c EXCEPT !.authenticated = TRUE] \in ClientView
  BY DEF ClientView
<1>2. \A o \in ExecuteAuth(s, c, cmd) : OutcomeOK(s, c, o)
  BY <1>1, AnswerOK DEF ExecuteAuth
<1>3. ASSUME cmd.type = "Select", ~(cmd.value < 0 \/ cmd.value >= num_databases)
      PROVE  [c EXCEPT !.database_num = cmd.value] \in ClientView
  <2>1. cmd.value \in SelectArgs
    BY <1>3, CmdFields
  <2>2. cmd.value \in Int /\ num_databases \in Nat
    BY <2>1, CommandsAssumption
  <2>3. cmd.value \in Dbs
    BY <1>3, <2>2 DEF Dbs
  <2> QED BY <2>3 DEF ClientView
<1>4. cmd.type = "Select" => \A o \in ExecuteSelect(s, c, cmd) : OutcomeOK(s, c, o)
  BY <1>3, AnswerOK DEF ExecuteSelect
<1>5. \A o \in ExecuteInfo(s, c, n) : OutcomeOK(s, c, o)
  BY CountedOK DEF ExecuteInfo
<1> QED BY <1>2, <1>4, <1>5

\* KEYS, SET, GET and DEL.
LEMMA DictCommandsOK ==
    ASSUME NEW s \in ServerState, NEW c \in ClientView, NEW cmd \in Cmd
    PROVE  /\ \A o \in ExecuteKeys(s, c) : OutcomeOK(s, c, o)
           /\ cmd.type = "Set" => \A o \in ExecuteSet(s, c, cmd) : OutcomeOK(s, c, o)
           /\ cmd.type = "Get" => \A o \in ExecuteGet(s, c, cmd) : OutcomeOK(s, c, o)
           /\ cmd.type = "Del" => \A o \in ExecuteDel(s, c, cmd) : OutcomeOK(s, c, o)
<1> DEFINE db == DbOf(s, c)
<1>1. db \in Lexidb /\ db.dict \in Dicts
  BY DbOfType DEF Lexidb
<1>2. \A o \in ExecuteKeys(s, c) : OutcomeOK(s, c, o)
  BY CountedOK DEF ExecuteKeys
<1>3. ASSUME cmd.type = "Set" PROVE \A o \in ExecuteSet(s, c, cmd) : OutcomeOK(s, c, o)
  <2> DEFINE full == Cardinality(DOMAIN db.dict) = db.dict_cap
             new  == [db EXCEPT !.dict = Updated(@, cmd.key, cmd.value),
                                !.dict_cap = IF full THEN 2 * @ ELSE @]
  <2>1. Updated(db.dict, cmd.key, cmd.value) \in Dicts
    BY <1>1, <1>3, CmdFields, DictTypes
  <2>2. new \in Lexidb
    <3>1. (IF full THEN 2 * db.dict_cap ELSE db.dict_cap) \in Nat
      BY <1>1 DEF Lexidb
    <3> HIDE DEF db, full
    <3> QED BY <1>1, <2>1, <3>1, LexidbUpdates
  <2>3. ExecuteSet(s, c, cmd) \subseteq
            {Stored(s, c, new, Reply("OK")), Answer(s, c, Reply("EOOM"))}
    BY DEF ExecuteSet, IfOom
  <2> HIDE DEF new
  <2> QED BY <2>2, <2>3, StoredOK, AnswerOK
<1>4. \A o \in ExecuteGet(s, c, cmd) : OutcomeOK(s, c, o)
  BY CountedOK, AnswerOK DEF ExecuteGet
<1>5. ASSUME cmd.type = "Del" PROVE \A o \in ExecuteDel(s, c, cmd) : OutcomeOK(s, c, o)
  <2> DEFINE new == [db EXCEPT !.dict = Removed(@, cmd.key)]
  <2>1. Removed(db.dict, cmd.key) \in Dicts
    BY <1>1, <1>5, CmdFields, DictTypes
  <2>2. new \in Lexidb
    <3> HIDE DEF db
    <3> QED BY <1>1, <2>1, LexidbUpdates
  <2>3. ExecuteDel(s, c, cmd) \subseteq
            {Stored(s, c, new, Reply("OK")), Answer(s, c, Reply("EINVKEY"))}
    BY DEF ExecuteDel
  <2> HIDE DEF new
  <2> QED BY <2>2, <2>3, StoredOK, AnswerOK
<1> QED BY <1>2, <1>3, <1>4, <1>5

\* PUSH and POP.
LEMMA VecCommandsOK ==
    ASSUME NEW s \in ServerState, NEW c \in ClientView, NEW cmd \in Cmd
    PROVE  /\ cmd.type = "Push" => \A o \in ExecutePush(s, c, cmd) : OutcomeOK(s, c, o)
           /\ \A o \in ExecutePop(s, c) : OutcomeOK(s, c, o)
<1> DEFINE db == DbOf(s, c)
<1>1. db \in Lexidb
  BY DbOfType
<1>2. ASSUME cmd.type = "Push" PROVE \A o \in ExecutePush(s, c, cmd) : OutcomeOK(s, c, o)
  <2> DEFINE full == Len(db.vec) = db.vec_cap
             new  == [db EXCEPT !.vec = Append(@, cmd.value),
                                !.vec_cap = IF full THEN 2 * @ ELSE @]
  <2>1. cmd.value \in Vals
    BY <1>2, CmdFields
  <2>2. new \in Lexidb
    <3>1. db.vec \in Seq(Vals) /\ (IF full THEN 2 * db.vec_cap ELSE db.vec_cap) \in Nat
      BY <1>1 DEF Lexidb
    <3>2. Append(db.vec, cmd.value) \in Seq(Vals)
      BY <2>1, <3>1
    <3> HIDE DEF db, full
    <3> QED BY <1>1, <3>1, <3>2, LexidbUpdates
  <2>3. ExecutePush(s, c, cmd) \subseteq
            {Stored(s, c, new, Reply("OK")), Answer(s, c, Reply("unable to push"))}
    BY DEF ExecutePush, IfOom
  <2> HIDE DEF new
  <2> QED BY <2>2, <2>3, StoredOK, AnswerOK
<1>3. \A o \in ExecutePop(s, c) : OutcomeOK(s, c, o)
  <2> DEFINE n   == Len(db.vec)
             new == [db EXCEPT !.vec = SubSeq(@, 1, n - 1)]
  <2>1. CASE n = 0
    BY <2>1, AnswerOK DEF ExecutePop
  <2>2. CASE n # 0
    <3>1. new \in Lexidb
      <4>1. db.vec \in Seq(Vals) /\ n \in Nat
        BY <1>1 DEF Lexidb
      <4>2. SubSeq(db.vec, 1, n - 1) \in Seq(Vals)
        <5> HIDE DEF db
        <5> QED BY <4>1, <2>2
      <4> HIDE DEF db, n
      <4> QED BY <1>1, <4>2, LexidbUpdates
    <3>2. ExecutePop(s, c) = {Stored(s, c, new, ValueReply(db.vec[n]))}
      BY <2>2 DEF ExecutePop
    <3> HIDE DEF new, db, n
    <3> QED BY <3>1, <3>2, StoredOK
  <2> QED BY <2>1, <2>2
<1> QED BY <1>2, <1>3

\* ENQUE and DEQUE.
LEMMA QueueCommandsOK ==
    ASSUME NEW s \in ServerState, NEW c \in ClientView, NEW cmd \in Cmd
    PROVE  /\ cmd.type = "Enque" => \A o \in ExecuteEnque(s, c, cmd) : OutcomeOK(s, c, o)
           /\ \A o \in ExecuteDeque(s, c) : OutcomeOK(s, c, o)
<1> DEFINE db == DbOf(s, c)
<1>1. db \in Lexidb
  BY DbOfType
<1>2. ASSUME cmd.type = "Enque"
      PROVE  \A o \in ExecuteEnque(s, c, cmd) : OutcomeOK(s, c, o)
  <2> DEFINE new == [db EXCEPT !.queue = Append(@, cmd.value)]
  <2>1. cmd.value \in Vals
    BY <1>2, CmdFields
  <2>2. new \in Lexidb
    <3>1. db.queue \in Seq(Vals)
      BY <1>1 DEF Lexidb
    <3>2. Append(db.queue, cmd.value) \in Seq(Vals)
      BY <2>1, <3>1
    <3> HIDE DEF db
    <3> QED BY <1>1, <3>2, LexidbUpdates
  <2>3. ExecuteEnque(s, c, cmd) \subseteq
            {Stored(s, c, new, Reply("OK")), Answer(s, c, Reply("failed to enque data"))}
    BY DEF ExecuteEnque, IfOom
  <2> HIDE DEF new
  <2> QED BY <2>2, <2>3, StoredOK, AnswerOK
<1>3. \A o \in ExecuteDeque(s, c) : OutcomeOK(s, c, o)
  <2> DEFINE new == [db EXCEPT !.queue = Tail(@)]
  <2>1. CASE db.queue = <<>>
    BY <2>1, AnswerOK DEF ExecuteDeque
  <2>2. CASE db.queue # <<>>
    <3>1. new \in Lexidb
      <4>1. db.queue \in Seq(Vals)
        BY <1>1 DEF Lexidb
      <4>2. Tail(db.queue) \in Seq(Vals)
        BY <2>2, <4>1
      <4> HIDE DEF db
      <4> QED BY <1>1, <4>2, LexidbUpdates
    <3>2. ExecuteDeque(s, c) = {Stored(s, c, new, ValueReply(Head(db.queue)))}
      BY <2>2 DEF ExecuteDeque
    <3> HIDE DEF new, db
    <3> QED BY <3>1, <3>2, StoredOK
  <2> QED BY <2>1, <2>2
<1> QED BY <1>2, <1>3

\* ZSET, ZHAS and ZDEL.
LEMMA SetCommandsOK ==
    ASSUME NEW s \in ServerState, NEW c \in ClientView, NEW cmd \in Cmd
    PROVE  /\ cmd.type = "ZSet" => \A o \in ExecuteZSet(s, c, cmd) : OutcomeOK(s, c, o)
           /\ \A o \in ExecuteZHas(s, c, cmd) : OutcomeOK(s, c, o)
           /\ \A o \in ExecuteZDel(s, c, cmd) : OutcomeOK(s, c, o)
<1> DEFINE db == DbOf(s, c)
<1>1. db \in Lexidb
  BY DbOfType
<1>2. ASSUME cmd.type = "ZSet" PROVE \A o \in ExecuteZSet(s, c, cmd) : OutcomeOK(s, c, o)
  <2> DEFINE full  == Cardinality(db.set) >= db.set_cap
             grown == [db EXCEPT !.set_cap = IF full THEN 2 * @ ELSE @]
             new   == [grown EXCEPT !.set = @ \cup {cmd.value}]
  <2>1. cmd.value \in Vals
    BY <1>2, CmdFields
  <2>2. grown \in Lexidb
    <3> HIDE DEF db, full
    <3> QED BY SMTT(60), <1>1 DEF Lexidb
  <2>3. new \in Lexidb
    <3> HIDE DEF grown
    <3> QED BY <2>1, <2>2 DEF Lexidb
  <2>4. ExecuteZSet(s, c, cmd) \subseteq
            {Stored(s, c, new, Reply("OK")), Answer(s, c, Reply("EOOM")),
             Stored(s, c, grown, Reply("OK")),
             Answer(WithDb(s, c, grown), c, Reply("EOOM"))}
    BY DEF ExecuteZSet, IfOom
  <2>5. OutcomeOK(s, c, Answer(WithDb(s, c, grown), c, Reply("EOOM")))
    <3> HIDE DEF grown
    <3> QED BY <2>2, WithDbType DEF OutcomeOK, Answer, Outcome
  <2> HIDE DEF new, grown
  <2> QED BY <2>2, <2>3, <2>4, <2>5, StoredOK, AnswerOK
<1>3. \A o \in ExecuteZHas(s, c, cmd) : OutcomeOK(s, c, o)
  BY CountedOK, AnswerOK DEF ExecuteZHas
<1>4. \A o \in ExecuteZDel(s, c, cmd) : OutcomeOK(s, c, o)
  <2> DEFINE new == [db EXCEPT !.set = @ \ {cmd.value}]
  <2>1. new \in Lexidb
    <3> HIDE DEF db
    <3> QED BY <1>1 DEF Lexidb
  <2>2. ExecuteZDel(s, c, cmd) \subseteq
            {Stored(s, c, new, Reply("OK")), Answer(s, c, Reply("EINVKEY"))}
    BY DEF ExecuteZDel
  <2> HIDE DEF new
  <2> QED BY <2>1, <2>2, StoredOK, AnswerOK
<1> QED BY <1>2, <1>3, <1>4

-----------------------------------------------------------------------------
(* execute_cmd *)

\* execute_cmd as a whole; before login it changes nothing.
LEMMA ExecuteOK ==
    ASSUME NEW s \in ServerState, NEW c \in ClientView, NEW cmd \in Cmd, NEW n,
           NEW o \in execute_cmd(s, c, cmd, n)
    PROVE  /\ OutcomeOK(s, c, o)
           /\ ~c.authenticated => o.st = s
<1>1. CASE cmd.type = "Illegal"
  BY <1>1, AnswerOK DEF execute_cmd, Answer, Outcome
<1>2. CASE cmd.type # "Illegal" /\ Gated(c, cmd)
  BY <1>2, AnswerOK DEF execute_cmd, Answer, Outcome
<1>3. CASE cmd.type # "Illegal" /\ ~Gated(c, cmd)
  <2>1. o \in Dispatch(s, c, cmd, n)
    BY <1>3 DEF execute_cmd
  <2>2. OutcomeOK(s, c, o)
    BY <2>1, ConnectionCommandsOK, DictCommandsOK, VecCommandsOK, QueueCommandsOK,
       SetCommandsOK, AnswerOK, CountedOK DEF Dispatch
  <2>3. ASSUME ~c.authenticated PROVE o.st = s
    <3>1. cmd.type = "Auth"
      BY <1>3, <2>3 DEF Gated
    <3>2. o \in ExecuteAuth(s, c, cmd)
      BY <2>1, <3>1 DEF Dispatch
    <3>3. \E v, r : o = [st |-> s, client |-> v, reply |-> r]
      BY <3>2, Zenon DEF ExecuteAuth, Answer, Outcome
    <3> QED BY <3>3
  <2> QED BY <2>2, <2>3
<1> QED BY <1>1, <1>2, <1>3

\* Every command but AUTH leaves the connection's login alone.
LEMMA DispatchLogin ==
    ASSUME NEW s, NEW c \in ClientView, NEW cmd, NEW n, cmd.type # "Auth",
           NEW o \in Dispatch(s, c, cmd, n)
    PROVE  o.client.authenticated = c.authenticated
<1> DEFINE Same(q) == q.client = c \/ \E v : q.client = [c EXCEPT !.database_num = v]
<1>1. ASSUME NEW t, NEW r, NEW db
      PROVE  Same(Answer(t, c, r)) /\ Same(Counted(t, c, r)) /\ Same(Stored(t, c, db, r))
  BY DEF Answer, Counted, Stored, Outcome
<1>2. ASSUME NEW t, NEW r, NEW v
      PROVE  Same(Answer(t, [c EXCEPT !.database_num = v], r))
  BY DEF Answer, Outcome
<1> HIDE DEF Same
<1>3. \A q \in ExecuteSelect(s, c, cmd) : Same(q)
  BY <1>1, <1>2, Zenon DEF ExecuteSelect
<1>4. \A q \in ExecuteInfo(s, c, n) \cup ExecuteKeys(s, c) : Same(q)
  BY <1>1 DEF ExecuteInfo, ExecuteKeys
<1>5. \A q \in ExecuteSet(s, c, cmd) \cup ExecuteGet(s, c, cmd) \cup ExecuteDel(s, c, cmd) :
          Same(q)
  BY <1>1 DEF ExecuteSet, ExecuteGet, ExecuteDel, IfOom
<1>6. \A q \in ExecutePush(s, c, cmd) \cup ExecutePop(s, c) : Same(q)
  BY <1>1 DEF ExecutePush, ExecutePop, IfOom
<1>7. \A q \in ExecuteEnque(s, c, cmd) \cup ExecuteDeque(s, c) : Same(q)
  BY <1>1 DEF ExecuteEnque, ExecuteDeque, IfOom
<1>8. \A q \in ExecuteZSet(s, c, cmd) \cup ExecuteZHas(s, c, cmd) \cup ExecuteZDel(s, c, cmd) :
          Same(q)
  BY <1>1 DEF ExecuteZSet, ExecuteZHas, ExecuteZDel, IfOom
<1>9. Same(o)
  BY <1>1, <1>3, <1>4, <1>5, <1>6, <1>7, <1>8 DEF Dispatch
<1> QED BY <1>9 DEF Same, ClientView

\* A connection is logged in by an AUTH that is answered with OK and by nothing
\* else, and no command logs it out.
LEMMA ExecuteLogin ==
    ASSUME NEW s, NEW c \in ClientView, NEW cmd, NEW n,
           NEW o \in execute_cmd(s, c, cmd, n)
    PROVE  o.client.authenticated
             <=> c.authenticated \/ (cmd.type = "Auth" /\ o.reply.kind = "OK")
<1>1. CASE cmd.type = "Auth"
  <2>1. o \in ExecuteAuth(s, c, cmd)
    BY <1>1 DEF execute_cmd, Gated, Dispatch
  <2>2. \/ o = Answer(s, [c EXCEPT !.authenticated = TRUE], Reply("OK"))
        \/ o = Answer(s, c, Reply("failed to authenticate"))
    BY <2>1, Zenon DEF ExecuteAuth
  <2>3. [c EXCEPT !.authenticated = TRUE].authenticated = TRUE
    BY DEF ClientView
  <2>4. \/ o.client.authenticated = TRUE /\ o.reply.kind = "OK"
        \/ o.client = c /\ o.reply.kind = "failed to authenticate"
    <3>1. ASSUME NEW v, NEW k, o = Answer(s, v, Reply(k))
          PROVE  o.client = v /\ o.reply.kind = k
      BY <3>1 DEF Answer, Outcome, Reply
    <3> QED BY <2>2, <2>3, <3>1, Zenon
  <2>5. "OK" # "failed to authenticate"
    OBVIOUS
  <2> QED BY <1>1, <2>4, <2>5, Zenon
<1>2. CASE cmd.type # "Auth"
  <2>1. o \in Dispatch(s, c, cmd, n) \/ \E r : o = Answer(s, c, r)
    BY DEF execute_cmd
  <2>2. o.client.authenticated = c.authenticated
    BY <1>2, <2>1, DispatchLogin DEF Answer, Outcome
  <2> QED BY <1>2, <2>2 DEF ClientView
<1> QED BY <1>1, <1>2

\* The selected database is the argument of the last SELECT answered with OK; every
\* other command, and a refused SELECT, leaves it alone.
LEMMA DispatchDatabase ==
    ASSUME NEW s, NEW c \in ClientView, NEW cmd, NEW n, cmd.type # "Select",
           NEW o \in Dispatch(s, c, cmd, n)
    PROVE  o.client.database_num = c.database_num
<1> DEFINE Same(q) == q.client = c \/ q.client = [c EXCEPT !.authenticated = TRUE]
<1>1. ASSUME NEW t, NEW r, NEW db
      PROVE  Same(Answer(t, c, r)) /\ Same(Counted(t, c, r)) /\ Same(Stored(t, c, db, r))
  BY DEF Answer, Counted, Stored, Outcome
<1>2. ASSUME NEW t, NEW r
      PROVE  Same(Answer(t, [c EXCEPT !.authenticated = TRUE], r))
  BY DEF Answer, Outcome
<1> HIDE DEF Same
<1>3. \A q \in ExecuteAuth(s, c, cmd) : Same(q)
  BY <1>1, <1>2, Zenon DEF ExecuteAuth
<1>4. \A q \in ExecuteInfo(s, c, n) \cup ExecuteKeys(s, c) : Same(q)
  BY <1>1 DEF ExecuteInfo, ExecuteKeys
<1>5. \A q \in ExecuteSet(s, c, cmd) \cup ExecuteGet(s, c, cmd) \cup ExecuteDel(s, c, cmd) :
          Same(q)
  BY <1>1 DEF ExecuteSet, ExecuteGet, ExecuteDel, IfOom
<1>6. \A q \in ExecutePush(s, c, cmd) \cup ExecutePop(s, c) : Same(q)
  BY <1>1 DEF ExecutePush, ExecutePop, IfOom
<1>7. \A q \in ExecuteEnque(s, c, cmd) \cup ExecuteDeque(s, c) : Same(q)
  BY <1>1 DEF ExecuteEnque, ExecuteDeque, IfOom
<1>8. \A q \in ExecuteZSet(s, c, cmd) \cup ExecuteZHas(s, c, cmd) \cup ExecuteZDel(s, c, cmd) :
          Same(q)
  BY <1>1 DEF ExecuteZSet, ExecuteZHas, ExecuteZDel, IfOom
<1>9. Same(o)
  BY <1>1, <1>3, <1>4, <1>5, <1>6, <1>7, <1>8 DEF Dispatch
<1> QED BY <1>9 DEF Same, ClientView

LEMMA ExecuteDatabase ==
    ASSUME NEW s, NEW c \in ClientView, NEW cmd, NEW n,
           NEW o \in execute_cmd(s, c, cmd, n)
    PROVE  o.client.database_num
             = IF cmd.type = "Select" /\ o.reply.kind = "OK" THEN cmd.value ELSE c.database_num
<1>1. CASE cmd.type = "Select" /\ o \in ExecuteSelect(s, c, cmd)
  <2>1. \/ o = Answer(s, [c EXCEPT !.database_num = cmd.value], Reply("OK"))
        \/ o = Answer(s, c, Reply("EDBRANGE"))
    BY <1>1, Zenon DEF ExecuteSelect
  <2>2. [c EXCEPT !.database_num = cmd.value].database_num = cmd.value
    BY DEF ClientView
  <2>3. \/ o.client.database_num = cmd.value /\ o.reply.kind = "OK"
        \/ o.client = c /\ o.reply.kind = "EDBRANGE"
    <3>1. ASSUME NEW v, NEW k, o = Answer(s, v, Reply(k))
          PROVE  o.client = v /\ o.reply.kind = k
      BY <3>1 DEF Answer, Outcome, Reply
    <3>2. CASE o = Answer(s, [c EXCEPT !.database_num = cmd.value], Reply("OK"))
      <4>1. o.client = [c EXCEPT !.database_num = cmd.value] /\ o.reply.kind = "OK"
        BY <3>1, <3>2
      <4> QED BY <2>2, <4>1
    <3>3. CASE o = Answer(s, c, Reply("EDBRANGE"))
      BY <3>1, <3>3
    <3> QED BY <2>1, <3>2, <3>3
  <2>4. "OK" # "EDBRANGE"
    OBVIOUS
  <2> QED BY <1>1, <2>3, <2>4, Zenon
<1>2. CASE cmd.type # "Select"
  <2>1. o \in Dispatch(s, c, cmd, n) \/ \E r : o = Answer(s, c, r)
    BY DEF execute_cmd
  <2>2. o.client.database_num = c.database_num
    BY <1>2, <2>1, DispatchDatabase DEF Answer, Outcome
  <2> QED BY <1>2, <2>2
<1>3. CASE cmd.type = "Select" /\ o \notin ExecuteSelect(s, c, cmd)
  <2>1. o.client = c /\ o.reply.kind # "OK"
    BY <1>3 DEF execute_cmd, Gated, Dispatch, Answer, Outcome, Reply
  <2> QED BY <2>1
<1> QED BY <1>1, <1>2, <1>3

-----------------------------------------------------------------------------
(* Initial values *)

\* What server_new and create_client start with.
LEMMA InitialTypes == server_new \in ServerState /\ new_client \in ClientView
<1>1. 0 \in Dbs
  BY CommandsAssumption DEF Dbs
<1>2. EmptyDict \in Dicts
  <2>1. EmptyDict \in [{} -> Vals]
    BY DEF EmptyDict
  <2> QED BY <2>1 DEF Dicts
<1>3. lexidb_new \in Lexidb
  BY <1>2, CommandsAssumption DEF lexidb_new, Lexidb, VEC_INITIAL_CAP
<1>4. server_new \in ServerState
  BY <1>3 DEF server_new, ServerState
<1> QED BY <1>1, <1>4 DEF new_client, ClientView
=============================================================================
