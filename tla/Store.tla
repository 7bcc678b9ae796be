-------------------------------- MODULE Store --------------------------------
(***************************************************************************)
(* What the server promises its connections: commands take effect one at a *)
(* time, each completely, on the databases all connections share, and each *)
(* is answered from the state in which it ran.  A connection carries its   *)
(* own login and its own selected database, and both are gone when it is.  *)
(*                                                                         *)
(* Module Connections, with its sockets, buffers and event loop, is shown  *)
(* to implement this one.                                                  *)
(***************************************************************************)
EXTENDS Commands

CONSTANTS
    Conns,          \* connections, each made once
    CmdsTried       \* the commands connections send

ASSUME StoreAssumption == CmdsTried \subseteq Cmd

VARIABLES
    st,         \* the databases and the command counter
    client,     \* client[c]: login and database of connection c
    connected,  \* the connections that are open
    last        \* the last command answered, with its connection and reply

storeVars == <<st, client, connected, last>>

NoCommand == [conn |-> "none", cmd |-> [type |-> "none"], reply |-> NoReply]

StoreInit ==
    /\ st = server_new
    /\ client = [c \in Conns |-> new_client]
    /\ connected = {}
    /\ last = NoCommand

Connect(c) ==
    /\ c \notin connected
    /\ connected' = connected \cup {c}
    /\ UNCHANGED <<st, client, last>>

\* The connection's state goes with it.
Disconnect(c) ==
    /\ c \in connected
    /\ connected' = connected \ {c}
    /\ client' = [client EXCEPT ![c] = new_client]
    /\ UNCHANGED <<st, last>>

\* The server stops, and every connection with it.
Shutdown ==
    /\ connected # {}
    /\ connected' = {}
    /\ client' = [c \in Conns |-> new_client]
    /\ UNCHANGED <<st, last>>

Execute(c, cmd) ==
    /\ c \in connected
    /\ \E o \in execute_cmd(st, client[c], cmd, Cardinality(connected)) :
           /\ last' = [conn |-> c, cmd |-> cmd, reply |-> o.reply]
           /\ st' = o.st
           /\ client' = [client EXCEPT ![c] = o.client]
    /\ UNCHANGED connected

StoreNext ==
    \/ Shutdown
    \/ \E c \in Conns :
           \/ Connect(c)
           \/ Disconnect(c)
           \/ \E cmd \in CmdsTried : Execute(c, cmd)

StoreSpec == StoreInit /\ [][StoreNext]_storeVars

-----------------------------------------------------------------------------

\* The databases stay lexidb structs, the counter a number, and every
\* connection's database_num an index into server->db: execute_cmd indexes the
\* array with it unchecked (server.c:733, 912, 920, 928, 937, 944, 957, 963, 975),
\* whatever integers SELECT was given.
StoreTypeOK ==
    /\ st \in ServerState
    /\ client \in [Conns -> ClientView]
    /\ connected \subseteq Conns

\* No collection holds more than the table or array it was given, whether the
\* allocations of ht_insert, vec_push and set_insert succeeded or failed on the
\* way: the code grows a full table before it looks the key up, and writes
\* behind the last element only after growing.
CapacityCovers ==
    \A d \in Dbs :
        LET db == st.db[d]
        IN  /\ Cardinality(DOMAIN db.dict) <= db.dict_cap
            /\ Len(db.vec) <= db.vec_cap
            /\ Cardinality(db.set) <= db.set_cap

\* What the four collections of a database hold.
Contents(db) == <<db.dict, db.vec, db.queue, db.set>>

Refusals == {"NONE", "EOOM", "EINVKEY", "EINVCMD", "EUNAUTHED", "EDBRANGE",
             "failed to authenticate", "unable to push", "failed to enque data"}

\* A command answered with an error or NONE has changed nothing a later
\* command could read: no database's contents, no login, no selection
\* (the early breaks of execute_cmd, and its callees' failure returns).
RefusedMeansUnchanged ==
    [][connected' = connected /\ last'.reply.kind \in Refusals =>
          /\ \A d \in Dbs : Contents(st'.db[d]) = Contents(st.db[d])
          /\ client' = client]_storeVars

\* A command touches the database its connection had selected and no other,
\* and no other connection's login or selection; and nothing at all on behalf
\* of a connection that has not logged in.
OnlyOwnDatabase ==
    [][\A c \in Conns : connected' = connected /\ last'.conn = c =>
          /\ \A d \in Dbs : st'.db[d] # st.db[d] =>
                 d = client[c].database_num /\ client[c].authenticated
          /\ \A e \in Conns \ {c} : client'[e] = client[e]]_storeVars
=============================================================================
