------------------------------- MODULE MCStore -------------------------------
(* Two connections, two databases, every command of execute_cmd. *)
EXTENDS Store

CONSTANTS c1, c2, root, guest, right, wrong, v1, v2, k1, k2,
    MaxExecuted     \* bound on cmd_executed

MCConns      == {c1, c2}
MCUsers      == {root}
MCNames      == {root, guest}
MCPasswords  == {right, wrong}
MCpassword   == [u \in {root} |-> right]

\* Below, at and beyond both ends of the range of databases.
MCSelectArgs == {-1, 0, 1, 2}

\* Store until the counter reaches its bound.
BoundedSpec == StoreInit /\ [][st.cmd_executed < MaxExecuted /\ StoreNext]_storeVars
=============================================================================
