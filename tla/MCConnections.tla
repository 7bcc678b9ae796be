---------------------------- MODULE MCConnections ----------------------------
(* The server with two or three peers and the commands that tell logins,    *)
(* connections and orders apart.                                             *)
EXTENDS Connections, TLC

CONSTANTS c1, c2, c3, x1, x2, x3, root, right, wrong

MCUsers     == {root}
MCPasswords == {right, wrong}
MCpassword  == [u \in {root} |-> right]
MCSelectArgs == {1}

Login  == [type |-> "Auth", username |-> root, password |-> right]
Denied == [type |-> "Auth", username |-> root, password |-> wrong]
Ping   == [type |-> "Ping"]
Select == [type |-> "Select", value |-> 1]

LoginPing   == {Login, Ping}
LoginSelect == {Login, Select}

Symmetry == Permutations(Conns) \cup Permutations(Cells)
=============================================================================
