---------------------------- MODULE MCCollections ----------------------------
(* Keys whose hashes collide in small tables and part in larger ones, and    *)
(* values that only their address tells apart.                               *)
EXTENDS Collections, TLC

CONSTANTS a1, a2, a3, a4

Key(t, v, r) == [type |-> t, val |-> v, rep |-> r]

\* Three keys that collide modulo 2, of which two also modulo 4; one is a long
\* string, of which the parser may allocate a second copy.
MCObjs == {Key("Int", 0, 0), Key("Int", 1, 0), Key("String", "b", 0),
           Key("String", "long", 1), Key("String", "long", 2)}
MCHash ==
    Key("Int", 0, 0) :> 0 @@ Key("Int", 1, 0) :> 2 @@ Key("String", "b", 0) :> 1
    @@ Key("String", "long", 1) :> 4 @@ Key("String", "long", 2) :> 4

\* The copies at their two addresses hash apart.
LongHash == [MCHash EXCEPT ![Key("String", "long", 2)] = 1]

\* The copies of the long string are what tells the two runs apart.
ASSUME KeysCase == KeysToldApart <=> hash = MCHash

Addresses == Permutations(HtVals)
=============================================================================
