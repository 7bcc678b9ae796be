--------------------------------- MODULE Dict ---------------------------------
(***************************************************************************)
(* What a dictionary promises (cmds/set.json, get.json, del.json): a       *)
(* partial function from keys to values, and the result of the last call.  *)
(* ht_try_insert is the insertion that refuses a present key.              *)
(***************************************************************************)
EXTENDS Functions

CONSTANTS DictKeys, DictVals

VARIABLES dict, result

dictVars == <<dict, result>>

Result(op, k, r) == [op |-> op, key |-> k, res |-> r]
NoResult         == Result("none", "none", "none")

DictInit == dict = [k \in {} |-> "none"] /\ result = NoResult

Put(k, v) == [x \in DOMAIN dict \cup {k} |-> IF x = k THEN v ELSE dict[x]]

DictInsert(k, v) ==
    /\ dict' = Put(k, v)
    /\ result' = Result("insert", k, "HT_OK")

DictTryInsert(k, v) ==
    IF k \in DOMAIN dict
    THEN result' = Result("try_insert", k, "HT_INV_KEY") /\ UNCHANGED dict
    ELSE result' = Result("try_insert", k, "HT_OK") /\ dict' = Put(k, v)

DictGet(k) ==
    /\ result' = Result("get", k, IF k \in DOMAIN dict THEN dict[k] ELSE "NULL")
    /\ UNCHANGED dict

DictDelete(k) ==
    IF k \in DOMAIN dict
    THEN /\ dict' = Restrict(dict, DOMAIN dict \ {k})
         /\ result' = Result("delete", k, "HT_OK")
    ELSE result' = Result("delete", k, "HT_INV_KEY") /\ UNCHANGED dict

\* A refused insertion leaves the dictionary as it was.
DictOom(k) ==
    /\ \E op \in {"insert", "try_insert"} : result' = Result(op, k, "HT_OOM")
    /\ UNCHANGED dict

DictNext ==
    \E k \in DictKeys :
        \/ DictGet(k) \/ DictDelete(k) \/ DictOom(k)
        \/ \E v \in DictVals : DictInsert(k, v) \/ DictTryInsert(k, v)

DictSpec == DictInit /\ [][DictNext]_dictVars
=============================================================================
