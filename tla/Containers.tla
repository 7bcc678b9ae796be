------------------------------ MODULE Containers ------------------------------
(***************************************************************************)
(* What the vector, the queue and the set of a database promise, as vec.h, *)
(* queue.h and set.h declare them: a sequence that grows and shrinks at    *)
(* its end, a first-in first-out line and a set, each with the result of   *)
(* the last call.  An insertion may be refused for want of memory and then *)
(* changes nothing.                                                        *)
(***************************************************************************)
EXTENDS Integers, Sequences, SequencesExt

CONSTANTS Elems, Members

VARIABLES stack, line, members, answer

containerVars == <<stack, line, members, answer>>

Answer(op, res, idx) == [op |-> op, res |-> res, idx |-> idx]
None == -1

ContainersInit ==
    /\ stack = <<>> /\ line = <<>> /\ members = {}
    /\ answer = Answer("none", "none", None)

Refused(op) ==
    /\ answer' = Answer(op, "refused", None)
    /\ UNCHANGED <<stack, line, members>>

-----------------------------------------------------------------------------
(* The vector *)

Push(v) ==
    \/ stack' = Append(stack, v) /\ answer' = Answer("push", "ok", None) /\ UNCHANGED <<line, members>>
    \/ Refused("push")

Pop ==
    IF stack = <<>> THEN Refused("pop")
    ELSE /\ answer' = Answer("pop", Last(stack), None)
         /\ stack' = Front(stack)
         /\ UNCHANGED <<line, members>>

GetAt(i) ==
    IF i >= Len(stack) THEN Refused("get_at")
    ELSE answer' = Answer("get_at", stack[i + 1], i) /\ UNCHANGED <<stack, line, members>>

TakeAt(i) ==
    IF i >= Len(stack) THEN Refused("remove_at")
    ELSE /\ answer' = Answer("remove_at", stack[i + 1], i)
         /\ stack' = RemoveAt(stack, i + 1)
         /\ UNCHANGED <<line, members>>

Find(v) ==
    /\ answer' = Answer("find", v, SelectInSeq(stack, LAMBDA e : e = v) - 1)
    /\ UNCHANGED <<stack, line, members>>

-----------------------------------------------------------------------------
(* The queue *)

Enque(v) ==
    \/ line' = Append(line, v) /\ answer' = Answer("enque", "ok", None) /\ UNCHANGED <<stack, members>>
    \/ Refused("enque")

Deque ==
    IF line = <<>> THEN Refused("deque")
    ELSE /\ answer' = Answer("deque", Head(line), None)
         /\ line' = Tail(line)
         /\ UNCHANGED <<stack, members>>

Peek ==
    IF line = <<>> THEN Refused("peek")
    ELSE answer' = Answer("peek", Head(line), None) /\ UNCHANGED <<stack, line, members>>

-----------------------------------------------------------------------------
(* The set *)

\* Inserting a member again says so and changes nothing.
Insert(m) ==
    \/ /\ members' = members \cup {m}
       /\ answer' = Answer("insert", IF m \in members THEN "exists" ELSE "ok", None)
       /\ UNCHANGED <<stack, line>>
    \/ Refused("insert")

Has(m) ==
    /\ answer' = Answer("has", IF m \in members THEN "true" ELSE "false", None)
    /\ UNCHANGED <<stack, line, members>>

Delete(m) ==
    IF m \notin members THEN Refused("delete")
    ELSE /\ members' = members \ {m}
         /\ answer' = Answer("delete", "ok", None)
         /\ UNCHANGED <<stack, line>>

ContainersNext ==
    \/ \E v \in Elems : Push(v) \/ Find(v) \/ Enque(v)
    \/ \E i \in 0 .. Len(stack) : GetAt(i) \/ TakeAt(i)
    \/ Pop \/ Deque \/ Peek
    \/ \E m \in Members : Insert(m) \/ Has(m) \/ Delete(m)

ContainersSpec == ContainersInit /\ [][ContainersNext]_containerVars
=============================================================================
