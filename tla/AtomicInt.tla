----------------------------- MODULE AtomicInt -----------------------------
(***************************************************************************)
(* An integer whose operations take effect in one step each: the meaning   *)
(* of SharedInt for its callers.                                           *)
(***************************************************************************)
EXTENDS Integers

CONSTANTS Threads, Ops

VARIABLES value,   \* the integer
          op,      \* the operation each thread is in
          status,  \* "idle", "called", "done"
          result   \* what the operation returns, while it is done

vars == <<value, op, status, result>>

Init == /\ value = 0
        /\ op \in [Threads -> Ops]
        /\ status = [t \in Threads |-> "idle"]
        /\ result = [t \in Threads |-> 0]

Call(t) == /\ status[t] = "idle"
           /\ \E o \in Ops : op' = [op EXCEPT ![t] = o]
           /\ status' = [status EXCEPT ![t] = "called"]
           /\ UNCHANGED <<value, result>>

\* Value and Increment give the value before; Increment and Set change it.
Do(t) == /\ status[t] = "called"
         /\ value' = CASE op[t].name = "Increment" -> value + op[t].arg
                       [] op[t].name = "Set"       -> op[t].arg
                       [] OTHER                    -> value
         /\ result' = [result EXCEPT ![t] = IF op[t].name = "Set" THEN 0 ELSE value]
         /\ status' = [status EXCEPT ![t] = "done"]
         /\ UNCHANGED op

Return(t) == /\ status[t] = "done"
             /\ status' = [status EXCEPT ![t] = "idle"]
             /\ result' = [result EXCEPT ![t] = 0]
             /\ UNCHANGED <<value, op>>

Next == \E t \in Threads : Call(t) \/ Do(t) \/ Return(t)

Spec == Init /\ [][Next]_vars
=============================================================================
