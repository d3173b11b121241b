------------------------------ MODULE MCLocks ------------------------------
(* The objects of common/lock.h, one of them at a time: the integer under a  *)
(* mutex, or a lock behind guards.                                           *)
EXTENDS SharedInt

CONSTANTS MaxScopes, MaxRelocks

VARIABLES object, simulative, readers, writer, guard, doubled, mode, scopes, relocks

guardVars == <<simulative, readers, writer, guard, doubled, mode, scopes, relocks>>

Guards == INSTANCE ScopedLocks

\* An increment, a Set and a Value: every pair of calls meets.
MCOps == {[name |-> "Increment", arg |-> 1],
          [name |-> "Set", arg |-> 5],
          [name |-> "Value", arg |-> 0]}

LocksInit ==
    \/ object = "integer" /\ Init /\ Guards!Init /\ ~simulative
    \/ object = "guards" /\ Init /\ Guards!Init /\ \A t \in Threads : op[t].name = "Value"

LocksNext ==
    \/ object = "integer" /\ Next /\ UNCHANGED <<object, guardVars>>
    \/ object = "guards" /\ Guards!Next /\ UNCHANGED <<object, vars>>

LocksSpec ==
    LocksInit /\ [][LocksNext]_<<object, vars, guardVars>> /\ Guards!Fairness

CountsGuards == Guards!CountsGuards
IsReadersWriters == Guards!IsReadersWriters
GetsLock == Guards!GetsLock
=============================================================================
