----------------------------- MODULE SharedInt -----------------------------
(***************************************************************************)
(* SharedInt of common/lock.h: Value, Increment and Set each hold a        *)
(* ScopedLock<Mutex> over their reads and writes of i, which are steps of  *)
(* their own here.                                                         *)
(***************************************************************************)
EXTENDS Integers

CONSTANTS Threads,
          Ops,     \* the calls: records of a name and an argument
          MaxOps,  \* bound: calls of a thread
          None

ASSUME ThreadsAssumption == None \notin Threads

ASSUME OpsAssumption ==
    /\ MaxOps \in Nat
    /\ Ops \subseteq [name : {"Value", "Increment", "Set"}, arg : Int]

VARIABLES i,      \* the integer
          mutex,  \* the thread that holds the mutex
          pc, op,
          ret,    \* the local variable ret, the value returned
          calls

vars == <<i, mutex, pc, op, ret, calls>>

Init ==
    /\ i = 0 /\ mutex = None
    /\ pc = [t \in Threads |-> "idle"]
    /\ op \in [Threads -> Ops]
    /\ ret = [t \in Threads |-> 0]
    /\ calls = [t \in Threads |-> 0]

Goto(t, l) == pc' = [pc EXCEPT ![t] = l]

Call(t) ==
    /\ pc[t] = "idle" /\ calls[t] < MaxOps
    /\ \E o \in Ops : op' = [op EXCEPT ![t] = o]
    /\ calls' = [calls EXCEPT ![t] = @ + 1]
    /\ Goto(t, "lock")
    /\ UNCHANGED <<i, mutex, ret>>

\* Set has nothing to read.
First(t) == IF op[t].name = "Set" THEN "write" ELSE "read"

LockNothing(t) ==
    /\ pc[t] = "lock"
    /\ Goto(t, First(t))
    /\ UNCHANGED <<i, mutex, op, ret, calls>>

\* The constructor of ScopedLock.
Lock(t) ==
    /\ pc[t] = "lock" /\ mutex = None
    /\ mutex' = t
    /\ Goto(t, First(t))
    /\ UNCHANGED <<i, op, ret, calls>>

\* return i, or T ret = i.
Read(t) ==
    /\ pc[t] = "read"
    /\ ret' = [ret EXCEPT ![t] = i]
    /\ Goto(t, IF op[t].name = "Value" THEN "unlock" ELSE "write")
    /\ UNCHANGED <<i, mutex, op, calls>>

\* i += inc, with the load of i that T ret = i has made; or i = val.
Write(t) ==
    /\ pc[t] = "write"
    /\ i' = IF op[t].name = "Increment" THEN ret[t] + op[t].arg ELSE op[t].arg
    /\ Goto(t, "unlock")
    /\ UNCHANGED <<mutex, op, ret, calls>>

\* The destructor of ScopedLock.
Unlock(t) ==
    /\ pc[t] = "unlock"
    /\ mutex' = None
    /\ Goto(t, "idle")
    /\ UNCHANGED <<i, op, ret, calls>>

Finished == (\A t \in Threads : pc[t] = "idle" /\ calls[t] = MaxOps) /\ UNCHANGED vars

Step(t) == Lock(t) \/ Read(t) \/ Write(t) \/ Unlock(t)

Next == (\E t \in Threads : Call(t) \/ Step(t)) \/ Finished

Spec == Init /\ [][Next]_vars

-----------------------------------------------------------------------------
TypeOK ==
    /\ i \in Int /\ mutex \in Threads \cup {None}
    /\ pc \in [Threads -> {"idle", "lock", "read", "write", "unlock"}]
    /\ op \in [Threads -> Ops]
    /\ ret \in [Threads -> Int] /\ calls \in [Threads -> Nat]

Body == {"read", "write", "unlock"}

\* Between lock and unlock a thread has the mutex, so what it loaded from i is still
\* there when it stores.
Guarded ==
    /\ \A t \in Threads : pc[t] \in Body <=> mutex = t
    /\ \A t \in Threads : pc[t] = "read" => op[t].name # "Set"
    /\ \A t \in Threads : pc[t] = "write" =>
           \/ op[t].name = "Set"
           \/ op[t].name = "Increment" /\ ret[t] = i

\* What the callers see: an operation has its effect when it writes i, or reads it.
Status == [t \in Threads |-> CASE pc[t] = "idle" -> "idle"
                               [] pc[t] = "unlock" -> "done"
                               [] OTHER -> "called"]

Result == [t \in Threads |-> IF pc[t] = "unlock" /\ op[t].name # "Set" THEN ret[t] ELSE 0]

AI == INSTANCE AtomicInt WITH value <- i, status <- Status, result <- Result

\* To its callers every operation of SharedInt is one step: no increment is lost and
\* every call returns the value its own effect found, though load and store are apart.
IsAtomic == AI!Spec

-----------------------------------------------------------------------------
IInv == TypeOK /\ Guarded
=============================================================================
