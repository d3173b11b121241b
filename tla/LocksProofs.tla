---------------------------- MODULE LocksProofs ----------------------------
(***************************************************************************)
(* The objects of common/lock.h keep their promises, for any threads and   *)
(* calls: SharedInt implements AtomicInt, and a guarded lock ReadersWriters. *)
(***************************************************************************)
EXTENDS MCLocks, FiniteSetTheorems, TLAPS

USE ThreadsAssumption, OpsAssumption

LEMMA InitIInv == Init => IInv
BY DEF Init, IInv, TypeOK, Guarded, Body

\* A step keeps the types.
LEMMA TypeStep == ASSUME TypeOK, [Next]_vars PROVE TypeOK'
<1> USE DEF TypeOK, Goto
<1>1. ASSUME NEW t \in Threads, Call(t) PROVE TypeOK'
  BY <1>1 DEF Call
<1>2. ASSUME NEW t \in Threads, Lock(t) PROVE TypeOK'
  BY <1>2 DEF Lock, First
<1>3. ASSUME NEW t \in Threads, Read(t) PROVE TypeOK'
  BY <1>3 DEF Read
<1>4. ASSUME NEW t \in Threads, Write(t) PROVE TypeOK'
  <2>1. op[t].arg \in Int /\ ret[t] \in Int
    OBVIOUS
  <2> QED BY <1>4, <2>1 DEF Write
<1>5. ASSUME NEW t \in Threads, Unlock(t) PROVE TypeOK'
  BY <1>5 DEF Unlock
<1>6. CASE UNCHANGED vars
  BY <1>6 DEF vars
<1> QED BY <1>1, <1>2, <1>3, <1>4, <1>5, <1>6 DEF Next, Step, Finished

\* A step keeps what the mutex guards: only the thread that has it moves past "lock".
LEMMA GuardedStep == ASSUME IInv, [Next]_vars PROVE Guarded'
<1> USE DEF IInv, TypeOK, Guarded, Body, Goto
<1>1. ASSUME NEW t \in Threads, Call(t) PROVE Guarded'
  BY <1>1 DEF Call
<1>2. ASSUME NEW t \in Threads, Lock(t) PROVE Guarded'
  <2>1. CASE op[t].name = "Set"
    BY <1>2, <2>1 DEF Lock, First
  <2>2. CASE op[t].name # "Set"
    BY <1>2, <2>2 DEF Lock, First
  <2> QED BY <2>1, <2>2
<1>3. ASSUME NEW t \in Threads, Read(t) PROVE Guarded'
  <2>1. op[t].name \in {"Value", "Increment"}
    BY <1>3 DEF Read
  <2> QED BY <1>3, <2>1 DEF Read
<1>4. ASSUME NEW t \in Threads, Write(t) PROVE Guarded'
  BY <1>4 DEF Write
<1>5. ASSUME NEW t \in Threads, Unlock(t) PROVE Guarded'
  BY <1>5 DEF Unlock
<1>6. CASE UNCHANGED vars
  BY <1>6 DEF vars
<1> QED BY <1>1, <1>2, <1>3, <1>4, <1>5, <1>6 DEF Next, Step, Finished

\* The state has its types, and whoever is between lock and unlock of a SharedInt
\* operation has the mutex and works on the value of i that is still there.
THEOREM IInvHolds == Spec => []IInv
<1>1. IInv /\ [Next]_vars => IInv'
  BY TypeStep, GuardedStep DEF IInv
<1> QED BY <1>1, InitIInv, PTL DEF Spec

-----------------------------------------------------------------------------
LEMMA InitRefines == Init => AI!Init
BY DEF Init, AI!Init, Status, Result

\* Every step of SharedInt is a step of AtomicInt or a stutter.
LEMMA StepRefines == ASSUME IInv, [Next]_vars PROVE [AI!Next]_(AI!vars)
<1> USE DEF IInv, TypeOK, Goto, Status, Result
<1>1. ASSUME NEW t \in Threads, Call(t) PROVE AI!Call(t)
  BY <1>1 DEF Call, AI!Call
<1>2. ASSUME NEW t \in Threads, Lock(t) PROVE UNCHANGED AI!vars
  BY <1>2 DEF Lock, First, AI!vars
<1>3. ASSUME NEW t \in Threads, Read(t) PROVE AI!Do(t) \/ UNCHANGED AI!vars
  <2>1. CASE op[t].name = "Value"
    BY <1>3, <2>1 DEF Read, AI!Do
  <2>2. CASE op[t].name # "Value"
    BY <1>3, <2>2 DEF Read, AI!vars
  <2> QED BY <2>1, <2>2
<1>4. ASSUME NEW t \in Threads, Write(t) PROVE AI!Do(t)
  BY <1>4 DEF Write, Guarded, AI!Do
<1>5. ASSUME NEW t \in Threads, Unlock(t) PROVE AI!Return(t)
  BY <1>5 DEF Unlock, AI!Return
<1>6. CASE UNCHANGED vars
  BY <1>6 DEF vars, AI!vars
<1> QED BY <1>1, <1>2, <1>3, <1>4, <1>5, <1>6 DEF Next, Step, Finished, AI!Next

\* SharedInt gives its callers an integer whose Value, Increment and Set are single
\* steps, whatever the threads and the calls.
THEOREM AtomicHolds == Spec => IsAtomic
<1>1. IInv /\ [Next]_vars => [AI!Next]_(AI!vars)
  BY StepRefines
<1> QED BY <1>1, InitRefines, IInvHolds, PTL DEF Spec, IsAtomic, AI!Spec

-----------------------------------------------------------------------------
USE DEF Guards!Holds

\* Types of the lock and of the guards.
GuardsType ==
    /\ simulative \in BOOLEAN /\ readers \in Nat /\ writer \in BOOLEAN
    /\ guard \in [Threads -> {"gone", "waiting", "locked", "unlocked", "stuck"}] /\ doubled \in Nat
    /\ mode \in [Threads -> {"read", "write"}]

\* The guards that are locked as readers, and those that are locked alone: over a
\* MutexSimulativeRWLock, all of them.
SharedGuards == {t \in Threads : Guards!Holds(t) /\ mode[t] = "read" /\ ~simulative}
AloneGuards == {t \in Threads : Guards!Holds(t) /\ (mode[t] = "write" \/ simulative)}

\* The primitive counts the guards that are locked, which are readers or a single one, and
\* the readers that locked twice.
Counted ==
    /\ IsFiniteSet(SharedGuards) /\ readers = Cardinality(SharedGuards) + doubled
    /\ simulative => doubled = 0
    /\ ~writer => AloneGuards = {}
    /\ writer => readers = 0 /\ \E t \in Threads : AloneGuards = {t}

GuardsInv == GuardsType /\ Counted

(* Nothing is locked at the start.                                         *)
LEMMA GuardsInit == Guards!Init => GuardsInv
  <1> SUFFICES ASSUME Guards!Init PROVE GuardsInv
    OBVIOUS
  <1>1. GuardsType
    BY DEF Guards!Init, GuardsType
  <1>2. SharedGuards = {} /\ AloneGuards = {}
    BY DEF Guards!Init, SharedGuards, AloneGuards
  <1>3. QED
    BY <1>1, <1>2, FS_EmptySet DEF Guards!Init, GuardsInv, Counted

(* Without a count there is no reader.                                     *)
LEMMA SharedCount == ASSUME GuardsInv PROVE
    /\ Cardinality(SharedGuards) \in Nat /\ readers = Cardinality(SharedGuards) + doubled
    /\ SharedGuards # {} => Cardinality(SharedGuards) > 0 /\ readers > 0
    /\ readers = 0 => SharedGuards = {} /\ doubled = 0
  <1>1. /\ IsFiniteSet(SharedGuards) /\ readers = Cardinality(SharedGuards) + doubled
        /\ doubled \in Nat
    BY DEF GuardsInv, GuardsType, Counted
  <1>2. Cardinality(SharedGuards) \in Nat
    BY <1>1, FS_CardinalityType
  <1>3. SharedGuards # {} => Cardinality(SharedGuards) # 0
    BY <1>1, FS_EmptySet
  <1>4. QED
    BY <1>1, <1>2, <1>3

(* Types, whatever step.                                                   *)
LEMMA GuardsTypeStep == ASSUME GuardsInv, NEW t \in Threads PROVE
    /\ Guards!Open(t) \/ Guards!Relock(t) => GuardsType'
    /\ Guards!Locked(t) \/ Guards!UnLock(t) \/ Guards!Close(t) => GuardsType'
    /\ Guards!LockTwice(t) => GuardsType'
  <1> USE DEF GuardsInv, GuardsType, Guards!SetGuard
  <1>1. Guards!Open(t) \/ Guards!Relock(t) => GuardsType'
    BY DEF Guards!Open, Guards!Relock, Guards!prim
  <1>a. Guards!Locked(t) \/ Guards!UnLock(t) \/ Guards!Close(t) =>
            guard' \in [Threads -> {"gone", "waiting", "locked", "unlocked", "stuck"}]
    BY DEF Guards!Locked, Guards!UnLock, Guards!Close
  <1>b. Guards!Locked(t) \/ Guards!UnLock(t) \/ Guards!Close(t) =>
            mode' = mode /\ simulative' = simulative /\ doubled' = doubled
    BY DEF Guards!Locked, Guards!UnLock, Guards!Close
  <1>c. ASSUME Guards!Locked(t) PROVE readers' \in Nat /\ writer' \in BOOLEAN
    <2>1. readers' = readers \/ readers' = readers + 1
      BY <1>c DEF Guards!Locked, Guards!Acquire
    <2>2. writer' = writer \/ writer' = TRUE
      BY <1>c DEF Guards!Locked, Guards!Acquire
    <2>3. writer' \in BOOLEAN
      BY <2>2, Zenon
    <2>4. QED
      BY <2>1, <2>3
  <1>2. Guards!Locked(t) => GuardsType'
    BY <1>a, <1>b, <1>c
  <1>3. readers > 0 \/ writer \/ guard[t] # "locked"
    <2>1. CASE guard[t] = "locked" /\ ~writer
      <3>1. t \in SharedGuards
        BY <2>1 DEF Counted, SharedGuards, AloneGuards
      <3>2. QED
        BY <2>1, <3>1, SharedCount
    <2>2. QED
      BY <2>1
  <1>d. ASSUME Guards!UnLock(t) \/ Guards!Close(t) PROVE readers' \in Nat /\ writer' \in BOOLEAN
    <2>1. readers' = readers \/ readers' = readers - 1
      BY <1>d DEF Guards!UnLock, Guards!Close, Guards!Release
    <2>6. readers' = readers \/ readers > 0
      BY <1>3, <1>d DEF Guards!UnLock, Guards!Close, Guards!Release
    <2>2. readers' \in Nat
      BY <2>1, <2>6
    <2>3. writer' = writer \/ writer' = FALSE
      BY <1>d DEF Guards!UnLock, Guards!Close, Guards!Release
    <2>4. writer' \in BOOLEAN
      BY <2>3, Zenon
    <2>5. QED
      BY <2>2, <2>4
  <1>4. Guards!UnLock(t) \/ Guards!Close(t) => GuardsType'
    BY <1>a, <1>b, <1>d
  <1>e. ASSUME Guards!LockTwice(t) PROVE GuardsType'
    <2>1. guard' = guard \/ guard' = [guard EXCEPT ![t] = "stuck"]
      BY <1>e DEF Guards!LockTwice
    <2>2. \/ readers' = readers + 1 /\ doubled' = doubled + 1
          \/ readers' = readers /\ doubled' = doubled
      BY <1>e DEF Guards!LockTwice
    <2>3. mode' = mode /\ simulative' = simulative /\ writer' = writer
      BY <1>e DEF Guards!LockTwice
    <2>4. QED
      BY <2>1, <2>2, <2>3
  <1>5. QED
    BY <1>1, <1>2, <1>4, <1>e

(* A step that neither locks nor frees leaves the two sets and the count.  *)
LEMMA CountedKept == ASSUME Counted, readers' = readers, writer' = writer, doubled' = doubled,
    simulative' = simulative,
    SharedGuards' = SharedGuards, AloneGuards' = AloneGuards PROVE Counted'
  BY DEF Counted

(* The set a thread joins when it locks, and leaves when it frees.         *)
LEMMA Joins == ASSUME GuardsInv, NEW t \in Threads, Guards!Locked(t) PROVE Counted'
  <1> USE DEF GuardsInv, GuardsType
  <1>1. guard[t] = "waiting" /\ guard' = [guard EXCEPT ![t] = "locked"]
        /\ mode' = mode /\ simulative' = simulative /\ doubled' = doubled
    BY DEF Guards!Locked, Guards!SetGuard
  <1>2. ~writer
    BY DEF Guards!Locked, Guards!Acquire
  <1>3. CASE mode[t] = "read" /\ ~simulative
    <2>1. SharedGuards' = SharedGuards \cup {t} /\ t \notin SharedGuards
      BY <1>1, <1>3 DEF SharedGuards
    <2>2. AloneGuards' = AloneGuards
      BY <1>1, <1>3 DEF AloneGuards
    <2>3. readers' = readers + 1 /\ writer' = writer
      BY <1>3 DEF Guards!Locked, Guards!Acquire
    <2>4. QED
      <3>1. IsFiniteSet(SharedGuards') /\ Cardinality(SharedGuards') = Cardinality(SharedGuards) + 1
        BY <2>1, FS_AddElement DEF Counted
      <3>2. readers' = Cardinality(SharedGuards') + doubled'
        BY <1>1, <2>3, <3>1, SharedCount
      <3>3. QED
        BY <1>1, <1>2, <2>2, <2>3, <3>1, <3>2 DEF Counted
  <1>4. CASE ~(mode[t] = "read" /\ ~simulative)
    <2>1. SharedGuards' = SharedGuards
      BY <1>1, <1>4 DEF SharedGuards
    <2>2. AloneGuards' = AloneGuards \cup {t}
      BY <1>1, <1>4 DEF AloneGuards
    <2>3. readers = 0 /\ readers' = readers /\ writer' = TRUE
      BY <1>4 DEF Guards!Locked, Guards!Acquire
    <2>4. AloneGuards' = {t}
      BY <1>2, <2>2 DEF Counted
    <2>5. QED
      BY <1>1, <2>1, <2>3, <2>4 DEF Counted
  <1>5. QED
    BY <1>3, <1>4

LEMMA Leaves == ASSUME GuardsInv, NEW t \in Threads, NEW g \in {"gone", "unlocked"},
    guard[t] = "locked", Guards!SetGuard(t, g), Guards!Release,
    mode' = mode, simulative' = simulative, doubled' = doubled PROVE Counted'
  <1> USE DEF GuardsInv, GuardsType
  <1>1. guard' = [guard EXCEPT ![t] = g]
    BY DEF Guards!SetGuard
  <1>2. CASE writer
    <2>1. AloneGuards = {t}
      <3>1. readers = 0 /\ SharedGuards = {}
        BY <1>2, SharedCount DEF Counted
      <3>2. t \in AloneGuards
        BY <3>1 DEF SharedGuards, AloneGuards
      <3>3. QED
        BY <1>2, <3>2 DEF Counted
    <2>2. SharedGuards' = SharedGuards
      <3>1. ~(mode[t] = "read" /\ ~simulative)
        BY <2>1 DEF AloneGuards
      <3>2. QED
        BY <1>1, <3>1 DEF SharedGuards
    <2>3. AloneGuards' = {}
      BY <1>1, <2>1 DEF AloneGuards
    <2>4. writer' = FALSE /\ readers' = readers
      BY <1>2 DEF Guards!Release
    <2>5. QED
      BY <2>2, <2>3, <2>4 DEF Counted
  <1>3. CASE ~writer
    <2>1. mode[t] = "read" /\ ~simulative
      BY <1>3 DEF Counted, AloneGuards
    <2>2. SharedGuards' = SharedGuards \ {t} /\ t \in SharedGuards
      BY <1>1, <2>1 DEF SharedGuards
    <2>3. AloneGuards' = AloneGuards
      BY <1>1, <2>1 DEF AloneGuards
    <2>4. readers' = readers - 1 /\ writer' = writer
      BY <1>3 DEF Guards!Release
    <2>5. QED
      <3>1. IsFiniteSet(SharedGuards') /\ Cardinality(SharedGuards') = Cardinality(SharedGuards) - 1
        BY <2>2, FS_RemoveElement DEF Counted
      <3>2. readers' = Cardinality(SharedGuards') + doubled'
        BY <2>4, <3>1, SharedCount
      <3>3. QED
        BY <1>3, <2>3, <2>4, <3>1, <3>2 DEF Counted
  <1>4. QED
    BY <1>2, <1>3

(* Every step of every thread counts.                                      *)
LEMMA CountedStep == ASSUME GuardsInv, [Guards!Next]_(Guards!vars) PROVE GuardsInv'
  <1> USE DEF GuardsInv
  <1>1. ASSUME NEW t \in Threads, Guards!Open(t) \/ Guards!Relock(t) PROVE GuardsInv'
    <2>1. /\ guard[t] \in {"gone", "unlocked"} /\ guard' = [guard EXCEPT ![t] = "waiting"]
          /\ \A u \in Threads \ {t} : mode'[u] = mode[u]
          /\ readers' = readers /\ writer' = writer /\ simulative' = simulative /\ doubled' = doubled
      BY <1>1 DEF Guards!Open, Guards!Relock, Guards!SetGuard, Guards!prim, GuardsType
    <2>2. SharedGuards' = SharedGuards
      BY <2>1 DEF SharedGuards, GuardsType
    <2>3. AloneGuards' = AloneGuards
      BY <2>1 DEF AloneGuards, GuardsType
    <2>4. QED
      BY <1>1, <2>1, <2>2, <2>3, CountedKept, GuardsTypeStep
  <1>2. ASSUME NEW t \in Threads, Guards!Locked(t) PROVE GuardsInv'
    BY <1>2, Joins, GuardsTypeStep
  <1>3. ASSUME NEW t \in Threads, Guards!UnLock(t) PROVE GuardsInv'
    <2>1. Counted'
      BY <1>3, Leaves DEF Guards!UnLock
    <2>2. QED
      BY <1>3, <2>1, GuardsTypeStep
  <1>4. ASSUME NEW t \in Threads, Guards!Close(t) PROVE GuardsInv'
    <2>1. CASE guard[t] = "locked"
      <3>1. Counted'
        BY <1>4, <2>1, Leaves DEF Guards!Close
      <3>2. QED
        BY <1>4, <3>1, GuardsTypeStep
    <2>2. CASE guard[t] # "locked"
      <3>1. /\ guard' = [guard EXCEPT ![t] = "gone"] /\ mode' = mode /\ guard[t] = "unlocked"
            /\ readers' = readers /\ writer' = writer /\ simulative' = simulative /\ doubled' = doubled
        BY <1>4, <2>2 DEF Guards!Close, Guards!SetGuard
      <3>2. SharedGuards' = SharedGuards /\ AloneGuards' = AloneGuards
        BY <2>2, <3>1 DEF SharedGuards, AloneGuards, GuardsType
      <3>3. QED
        BY <1>4, <3>1, <3>2, CountedKept, GuardsTypeStep
    <2>3. QED
      BY <2>1, <2>2
  <1>5. CASE UNCHANGED Guards!vars
    BY <1>5 DEF Guards!vars, Guards!prim, GuardsType, Counted, SharedGuards, AloneGuards
  <1>6. ASSUME NEW t \in Threads, Guards!LockTwice(t) PROVE GuardsInv'
    <2>1. /\ guard[t] = "locked" /\ mode' = mode /\ writer' = writer /\ simulative' = simulative
          /\ guard' = guard \/ guard' = [guard EXCEPT ![t] = "stuck"]
      BY <1>6 DEF Guards!LockTwice, Guards!SetGuard
    <2>2. SharedGuards' = SharedGuards /\ AloneGuards' = AloneGuards
      BY <2>1 DEF SharedGuards, AloneGuards, GuardsType
    <2>3. CASE mode[t] = "read" /\ ~simulative
      <3>1. readers' = readers + 1 /\ doubled' = doubled + 1
        BY <1>6, <2>3 DEF Guards!LockTwice
      <3>2. t \in SharedGuards
        BY <2>1, <2>3 DEF SharedGuards
      <3>3. ~writer
        BY <3>2, SharedCount DEF Counted
      <3>4. Counted'
        BY <2>1, <2>2, <2>3, <3>1, <3>3, SharedCount DEF Counted, GuardsType
      <3>5. QED
        BY <1>6, <3>4, GuardsTypeStep
    <2>4. CASE ~(mode[t] = "read" /\ ~simulative)
      <3>1. readers' = readers /\ doubled' = doubled
        BY <1>6, <2>4 DEF Guards!LockTwice
      <3>2. QED
        BY <1>6, <2>1, <2>2, <3>1, CountedKept, GuardsTypeStep
    <2>5. QED
      BY <2>3, <2>4
  <1>7. QED
    BY <1>1, <1>2, <1>3, <1>4, <1>5, <1>6 DEF Guards!Next, Guards!Finished

(* The instance's Cardinality is that of the theorems on finite sets.      *)
LEMMA SameCardinality == ASSUME NEW S PROVE Guards!Cardinality(S) = Cardinality(S)
  BY Zenon DEF Cardinality, Guards!Cardinality

(* What the run checks follows.                                            *)
LEMMA CountedIsCountsGuards == GuardsInv => CountsGuards
  <1> SUFFICES ASSUME GuardsInv PROVE Guards!CountsGuards
    BY DEF CountsGuards
  <1>1. IsFiniteSet({}) /\ Cardinality({}) = 0
    BY FS_EmptySet
  <1>2. Cardinality(AloneGuards) = IF writer THEN 1 ELSE 0
    BY <1>1, FS_Singleton DEF GuardsInv, GuardsType, Counted
  <1>3. CASE ~simulative
    <2>1. Guards!LockedIn("read") = SharedGuards
      BY <1>3 DEF Guards!LockedIn, SharedGuards
    <2>2. Guards!LockedIn("write") = AloneGuards
      BY <1>3 DEF Guards!LockedIn, AloneGuards
    <2>3. readers = Cardinality(Guards!LockedIn("read")) + doubled
      BY <2>1 DEF GuardsInv, Counted
    <2>4. Cardinality(Guards!LockedIn("write")) = IF writer THEN 1 ELSE 0
      BY <1>2, <2>2
    <2>5. QED
      BY <1>3, <2>3, <2>4, SameCardinality DEF Guards!CountsGuards
  <1>4. CASE simulative
    <2>1. {t \in Threads : Guards!Holds(t)} = AloneGuards
      BY <1>4 DEF AloneGuards
    <2>2. SharedGuards = {}
      BY <1>4 DEF SharedGuards
    <2>3. readers = 0
      BY <1>1, <1>4, <2>2, SharedCount DEF GuardsInv, Counted
    <2>4. Cardinality({t \in Threads : Guards!Holds(t)}) = IF writer THEN 1 ELSE 0
      BY <1>2, <2>1
    <2>5. QED
      BY <1>4, <2>3, <2>4, SameCardinality DEF Guards!CountsGuards
  <1>5. QED
    BY <1>3, <1>4 DEF GuardsInv, GuardsType

(* The object that a run picks is a guarded lock that acts, or that rests. *)
LEMMA LocksIsGuards == LocksSpec => Guards!Spec
  <1>1. LocksInit => Guards!Init
    BY DEF LocksInit
  <1>2. [LocksNext]_<<object, vars, guardVars>> => [Guards!Next]_(Guards!vars)
    BY DEF LocksNext, guardVars, Guards!vars, Guards!prim
  <1>3. QED
    BY <1>1, <1>2, PTL DEF LocksSpec, Guards!Spec

THEOREM GuardsInvHolds == Guards!Spec => []GuardsInv
  <1>1. Guards!Init => GuardsInv
    BY GuardsInit
  <1>2. GuardsInv /\ [Guards!Next]_(Guards!vars) => GuardsInv'
    BY CountedStep
  <1>3. QED
    BY <1>1, <1>2, PTL DEF Guards!Spec

(* The primitive counts exactly the guards that are locked and the locks   *)
(* that a guard took twice, for any number of threads and scopes and any   *)
(* calls of UnLock and Lock, on a locked guard too.                        *)
THEOREM CountsGuardsHolds == Guards!Spec => []CountsGuards
  BY GuardsInvHolds, CountedIsCountsGuards, PTL

(* In the specification that the run checks, too.                          *)
THEOREM LocksCount == LocksSpec => []CountsGuards
  BY LocksIsGuards, CountsGuardsHolds, PTL

-----------------------------------------------------------------------------
(* A guard that locks enters the reader/writer lock: nobody is inside, or  *)
(* it joins readers.                                                       *)
LEMMA LockedEnters == ASSUME GuardsInv, NEW t \in Threads, Guards!Locked(t)
    PROVE Guards!RW!Next
  <1> USE DEF GuardsInv, GuardsType
  <1>1. guard[t] = "waiting" /\ guard' = [guard EXCEPT ![t] = "locked"] /\ mode' = mode
    BY DEF Guards!Locked, Guards!SetGuard
  <1>2. Guards!Inside[t] = "out"
    BY <1>1 DEF Guards!Inside
  <1>3. Guards!Inside' = [Guards!Inside EXCEPT ![t] = mode[t]]
    BY <1>1 DEF Guards!Inside
  <1>4. AloneGuards = {}
    BY DEF Guards!Locked, Guards!Acquire, Counted
  <1>5. \A u \in Threads : Guards!Inside[u] = "out"
            \/ (mode[t] = "read" /\ Guards!Inside[u] = "read")
    <2>1. CASE mode[t] = "read" /\ ~simulative
      BY <1>4, <2>1 DEF AloneGuards, Guards!Inside
    <2>2. CASE ~(mode[t] = "read" /\ ~simulative)
      <3>1. readers = 0
        BY <2>2 DEF Guards!Locked, Guards!Acquire
      <3>2. SharedGuards = {}
        BY <3>1, SharedCount
      <3>3. QED
        BY <1>4, <3>2 DEF SharedGuards, AloneGuards, Guards!Inside
    <2>3. QED
      BY <2>1, <2>2
  <1>6. Guards!RW!Enter(t, mode[t])
    BY <1>2, <1>3, <1>5 DEF Guards!RW!Enter
  <1>7. QED
    BY <1>6 DEF Guards!RW!Next

(* A guard that lets go leaves it.                                         *)
LEMMA FreedExits == ASSUME GuardsInv, NEW t \in Threads, NEW g \in {"gone", "unlocked"},
    guard[t] = "locked", Guards!SetGuard(t, g), mode' = mode PROVE Guards!RW!Next
  <1> USE DEF GuardsInv, GuardsType
  <1>1. Guards!Inside[t] # "out"
    BY DEF Guards!Inside
  <1>2. Guards!Inside' = [Guards!Inside EXCEPT ![t] = "out"]
    BY DEF Guards!Inside, Guards!SetGuard
  <1>3. Guards!RW!Exit(t)
    BY <1>1, <1>2 DEF Guards!RW!Exit
  <1>4. QED
    BY <1>3 DEF Guards!RW!Next

(* Each step of the guards is a step of the reader/writer lock, or none.   *)
LEMMA GuardsStep == ASSUME GuardsInv, [Guards!Next]_(Guards!vars)
    PROVE [Guards!RW!Next]_(Guards!Inside)
  <1> USE DEF GuardsInv, GuardsType
  <1>1. ASSUME NEW t \in Threads, Guards!Open(t) \/ Guards!Relock(t)
        PROVE Guards!Inside' = Guards!Inside
    <2>1. /\ guard[t] \in {"gone", "unlocked"} /\ guard' = [guard EXCEPT ![t] = "waiting"]
          /\ \A u \in Threads \ {t} : mode'[u] = mode[u]
      BY <1>1 DEF Guards!Open, Guards!Relock, Guards!SetGuard
    <2>2. QED
      BY <2>1 DEF Guards!Inside
  <1>2. ASSUME NEW t \in Threads, Guards!Locked(t) PROVE Guards!RW!Next
    BY <1>2, LockedEnters
  <1>3. ASSUME NEW t \in Threads, Guards!UnLock(t) PROVE Guards!RW!Next
    BY <1>3, FreedExits DEF Guards!UnLock
  <1>4. ASSUME NEW t \in Threads, Guards!Close(t)
        PROVE Guards!RW!Next \/ Guards!Inside' = Guards!Inside
    <2>1. CASE guard[t] = "locked"
      BY <1>4, <2>1, FreedExits DEF Guards!Close
    <2>2. CASE guard[t] # "locked"
      BY <1>4, <2>2 DEF Guards!Close, Guards!SetGuard, Guards!Inside
    <2>3. QED
      BY <2>1, <2>2
  <1>5. CASE UNCHANGED Guards!vars
    BY <1>5 DEF Guards!vars, Guards!Inside
  <1>6. ASSUME NEW t \in Threads, Guards!LockTwice(t) PROVE Guards!Inside' = Guards!Inside
    <2>1. /\ guard[t] = "locked" /\ mode' = mode
          /\ guard' = guard \/ guard' = [guard EXCEPT ![t] = "stuck"]
      BY <1>6 DEF Guards!LockTwice, Guards!SetGuard
    <2>2. QED
      BY <2>1 DEF Guards!Inside
  <1>7. QED
    BY <1>1, <1>2, <1>3, <1>4, <1>5, <1>6 DEF Guards!Next, Guards!Finished

(* Over either primitive, scoped guards implement a reader/writer lock:    *)
(* many threads read or one writes, whatever they unlock and lock again.   *)
THEOREM GuardsAreReadersWriters == Guards!Spec => IsReadersWriters
  <1>1. Guards!Init => Guards!RW!Init
    BY DEF Guards!Init, Guards!RW!Init, Guards!Inside
  <1>2. GuardsInv /\ [Guards!Next]_(Guards!vars) => [Guards!RW!Next]_(Guards!Inside)
    BY GuardsStep
  <1>3. QED
    BY <1>1, <1>2, GuardsInvHolds, PTL
    DEF Guards!Spec, IsReadersWriters, Guards!IsReadersWriters, Guards!RW!Spec
=============================================================================
