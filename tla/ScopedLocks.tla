---------------------------- MODULE ScopedLocks ----------------------------
(***************************************************************************)
(* ScopedLockR and ScopedLockW of common/lock.h over RWLock or over        *)
(* MutexSimulativeRWLock, whose LockR and LockW take one mutex.  A thread  *)
(* opens a scope with one guard object in it; UnLock and Lock of the guard *)
(* may let the lock go and take it again, and Lock does not look whether   *)
(* the guard has it already; the destructor unlocks only what locked_ says *)
(* is locked.  The pthread primitive does not know who holds it: a call too  *)
(* many would free another thread's lock.                                  *)
(***************************************************************************)
EXTENDS Integers, FiniteSets

CONSTANTS Threads,
          MaxScopes,   \* bound: scopes a thread opens
          MaxRelocks   \* bound: Lock() calls of a thread

VARIABLES simulative,  \* is the lock a MutexSimulativeRWLock?
          readers,  \* what the primitive counts: readers, ...
          writer,   \* ... and a writer (or the holder of the mutex)
          guard,    \* the guard object of each thread and its locked_
          doubled,  \* history: read locks that Lock() took for a guard which had one
          mode,     \* is the guard a ScopedLockR or a ScopedLockW?
          scopes, relocks

prim == <<simulative, readers, writer>>
vars == <<prim, guard, doubled, mode, scopes, relocks>>

Init ==
    /\ simulative \in BOOLEAN /\ readers = 0 /\ writer = FALSE /\ doubled = 0
    /\ guard = [t \in Threads |-> "gone"]
    /\ mode = [t \in Threads |-> "read"]
    /\ scopes = [t \in Threads |-> 0] /\ relocks = [t \in Threads |-> 0]

AcquireOverReaders(m) ==
    /\ ~writer
    /\ IF m = "read" THEN readers' = readers + 1 /\ writer' = writer
                     ELSE writer' = TRUE /\ readers' = readers

\* LockR and LockW: pthread_rwlock_rdlock, pthread_rwlock_wrlock, or the mutex for both.
Acquire(m) ==
    /\ ~writer
    /\ IF m = "read" /\ ~simulative THEN readers' = readers + 1 /\ writer' = writer
       ELSE readers = 0 /\ writer' = TRUE /\ readers' = readers

\* Unlock: a writer if there is one, else a reader.
Release == IF writer THEN writer' = FALSE /\ readers' = readers
           ELSE readers' = readers - 1 /\ writer' = writer

SetGuard(t, g) == guard' = [guard EXCEPT ![t] = g]

\* The scope opens and the constructor asks for the lock, ...
Open(t) ==
    /\ guard[t] = "gone" /\ scopes[t] < MaxScopes
    /\ \E m \in {"read", "write"} : mode' = [mode EXCEPT ![t] = m]
    /\ scopes' = [scopes EXCEPT ![t] = @ + 1]
    /\ SetGuard(t, "waiting")
    /\ UNCHANGED <<prim, doubled, relocks>>

\* ... as Lock() does on a guard that UnLock() has let go.
Relock(t) ==
    /\ guard[t] = "unlocked" /\ relocks[t] < MaxRelocks
    /\ relocks' = [relocks EXCEPT ![t] = @ + 1]
    /\ SetGuard(t, "waiting")
    /\ UNCHANGED <<prim, doubled, mode, scopes>>

\* Lock() on a guard that is locked already: a reader joins itself, and will leave once;
\* a writer, or a thread that has the mutex, waits for itself for ever (where pthread
\* reports the deadlock, pthread_call aborts the process).
LockTwice(t) ==
    /\ guard[t] = "locked" /\ relocks[t] < MaxRelocks
    /\ relocks' = [relocks EXCEPT ![t] = @ + 1]
    /\ IF mode[t] = "read" /\ ~simulative
       THEN readers' = readers + 1 /\ doubled' = doubled + 1 /\ UNCHANGED guard
       ELSE SetGuard(t, "stuck") /\ UNCHANGED <<readers, doubled>>
    /\ UNCHANGED <<simulative, writer, mode, scopes>>

Locked(t) ==
    /\ guard[t] = "waiting"
    /\ Acquire(mode[t]) /\ UNCHANGED simulative
    /\ SetGuard(t, "locked")
    /\ UNCHANGED <<doubled, mode, scopes, relocks>>

UnLockKeepsFlag(t) ==
    /\ guard[t] = "locked"
    /\ Release /\ UNCHANGED simulative
    /\ UNCHANGED <<guard, doubled, mode, scopes, relocks>>

UnLock(t) ==
    /\ guard[t] = "locked"
    /\ Release /\ UNCHANGED simulative
    /\ SetGuard(t, "unlocked")
    /\ UNCHANGED <<doubled, mode, scopes, relocks>>

CloseForgets(t) ==
    /\ guard[t] \in {"locked", "unlocked"}
    /\ UNCHANGED prim
    /\ SetGuard(t, "gone")
    /\ UNCHANGED <<doubled, mode, scopes, relocks>>

\* The destructor.
Close(t) ==
    /\ guard[t] \in {"locked", "unlocked"}
    /\ IF guard[t] = "locked" THEN Release ELSE UNCHANGED <<readers, writer>>
    /\ UNCHANGED simulative
    /\ SetGuard(t, "gone")
    /\ UNCHANGED <<doubled, mode, scopes, relocks>>

\* Has Lock() been called on a locked guard?
LockedTwice == doubled > 0 \/ \E t \in Threads : guard[t] = "stuck"

\* No scope is left to open; a lock that is held for ever keeps the others waiting.
Finished ==
    /\ \A t \in Threads : \/ guard[t] = "gone" /\ scopes[t] = MaxScopes
                          \/ LockedTwice /\ guard[t] \in {"waiting", "stuck"}
    /\ UNCHANGED vars

Next == \/ \E t \in Threads : Open(t) \/ Relock(t) \/ LockTwice(t) \/ Locked(t) \/ UnLock(t) \/ Close(t)
        \/ Finished

Spec == Init /\ [][Next]_vars

\* Scopes end, and a thread that waits gets a lock that stays free.
Fairness == \A t \in Threads : WF_vars(Locked(t)) /\ WF_vars(Close(t))

-----------------------------------------------------------------------------
Holds(t) == guard[t] \in {"locked", "stuck"}

LockedIn(m) == {t \in Threads : Holds(t) /\ mode[t] = m}

\* The primitive counts exactly the guards that are locked, and the locks that a guard took
\* twice: nothing else in a guard's life, with its UnLock and Lock, leaks a lock, and
\* nothing frees one twice.
CountsGuards ==
    /\ ~simulative => readers = Cardinality(LockedIn("read")) + doubled
                      /\ Cardinality(LockedIn("write")) = IF writer THEN 1 ELSE 0
    /\ simulative => readers = 0 /\ Cardinality({t \in Threads : Holds(t)}) = IF writer THEN 1 ELSE 0

Inside == [t \in Threads |-> IF Holds(t) THEN mode[t] ELSE "out"]

RW == INSTANCE ReadersWriters WITH inside <- Inside

\* The guards give what a reader/writer lock promises.
IsReadersWriters == RW!Spec

\* Whoever waits for the lock gets it once the other threads have run out of scopes: each
\* of them has let it go, whatever it did with its guard, unless one has locked its guard
\* twice.  (While scopes keep opening pthread promises no such thing: readers may starve
\* a writer.)
GetsLock == \A t \in Threads : guard[t] = "waiting" ~> (guard[t] = "locked" \/ LockedTwice)
=============================================================================
