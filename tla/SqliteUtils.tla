---------------------------- MODULE SqliteUtils ----------------------------
(***************************************************************************)
(* SqliteUtils of common/sqlite_utils.cpp: one SQLite connection shared by *)
(* the threads of a process, opened on first use, with the write lock held *)
(* over every execute and every fetch but not over last_id, connect and    *)
(* close, which any thread may call at any time.  A vector of statements   *)
(* runs between BEGIN and COMMIT; the result of COMMIT is not looked at.   *)
(* What SQLite does (a transaction on a connection, statements that fail   *)
(* as busy or constrained, the count of changes) is modelled from how      *)
(* CppSQLite3 calls it.  Once a thread has lost the connection it is using *)
(* the behaviour of the program is undefined, and the model ends.          *)
(***************************************************************************)
EXTENDS Integers, Sequences, FiniteSets

CONSTANTS Threads,      \* the threads that share the object
          MaxCalls,     \* bound: calls a thread makes
          NumVals,      \* how many values a batched insert has
          BatchCount,   \* its batch_count argument
          MaxCrashes,   \* bound: deaths of the process
          None          \* no thread

ASSUME BoundsAssumption ==
    /\ MaxCalls \in Nat /\ MaxCrashes \in Nat
    /\ NumVals \in Nat \ {0} /\ BatchCount \in Nat \ {0}

ASSUME ThreadsAssumption == None \notin Threads

VARIABLES lock,          \* the holder of _lock's write side
          conn,          \* "none" for _sql = NULL, "new" before open() returned, "open"
          broken,        \* has a thread lost the connection it was using?
          inTxn,         \* is a transaction open on the connection?
          pending,       \* the rows it wrote
          db,            \* the committed rows
          changes,       \* sqlite3_changes of the connection
          pc,            \* where each thread is
          call,          \* its call: kind, and the rows of each statement
          next,          \* the statement it is at
          rows,          \* what it will return: affected rows, or -1
          calls,         \* the calls it has made
          seen,          \* the rows its fetch saw
          stale,         \* history: `changes` when the call found its connection
          reported,      \* history: rows of calls that returned success
          commitFailed,  \* history: has a COMMIT failed?
          crashes        \* how often the process died

dbVars == <<inTxn, pending, db, changes>>
histVars == <<reported, commitFailed>>
vars == <<lock, conn, broken, dbVars, pc, call, next, rows, calls, seen, stale, histVars, crashes>>

\* The calls that do not take the lock.
Unlocked == {"last_id", "connect", "close"}

Kinds == {"execute", "vector", "batched", "fetch"} \cup Unlocked

Failed == -1

\* The values of the k-th sub_vals: BatchCount of them, the rest in the last.
Batch(k) == {v \in 1 .. NumVals : (k - 1) * BatchCount < v /\ v <= k * BatchCount}

Batches == [k \in 1 .. (NumVals + BatchCount - 1) \div BatchCount |-> Batch(k)]

\* The rows each statement of a call of this kind writes.
Statements(kind) == CASE kind = "execute" -> <<{1}>>
                      [] kind = "vector"  -> <<{1}, {2}>>
                      [] kind = "batched" -> Batches
                      [] OTHER            -> <<>>

\* A row is named by the call that writes it.
RowsOf(t, k) ==
    {[by |-> t, nth |-> calls[t], kind |-> call[t].kind, val |-> v] : v \in call[t].stmts[k]}

AllRowsOf(t) == UNION {RowsOf(t, k) : k \in DOMAIN call[t].stmts}

Each(x) == [t \in Threads |-> x]

NoCall == [kind |-> "fetch", stmts |-> <<>>]

Init ==
    /\ lock = None /\ conn = "none" /\ broken = FALSE /\ inTxn = FALSE /\ pending = {} /\ db = {} /\ changes = 0
    /\ pc = Each("idle") /\ call = Each(NoCall) /\ next = Each(1)
    /\ rows = Each(0) /\ seen = Each({}) /\ stale = Each(0) /\ calls = Each(0)
    /\ reported = {} /\ commitFailed = FALSE /\ crashes = 0

Goto(t, l) == pc' = [pc EXCEPT ![t] = l]

Call(t) ==
    /\ pc[t] = "idle" /\ calls[t] < MaxCalls
    /\ \E kind \in Kinds :
          /\ call' = [call EXCEPT ![t] = [kind |-> kind, stmts |-> Statements(kind)]]
          /\ Goto(t, CASE kind = "last_id" -> "last_id"
                       [] kind \in {"connect", "close"} -> "close"
                       [] OTHER -> "lock")
    /\ next' = [next EXCEPT ![t] = 1]
    /\ rows' = [rows EXCEPT ![t] = 0]
    /\ calls' = [calls EXCEPT ![t] = @ + 1]
    /\ UNCHANGED <<lock, conn, broken, dbVars, seen, stale, histVars, crashes>>

\* ScopedLockW, then the test of _sql.
LockAnyway(t) ==
    /\ pc[t] = "lock"
    /\ lock' = t
    /\ stale' = [stale EXCEPT ![t] = changes]
    /\ Goto(t, IF conn = "none" THEN "close" ELSE "run")
    /\ UNCHANGED <<conn, broken, dbVars, call, next, rows, calls, seen, histVars, crashes>>

Lock(t) == lock = None /\ LockAnyway(t)

\* Where a thread relies on the connection it has found, or has just made.
InUse(t) == pc[t] \in {"closing", "open", "run", "stmt", "commit"}

OthersUse(t) == \E u \in Threads \ {t} : InUse(u)

\* With the connection its transaction goes, and its count.
DropTransaction == inTxn' = FALSE /\ pending' = {} /\ changes' = 0 /\ UNCHANGED db

\* The end of close(); connect() goes on with a new CppSQLite3DB, which it then opens.
Closed(t) ==
    IF call[t].kind = "close" THEN conn' = "none" /\ Goto(t, "idle")
                              ELSE conn' = "new" /\ Goto(t, "open")

\* close(), also where connect() calls it: the test of _sql (and, if there is none, the new
\* one of connect: a thread that comes between meets it in `Closing') ...
Close(t) ==
    /\ pc[t] = "close"
    /\ IF conn = "none" THEN Closed(t) ELSE Goto(t, "closing") /\ UNCHANGED conn
    /\ UNCHANGED <<lock, broken, dbVars, call, next, rows, calls, seen, stale, histVars, crashes>>

\* ... sqlite3_close and delete.
Closing(t) ==
    /\ pc[t] = "closing"
    /\ IF OthersUse(t) THEN broken' = TRUE /\ UNCHANGED <<conn, dbVars, pc>>
                       ELSE Closed(t) /\ DropTransaction /\ UNCHANGED broken
    /\ UNCHANGED <<lock, call, next, rows, calls, seen, stale, histVars, crashes>>

\* open() of connect(); if it fails, the object is deleted again.
Open(t) ==
    /\ pc[t] = "open"
    /\ \E opened \in BOOLEAN :
          IF ~opened /\ OthersUse(t) THEN broken' = TRUE /\ UNCHANGED <<conn, pc>>
          ELSE /\ conn' = IF opened THEN "open" ELSE "none"
               /\ Goto(t, IF call[t].kind = "connect" THEN "idle" ELSE "test")
               /\ UNCHANGED broken
    /\ UNCHANGED <<lock, dbVars, call, next, rows, calls, seen, stale, histVars, crashes>>

FailKeepsLock(t) == rows' = [rows EXCEPT ![t] = Failed] /\ Goto(t, "idle")

Fail(t) == rows' = [rows EXCEPT ![t] = Failed] /\ Goto(t, "unlock")

\* The test of _sql after connect().
Test(t) ==
    /\ pc[t] = "test"
    /\ IF conn # "none" THEN Goto(t, IF call[t].kind = "last_id" THEN "last_row" ELSE "run") /\ UNCHANGED rows
       ELSE IF call[t].kind = "last_id" THEN Goto(t, "idle") /\ UNCHANGED rows
       ELSE Fail(t)
    /\ stale' = [stale EXCEPT ![t] = changes]
    /\ UNCHANGED <<lock, conn, broken, dbVars, call, next, calls, seen, histVars, crashes>>

\* A statement writes to the open transaction, or commits by itself.
Write(rs) ==
    /\ IF inTxn THEN pending' = pending \cup rs /\ db' = db
                ELSE db' = db \cup rs /\ pending' = pending
    /\ changes' = Cardinality(rs)
    /\ inTxn' = inTxn

\* ROLLBACK drops the transaction, if one is open; its own failure is ignored.
Rollback == inTxn' = FALSE /\ pending' = {} /\ UNCHANGED <<db, changes>>

NoRollback == UNCHANGED dbVars

\* execDML of execute and of each batch; it throws if the connection is not open.
Execute(t) ==
    /\ pc[t] = "run" /\ call[t].kind \in {"execute", "batched"}
    /\ \/ /\ conn = "open" /\ Write(RowsOf(t, next[t]))
          /\ rows' = [rows EXCEPT ![t] = @ + Cardinality(RowsOf(t, next[t]))]
          /\ Goto(t, "unlock")
       \/ Fail(t) /\ UNCHANGED dbVars
    /\ next' = [next EXCEPT ![t] = @ + 1]
    /\ UNCHANGED <<lock, conn, broken, call, calls, seen, stale, histVars, crashes>>

BeginForgotten(t) ==
    /\ pc[t] = "run" /\ call[t].kind = "vector"
    /\ Goto(t, "stmt")
    /\ UNCHANGED <<lock, conn, broken, dbVars, call, next, rows, calls, seen, stale, histVars, crashes>>

\* BEGIN fails inside a transaction; its count is that of the statement before it.
Begin(t) ==
    /\ pc[t] = "run" /\ call[t].kind = "vector"
    /\ IF inTxn \/ conn # "open" THEN Fail(t) /\ Rollback
       ELSE /\ inTxn' = TRUE /\ UNCHANGED <<pending, db, changes>>
            /\ rows' = [rows EXCEPT ![t] = @ + changes]
            /\ Goto(t, "stmt")
    /\ UNCHANGED <<lock, conn, broken, call, next, calls, seen, stale, histVars, crashes>>

StatementNoRollback(t) ==
    /\ pc[t] = "stmt"
    /\ \/ /\ Write(RowsOf(t, next[t]))
          /\ rows' = [rows EXCEPT ![t] = @ + Cardinality(RowsOf(t, next[t]))]
          /\ Goto(t, IF next[t] = Len(call[t].stmts) THEN "commit" ELSE "stmt")
       \/ Fail(t) /\ NoRollback
    /\ next' = [next EXCEPT ![t] = @ + 1]
    /\ UNCHANGED <<lock, conn, broken, call, calls, seen, stale, histVars, crashes>>

StatementLastCount(t) ==
    /\ pc[t] = "stmt"
    /\ \/ /\ Write(RowsOf(t, next[t]))
          /\ rows' = [rows EXCEPT ![t] = Cardinality(RowsOf(t, next[t]))]
          /\ Goto(t, IF next[t] = Len(call[t].stmts) THEN "commit" ELSE "stmt")
       \/ Fail(t) /\ Rollback
    /\ next' = [next EXCEPT ![t] = @ + 1]
    /\ UNCHANGED <<lock, conn, broken, call, calls, seen, stale, histVars, crashes>>

Statement(t) ==
    /\ pc[t] = "stmt"
    /\ \/ /\ Write(RowsOf(t, next[t]))
          /\ rows' = [rows EXCEPT ![t] = @ + Cardinality(RowsOf(t, next[t]))]
          /\ Goto(t, IF next[t] = Len(call[t].stmts) THEN "commit" ELSE "stmt")
       \/ Fail(t) /\ Rollback
    /\ next' = [next EXCEPT ![t] = @ + 1]
    /\ UNCHANGED <<lock, conn, broken, call, calls, seen, stale, histVars, crashes>>

\* COMMIT may fail as busy and leave the transaction open; nobody looks.
Commit(t) ==
    /\ pc[t] = "commit"
    /\ \/ /\ db' = db \cup pending /\ pending' = {} /\ inTxn' = FALSE
          /\ UNCHANGED <<changes, commitFailed>>
       \/ commitFailed' = TRUE /\ UNCHANGED dbVars
    /\ Goto(t, "unlock")
    /\ UNCHANGED <<lock, conn, broken, call, next, rows, calls, seen, stale, reported, crashes>>

\* execQuery and its rows: the connection sees its own transaction.
Fetch(t) ==
    /\ pc[t] = "run" /\ call[t].kind = "fetch"
    /\ \/ conn = "open" /\ seen' = [seen EXCEPT ![t] = db \cup pending] /\ Goto(t, "unlock") /\ UNCHANGED rows
       \/ Fail(t) /\ UNCHANGED seen
    /\ UNCHANGED <<lock, conn, broken, dbVars, call, next, calls, stale, histVars, crashes>>

\* The destructor of ScopedLockW, and the next batch of a batched insert or the return to
\* the caller, who gets the result.
UnlockAnd(t, goesOn) ==
    /\ pc[t] = "unlock"
    /\ lock' = None
    /\ IF goesOn
       THEN Goto(t, "lock") /\ UNCHANGED <<call, next, rows, seen, stale, reported>>
       ELSE /\ Goto(t, "idle")
            /\ reported' = IF rows[t] = Failed THEN reported ELSE reported \cup AllRowsOf(t)
            /\ call' = [call EXCEPT ![t] = NoCall] /\ next' = [next EXCEPT ![t] = 1]
            /\ rows' = [rows EXCEPT ![t] = 0] /\ seen' = [seen EXCEPT ![t] = {}]
            /\ stale' = [stale EXCEPT ![t] = 0]
    /\ UNCHANGED <<conn, broken, dbVars, calls, commitFailed, crashes>>

MoreBatches(t) == call[t].kind = "batched" /\ next[t] <= Len(call[t].stmts)

UnlockGoesOn(t) == UnlockAnd(t, MoreBatches(t))

\* A batched insert goes on with its next batch unless the last one failed.
Unlock(t) == UnlockAnd(t, MoreBatches(t) /\ rows[t] # Failed)

\* last_id: the test of _sql ...
LastId(t) ==
    /\ pc[t] = "last_id"
    /\ Goto(t, IF conn = "none" THEN "close" ELSE "last_row")
    /\ UNCHANGED <<lock, conn, broken, dbVars, call, next, rows, calls, seen, stale, histVars, crashes>>

\* ... and lastRowId() of what _sql is by then: NULL, or not open, is no connection to ask.
LastRow(t) ==
    /\ pc[t] = "last_row"
    /\ IF conn = "open" THEN Goto(t, "idle") /\ UNCHANGED broken
                        ELSE broken' = TRUE /\ UNCHANGED pc
    /\ UNCHANGED <<lock, conn, dbVars, call, next, rows, calls, seen, stale, histVars, crashes>>

\* The destructor, once no thread uses the object any more: close().
Destroy ==
    /\ \A t \in Threads : pc[t] = "idle"
    /\ conn # "none"
    /\ conn' = "none" /\ DropTransaction
    /\ calls' = [t \in Threads |-> MaxCalls]
    /\ UNCHANGED <<lock, broken, pc, call, next, rows, seen, stale, histVars, crashes>>

\* The process dies, and its threads' locals with it, and starts again: SQLite rolls the
\* open transaction back.
Crash ==
    /\ crashes < MaxCrashes
    /\ crashes' = crashes + 1
    /\ conn' = "none" /\ DropTransaction
    /\ lock' = None
    /\ pc' = Each("idle") /\ call' = Each(NoCall) /\ next' = Each(1)
    /\ rows' = Each(0) /\ seen' = Each({}) /\ stale' = Each(0)
    /\ UNCHANGED <<broken, calls, histVars>>

Finished == /\ broken \/ \A t \in Threads : pc[t] = "idle" /\ calls[t] = MaxCalls
            /\ UNCHANGED vars

Step(t) ==
    /\ ~broken
    /\ \/ Lock(t) \/ Close(t) \/ Closing(t) \/ Open(t) \/ Test(t) \/ Execute(t) \/ Begin(t)
       \/ Statement(t) \/ Commit(t) \/ Fetch(t) \/ Unlock(t) \/ LastId(t) \/ LastRow(t)

Next == \/ \E t \in Threads : Step(t) \/ (~broken /\ Call(t))
        \/ ~broken /\ (Destroy \/ Crash)
        \/ Finished

Spec == Init /\ [][Next]_vars

\* A thread that is in a call is scheduled, and gets a lock that is free.
FairSpec == Spec /\ \A t \in Threads : WF_vars(Step(t))

-----------------------------------------------------------------------------
\* With one row of a vector call, the other.
WholeVectors(S) ==
    \A r \in S : r.kind = "vector" => \A v \in 1 .. 2 : [r EXCEPT !.val = v] \in S

\* As long as no thread has lost its connection (see BrokenOnlyUnlocked):
\* The rows of a vector of statements are all in the database or none of them is,
\* whatever fails or dies between BEGIN and COMMIT.
VectorAtomic == WholeVectors(db)

\* A fetch sees no half of another thread's vector: the lock is held from BEGIN to
\* COMMIT, and a transaction whose COMMIT failed has all its statements.
FetchSeesWholeVectors == \A t \in Threads : WholeVectors(seen[t])

\* No transaction outlives the call that began it, unless its COMMIT failed: every early
\* return has rolled back.
NoTransactionLeftOpen == inTxn => lock # None \/ commitFailed

\* Rows that a call reported as written are in the database for good, unless a COMMIT
\* failed before: the one failure that the code does not report.
ReportedIsDurable == commitFailed \/ reported \subseteq db

\* A batched insert that failed half way leaves a prefix of its values in the database,
\* again unless a COMMIT failed and its batches joined a transaction that was dropped.
BatchesArePrefix ==
    commitFailed \/
        \A r \in db : r.kind = "batched" => \A v \in 1 .. r.val : [r EXCEPT !.val = v] \in db

\* A vector that succeeded returns its own rows and, because BEGIN is counted too, those
\* of the statement that ran before it on the connection.
VectorCount ==
    \A t \in Threads :
        pc[t] = "unlock" /\ call[t].kind = "vector" /\ rows[t] # Failed =>
            rows[t] = Cardinality(AllRowsOf(t)) + stale[t]

\* A thread loses the connection it uses, by a close(), a failed open() or a last_id() that
\* finds it gone, only where some thread is in a call without the lock: execute and fetch
\* alone, in any number of threads, never do it to each other.
BrokenOnlyUnlocked ==
    broken => \E t \in Threads : pc[t] # "idle" /\ call[t].kind \in Unlocked

\* Every call returns, or is lost with the connection: each of its ways out releases the lock.
CallsReturn == \A t \in Threads : pc[t] # "idle" ~> (pc[t] = "idle" \/ broken)
=============================================================================
