------------------------- MODULE SqliteUtilsProofs -------------------------
(***************************************************************************)
(* What SqliteUtils promises of its transactions, for any threads, calls,  *)
(* batches and crashes.                                                    *)
(***************************************************************************)
EXTENDS SqliteUtils, FiniteSetTheorems, TLAPS

USE BoundsAssumption, ThreadsAssumption

Row == [by : Threads, nth : Nat, kind : Kinds, val : Nat]

Places == {"idle", "lock", "close", "closing", "open", "test", "run", "stmt", "commit", "unlock",
           "last_id", "last_row"}

\* Types; a call has the statements of its kind.
TypeOK ==
    /\ lock \in Threads \cup {None} /\ conn \in {"none", "new", "open"} /\ broken \in BOOLEAN
    /\ inTxn \in BOOLEAN /\ pending \subseteq Row /\ db \subseteq Row /\ changes \in Nat
    /\ pc \in [Threads -> Places]
    /\ call \in [Threads -> {[kind |-> k, stmts |-> Statements(k)] : k \in Kinds}]
    /\ next \in [Threads -> Nat \ {0}] /\ rows \in [Threads -> Nat \cup {Failed}] /\ calls \in [Threads -> Nat]
    /\ seen \in [Threads -> SUBSET Row] /\ stale \in [Threads -> Nat]
    /\ reported \subseteq Row /\ commitFailed \in BOOLEAN /\ crashes \in Nat

\* A thread has the lock from its constructor to its destructor and no longer.
Holds(t) == pc[t] \notin {"idle", "lock"} /\ call[t].kind \notin Unlocked

LockIsHeld == \A t \in Threads : Holds(t) <=> lock = t

\* Where a call without the lock can be, and where only such a call can be.
KindAt(t) ==
    /\ pc[t] \in {"lock", "run", "stmt", "commit", "unlock"} => call[t].kind \notin Unlocked
    /\ pc[t] \in {"last_id", "last_row"} => call[t].kind = "last_id"
    /\ pc[t] = "test" => call[t].kind \notin {"connect", "close"}
    /\ pc[t] = "open" => call[t].kind # "close"

KindsAtPlaces == \A t \in Threads : KindAt(t)

\* Before its statements: where a call waits for the lock or finds its connection.
Opening == {"lock", "last_id", "close", "closing", "open", "test", "run"}

\* A transaction is that of the vector which runs, or what a failed COMMIT left.
Transaction ==
    /\ ~inTxn => pending = {}
    /\ \A t \in Threads : pc[t] \in {"stmt", "commit"} => inTxn /\ call[t].kind = "vector"
    /\ inTxn => commitFailed \/ \E t \in Threads : pc[t] \in {"stmt", "commit"}

\* The statements of its call that a thread has been through.
Passed(t) == {k \in DOMAIN call[t].stmts : k < next[t]}

Written(t) == UNION {RowsOf(t, k) : k \in Passed(t)}

\* Where in its statements a thread is.
PositionOf(t) ==
    /\ pc[t] \in Opening \cup {"stmt"} => rows[t] # Failed
    /\ pc[t] \in Opening =>
           next[t] = 1 \/ (call[t].kind = "batched" /\ next[t] \in DOMAIN call[t].stmts)
    /\ pc[t] = "stmt" => next[t] \in DOMAIN call[t].stmts
    /\ pc[t] = "commit" => next[t] = 3
    /\ pc[t] = "unlock" /\ rows[t] # Failed /\ call[t].kind # "batched" =>
           next[t] > Len(call[t].stmts)

Position == \A t \in Threads : PositionOf(t)

\* What a call has written is in its transaction, or in the database by itself.
Kept ==
    /\ \A t \in Threads : pc[t] \in {"stmt", "commit"} => pending = Written(t)
    /\ ~commitFailed => \A t \in Threads :
           pc[t] \in Opening \cup {"unlock"} /\ rows[t] # Failed => Written(t) \subseteq db

\* Half a vector is only where its statements run.
Whole ==
    /\ WholeVectors(db) /\ \A t \in Threads : WholeVectors(seen[t])
    /\ (\A t \in Threads : pc[t] # "stmt") => WholeVectors(pending)

\* What a vector counts: the changes before it, and a row for each statement.
CountOf(t) ==
    call[t].kind = "vector" =>
        /\ pc[t] \in Opening => rows[t] = 0
        /\ pc[t] = "run" => stale[t] = changes
        /\ pc[t] = "stmt" => rows[t] = stale[t] + next[t] - 1
        /\ pc[t] = "commit" => rows[t] = stale[t] + 2
        /\ pc[t] = "unlock" /\ rows[t] # Failed => rows[t] = stale[t] + 2

Counts == \A t \in Threads : CountOf(t)

\* The inductive invariant.
IInv ==
    /\ TypeOK /\ LockIsHeld /\ KindsAtPlaces /\ Transaction /\ Position
    /\ Kept /\ Whole /\ Counts /\ ReportedIsDurable /\ BatchesArePrefix /\ BrokenOnlyUnlocked

-----------------------------------------------------------------------------
(* The statements of each kind of call.                                    *)
LEMMA StatementsOfKinds ==
    /\ Statements("execute") = <<{1}>> /\ Statements("vector") = <<{1}, {2}>>
    /\ Statements("batched") = Batches
    /\ \A k \in {"fetch"} \cup Unlocked : Statements(k) = <<>>
  BY DEF Statements, Unlocked

(* A batched insert has the statements 1 .. n, n at least 1.               *)
LEMMA BatchesAreSeq ==
    ASSUME NEW n, n = (NumVals + BatchCount - 1) \div BatchCount
    PROVE  n \in Nat \ {0} /\ Batches \in Seq(SUBSET Nat) /\ Len(Batches) = n /\ DOMAIN Batches = 1 .. n
  <1>1. n \in Nat \ {0}
    OBVIOUS
  <1>2. Batches = [k \in 1 .. n |-> Batch(k)]
    BY DEF Batches
  <1>3. \A k \in 1 .. n : Batch(k) \in SUBSET Nat
    BY DEF Batch
  <1>4. QED
    BY <1>1, <1>2, <1>3

(* What the statements of a call are.                                      *)
LEMMA CallFacts ==
    ASSUME TypeOK, NEW t \in Threads
    PROVE  /\ call[t].kind \in Kinds /\ call[t].stmts = Statements(call[t].kind)
           /\ call[t].stmts \in Seq(SUBSET Nat) /\ DOMAIN call[t].stmts = 1 .. Len(call[t].stmts)
           /\ call[t].kind = "execute" => Len(call[t].stmts) = 1
           /\ call[t].kind = "vector" =>
                  Len(call[t].stmts) = 2 /\ call[t].stmts[1] = {1} /\ call[t].stmts[2] = {2}
           /\ call[t].kind = "batched" => Len(call[t].stmts) > 0 /\ call[t].stmts = Batches
           /\ call[t].kind \in {"fetch"} \cup Unlocked => Len(call[t].stmts) = 0
  <1>1. call[t].kind \in Kinds /\ call[t].stmts = Statements(call[t].kind)
    <2>1. PICK k \in Kinds : call[t] = [kind |-> k, stmts |-> Statements(k)]
      BY DEF TypeOK
    <2>2. QED
      BY <2>1
  <1>2. CASE call[t].kind = "batched"
    BY <1>1, <1>2, BatchesAreSeq, StatementsOfKinds
  <1>3. {1} \in SUBSET Nat /\ {2} \in SUBSET Nat
    OBVIOUS
  <1>4. CASE call[t].kind = "execute"
    BY <1>1, <1>3, <1>4, StatementsOfKinds
  <1>5. CASE call[t].kind = "vector"
    <2>1. call[t].stmts = <<{1}, {2}>>
      BY <1>1, <1>5, StatementsOfKinds
    <2>2. <<{1}, {2}>> \in Seq(SUBSET Nat) /\ Len(<<{1}, {2}>>) = 2
      BY <1>3
    <2>3. DOMAIN <<{1}, {2}>> = 1 .. 2 /\ <<{1}, {2}>>[1] = {1} /\ <<{1}, {2}>>[2] = {2}
      OBVIOUS
    <2>4. /\ call[t].stmts \in Seq(SUBSET Nat) /\ Len(call[t].stmts) = 2
          /\ DOMAIN call[t].stmts = 1 .. Len(call[t].stmts)
      BY <2>1, <2>2, <2>3
    <2>5. call[t].stmts[1] = {1} /\ call[t].stmts[2] = {2}
      BY <2>1, <2>3
    <2>6. QED
      BY <1>1, <1>5, <2>4, <2>5 DEF Unlocked
  <1>6. CASE call[t].kind \in {"fetch"} \cup Unlocked
    <2>1. call[t].stmts = <<>>
      BY <1>1, <1>6, StatementsOfKinds
    <2>2. <<>> \in Seq(SUBSET Nat) /\ Len(<<>>) = 0
      OBVIOUS
    <2>3. QED
      BY <1>1, <1>6, <2>1, <2>2 DEF Unlocked
  <1>7. QED
    BY <1>1, <1>2, <1>4, <1>5, <1>6 DEF Kinds

(* A statement writes rows of its call, finitely many.                     *)
LEMMA RowsFacts ==
    ASSUME TypeOK, NEW t \in Threads, NEW k \in DOMAIN call[t].stmts
    PROVE  /\ RowsOf(t, k) \subseteq Row
           /\ \A r \in RowsOf(t, k) : r.kind = call[t].kind
           /\ Cardinality(RowsOf(t, k)) \in Nat
  <1>1. call[t].stmts[k] \subseteq Nat /\ call[t].kind \in Kinds /\ calls[t] \in Nat
    BY CallFacts DEF TypeOK
  <1>2. IsFiniteSet(call[t].stmts[k])
    <2>1. call[t].kind \in {"execute", "vector", "batched"}
      BY CallFacts DEF Kinds, Unlocked
    <2>2. IsFiniteSet({1}) /\ IsFiniteSet({2})
      BY FS_Singleton
    <2>3. CASE call[t].kind = "batched"
      <3>1. call[t].stmts = Batches /\ k \in DOMAIN Batches
        BY <2>3, CallFacts
      <3>2. call[t].stmts[k] = Batch(k)
        BY <3>1 DEF Batches
      <3>3. Batch(k) \in SUBSET (1 .. NumVals)
        BY DEF Batch
      <3>4. IsFiniteSet(1 .. NumVals)
        BY FS_Interval
      <3>5. QED
        BY <3>2, <3>3, <3>4, FS_Subset
    <2>4. CASE call[t].kind = "execute"
      <3>1. call[t].stmts = <<{1}>> /\ k = 1
        BY <2>4, CallFacts, StatementsOfKinds
      <3>2. QED
        BY <2>2, <3>1
    <2>5. CASE call[t].kind = "vector"
      <3>1. call[t].stmts[1] = {1} /\ call[t].stmts[2] = {2} /\ k \in {1, 2}
        BY <2>5, CallFacts
      <3>2. QED
        BY <2>2, <3>1
    <2>6. QED
      BY <2>1, <2>3, <2>4, <2>5
  <1>3. RowsOf(t, k) \subseteq Row /\ \A r \in RowsOf(t, k) : r.kind = call[t].kind
    BY <1>1 DEF RowsOf, Row
  <1>4. IsFiniteSet(RowsOf(t, k))
    <2> DEFINE f == [v \in call[t].stmts[k] |->
                        [by |-> t, nth |-> calls[t], kind |-> call[t].kind, val |-> v]]
    <2>1. f \in Surjection(call[t].stmts[k], RowsOf(t, k))
      BY DEF RowsOf, Surjection
    <2>2. QED
      BY <1>2, <2>1, FS_Surjection
  <1>5. QED
    BY <1>3, <1>4, FS_CardinalityType

(* What a thread has written stays what it is while its call does.         *)
LEMMA SameWritten ==
    ASSUME NEW t \in Threads, call'[t] = call[t], calls'[t] = calls[t]
    PROVE  /\ \A k : RowsOf(t, k)' = RowsOf(t, k) /\ AllRowsOf(t)' = AllRowsOf(t)
           /\ next'[t] = next[t] => Passed(t)' = Passed(t) /\ Written(t)' = Written(t)
  BY DEF RowsOf, AllRowsOf, Passed, Written

(* A statement that has run joins what was written.                        *)
LEMMA OneMoreWritten ==
    ASSUME TypeOK, NEW t \in Threads, call'[t] = call[t], calls'[t] = calls[t],
           next'[t] = next[t] + 1, next[t] \in DOMAIN call[t].stmts
    PROVE  Written(t)' = Written(t) \cup RowsOf(t, next[t])
  <1>1. Passed(t)' = Passed(t) \cup {next[t]}
    BY CallFacts DEF Passed, TypeOK
  <1>2. QED
    BY <1>1, SameWritten DEF Written

(* Whole sets stay whole together, and with rows of other calls.           *)
LEMMA WholeTogether ==
    ASSUME NEW S, NEW T, WholeVectors(S), WholeVectors(T) \/ \A r \in T : r.kind # "vector"
    PROVE  WholeVectors(S \cup T)
  BY DEF WholeVectors

-----------------------------------------------------------------------------
(* IInv holds at the start.                                                *)
LEMMA InitIInv == Init => IInv
  <1> SUFFICES ASSUME Init PROVE IInv
    OBVIOUS
  <1>1. TypeOK
    <2>1. NoCall \in {[kind |-> k, stmts |-> Statements(k)] : k \in Kinds}
      BY StatementsOfKinds DEF Kinds, NoCall
    <2>2. call \in [Threads -> {[kind |-> k, stmts |-> Statements(k)] : k \in Kinds}]
      BY <2>1 DEF Init, Each
    <2>3. pc \in [Threads -> Places]
      BY DEF Init, Each, Places
    <2>4. /\ next \in [Threads -> Nat \ {0}] /\ rows \in [Threads -> Nat \cup {Failed}]
          /\ seen \in [Threads -> SUBSET Row] /\ stale \in [Threads -> Nat] /\ calls \in [Threads -> Nat]
      BY DEF Init, Each
    <2>5. QED
      BY <2>2, <2>3, <2>4 DEF Init, TypeOK
  <1>2. \A t \in Threads : pc[t] = "idle" /\ seen[t] = {}
    BY DEF Init, Each
  <1>3. LockIsHeld /\ KindsAtPlaces /\ Transaction /\ Position /\ Counts /\ BrokenOnlyUnlocked
    BY <1>2 DEF Init, LockIsHeld, Holds, KindsAtPlaces, KindAt, Transaction, Position, PositionOf,
           Opening, Counts, CountOf, BrokenOnlyUnlocked
  <1>4. Kept /\ Whole /\ ReportedIsDurable /\ BatchesArePrefix
    BY <1>2 DEF Init, Kept, Opening, Whole, WholeVectors, ReportedIsDurable, BatchesArePrefix
  <1>5. QED
    BY <1>1, <1>3, <1>4 DEF IInv

(* The steps that find, make or close a connection.                        *)
Connecting(t) == Close(t) \/ Closing(t) \/ Open(t) \/ Test(t) \/ LastId(t) \/ LastRow(t)

\* Where they lead.
Reaches(t) ==
    /\ pc[t] \in {"last_id", "close", "closing", "open", "test", "last_row"}
    /\ \/ /\ pc[t] \in Opening /\ pc'[t] \in Opening \ {"lock"} /\ rows'[t] = rows[t]
          /\ pc'[t] = "run" => call[t].kind \notin Unlocked /\ stale'[t] = changes /\ UNCHANGED dbVars
       \/ pc'[t] \in {"idle", "last_row"} /\ call[t].kind \in Unlocked
       \/ pc'[t] = "unlock" /\ rows'[t] = Failed /\ call[t].kind \notin Unlocked

(* They drop the transaction of no thread that uses the connection.        *)
LEMMA ConnectingFacts ==
    ASSUME TypeOK, KindsAtPlaces, NEW t \in Threads, Connecting(t)
    PROVE  /\ UNCHANGED <<lock, call, next, calls, seen, reported, commitFailed, crashes, db>>
           /\ conn' \in {"none", "new", "open"} /\ broken' \in BOOLEAN
           /\ UNCHANGED dbVars \/ (~OthersUse(t) /\ DropTransaction)
           /\ \A u \in Threads \ {t} : pc'[u] = pc[u] /\ rows'[u] = rows[u] /\ stale'[u] = stale[u]
           /\ pc' \in [Threads -> Places] /\ rows' \in [Threads -> Nat \cup {Failed}]
           /\ stale' \in [Threads -> Nat]
           /\ Reaches(t)
  <1> USE DEF TypeOK, Goto
  <1>1. CASE Close(t)
    <2>1. /\ UNCHANGED <<lock, call, next, calls, seen, rows, stale, reported, commitFailed, crashes, broken, dbVars>>
          /\ conn' \in {"none", "new", "open"} /\ pc[t] = "close"
          /\ \/ pc' = [pc EXCEPT ![t] = "idle"] /\ call[t].kind = "close"
             \/ pc' = [pc EXCEPT ![t] = "open"] \/ pc' = [pc EXCEPT ![t] = "closing"]
      BY <1>1 DEF Close, Closed, histVars
    <2>2. QED
      BY <2>1 DEF Reaches, Opening, Unlocked, Places, dbVars
  <1>2. CASE Closing(t)
    <2>1. /\ UNCHANGED <<lock, call, next, calls, seen, rows, stale, reported, commitFailed, crashes>>
          /\ conn' \in {"none", "new", "open"} /\ broken' \in BOOLEAN /\ pc[t] = "closing"
          /\ \/ pc' = [pc EXCEPT ![t] = "idle"] /\ call[t].kind = "close"
             \/ pc' = [pc EXCEPT ![t] = "open"] \/ pc' = pc
          /\ UNCHANGED dbVars \/ (~OthersUse(t) /\ DropTransaction)
      BY <1>2 DEF Closing, Closed, histVars
    <2>2. db' = db
      BY <2>1 DEF DropTransaction, dbVars
    <2>3. QED
      BY <2>1, <2>2 DEF Reaches, Opening, Unlocked, Places
  <1>3. CASE Open(t)
    <2>1. /\ UNCHANGED <<lock, call, next, calls, seen, rows, stale, reported, commitFailed, crashes, dbVars>>
          /\ conn' \in {"none", "new", "open"} /\ broken' \in BOOLEAN /\ pc[t] = "open"
          /\ \/ pc' = [pc EXCEPT ![t] = "idle"] /\ call[t].kind = "connect"
             \/ pc' = [pc EXCEPT ![t] = "test"] \/ pc' = pc
      BY <1>3 DEF Open, histVars
    <2>2. QED
      BY <2>1 DEF Reaches, Opening, Unlocked, Places, dbVars
  <1>4. CASE Test(t)
    <2>1. /\ UNCHANGED <<lock, call, next, calls, seen, reported, commitFailed, crashes, broken, conn, dbVars>>
          /\ stale' = [stale EXCEPT ![t] = changes] /\ pc[t] = "test"
          /\ \/ pc' = [pc EXCEPT ![t] = "idle"] /\ call[t].kind = "last_id" /\ rows' = rows
             \/ pc' = [pc EXCEPT ![t] = "last_row"] /\ call[t].kind = "last_id" /\ rows' = rows
             \/ pc' = [pc EXCEPT ![t] = "run"] /\ call[t].kind # "last_id" /\ rows' = rows
             \/ /\ pc' = [pc EXCEPT ![t] = "unlock"] /\ call[t].kind # "last_id"
                /\ rows' = [rows EXCEPT ![t] = Failed]
      BY <1>4 DEF Test, Fail, histVars
    <2>2. call[t].kind # "last_id" => call[t].kind \notin Unlocked
      BY <2>1 DEF KindsAtPlaces, KindAt, Unlocked
    <2>3. QED
      BY <2>1, <2>2 DEF Reaches, Opening, Unlocked, Places, dbVars
  <1>5. CASE LastId(t) \/ LastRow(t)
    <2>1. /\ UNCHANGED <<lock, call, next, calls, seen, rows, stale, reported, commitFailed, crashes, conn, dbVars>>
          /\ pc[t] \in {"last_id", "last_row"} /\ broken' \in BOOLEAN
          /\ \/ pc[t] = "last_id" /\ pc' = [pc EXCEPT ![t] = "close"]
             \/ pc' = [pc EXCEPT ![t] = "idle"] \/ pc' = [pc EXCEPT ![t] = "last_row"]
             \/ pc[t] = "last_row" /\ pc' = pc
      BY <1>5 DEF LastId, LastRow, histVars
    <2>2. call[t].kind \in Unlocked
      BY <2>1 DEF KindsAtPlaces, KindAt, Unlocked
    <2>3. QED
      BY <2>1, <2>2 DEF Reaches, Opening, Places, dbVars
  <1>6. QED
    BY <1>1, <1>2, <1>3, <1>4, <1>5 DEF Connecting

(* Types, with the rows that a statement writes.                           *)
LEMMA TypeStep == ASSUME IInv, [Next]_vars PROVE TypeOK'
  <1> USE DEF IInv, TypeOK
  <1>1. ASSUME NEW t \in Threads, Call(t) PROVE TypeOK'
    <2>1. call' \in [Threads -> {[kind |-> k, stmts |-> Statements(k)] : k \in Kinds}]
      BY <1>1 DEF Call
    <2>2. pc' \in [Threads -> Places]
      BY <1>1 DEF Call, Goto, Places
    <2>3. QED
      BY <1>1, <2>1, <2>2 DEF Call, dbVars, histVars
  <1>2. ASSUME NEW t \in Threads, Lock(t) PROVE TypeOK'
    <2>1. pc' \in [Threads -> Places]
      BY <1>2 DEF Lock, LockAnyway, Goto, Places
    <2>2. QED
      BY <1>2, <2>1 DEF Lock, LockAnyway, dbVars, histVars
  <1>3. ASSUME NEW t \in Threads, Connecting(t) PROVE TypeOK'
    <2>1. UNCHANGED dbVars \/ DropTransaction
      BY <1>3, ConnectingFacts
    <2>2. inTxn' \in BOOLEAN /\ pending' \subseteq Row /\ changes' \in Nat
      <3>1. (inTxn' = inTxn \/ inTxn' = FALSE) /\ (pending' = pending \/ pending' = {})
            /\ (changes' = changes \/ changes' = 0)
        BY <2>1, Zenon DEF DropTransaction, dbVars
      <3>2. inTxn' \in BOOLEAN
        BY <3>1, Zenon
      <3>3. pending' \subseteq Row /\ changes' \in Nat
        BY <3>1
      <3>4. QED
        BY <3>2, <3>3
    <2>3. /\ UNCHANGED <<lock, call, next, calls, seen, reported, commitFailed, crashes, db>>
          /\ conn' \in {"none", "new", "open"} /\ broken' \in BOOLEAN
          /\ pc' \in [Threads -> Places] /\ rows' \in [Threads -> Nat \cup {Failed}]
          /\ stale' \in [Threads -> Nat]
      BY <1>3, ConnectingFacts
    <2>4. QED
      BY <2>2, <2>3
  <1>4. ASSUME NEW t \in Threads, Execute(t) PROVE TypeOK'
    <2>1. next[t] \in DOMAIN call[t].stmts
      BY <1>4, CallFacts DEF Execute, Position, PositionOf, Opening
    <2>2. RowsOf(t, next[t]) \subseteq Row /\ Cardinality(RowsOf(t, next[t])) \in Nat
      BY <2>1, RowsFacts
    <2>3. pending' \subseteq Row /\ db' \subseteq Row /\ changes' \in Nat /\ inTxn' = inTxn
      BY <1>4, <2>2 DEF Execute, Write, dbVars
    <2>4. next' \in [Threads -> Nat \ {0}]
      BY <1>4 DEF Execute
    <2>5. rows' \in [Threads -> Nat \cup {Failed}]
      <3>1. rows[t] \in Nat /\ rows[t] + Cardinality(RowsOf(t, next[t])) \in Nat
        BY <1>4, <2>2 DEF Execute, Position, PositionOf, Opening
      <3>2. QED
        BY <1>4, <3>1 DEF Execute, Fail
    <2>6. pc' \in [Threads -> Places]
      BY <1>4 DEF Execute, Fail, Goto, Places
    <2>7. QED
      BY <1>4, <2>3, <2>4, <2>5, <2>6 DEF Execute, histVars
  <1>5. ASSUME NEW t \in Threads, Begin(t) PROVE TypeOK'
    <2>1. /\ inTxn' \in BOOLEAN /\ pending' \subseteq Row /\ db' = db /\ changes' = changes
      BY <1>5 DEF Begin, Fail, Rollback
    <2>2. rows' \in [Threads -> Nat \cup {Failed}]
      <3>1. rows[t] \in Nat /\ rows[t] + changes \in Nat
        BY <1>5 DEF Begin, Position, PositionOf, Opening
      <3>2. QED
        BY <1>5, <3>1 DEF Begin, Fail
    <2>3. pc' \in [Threads -> Places]
      BY <1>5 DEF Begin, Fail, Goto, Places
    <2>4. QED
      BY <1>5, <2>1, <2>2, <2>3 DEF Begin, histVars
  <1>6. ASSUME NEW t \in Threads, Statement(t) PROVE TypeOK'
    <2>1. next[t] \in DOMAIN call[t].stmts
      BY <1>6 DEF Statement, Position, PositionOf
    <2>2. RowsOf(t, next[t]) \subseteq Row /\ Cardinality(RowsOf(t, next[t])) \in Nat
      BY <2>1, RowsFacts
    <2>3. pending' \subseteq Row /\ db' \subseteq Row /\ changes' \in Nat /\ inTxn' \in BOOLEAN
      BY <1>6, <2>2 DEF Statement, Write, Rollback
    <2>4. next' \in [Threads -> Nat \ {0}]
      BY <1>6 DEF Statement
    <2>5. rows' \in [Threads -> Nat \cup {Failed}]
      <3>1. rows[t] \in Nat /\ rows[t] + Cardinality(RowsOf(t, next[t])) \in Nat
        BY <1>6, <2>2 DEF Statement, Position, PositionOf
      <3>2. QED
        BY <1>6, <3>1 DEF Statement, Fail
    <2>6. pc' \in [Threads -> Places]
      BY <1>6 DEF Statement, Fail, Goto, Places
    <2>7. QED
      BY <1>6, <2>3, <2>4, <2>5, <2>6 DEF Statement, histVars
  <1>7. ASSUME NEW t \in Threads, Commit(t) PROVE TypeOK'
    <2>1. pc' \in [Threads -> Places]
      BY <1>7 DEF Commit, Goto, Places
    <2>2. QED
      BY <1>7, <2>1 DEF Commit, dbVars, histVars
  <1>8. ASSUME NEW t \in Threads, Fetch(t) PROVE TypeOK'
    <2>1. rows' \in [Threads -> Nat \cup {Failed}] /\ pc' \in [Threads -> Places]
      BY <1>8 DEF Fetch, Fail, Goto, Places
    <2>2. seen' \in [Threads -> SUBSET Row]
      BY <1>8 DEF Fetch
    <2>3. QED
      BY <1>8, <2>1, <2>2 DEF Fetch, dbVars, histVars
  <1>9. ASSUME NEW t \in Threads, Unlock(t) PROVE TypeOK'
    <2>1. lock' = None /\ pc' \in [Threads -> Places]
      BY <1>9 DEF Unlock, UnlockAnd, Goto, Places
    <2>2. reported' \subseteq Row
      <3>1. AllRowsOf(t) \subseteq Row
        BY RowsFacts DEF AllRowsOf
      <3>2. QED
        BY <1>9, <3>1 DEF Unlock, UnlockAnd
    <2>3. NoCall \in {[kind |-> k, stmts |-> Statements(k)] : k \in Kinds}
      BY StatementsOfKinds DEF Kinds, NoCall
    <2>4. call' \in [Threads -> {[kind |-> k, stmts |-> Statements(k)] : k \in Kinds}]
      BY <1>9, <2>3 DEF Unlock, UnlockAnd
    <2>5. /\ next' \in [Threads -> Nat \ {0}] /\ rows' \in [Threads -> Nat \cup {Failed}]
          /\ seen' \in [Threads -> SUBSET Row] /\ stale' \in [Threads -> Nat]
      <3>1. /\ next' = next \/ next' = [next EXCEPT ![t] = 1]
            /\ rows' = rows \/ rows' = [rows EXCEPT ![t] = 0]
            /\ seen' = seen \/ seen' = [seen EXCEPT ![t] = {}]
            /\ stale' = stale \/ stale' = [stale EXCEPT ![t] = 0]
        BY <1>9, Zenon DEF Unlock, UnlockAnd
      <3>2. next' \in [Threads -> Nat \ {0}]
        BY <3>1
      <3>3. rows' \in [Threads -> Nat \cup {Failed}]
        BY <3>1
      <3>4. seen' \in [Threads -> SUBSET Row]
        BY <3>1
      <3>5. stale' \in [Threads -> Nat]
        BY <3>1
      <3>6. QED
        BY <3>2, <3>3, <3>4, <3>5
    <2>6. UNCHANGED <<conn, broken, inTxn, pending, db, changes, calls, commitFailed, crashes>>
      BY <1>9 DEF Unlock, UnlockAnd, dbVars
    <2>7. QED
      BY <2>1, <2>2, <2>4, <2>5, <2>6
  <1>10. CASE Destroy
    BY <1>10 DEF Destroy, DropTransaction, histVars
  <1>11. CASE Crash
    <2>1. /\ conn' = "none" /\ inTxn' = FALSE /\ pending' = {} /\ changes' = 0 /\ db' = db
          /\ lock' = None /\ crashes' = crashes + 1
          /\ broken' = broken /\ calls' = calls /\ reported' = reported /\ commitFailed' = commitFailed
      BY <1>11 DEF Crash, DropTransaction, histVars
    <2>2. pc' \in [Threads -> Places]
      BY <1>11 DEF Crash, Each, Places
    <2>3. NoCall \in {[kind |-> k, stmts |-> Statements(k)] : k \in Kinds}
      BY StatementsOfKinds DEF Kinds, NoCall
    <2>4. call' \in [Threads -> {[kind |-> k, stmts |-> Statements(k)] : k \in Kinds}]
      BY <1>11, <2>3 DEF Crash, Each
    <2>5. /\ next' \in [Threads -> Nat \ {0}] /\ rows' \in [Threads -> Nat \cup {Failed}]
          /\ seen' \in [Threads -> SUBSET Row] /\ stale' \in [Threads -> Nat]
      BY <1>11 DEF Crash, Each
    <2>6. /\ lock' \in Threads \cup {None} /\ conn' \in {"none", "new", "open"} /\ broken' \in BOOLEAN
          /\ inTxn' \in BOOLEAN /\ pending' \subseteq Row /\ db' \subseteq Row /\ changes' \in Nat
          /\ calls' \in [Threads -> Nat] /\ reported' \subseteq Row /\ commitFailed' \in BOOLEAN /\ crashes' \in Nat
      <3>1. inTxn' \in BOOLEAN /\ broken' \in BOOLEAN /\ commitFailed' \in BOOLEAN
        BY <2>1, Zenon
      <3>2. /\ lock' \in Threads \cup {None} /\ conn' \in {"none", "new", "open"}
            /\ pending' \subseteq Row /\ db' \subseteq Row /\ changes' \in Nat
            /\ calls' \in [Threads -> Nat] /\ reported' \subseteq Row /\ crashes' \in Nat
        BY <2>1
      <3>3. QED
        BY <3>1, <3>2
    <2>7. QED
      BY <2>2, <2>4, <2>5, <2>6
  <1>12. CASE UNCHANGED vars
    BY <1>12 DEF vars, dbVars, histVars
  <1>13. QED
    BY <1>1, <1>2, <1>3, <1>4, <1>5, <1>6, <1>7, <1>8, <1>9, <1>10, <1>11, <1>12
    DEF Next, Step, Finished, Connecting

(* Who takes the lock finds it free, and only its holder lets it go.       *)
LEMMA LockStep == ASSUME IInv, [Next]_vars PROVE LockIsHeld'
  <1> USE DEF IInv, TypeOK, LockIsHeld, Holds, KindsAtPlaces, KindAt, Unlocked
  <1>1. ASSUME NEW t \in Threads, Call(t) PROVE LockIsHeld'
    BY <1>1 DEF Call, Goto, dbVars, histVars
  <1>2. ASSUME NEW t \in Threads, Lock(t) PROVE LockIsHeld'
    BY <1>2 DEF Lock, LockAnyway, Goto, dbVars, histVars
  <1>3. ASSUME NEW t \in Threads, Connecting(t) PROVE LockIsHeld'
    <2>1. lock' = lock /\ call' = call /\ Reaches(t) /\ \A u \in Threads \ {t} : pc'[u] = pc[u]
      BY <1>3, ConnectingFacts
    <2>2. Holds(t)' <=> Holds(t)
      BY <2>1 DEF Reaches, Opening
    <2>3. QED
      BY <2>1, <2>2
  <1>4. ASSUME NEW t \in Threads, Execute(t) PROVE LockIsHeld'
    BY <1>4 DEF Execute, Write, Fail, Goto, dbVars, histVars
  <1>5. ASSUME NEW t \in Threads, Begin(t) PROVE LockIsHeld'
    BY <1>5 DEF Begin, Fail, Rollback, Goto, dbVars, histVars
  <1>6. ASSUME NEW t \in Threads, Statement(t) PROVE LockIsHeld'
    BY <1>6 DEF Statement, Write, Fail, Rollback, Goto, dbVars, histVars
  <1>7. ASSUME NEW t \in Threads, Commit(t) PROVE LockIsHeld'
    BY <1>7 DEF Commit, Goto, dbVars, histVars
  <1>8. ASSUME NEW t \in Threads, Fetch(t) PROVE LockIsHeld'
    BY <1>8 DEF Fetch, Fail, Goto, dbVars, histVars
  <1>9. ASSUME NEW t \in Threads, Unlock(t) PROVE LockIsHeld'
    BY <1>9 DEF Unlock, UnlockAnd, Goto, dbVars, histVars
  <1>10. CASE Destroy
    BY <1>10 DEF Destroy, DropTransaction, dbVars, histVars
  <1>11. CASE Crash
    BY <1>11 DEF Crash, DropTransaction, Each, dbVars, histVars
  <1>12. CASE UNCHANGED vars
    BY <1>12 DEF vars, dbVars, histVars
  <1>13. QED
    BY <1>1, <1>2, <1>3, <1>4, <1>5, <1>6, <1>7, <1>8, <1>9, <1>10, <1>11, <1>12
    DEF Next, Step, Finished, Connecting

(* Calls without the lock stay away from the places of the others.         *)
LEMMA KindsStep == ASSUME IInv, [Next]_vars PROVE KindsAtPlaces'
  <1> SUFFICES ASSUME NEW u \in Threads PROVE KindAt(u)'
    BY DEF KindsAtPlaces
  <1> USE DEF IInv, TypeOK, KindAt, Unlocked
  <1>0. KindAt(u)
    BY DEF KindsAtPlaces
  <1>1. ASSUME NEW t \in Threads, Call(t) PROVE KindAt(u)'
    BY <1>0, <1>1 DEF Call, Goto, dbVars, histVars
  <1>2. ASSUME NEW t \in Threads, Lock(t) PROVE KindAt(u)'
    BY <1>0, <1>2 DEF Lock, LockAnyway, Goto, dbVars, histVars
  <1>3. ASSUME NEW t \in Threads, Connecting(t) PROVE KindAt(u)'
    <2>1. CASE u # t
      BY <1>0, <1>3, <2>1, ConnectingFacts
    <2>2. CASE u = t /\ (Close(u) \/ Closing(u))
      BY <1>0, <2>2 DEF Close, Closing, Closed, Goto
    <2>3. CASE u = t /\ (Open(u) \/ Test(u))
      BY <1>0, <2>3 DEF Open, Test, Fail, Goto
    <2>4. CASE u = t /\ (LastId(u) \/ LastRow(u))
      BY <1>0, <2>4 DEF LastId, LastRow, Goto
    <2>5. QED
      BY <1>0, <1>3, <2>1, <2>2, <2>3, <2>4 DEF Connecting
  <1>4. ASSUME NEW t \in Threads, Execute(t) PROVE KindAt(u)'
    BY <1>0, <1>4 DEF Execute, Write, Fail, Goto, dbVars, histVars
  <1>5. ASSUME NEW t \in Threads, Begin(t) PROVE KindAt(u)'
    BY <1>0, <1>5 DEF Begin, Fail, Rollback, Goto, dbVars, histVars
  <1>6. ASSUME NEW t \in Threads, Statement(t) PROVE KindAt(u)'
    BY <1>0, <1>6 DEF Statement, Write, Fail, Rollback, Goto, dbVars, histVars
  <1>7. ASSUME NEW t \in Threads, Commit(t) PROVE KindAt(u)'
    BY <1>0, <1>7 DEF Commit, Goto, dbVars, histVars
  <1>8. ASSUME NEW t \in Threads, Fetch(t) PROVE KindAt(u)'
    BY <1>0, <1>8 DEF Fetch, Fail, Goto, dbVars, histVars
  <1>9. ASSUME NEW t \in Threads, Unlock(t) PROVE KindAt(u)'
    BY <1>0, <1>9 DEF Unlock, UnlockAnd, Goto, dbVars, histVars
  <1>10. CASE Destroy
    BY <1>0, <1>10 DEF Destroy, DropTransaction, dbVars, histVars
  <1>11. CASE Crash
    BY <1>0, <1>11 DEF Crash, DropTransaction, Each, dbVars, histVars
  <1>12. CASE UNCHANGED vars
    BY <1>0, <1>12 DEF vars, dbVars, histVars
  <1>13. QED
    BY <1>0, <1>1, <1>2, <1>3, <1>4, <1>5, <1>6, <1>7, <1>8, <1>9, <1>10, <1>11, <1>12
    DEF Next, Step, Finished, Connecting

-----------------------------------------------------------------------------
(* A thread whose own variables a step leaves alone.                       *)
Stays(u) ==
    /\ pc'[u] = pc[u] /\ call'[u] = call[u] /\ next'[u] = next[u] /\ rows'[u] = rows[u]
    /\ calls'[u] = calls[u] /\ stale'[u] = stale[u] /\ seen'[u] = seen[u]

(* A step of one thread is no step of another.                             *)
LEMMA OthersStay ==
    ASSUME TypeOK, KindsAtPlaces, NEW t \in Threads, Call(t) \/ Step(t), NEW u \in Threads, u # t
    PROVE  Stays(u)
  <1> USE DEF TypeOK, Stays, Goto
  <1>1. CASE Call(t) \/ Lock(t)
    BY <1>1 DEF Call, Lock, LockAnyway
  <1>2. CASE Execute(t)
    BY <1>2 DEF Execute, Fail
  <1>3. CASE Begin(t) \/ Statement(t)
    BY <1>3 DEF Begin, Statement, Fail
  <1>4. CASE Commit(t) \/ Fetch(t)
    BY <1>4 DEF Commit, Fetch, Fail
  <1>5. CASE Unlock(t)
    BY <1>5 DEF Unlock, UnlockAnd
  <1>6. CASE Connecting(t)
    BY <1>6, ConnectingFacts
  <1>7. QED
    BY <1>1, <1>2, <1>3, <1>4, <1>5, <1>6 DEF Step, Connecting

(* While a thread runs statements no other step touches the transaction.   *)
LEMMA HolderAlone ==
    ASSUME IInv, NEW u \in Threads, pc[u] \in {"run", "stmt", "commit"},
           NEW t \in Threads, t # u, Call(t) \/ Step(t)
    PROVE  ~Holds(t) /\ UNCHANGED dbVars
  <1>1. Holds(u) /\ ~Holds(t) /\ lock # None
    BY DEF IInv, LockIsHeld, Holds, KindsAtPlaces, KindAt
  <1>2. pc[t] \notin {"run", "stmt", "commit", "unlock"}
    BY <1>1 DEF IInv, Holds, KindsAtPlaces, KindAt
  <1>3. ~Lock(t) /\ ~Execute(t) /\ ~Begin(t) /\ ~Statement(t) /\ ~Commit(t) /\ ~Fetch(t) /\ ~Unlock(t)
    BY <1>1, <1>2 DEF Lock, Execute, Begin, Statement, Commit, Fetch, Unlock, UnlockAnd
  <1>4. CASE Call(t)
    BY <1>1, <1>4 DEF Call
  <1>5. CASE Connecting(t)
    <2>1. OthersUse(t)
      BY DEF OthersUse, InUse
    <2>2. QED
      BY <1>1, <1>5, <2>1, ConnectingFacts DEF IInv
  <1>6. QED
    BY <1>3, <1>4, <1>5 DEF Step, Connecting

(* What holds of a thread by its place in its call still does.             *)
LEMMA StaysThere ==
    ASSUME NEW u \in Threads, Stays(u)
    PROVE  /\ PositionOf(u) => PositionOf(u)'
           /\ CountOf(u) /\ changes' = changes => CountOf(u)'
           /\ Written(u)' = Written(u)
  <1>1. Passed(u)' = Passed(u)
    BY DEF Stays, Passed
  <1>2. PositionOf(u) => PositionOf(u)'
    BY <1>1 DEF Stays, PositionOf
  <1>3. CountOf(u) /\ changes' = changes => CountOf(u)'
    BY DEF Stays, CountOf
  <1>4. QED
    BY <1>2, <1>3, SameWritten DEF Stays

(* A transaction ends where its call does, unless COMMIT fails.            *)
LEMMA TransactionStep == ASSUME IInv, [Next]_vars PROVE Transaction'
  <1> USE DEF IInv, TypeOK, Transaction, LockIsHeld, Holds, KindsAtPlaces, KindAt
  <1>1. ASSUME NEW t \in Threads, Call(t) PROVE Transaction'
    BY <1>1 DEF Call, Goto, dbVars, histVars
  <1>2. ASSUME NEW t \in Threads, Lock(t) PROVE Transaction'
    BY <1>2 DEF Lock, LockAnyway, Goto, dbVars, histVars
  <1>3. ASSUME NEW t \in Threads, Connecting(t) PROVE Transaction'
    <2>0. /\ call' = call /\ commitFailed' = commitFailed /\ Reaches(t)
          /\ \A u \in Threads \ {t} : pc'[u] = pc[u]
      BY <1>3, ConnectingFacts
    <2>1. \A u \in Threads : pc[u] \in {"stmt", "commit"} <=> pc'[u] \in {"stmt", "commit"}
      BY <2>0 DEF Reaches, Opening
    <2>2. CASE UNCHANGED dbVars
      BY <2>0, <2>1, <2>2 DEF dbVars
    <2>3. CASE ~OthersUse(t) /\ DropTransaction
      <3>1. \A u \in Threads : pc[u] \notin {"stmt", "commit"}
        BY <1>3, <2>3, ConnectingFacts DEF OthersUse, InUse, Reaches
      <3>2. QED
        BY <2>0, <2>1, <2>3, <3>1 DEF DropTransaction
    <2>4. QED
      BY <1>3, <2>2, <2>3, ConnectingFacts
  <1>4. ASSUME NEW t \in Threads, Execute(t) PROVE Transaction'
    BY <1>4 DEF Execute, Write, Fail, Goto, dbVars, histVars
  <1>5. ASSUME NEW t \in Threads, Begin(t) PROVE Transaction'
    BY <1>5 DEF Begin, Fail, Rollback, Goto, dbVars, histVars
  <1>6. ASSUME NEW t \in Threads, Statement(t) PROVE Transaction'
    BY <1>6 DEF Statement, Write, Fail, Rollback, Goto, dbVars, histVars
  <1>7. ASSUME NEW t \in Threads, Commit(t) PROVE Transaction'
    BY <1>7 DEF Commit, Goto, dbVars, histVars
  <1>8. ASSUME NEW t \in Threads, Fetch(t) PROVE Transaction'
    BY <1>8 DEF Fetch, Fail, Goto, dbVars, histVars
  <1>9. ASSUME NEW t \in Threads, Unlock(t) PROVE Transaction'
    BY <1>9 DEF Unlock, UnlockAnd, Goto, dbVars, histVars
  <1>10. CASE Destroy
    BY <1>10 DEF Destroy, DropTransaction, dbVars, histVars
  <1>11. CASE Crash
    BY <1>11 DEF Crash, DropTransaction, Each, dbVars, histVars
  <1>12. CASE UNCHANGED vars
    BY <1>12 DEF vars, dbVars, histVars
  <1>13. QED
    BY <1>1, <1>2, <1>3, <1>4, <1>5, <1>6, <1>7, <1>8, <1>9, <1>10, <1>11, <1>12
    DEF Next, Step, Finished, Connecting

(* Statements run in their order, and all of them if none fails.           *)
LEMMA PositionStep == ASSUME IInv, [Next]_vars PROVE Position'
  <1> SUFFICES ASSUME NEW u \in Threads PROVE PositionOf(u)'
    BY DEF Position
  <1> USE DEF IInv, PositionOf
  <1>1. PositionOf(u) /\ pc \in [Threads -> Places] /\ next[u] \in Nat \ {0}
    BY DEF Position, TypeOK
  <1>2. /\ DOMAIN call[u].stmts = 1 .. Len(call[u].stmts) /\ Len(call[u].stmts) \in Nat
        /\ call[u].kind = "execute" => Len(call[u].stmts) = 1
        /\ call[u].kind = "vector" => Len(call[u].stmts) = 2
        /\ call[u].kind = "fetch" => Len(call[u].stmts) = 0
    BY CallFacts
  <1>3. CASE Stays(u)
    BY <1>1, <1>3, StaysThere
  <1>4. CASE pc'[u] \in {"idle", "last_row"}
    BY <1>4 DEF Opening
  <1>5. CASE pc'[u] = "unlock" /\ rows'[u] = Failed
    BY <1>5 DEF Opening
  <1>6. CASE Call(u)
    <2>1. next'[u] = 1 /\ rows'[u] = 0 /\ pc'[u] \in {"lock", "last_id", "close"}
      BY <1>6 DEF Call, Goto, TypeOK
    <2>2. QED
      BY <2>1 DEF Failed, Opening
  <1>7. CASE Lock(u) \/ Connecting(u)
    <2>1. call'[u] = call[u] /\ next'[u] = next[u]
      BY <1>7, ConnectingFacts DEF Lock, LockAnyway
    <2>2. \/ pc[u] \in Opening /\ pc'[u] \in Opening /\ rows'[u] = rows[u]
          \/ pc'[u] \in {"idle", "last_row"}
          \/ pc'[u] = "unlock" /\ rows'[u] = Failed
      <3>1. CASE Lock(u)
        BY <1>1, <3>1 DEF Lock, LockAnyway, Goto, TypeOK, Opening
      <3>2. CASE Connecting(u)
        <4>1. Reaches(u)
          BY <3>2, ConnectingFacts
        <4>2. QED
          BY <4>1 DEF Reaches
      <3>3. QED
        BY <1>7, <3>1, <3>2
    <2>3. QED
      BY <1>1, <1>4, <1>5, <2>1, <2>2 DEF Opening
  <1>8. CASE Execute(u)
    <2>1. /\ call'[u] = call[u] /\ next'[u] = next[u] + 1 /\ pc'[u] = "unlock"
          /\ pc[u] = "run" /\ call[u].kind \in {"execute", "batched"}
      BY <1>8 DEF Execute, Fail, Goto, TypeOK
    <2>2. ASSUME call[u].kind = "execute" PROVE next'[u] > Len(call[u].stmts)
      <3>1. next[u] = 1
        BY <1>1, <2>1, <2>2 DEF Opening
      <3>2. next'[u] = 2
        BY <2>1, <3>1
      <3>3. Len(call[u].stmts) = 1
        BY <1>2, <2>2
      <3>4. QED
        BY <3>2, <3>3
    <2>3. QED
      BY <2>1, <2>2 DEF Opening
  <1>9. CASE Begin(u)
    <2>1. /\ call'[u] = call[u] /\ next'[u] = next[u] /\ pc[u] = "run" /\ call[u].kind = "vector"
          /\ \/ pc'[u] = "stmt" /\ rows'[u] = rows[u] + changes
             \/ pc'[u] = "unlock" /\ rows'[u] = Failed
      BY <1>9 DEF Begin, Fail, Goto, TypeOK
    <2>2. rows[u] \in Nat /\ changes \in Nat
      BY <1>1, <2>1 DEF TypeOK, Opening
    <2>3. rows[u] + changes # Failed
      BY <2>2 DEF Failed
    <2>4. next[u] \in DOMAIN call[u].stmts
      <3>1. next[u] = 1
        BY <1>1, <2>1 DEF Opening
      <3>2. DOMAIN call[u].stmts = 1 .. 2
        BY <1>2, <2>1
      <3>3. QED
        BY <3>1, <3>2
    <2>5. QED
      BY <1>5, <2>1, <2>3, <2>4 DEF Opening
  <1>10. CASE Statement(u)
    <2>1. /\ call'[u] = call[u] /\ next'[u] = next[u] + 1 /\ pc[u] = "stmt"
          /\ \/ pc'[u] = "unlock" /\ rows'[u] = Failed
             \/ /\ pc'[u] = IF next[u] = Len(call[u].stmts) THEN "commit" ELSE "stmt"
                /\ rows'[u] = rows[u] + Cardinality(RowsOf(u, next[u]))
      BY <1>10 DEF Statement, Fail, Goto, TypeOK
    <2>2. call[u].kind = "vector"
      BY <2>1 DEF Transaction
    <2>3. next[u] \in {1, 2} /\ Len(call[u].stmts) = 2
      <3>1. next[u] \in 1 .. Len(call[u].stmts)
        BY <1>1, <1>2, <2>1
      <3>2. Len(call[u].stmts) = 2
        BY <1>2, <2>2
      <3>3. QED
        BY <3>1, <3>2
    <2>4. CASE pc'[u] = "stmt" /\ next[u] = 1
      <3>1. rows[u] \in Nat /\ Cardinality(RowsOf(u, next[u])) \in Nat
        BY <1>1, <2>1, RowsFacts DEF TypeOK
      <3>2. rows[u] + Cardinality(RowsOf(u, next[u])) # Failed
        BY <3>1 DEF Failed
      <3>3. next'[u] = 2 /\ 2 \in DOMAIN call[u].stmts
        BY <1>2, <2>1, <2>3, <2>4
      <3>4. QED
        BY <2>1, <2>4, <3>2, <3>3 DEF Opening
    <2>5. CASE pc'[u] = "commit" /\ next[u] = 2
      BY <2>1, <2>5 DEF Opening
    <2>6. QED
      BY <1>5, <2>1, <2>3, <2>4, <2>5
  <1>11. CASE Commit(u) \/ Fetch(u)
    <2>1. /\ call'[u] = call[u] /\ next'[u] = next[u] /\ pc'[u] = "unlock"
          /\ \/ pc[u] = "commit" /\ call[u].kind = "vector"
             \/ pc[u] = "run" /\ call[u].kind = "fetch"
      BY <1>11 DEF Commit, Fetch, Fail, Goto, TypeOK, Transaction
    <2>2. pc[u] = "commit" => next'[u] = 3 /\ Len(call[u].stmts) = 2
      BY <1>1, <1>2, <2>1
    <2>3. pc[u] = "run" => next'[u] = 1 /\ Len(call[u].stmts) = 0
      BY <1>1, <1>2, <2>1 DEF Opening
    <2>4. next'[u] > Len(call[u].stmts)
      <3>1. (next'[u] = 3 /\ Len(call[u].stmts) = 2) \/ (next'[u] = 1 /\ Len(call[u].stmts) = 0)
        BY <2>1, <2>2, <2>3
      <3>2. CASE next'[u] = 3 /\ Len(call[u].stmts) = 2
        BY <3>2
      <3>3. CASE next'[u] = 1 /\ Len(call[u].stmts) = 0
        BY <3>3
      <3>4. QED
        BY <3>1, <3>2, <3>3
    <2>5. QED
      BY <2>1, <2>4 DEF Opening
  <1>12. CASE Unlock(u)
    <2>1. \/ pc'[u] = "idle"
          \/ /\ pc'[u] = "lock" /\ call[u].kind = "batched" /\ next[u] <= Len(call[u].stmts)
             /\ rows'[u] = rows[u] /\ rows[u] # Failed /\ call'[u] = call[u] /\ next'[u] = next[u]
      BY <1>12 DEF Unlock, UnlockAnd, MoreBatches, Goto, TypeOK
    <2>2. QED
      BY <1>1, <1>2, <1>4, <2>1 DEF Opening
  <1>14. CASE Destroy \/ Crash
    BY <1>4, <1>14 DEF Destroy, Crash, Each
  <1>15. CASE UNCHANGED vars
    BY <1>3, <1>15 DEF vars, Stays
  <1>16. CASE \E t \in Threads \ {u} : Call(t) \/ Step(t)
    BY <1>3, <1>16, OthersStay
  <1>17. QED
    BY <1>6, <1>7, <1>8, <1>9, <1>10, <1>11, <1>12, <1>14, <1>15, <1>16 DEF Next, Step, Finished, Connecting

(* Only who holds the lock, or finds no user of it, changes what sqlite3_changes gives. *)
LEMMA CountsStep == ASSUME IInv, [Next]_vars PROVE Counts'
  <1> SUFFICES ASSUME NEW u \in Threads PROVE CountOf(u)'
    BY DEF Counts
  <1> USE DEF IInv
  <1>1. CountOf(u) /\ PositionOf(u)
    BY DEF Counts, Position
  <1>2. call[u].kind = "vector" =>
            Len(call[u].stmts) = 2 /\ DOMAIN call[u].stmts = 1 .. 2
    BY CallFacts
  <1>3. CASE Stays(u) /\ (pc[u] # "run" \/ changes' = changes)
    BY <1>1, <1>3 DEF Stays, CountOf
  <1>4. CASE pc'[u] \in {"idle", "last_row"} \/ (pc'[u] = "unlock" /\ rows'[u] = Failed)
    BY <1>4 DEF CountOf, Opening
  <1>5. CASE Call(u)
    BY <1>5 DEF Call, Goto, TypeOK, CountOf, Opening
  <1>6. CASE Lock(u)
    BY <1>1, <1>6 DEF Lock, LockAnyway, Goto, TypeOK, CountOf, Opening, dbVars
  <1>7. CASE Connecting(u)
    <2>1. call'[u] = call[u] /\ Reaches(u)
      BY <1>7, ConnectingFacts
    <2>2. CASE pc'[u] \in Opening /\ pc[u] \in Opening /\ rows'[u] = rows[u] /\ (pc'[u] = "run" => stale'[u] = changes /\ UNCHANGED dbVars)
      BY <1>1, <2>1, <2>2 DEF CountOf, Opening, dbVars
    <2>3. QED
      BY <1>4, <2>1, <2>2 DEF Reaches
  <1>8. CASE Execute(u) \/ Fetch(u)
    BY <1>8 DEF Execute, Fetch, Fail, Goto, TypeOK, CountOf, Opening
  <1>9. CASE Begin(u)
    <2>1. call[u].kind = "vector" /\ next[u] = 1 /\ rows[u] = 0 /\ stale[u] = changes
      BY <1>1, <1>9 DEF Begin, PositionOf, CountOf, Opening
    <2>2. /\ call'[u] = call[u] /\ next'[u] = next[u] /\ stale'[u] = stale[u]
          /\ \/ pc'[u] = "unlock" /\ rows'[u] = Failed
             \/ pc'[u] = "stmt" /\ rows'[u] = rows[u] + changes
      BY <1>9 DEF Begin, Fail, Goto, TypeOK
    <2>3. changes \in Nat
      BY DEF TypeOK
    <2>4. QED
      BY <1>4, <2>1, <2>2, <2>3 DEF CountOf, Opening
  <1>10. CASE Statement(u)
    <2>1. /\ call[u].kind = "vector" /\ next[u] \in {1, 2} /\ rows[u] = stale[u] + next[u] - 1
      BY <1>1, <1>2, <1>10 DEF Statement, PositionOf, CountOf, Transaction
    <2>2. Cardinality(RowsOf(u, next[u])) = 1
      <3>1. call[u].stmts[next[u]] = {next[u]}
        BY <2>1, CallFacts
      <3>2. RowsOf(u, next[u]) = {[by |-> u, nth |-> calls[u], kind |-> call[u].kind, val |-> next[u]]}
        BY <3>1 DEF RowsOf
      <3>3. QED
        BY <3>2, FS_Singleton
    <2>3. /\ call'[u] = call[u] /\ next'[u] = next[u] + 1 /\ stale'[u] = stale[u]
          /\ \/ pc'[u] = "unlock" /\ rows'[u] = Failed
             \/ /\ pc'[u] = IF next[u] = Len(call[u].stmts) THEN "commit" ELSE "stmt"
                /\ rows'[u] = rows[u] + 1
      BY <1>10, <2>2 DEF Statement, Fail, Goto, TypeOK
    <2>4. stale[u] \in Nat
      BY DEF TypeOK
    <2>5. CASE pc'[u] = "stmt" /\ next[u] = 1
      BY <2>1, <2>3, <2>4, <2>5 DEF CountOf, Opening
    <2>6. CASE pc'[u] = "commit" /\ next[u] = 2
      BY <2>1, <2>3, <2>4, <2>6 DEF CountOf, Opening
    <2>7. QED
      BY <1>2, <1>4, <2>1, <2>3, <2>5, <2>6
  <1>11. CASE Commit(u)
    BY <1>1, <1>11 DEF Commit, Goto, TypeOK, CountOf, Opening
  <1>12. CASE Unlock(u)
    <2>1. pc'[u] = "idle" \/ (pc'[u] = "lock" /\ call'[u] = call[u] /\ call[u].kind = "batched")
      BY <1>12 DEF Unlock, UnlockAnd, MoreBatches, Goto, TypeOK
    <2>2. QED
      BY <1>4, <2>1 DEF CountOf
  <1>13. CASE Destroy \/ Crash
    BY <1>4, <1>13 DEF Destroy, Crash, Each
  <1>14. CASE UNCHANGED vars
    BY <1>3, <1>14 DEF vars, dbVars, Stays
  <1>15. ASSUME NEW t \in Threads \ {u}, Call(t) \/ Step(t) PROVE CountOf(u)'
    <2>1. Stays(u)
      BY <1>15, OthersStay
    <2>2. pc[u] = "run" => changes' = changes
      BY <1>15, HolderAlone DEF dbVars
    <2>3. QED
      BY <1>3, <2>1, <2>2
  <1>16. QED
    BY <1>5, <1>6, <1>7, <1>8, <1>9, <1>10, <1>11, <1>12, <1>13, <1>14, <1>15 DEF Next, Step, Finished, Connecting

(* Rows of the database stay, and a failed COMMIT is remembered.           *)
LEMMA Grows ==
    ASSUME IInv, [Next]_vars
    PROVE  db \subseteq db' /\ (commitFailed => commitFailed')
  <1>1. ASSUME NEW t \in Threads, Call(t) \/ Lock(t) \/ Fetch(t) \/ Unlock(t)
        PROVE  db' = db /\ commitFailed' = commitFailed
    BY <1>1 DEF Call, Lock, LockAnyway, Fetch, Unlock, UnlockAnd, dbVars, histVars
  <1>2. ASSUME NEW t \in Threads, Connecting(t)
        PROVE  db' = db /\ commitFailed' = commitFailed
    BY <1>2, ConnectingFacts DEF IInv
  <1>3. ASSUME NEW t \in Threads, Execute(t) \/ Begin(t) \/ Statement(t) \/ Commit(t)
        PROVE  db \subseteq db' /\ (commitFailed => commitFailed')
    BY <1>3 DEF Execute, Begin, Statement, Commit, Write, Rollback, dbVars, histVars, IInv, TypeOK
  <1>4. CASE Destroy \/ Crash
    BY <1>4 DEF Destroy, Crash, DropTransaction, histVars
  <1>5. CASE UNCHANGED vars
    BY <1>5 DEF vars, dbVars, histVars
  <1>6. QED
    BY <1>1, <1>2, <1>3, <1>4, <1>5 DEF Next, Step, Finished, Connecting

(* Outside of a vector a statement commits by itself, unless a COMMIT failed. *)
LEMMA CommitsItself ==
    ASSUME IInv, NEW t \in Threads, pc[t] = "run", ~commitFailed
    PROVE  ~inTxn
  BY DEF IInv, Transaction, LockIsHeld, Holds, KindsAtPlaces, KindAt

(* A thread that is at its first statement has written nothing.            *)
LEMMA NothingWritten ==
    ASSUME TypeOK, NEW t \in Threads
    PROVE  /\ next[t] = 1 => Written(t) = {}
           /\ next'[t] = 1 /\ DOMAIN call'[t].stmts \subseteq Nat \ {0} => Written(t)' = {}
  <1>1. \A k \in DOMAIN call[t].stmts : ~(k < 1)
    BY CallFacts
  <1>2. QED
    BY <1>1 DEF Written, Passed

(* What a call has written stays where it is kept.                         *)
LEMMA KeptStep == ASSUME IInv, [Next]_vars PROVE Kept'
  <1> DEFINE InTxn(u) == pc[u] \in {"stmt", "commit"} => pending = Written(u)
             InDb(u) == pc[u] \in Opening \cup {"unlock"} /\ rows[u] # Failed =>
                            Written(u) \subseteq db
  <1> SUFFICES ASSUME NEW u \in Threads PROVE InTxn(u)' /\ (~commitFailed' => InDb(u)')
    BY DEF Kept
  <1>1. InTxn(u) /\ (~commitFailed => InDb(u)) /\ PositionOf(u) /\ TypeOK
    BY DEF IInv, Kept, Position
  <1>2. db \subseteq db' /\ (commitFailed => commitFailed')
    BY Grows
  <1>3. CASE Stays(u) /\ (pc[u] \in {"stmt", "commit"} => pending' = pending)
    BY <1>1, <1>2, <1>3, StaysThere DEF Stays
  <1>4. CASE pc'[u] \in {"idle", "last_row"} \/ (pc'[u] = "unlock" /\ rows'[u] = Failed)
    BY <1>4 DEF Opening
  <1>5. CASE Call(u)
    <2>1. next'[u] = 1 /\ pc'[u] \in {"lock", "last_id", "close"}
      BY <1>1, <1>5 DEF Call, Goto, TypeOK
    <2>2. DOMAIN call'[u].stmts \subseteq Nat \ {0}
      <3>1. PICK k \in Kinds : call'[u] = [kind |-> k, stmts |-> Statements(k)]
        BY <1>1, <1>5 DEF Call, TypeOK
      <3>2. DOMAIN Statements(k) \subseteq Nat \ {0}
        BY StatementsOfKinds, BatchesAreSeq DEF Kinds
      <3>3. QED
        BY <3>1, <3>2
    <2>3. QED
      BY <1>1, <2>1, <2>2, NothingWritten
  <1>6. CASE Lock(u) \/ Connecting(u)
    <2>1. call'[u] = call[u] /\ calls'[u] = calls[u] /\ next'[u] = next[u] /\ db' = db /\ commitFailed' = commitFailed
      BY <1>6, ConnectingFacts DEF Lock, LockAnyway, dbVars, histVars, IInv
    <2>2. \/ pc[u] \in Opening /\ pc'[u] \in Opening /\ rows'[u] = rows[u]
          \/ pc'[u] \in {"idle", "last_row"}
          \/ pc'[u] = "unlock" /\ rows'[u] = Failed
      <3>1. CASE Lock(u)
        BY <1>1, <3>1 DEF Lock, LockAnyway, Goto, TypeOK, Opening
      <3>2. CASE Connecting(u)
        <4>1. Reaches(u)
          BY <3>2, ConnectingFacts DEF IInv
        <4>2. QED
          BY <4>1 DEF Reaches
      <3>3. QED
        BY <1>6, <3>1, <3>2
    <2>3. Written(u)' = Written(u)
      BY <2>1, SameWritten
    <2>4. QED
      BY <1>1, <1>4, <2>1, <2>2, <2>3 DEF Opening
  <1>7. CASE Execute(u)
    <2>1. /\ call'[u] = call[u] /\ calls'[u] = calls[u] /\ next'[u] = next[u] + 1
          /\ pc[u] = "run" /\ pc'[u] = "unlock" /\ commitFailed' = commitFailed
          /\ Write(RowsOf(u, next[u])) \/ rows'[u] = Failed
      BY <1>1, <1>7 DEF Execute, Fail, Goto, TypeOK, histVars
    <2>2. ASSUME Write(RowsOf(u, next[u])), ~commitFailed PROVE Written(u)' \subseteq db'
      <3>1. db' = db \cup RowsOf(u, next[u])
        BY <2>1, <2>2, CommitsItself DEF Write
      <3>2. next[u] \in DOMAIN call[u].stmts
        BY <1>1, <1>7, CallFacts DEF Execute, PositionOf, Opening
      <3>3. Written(u)' = Written(u) \cup RowsOf(u, next[u])
        BY <1>1, <2>1, <3>2, OneMoreWritten
      <3>4. Written(u) \subseteq db
        BY <1>1, <2>1, <2>2 DEF PositionOf, Opening
      <3>5. QED
        BY <3>1, <3>3, <3>4
    <2>3. QED
      BY <1>4, <2>1, <2>2 DEF Opening
  <1>8. CASE Begin(u)
    <2>1. /\ call'[u] = call[u] /\ calls'[u] = calls[u] /\ next'[u] = next[u]
          /\ pc[u] = "run" /\ call[u].kind = "vector"
          /\ \/ pc'[u] = "stmt" /\ ~inTxn /\ pending' = pending
             \/ pc'[u] = "unlock" /\ rows'[u] = Failed
      BY <1>1, <1>8 DEF Begin, Fail, Goto, TypeOK
    <2>2. next[u] = 1
      BY <1>1, <2>1 DEF PositionOf, Opening
    <2>3. Written(u)' = {}
      BY <1>1, <2>1, <2>2, NothingWritten, SameWritten
    <2>4. ~inTxn => pending = {}
      BY DEF IInv, Transaction
    <2>5. QED
      BY <1>4, <2>1, <2>3, <2>4 DEF Opening
  <1>9. CASE Statement(u)
    <2>1. /\ call'[u] = call[u] /\ calls'[u] = calls[u] /\ next'[u] = next[u] + 1 /\ pc[u] = "stmt"
          /\ \/ pc'[u] = "unlock" /\ rows'[u] = Failed
             \/ pc'[u] \in {"stmt", "commit"} /\ Write(RowsOf(u, next[u]))
      BY <1>1, <1>9 DEF Statement, Fail, Goto, TypeOK
    <2>2. inTxn
      BY <2>1 DEF IInv, Transaction
    <2>3. Written(u)' = Written(u) \cup RowsOf(u, next[u])
      BY <1>1, <2>1, OneMoreWritten DEF PositionOf
    <2>4. Write(RowsOf(u, next[u])) => pending' = pending \cup RowsOf(u, next[u])
      BY <2>2 DEF Write
    <2>5. pending = Written(u)
      BY <1>1, <2>1
    <2>6. QED
      BY <1>4, <2>1, <2>3, <2>4, <2>5 DEF Opening
  <1>10. CASE Commit(u)
    <2>1. /\ call'[u] = call[u] /\ calls'[u] = calls[u] /\ next'[u] = next[u]
          /\ pc[u] = "commit" /\ pc'[u] = "unlock"
          /\ commitFailed' \/ db' = db \cup pending
      BY <1>1, <1>10 DEF Commit, Goto, TypeOK
    <2>2. Written(u)' = Written(u) /\ pending = Written(u)
      BY <1>1, <2>1, SameWritten
    <2>3. QED
      BY <2>1, <2>2
  <1>11. CASE Fetch(u)
    <2>1. /\ call'[u] = call[u] /\ calls'[u] = calls[u] /\ next'[u] = next[u] /\ pc[u] = "run"
          /\ pc'[u] = "unlock" /\ commitFailed' = commitFailed
          /\ rows'[u] = rows[u] \/ rows'[u] = Failed
      BY <1>1, <1>11 DEF Fetch, Fail, Goto, TypeOK, histVars
    <2>2. Written(u)' = Written(u)
      BY <2>1, SameWritten
    <2>3. QED
      BY <1>1, <1>2, <1>4, <2>1, <2>2 DEF Opening
  <1>12. CASE Unlock(u)
    <2>1. \/ pc'[u] = "idle"
          \/ /\ call'[u] = call[u] /\ calls'[u] = calls[u] /\ next'[u] = next[u] /\ pc[u] = "unlock"
             /\ rows'[u] = rows[u] /\ commitFailed' = commitFailed /\ pc'[u] = "lock"
      BY <1>1, <1>12 DEF Unlock, UnlockAnd, Goto, TypeOK
    <2>2. CASE pc'[u] = "lock" /\ pc[u] = "unlock" /\ call'[u] = call[u] /\ calls'[u] = calls[u] /\ next'[u] = next[u]
      BY <1>1, <1>2, <1>4, <2>1, <2>2, SameWritten DEF Opening
    <2>3. QED
      BY <1>4, <2>1, <2>2
  <1>14. CASE Destroy \/ Crash
    BY <1>4, <1>14 DEF Destroy, Crash, Each
  <1>15. CASE UNCHANGED vars
    BY <1>3, <1>15 DEF vars, dbVars, Stays
  <1>16. ASSUME NEW t \in Threads \ {u}, Call(t) \/ Step(t) PROVE InTxn(u)' /\ (~commitFailed' => InDb(u)')
    <2>1. Stays(u)
      BY <1>1, <1>16, OthersStay DEF IInv
    <2>2. pc[u] \in {"stmt", "commit"} => pending' = pending
      BY <1>16, HolderAlone DEF dbVars
    <2>3. QED
      BY <1>3, <2>1, <2>2
  <1>17. QED
    BY <1>5, <1>6, <1>7, <1>8, <1>9, <1>10, <1>11, <1>12, <1>14, <1>15, <1>16 DEF Next, Step, Finished, Connecting

(* A vector's two rows are all that its statements write.                  *)
LEMMA VectorRows ==
    ASSUME TypeOK, NEW t \in Threads, call[t].kind = "vector"
    PROVE  /\ WholeVectors(RowsOf(t, 1) \cup RowsOf(t, 2))
           /\ next[t] = 2 => Written(t) = RowsOf(t, 1)
  <1> DEFINE row(v) == [by |-> t, nth |-> calls[t], kind |-> call[t].kind, val |-> v]
  <1>1. RowsOf(t, 1) = {row(1)} /\ RowsOf(t, 2) = {row(2)}
    BY CallFacts DEF RowsOf
  <1>2. \A r \in {row(1), row(2)}, v \in 1 .. 2 : [r EXCEPT !.val = v] \in {row(1), row(2)}
    <2>1. \A v \in 1 .. 2 : v = 1 \/ v = 2
      OBVIOUS
    <2>2. QED
      BY <2>1
  <1>3. ASSUME next[t] = 2 PROVE Passed(t) = {1}
    <2>1. DOMAIN call[t].stmts = 1 .. 2
      BY CallFacts
    <2>2. QED
      BY <1>3, <2>1 DEF Passed
  <1>4. QED
    BY <1>1, <1>2, <1>3 DEF WholeVectors, Written

(* No step leaves half a vector outside of its statements.                 *)
LEMMA WholeStep == ASSUME IInv, [Next]_vars PROVE Whole'
  <1> DEFINE NoneAtStmt == \A u \in Threads : pc[u] # "stmt"
  <1>1. /\ TypeOK /\ Transaction /\ LockIsHeld /\ KindsAtPlaces
        /\ WholeVectors(db) /\ \A u \in Threads : WholeVectors(seen[u])
        /\ NoneAtStmt => WholeVectors(pending)
    BY DEF IInv, Whole
  <1>2. WholeVectors({})
    BY DEF WholeVectors
  <1>3. CASE UNCHANGED <<db, pending, seen>> /\ (NoneAtStmt' => NoneAtStmt)
    BY <1>1, <1>3 DEF Whole
  <1>4. CASE UNCHANGED <<db, seen>> /\ pending' = {}
    BY <1>1, <1>2, <1>4 DEF Whole
  <1>5. ASSUME NEW t \in Threads, pc[t] \in {"run", "commit"} PROVE WholeVectors(pending)
    BY <1>1, <1>5 DEF LockIsHeld, Holds, KindsAtPlaces, KindAt
  <1>6. ASSUME NEW t \in Threads, Call(t) \/ (~broken /\ (Lock(t) \/ Unlock(t))) PROVE Whole'
    <2>1. UNCHANGED <<db, pending>> /\ pc[t] # "stmt"
      BY <1>6 DEF Call, Lock, LockAnyway, Unlock, UnlockAnd, dbVars
    <2>2. \A u \in Threads \ {t} : pc'[u] = pc[u] /\ seen'[u] = seen[u]
      BY <1>1, <1>6, OthersStay DEF Step, Stays
    <2>3. seen'[t] = seen[t] \/ seen'[t] = {}
      BY <1>1, <1>6 DEF Call, Lock, LockAnyway, Unlock, UnlockAnd, TypeOK
    <2>4. QED
      BY <1>1, <1>2, <2>1, <2>2, <2>3 DEF Whole
  <1>7. ASSUME NEW t \in Threads, Connecting(t) PROVE Whole'
    <2>1. UNCHANGED <<db, seen>> /\ (pending' = {} \/ UNCHANGED pending)
      BY <1>1, <1>7, ConnectingFacts DEF DropTransaction, dbVars
    <2>2. NoneAtStmt' => NoneAtStmt
      BY <1>1, <1>7, ConnectingFacts DEF Reaches
    <2>3. QED
      BY <1>3, <1>4, <2>1, <2>2
  <1>8. ASSUME NEW t \in Threads, Execute(t) PROVE Whole'
    <2>1. WholeVectors(pending) /\ seen' = seen
      BY <1>5, <1>8 DEF Execute
    <2>2. next[t] \in DOMAIN call[t].stmts /\ call[t].kind # "vector"
      BY <1>1, <1>8, CallFacts DEF Execute, IInv, Position, PositionOf, Opening
    <2>3. WholeVectors(db \cup RowsOf(t, next[t])) /\ WholeVectors(pending \cup RowsOf(t, next[t]))
      BY <1>1, <2>1, <2>2, RowsFacts, WholeTogether
    <2>4. WholeVectors(db') /\ WholeVectors(pending')
      BY <1>1, <1>8, <2>1, <2>3 DEF Execute, Write, dbVars
    <2>5. QED
      BY <1>1, <2>1, <2>4 DEF Whole
  <1>9. ASSUME NEW t \in Threads, Begin(t) PROVE Whole'
    <2>1. UNCHANGED <<db, seen>> /\ WholeVectors(pending)
      BY <1>5, <1>9 DEF Begin, Rollback
    <2>2. pending' = pending \/ pending' = {}
      BY <1>9 DEF Begin, Rollback
    <2>3. QED
      BY <1>1, <1>2, <2>1, <2>2 DEF Whole
  <1>10. ASSUME NEW t \in Threads, Statement(t) PROVE Whole'
    <2>1. inTxn /\ call[t].kind = "vector" /\ pc[t] = "stmt" /\ seen' = seen
      BY <1>1, <1>10 DEF Statement, Transaction
    <2>2. db' = db
      BY <1>10, <2>1 DEF Statement, Write, Rollback
    <2>3. ASSUME NoneAtStmt' PROVE WholeVectors(pending')
      <3>1. pending' = {} \/ (pc'[t] = "commit" /\ pending' = pending \cup RowsOf(t, next[t]))
        BY <1>1, <1>10, <2>1, <2>3 DEF Statement, Write, Rollback, Fail, Goto, TypeOK
      <3>2. CASE pc'[t] = "commit" /\ pending' = pending \cup RowsOf(t, next[t])
        <4>1. next[t] = 2
          <5>1. next[t] = Len(call[t].stmts)
            BY <1>1, <1>10, <3>2 DEF Statement, Fail, Goto, TypeOK
          <5>2. QED
            BY <1>1, <2>1, <5>1, CallFacts
        <4>2. pending = RowsOf(t, 1)
          BY <1>1, <2>1, <4>1, VectorRows DEF IInv, Kept
        <4>3. QED
          BY <1>1, <2>1, <3>2, <4>1, <4>2, VectorRows
      <3>3. QED
        BY <1>2, <3>1, <3>2
    <2>4. QED
      BY <1>1, <2>1, <2>2, <2>3 DEF Whole
  <1>11. ASSUME NEW t \in Threads, Commit(t) PROVE Whole'
    <2>1. WholeVectors(pending) /\ seen' = seen
      BY <1>5, <1>11 DEF Commit
    <2>2. WholeVectors(db \cup pending)
      BY <1>1, <2>1, WholeTogether
    <2>3. WholeVectors(db') /\ WholeVectors(pending')
      BY <1>1, <1>2, <1>11, <2>1, <2>2 DEF Commit, dbVars
    <2>4. QED
      BY <1>1, <2>1, <2>3 DEF Whole
  <1>12. ASSUME NEW t \in Threads, Fetch(t) PROVE Whole'
    <2>1. WholeVectors(pending) /\ UNCHANGED <<db, pending>>
      BY <1>5, <1>12 DEF Fetch, dbVars
    <2>2. WholeVectors(db \cup pending)
      BY <1>1, <2>1, WholeTogether
    <2>3. \A u \in Threads : WholeVectors(seen'[u])
      BY <1>1, <1>12, <2>2 DEF Fetch, TypeOK
    <2>4. QED
      BY <1>1, <2>1, <2>3 DEF Whole
  <1>13. CASE Destroy \/ Crash
    <2>1. db' = db /\ pending' = {} /\ \A u \in Threads : seen'[u] = seen[u] \/ seen'[u] = {}
      BY <1>13 DEF Destroy, Crash, DropTransaction, Each
    <2>2. QED
      BY <1>1, <1>2, <2>1 DEF Whole
  <1>14. CASE UNCHANGED vars
    BY <1>3, <1>14 DEF vars, dbVars
  <1>15. QED
    BY <1>6, <1>7, <1>8, <1>9, <1>10, <1>11, <1>12, <1>13, <1>14 DEF Next, Step, Finished, Connecting

(* What is reported was written, and what was written is committed.        *)
LEMMA ReportedStep == ASSUME IInv, [Next]_vars PROVE ReportedIsDurable'
  <1>1. TypeOK /\ db \subseteq db' /\ (commitFailed => commitFailed')
    BY Grows DEF IInv
  <1>2. commitFailed \/ reported \subseteq db
    BY DEF IInv, ReportedIsDurable
  <1>3. CASE reported' = reported
    BY <1>1, <1>2, <1>3 DEF ReportedIsDurable
  <1>4. ASSUME NEW t \in Threads, Unlock(t), rows[t] # Failed, ~commitFailed,
               ~MoreBatches(t)
        PROVE  AllRowsOf(t) \subseteq db
    <2>1. pc[t] = "unlock" /\ next[t] \in Nat
      BY <1>1, <1>4 DEF Unlock, UnlockAnd, TypeOK
    <2>2. Len(call[t].stmts) \in Nat /\ DOMAIN call[t].stmts = 1 .. Len(call[t].stmts)
      BY <1>1, CallFacts
    <2>3. next[t] > Len(call[t].stmts)
      <3>1. CASE call[t].kind = "batched"
        BY <1>4, <2>1, <2>2, <3>1 DEF MoreBatches
      <3>2. CASE call[t].kind # "batched"
        BY <1>4, <2>1, <3>2 DEF IInv, Position, PositionOf
      <3>3. QED
        BY <3>1, <3>2
    <2>4. Passed(t) = DOMAIN call[t].stmts
      BY <2>1, <2>2, <2>3 DEF Passed
    <2>5. AllRowsOf(t) = Written(t)
      BY <2>4 DEF AllRowsOf, Written
    <2>6. QED
      BY <1>4, <2>1, <2>5 DEF IInv, Kept
  <1>5. ASSUME NEW t \in Threads, Unlock(t) PROVE ReportedIsDurable'
    <2>1. db' = db /\ commitFailed' = commitFailed
      BY <1>5 DEF Unlock, UnlockAnd, dbVars
    <2>2. \/ reported' = reported
          \/ /\ reported' = reported \cup AllRowsOf(t) /\ rows[t] # Failed
             /\ ~MoreBatches(t)
      BY <1>5 DEF Unlock, UnlockAnd
    <2>3. QED
      BY <1>2, <1>3, <1>4, <1>5, <2>1, <2>2 DEF ReportedIsDurable
  <1>6. ASSUME NEW t \in Threads, Call(t) \/ Step(t), ~Unlock(t) PROVE reported' = reported
    <2>1. CASE Connecting(t)
      BY <1>1, <2>1, ConnectingFacts DEF IInv
    <2>2. CASE ~Connecting(t)
      BY <1>6, <2>2 DEF Step, Connecting, Call, Lock, LockAnyway, Execute, Begin, Statement, Commit, Fetch, histVars
    <2>3. QED
      BY <2>1, <2>2
  <1>7. CASE Destroy \/ Crash
    BY <1>3, <1>7 DEF Destroy, Crash, histVars
  <1>8. CASE UNCHANGED vars
    BY <1>3, <1>8 DEF vars, histVars
  <1>9. QED
    BY <1>3, <1>5, <1>6, <1>7, <1>8 DEF Next, Finished

(* Each value of a batched insert is in a batch, none in a later one than a greater. *)
LEMMA BatchBefore ==
    ASSUME NEW k \in DOMAIN Batches, NEW v \in Batches[k], NEW w \in 1 .. v
    PROVE  \E j \in DOMAIN Batches : j <= k /\ w \in Batches[j]
  <1> DEFINE q == (w - 1) \div BatchCount
  <1>1. PICK n \in Nat : n = (NumVals + BatchCount - 1) \div BatchCount /\ DOMAIN Batches = 1 .. n
    BY BatchesAreSeq
  <1>2. \A j \in 1 .. n : Batches[j] = Batch(j)
    BY <1>1 DEF Batches
  <1>3. /\ v \in 1 .. NumVals /\ (k - 1) * BatchCount < v /\ v <= k * BatchCount /\ k \in 1 .. n
    BY <1>1, <1>2 DEF Batch
  <1>4. q \in Nat /\ q * BatchCount <= w - 1 /\ w - 1 < (q + 1) * BatchCount
    <2>1. w - 1 \in Nat
      BY <1>3
    <2>2. \A a \in Nat, b \in Nat \ {0} :
              a \div b \in Nat /\ (a \div b) * b <= a /\ a < (a \div b + 1) * b
      OBVIOUS
    <2>3. QED
      BY <2>1, <2>2
  <1>5. q + 1 <= k
    <2>1. q * BatchCount < k * BatchCount
      BY <1>3, <1>4
    <2>2. \A a, b \in Nat, c \in Nat \ {0} : a * c < b * c => a < b
      OBVIOUS
    <2>3. q < k
      BY <1>3, <1>4, <2>1, <2>2
    <2>4. QED
      BY <1>3, <1>4, <2>3
  <1>6. w \in Batch(q + 1)
    BY <1>3, <1>4 DEF Batch
  <1>7. QED
    BY <1>1, <1>2, <1>3, <1>4, <1>5, <1>6

(* A batch joins the batches before it.                                    *)
LEMMA PrefixStep == ASSUME IInv, [Next]_vars PROVE BatchesArePrefix'
  <1> DEFINE Prefix(S) ==
                 \A r \in S : r.kind = "batched" => \A w \in 1 .. r.val : [r EXCEPT !.val = w] \in S
  <1>1. TypeOK /\ (commitFailed => commitFailed')
    BY Grows DEF IInv
  <1> SUFFICES ASSUME ~commitFailed' PROVE Prefix(db')
    BY DEF BatchesArePrefix
  <1>2. ~commitFailed /\ Prefix(db)
    BY <1>1 DEF IInv, BatchesArePrefix
  <1>3. CASE db' = db
    BY <1>2, <1>3
  <1>4. ASSUME NEW T, db' = db \cup T, \A r \in T : r.kind # "batched" PROVE Prefix(db')
    BY <1>2, <1>4
  <1>5. ASSUME NEW t \in Threads, Execute(t) PROVE Prefix(db')
    <2> DEFINE k == next[t]
    <2>1. /\ pc[t] = "run" /\ call[t].kind \in {"execute", "batched"} /\ k \in DOMAIN call[t].stmts
          /\ rows[t] # Failed
      BY <1>1, <1>5, CallFacts DEF Execute, IInv, Position, PositionOf, Opening
    <2>2. db' = db \/ db' = db \cup RowsOf(t, k)
      BY <1>5 DEF Execute, Write, dbVars
    <2>3. \A r \in RowsOf(t, k) : r.kind = call[t].kind
      BY <1>1, <2>1, RowsFacts
    <2>4. CASE call[t].kind = "execute"
      BY <1>3, <1>4, <2>2, <2>3, <2>4
    <2>5. CASE call[t].kind = "batched"
      <3> DEFINE row(w) == [by |-> t, nth |-> calls[t], kind |-> call[t].kind, val |-> w]
      <3>1. call[t].stmts = Batches
        BY <1>1, <2>5, CallFacts
      <3>2. \A j \in DOMAIN Batches : \A w \in Batches[j] : row(w) \in RowsOf(t, j)
        BY <3>1 DEF RowsOf
      <3>3. Written(t) \subseteq db
        BY <1>2, <2>1 DEF IInv, Kept, Opening
      <3>4. ASSUME NEW v \in Batches[k], NEW w \in 1 .. v PROVE row(w) \in db \cup RowsOf(t, k)
        <4>1. PICK j \in DOMAIN Batches : j <= k /\ w \in Batches[j]
          BY <2>1, <3>1, BatchBefore
        <4>2. j = k \/ j < k
          BY <2>1, <3>1, <4>1, BatchesAreSeq
        <4>3. j < k => RowsOf(t, j) \subseteq Written(t)
          BY <3>1 DEF Written, Passed
        <4>4. QED
          BY <3>2, <3>3, <4>1, <4>2, <4>3
      <3>5. ASSUME NEW r \in RowsOf(t, k), NEW w \in 1 .. r.val
            PROVE  [r EXCEPT !.val = w] \in db \cup RowsOf(t, k)
        <4>1. PICK v \in Batches[k] : r = row(v)
          BY <3>1 DEF RowsOf
        <4>2. r.val = v /\ [r EXCEPT !.val = w] = row(w)
          BY <4>1
        <4>3. QED
          BY <3>4, <4>1, <4>2
      <3>6. QED
        BY <1>2, <1>3, <2>2, <3>5
    <2>6. QED
      BY <2>1, <2>4, <2>5
  <1>6. ASSUME NEW t \in Threads, Statement(t) PROVE Prefix(db')
    <2>1. inTxn
      BY <1>6 DEF Statement, IInv, Transaction
    <2>2. QED
      BY <1>3, <1>6, <2>1 DEF Statement, Write, Rollback
  <1>7. ASSUME NEW t \in Threads, Commit(t) PROVE Prefix(db')
    <2>1. call[t].kind = "vector" /\ pending = Written(t)
      BY <1>7 DEF Commit, IInv, Transaction, Kept
    <2>2. \A r \in pending : r.kind # "batched"
      BY <1>1, <2>1, RowsFacts DEF Written, Passed
    <2>3. db' = db \/ db' = db \cup pending
      BY <1>7 DEF Commit, dbVars
    <2>4. QED
      BY <1>3, <1>4, <2>2, <2>3
  <1>8. ASSUME NEW t \in Threads, Call(t) \/ Lock(t) \/ Begin(t) \/ Fetch(t) \/ Unlock(t) PROVE Prefix(db')
    BY <1>3, <1>8 DEF Call, Lock, LockAnyway, Begin, Rollback, Fetch, Unlock, UnlockAnd, dbVars
  <1>9. ASSUME NEW t \in Threads, Connecting(t) PROVE Prefix(db')
    BY <1>3, <1>9, ConnectingFacts DEF IInv
  <1>10. CASE Destroy \/ Crash
    BY <1>3, <1>10 DEF Destroy, Crash, DropTransaction
  <1>11. CASE UNCHANGED vars
    BY <1>3, <1>11 DEF vars, dbVars
  <1>12. QED
    BY <1>5, <1>6, <1>7, <1>8, <1>9, <1>10, <1>11 DEF Next, Step, Finished, Connecting

-----------------------------------------------------------------------------
(* Two different values are two.                                           *)
LEMMA PairHasTwo == ASSUME NEW a, NEW b, a # b PROVE Cardinality({a} \cup {b}) = 2
  <1>1. IsFiniteSet({a}) /\ Cardinality({a}) = 1
    BY FS_Singleton
  <1>2. Cardinality({a} \cup {b}) = IF b \in {a} THEN Cardinality({a}) ELSE Cardinality({a}) + 1
    BY <1>1, FS_AddElement
  <1>3. QED
    BY <1>1, <1>2

(* What a vector wrote and what it counts.                                 *)
LEMMA VectorCounted == IInv => VectorCount
  <1> SUFFICES ASSUME IInv, NEW t \in Threads, pc[t] = "unlock", call[t].kind = "vector", rows[t] # Failed
               PROVE  rows[t] = Cardinality(AllRowsOf(t)) + stale[t]
    BY DEF VectorCount
  <1> DEFINE row(v) == [by |-> t, nth |-> calls[t], kind |-> call[t].kind, val |-> v]
  <1>1. TypeOK
    BY DEF IInv
  <1>2. DOMAIN call[t].stmts = {1, 2} /\ RowsOf(t, 1) = {row(1)} /\ RowsOf(t, 2) = {row(2)}
    <2>1. DOMAIN call[t].stmts = 1 .. 2
      BY <1>1, CallFacts
    <2>2. QED
      BY <1>1, <2>1, CallFacts DEF RowsOf
  <1>3. AllRowsOf(t) = {row(1)} \cup {row(2)}
    BY <1>2 DEF AllRowsOf
  <1>4. row(1) # row(2)
    <2>1. row(2).val = 2 /\ row(1).val = 1
      OBVIOUS
    <2>2. QED
      BY <2>1
  <1>5. Cardinality({row(1)} \cup {row(2)}) = 2
    BY <1>4, PairHasTwo
  <1>6. rows[t] = stale[t] + 2 /\ stale[t] \in Nat
    BY <1>1 DEF IInv, Counts, CountOf, TypeOK
  <1>7. QED
    BY <1>3, <1>5, <1>6

(* Two calls with the lock do not use the connection together.             *)
LEMMA BrokenStep == ASSUME IInv, [Next]_vars PROVE BrokenOnlyUnlocked'
  <1> USE DEF BrokenOnlyUnlocked
  <1>1. BrokenOnlyUnlocked /\ TypeOK /\ LockIsHeld /\ KindsAtPlaces
    BY DEF IInv
  <1>2. CASE UNCHANGED vars
    BY <1>1, <1>2 DEF vars
  <1>3. ASSUME ~broken, broken' PROVE \E t \in Threads : Closing(t) \/ Open(t) \/ LastRow(t)
    <2>1. ASSUME NEW t \in Threads,
                 Call(t) \/ Lock(t) \/ Close(t) \/ Test(t) \/ Execute(t) \/ Begin(t) \/ Statement(t)
                 \/ Commit(t) \/ Fetch(t) \/ Unlock(t) \/ LastId(t)
          PROVE  broken' = broken
      BY <2>1 DEF Call, Lock, LockAnyway, Close, Test, Execute, Begin, Statement, Commit, Fetch,
                  Unlock, UnlockAnd, LastId
    <2>2. Destroy \/ Crash \/ UNCHANGED vars => broken' = broken
      BY DEF Destroy, Crash, vars
    <2>3. QED
      BY <1>3, <2>1, <2>2 DEF Next, Step, Finished
  <1>4. ASSUME NEW t \in Threads, Closing(t) \/ Open(t), broken', ~broken PROVE BrokenOnlyUnlocked'
    <2>1. pc' = pc /\ call' = call /\ OthersUse(t)
      BY <1>4 DEF Closing, Open
    <2>2. CASE OthersUse(t)
      <3>1. PICK u \in Threads \ {t} : pc[u] # "idle" /\ pc[u] # "lock"
        BY <2>2 DEF OthersUse, InUse
      <3>2. pc[t] \in {"closing", "open"}
        BY <1>4 DEF Closing, Open
      <3>3. ~(Holds(u) /\ Holds(t))
        BY <1>1 DEF LockIsHeld
      <3>4. call[u].kind \in Unlocked \/ call[t].kind \in Unlocked
        BY <3>1, <3>2, <3>3 DEF Holds
      <3>5. QED
        BY <2>1, <3>1, <3>2, <3>4
    <2>3. QED
      BY <2>1, <2>2
  <1>5. ASSUME NEW t \in Threads, LastRow(t), broken', ~broken PROVE BrokenOnlyUnlocked'
    <2>1. pc' = pc /\ call' = call /\ pc[t] = "last_row"
      BY <1>5 DEF LastRow
    <2>2. call[t].kind \in Unlocked
      BY <1>1, <2>1 DEF KindsAtPlaces, KindAt, Unlocked
    <2>3. QED
      BY <2>1, <2>2
  <1>6. CASE broken
    BY <1>2, <1>6 DEF Next, Step, Finished
  <1>7. QED
    BY <1>3, <1>4, <1>5, <1>6

(* Every step keeps IInv.                                                  *)
LEMMA NextIInv == IInv /\ [Next]_vars => IInv'
  BY TypeStep, LockStep, KindsStep, TransactionStep, PositionStep, KeptStep,
     WholeStep, CountsStep, ReportedStep, PrefixStep, BrokenStep DEF IInv

\* Who has the lock, which transaction is open, what it holds and what is committed, in
\* step at every place of every call.
THEOREM IInvHolds == Spec => []IInv
  BY InitIInv, NextIInv, PTL DEF Spec

\* The rows of a vector of statements are in the database together or not at all.
THEOREM VectorAtomicHolds == Spec => []VectorAtomic
  <1>1. IInv => VectorAtomic
    BY DEF IInv, Whole, VectorAtomic
  <1>2. QED
    BY <1>1, IInvHolds, PTL

\* No fetch sees half a vector.
THEOREM FetchSeesWholeVectorsHolds == Spec => []FetchSeesWholeVectors
  <1>1. IInv => FetchSeesWholeVectors
    BY DEF IInv, Whole, FetchSeesWholeVectors
  <1>2. QED
    BY <1>1, IInvHolds, PTL

\* A transaction is open only while the lock is held, or after a COMMIT failed.
THEOREM NoTransactionLeftOpenHolds == Spec => []NoTransactionLeftOpen
  <1>1. IInv => NoTransactionLeftOpen
    BY DEF IInv, Transaction, LockIsHeld, Holds, KindsAtPlaces, KindAt, NoTransactionLeftOpen
  <1>2. QED
    BY <1>1, IInvHolds, PTL

\* What a call has reported as written is in the database, unless a COMMIT failed.
THEOREM ReportedIsDurableHolds == Spec => []ReportedIsDurable
  <1>1. IInv => ReportedIsDurable
    BY DEF IInv
  <1>2. QED
    BY <1>1, IInvHolds, PTL

\* A batched insert that stops half way leaves the beginning of its values.
THEOREM BatchesArePrefixHolds == Spec => []BatchesArePrefix
  <1>1. IInv => BatchesArePrefix
    BY DEF IInv
  <1>2. QED
    BY <1>1, IInvHolds, PTL

\* A vector returns its own rows and the changes of the statement before it.
THEOREM VectorCountHolds == Spec => []VectorCount
  BY VectorCounted, IInvHolds, PTL

\* Calls that take the lock never lose each other's connection: where a thread loses the
\* one it uses, some thread is in a last_id, connect or close.
THEOREM BrokenOnlyUnlockedHolds == Spec => []BrokenOnlyUnlocked
  <1>1. IInv => BrokenOnlyUnlocked
    BY DEF IInv
  <1>2. QED
    BY <1>1, IInvHolds, PTL
=============================================================================
