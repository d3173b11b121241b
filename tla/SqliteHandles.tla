--------------------------- MODULE SqliteHandles ---------------------------
(***************************************************************************)
(* Who owns what sqlite3 has allocated: CppSQLite3DB, and the objects its  *)
(* calls return, CppSQLite3Query, CppSQLite3Table and CppSQLite3Statement  *)
(* (common/CppSQLite3.cpp).  A copy takes the handle away from its source. *)
(* The query of a statement only borrows the statement's handle.           *)
(***************************************************************************)
EXTENDS Naturals, FiniteSets

CONSTANTS Objects,    \* the program's variables of these classes
          Kinds,      \* functions from Objects to the class of each
          MaxHandles  \* bound: statements compiled and tables fetched

ASSUME HandlesAssumption ==
    /\ MaxHandles \in Nat
    /\ Kinds \subseteq [Objects -> {"query", "table", "statement"}]

VARIABLES kind, alive,
          handle,    \* mpVM or mpaszResults, 0 for NULL
          owns,      \* mbOwnVM
          knowsDB,   \* does mpDB of the object point to the connection?
          eof,       \* mbEof
          made,      \* handles made so far
          open,      \* those that are not finalized or freed
          connected, \* mpDB of the one CppSQLite3DB
          wrong,     \* undefined behaviour, once there is some
          lost,      \* handles that an assignment overwrote
          borrowed   \* has a borrowed handle been finalized?

fields == <<alive, handle, owns, knowsDB, eof>>
vars == <<kind, fields, made, open, connected, wrong, lost, borrowed>>

Init ==
    /\ kind \in Kinds
    /\ alive = [o \in Objects |-> FALSE] /\ handle = [o \in Objects |-> 0]
    /\ owns = [o \in Objects |-> FALSE] /\ knowsDB = [o \in Objects |-> FALSE]
    /\ eof = [o \in Objects |-> TRUE]
    /\ made = 0 /\ open = {} /\ connected = TRUE
    /\ wrong = "nothing" /\ lost = {} /\ borrowed = FALSE

Set(o, h, own, db, end) ==
    /\ handle' = [handle EXCEPT ![o] = h]
    /\ owns' = [owns EXCEPT ![o] = own]
    /\ knowsDB' = [knowsDB EXCEPT ![o] = db]
    /\ eof' = [eof EXCEPT ![o] = end]

Runs(o) == alive[o] /\ wrong = "nothing"
Starts(o) == ~alive[o] /\ wrong = "nothing" /\ alive' = [alive EXCEPT ![o] = TRUE]

Owns(o) == alive[o] /\ handle[o] # 0 /\ (kind[o] = "query" => owns[o])
Borrows(o) == alive[o] /\ handle[o] # 0 /\ ~Owns(o)

\* sqlite3_finalize or sqlite3_free_table.
Free(h) ==
    /\ open' = open \ {h}
    /\ wrong' = IF h \in open THEN wrong ELSE "freed twice"
    /\ borrowed' = (borrowed \/ \E o \in Objects : handle[o] = h /\ Borrows(o))

FreeOwn(o) == IF Owns(o) THEN Free(handle[o]) ELSE UNCHANGED <<open, wrong, borrowed>>

-----------------------------------------------------------------------------
Construct(o) ==
    /\ Starts(o)
    /\ Set(o, 0, FALSE, FALSE, TRUE)
    /\ UNCHANGED <<kind, made, open, connected, wrong, lost, borrowed>>

\* What sqlite3 allocates has one owner, the object returned.  (If a step fails the handle
\* is finalized and nothing is returned.)
Returned(o, db, end) ==
    /\ Starts(o) /\ connected /\ made < MaxHandles
    /\ made' = made + 1 /\ open' = open \cup {made'}
    /\ Set(o, made', TRUE, db, end)
    /\ UNCHANGED <<kind, connected, wrong, lost, borrowed>>

CompileStatement(o) == kind[o] = "statement" /\ Returned(o, TRUE, FALSE)

\* One step of it shows whether there is a row.
Execute(o) == kind[o] = "query" /\ \E end \in BOOLEAN : Returned(o, TRUE, end)

GetTable(o) == kind[o] = "table" /\ Returned(o, FALSE, FALSE)

\* CppSQLite3Statement::execQuery.
QueryOf(o, s) ==
    /\ Starts(o) /\ kind[o] = "query"
    /\ alive[s] /\ kind[s] = "statement" /\ handle[s] # 0
    /\ IF handle[s] \in open
       THEN /\ \E end \in BOOLEAN : Set(o, handle[s], FALSE, TRUE, end)
            /\ UNCHANGED wrong
       ELSE wrong' = "used after free" /\ UNCHANGED <<handle, owns, knowsDB, eof>>
    /\ UNCHANGED <<kind, made, open, connected, lost, borrowed>>

\* What o gets from p, and p's handle becomes NULL.  A query's mpDB is not copied.
Take(o, p, h, db) ==
    /\ handle' = [handle EXCEPT ![p] = 0, ![o] = IF o = p THEN 0 ELSE h]
    /\ owns' = [owns EXCEPT ![o] = owns[p]]
    /\ eof' = [eof EXCEPT ![o] = eof[p]]
    /\ knowsDB' = [knowsDB EXCEPT ![o] = db]

ShareCopy(o, p) ==
    /\ Starts(o) /\ alive[p] /\ kind[o] = kind[p]
    /\ Set(o, handle[p], owns[p], knowsDB[p], eof[p])
    /\ UNCHANGED <<kind, made, open, connected, wrong, lost, borrowed>>

Copy(o, p) ==
    /\ Starts(o) /\ alive[p] /\ kind[o] = kind[p]
    /\ Take(o, p, handle[p], knowsDB[p] /\ kind[p] # "query")
    /\ UNCHANGED <<kind, made, open, connected, wrong, lost, borrowed>>

\* operator= of a query or a table finalizes what the object had.
Assign(o, p) ==
    /\ Runs(o) /\ alive[p] /\ kind[o] = kind[p] /\ kind[o] # "statement"
    /\ FreeOwn(o)
    /\ Take(o, p, handle[p], knowsDB[o])
    /\ UNCHANGED <<kind, alive, made, connected, lost>>

\* operator= of a statement does not, and an assignment to itself forgets the handle.
AssignStatement(o, p) ==
    /\ Runs(o) /\ alive[p] /\ kind[o] = "statement" /\ kind[p] = "statement"
    /\ lost' = lost \cup ({handle[o]} \cap open)
    /\ Take(o, p, handle[p], knowsDB[p])
    /\ UNCHANGED <<kind, alive, made, open, connected, wrong, borrowed>>

\* Everything that first asks checkVM or checkResults and then goes through the handle.
Through(o) ==
    /\ Runs(o) /\ handle[o] # 0
    /\ wrong' = IF handle[o] \in open THEN wrong ELSE "used after free"
    /\ UNCHANGED <<kind, fields, made, open, connected, lost, borrowed>>

Field(o) == kind[o] = "query" /\ Through(o)
Cell(o) == kind[o] = "table" /\ Through(o)
ExecDML(o) == kind[o] = "statement" /\ Through(o)
Bind(o) == kind[o] = "statement" /\ Through(o)

\* A further row, or the last one was before.
NextRow(o) ==
    /\ Runs(o) /\ kind[o] = "query" /\ handle[o] \in open
    /\ \E end \in BOOLEAN : eof' = [eof EXCEPT ![o] = eof[o] \/ end]
    /\ UNCHANGED <<kind, alive, handle, owns, knowsDB, made, open, connected, wrong, lost, borrowed>>

\* nextRow finalizes on an error whatever it owns, and asks mpDB for the message.
NextRowFails(o) ==
    /\ Runs(o) /\ kind[o] = "query" /\ handle[o] \in open
    /\ open' = open \ {handle[o]}
    /\ handle' = [handle EXCEPT ![o] = 0]
    /\ borrowed' = (borrowed \/ Borrows(o))
    /\ wrong' = IF knowsDB[o] THEN wrong ELSE "message of an unset connection"
    /\ UNCHANGED <<kind, alive, owns, knowsDB, eof, made, connected, lost>>

Finalize(o) ==
    /\ Runs(o)
    /\ FreeOwn(o)
    /\ handle' = [handle EXCEPT ![o] = IF Owns(o) THEN 0 ELSE @]
    /\ UNCHANGED <<kind, alive, owns, knowsDB, eof, made, connected, lost>>

\* The destructor.
Destroy(o) ==
    /\ Runs(o)
    /\ FreeOwn(o)
    /\ alive' = [alive EXCEPT ![o] = FALSE]
    /\ Set(o, 0, FALSE, FALSE, TRUE)
    /\ UNCHANGED <<kind, made, connected, lost>>

Tables == {handle[o] : o \in {p \in Objects : kind[p] = "table"}}

\* sqlite3_close refuses while a statement is not finalized.
Close ==
    /\ connected /\ wrong = "nothing" /\ open \subseteq Tables
    /\ connected' = FALSE
    /\ UNCHANGED <<kind, fields, made, open, wrong, lost, borrowed>>

ClientStep ==
    \/ \E o \in Objects : \/ Construct(o) \/ CompileStatement(o) \/ Execute(o) \/ GetTable(o)
                          \/ Field(o) \/ Cell(o) \/ ExecDML(o) \/ Bind(o) \/ NextRow(o) \/ NextRowFails(o)
                          \/ Finalize(o) \/ Destroy(o)
                          \/ \E p \in Objects : QueryOf(o, p) \/ Copy(o, p) \/ Assign(o, p)
                                                \/ AssignStatement(o, p)
    \/ Close

Spec == Init /\ [][ClientStep]_vars

-----------------------------------------------------------------------------
Owners(h) == {o \in Objects : Owns(o) /\ handle[o] = h}

\* "Only one object can own the VM" (CppSQLite3.cpp:307) and one does: whatever is open has
\* exactly one owner that will finalize it, through copies and assignments in any order;
\* only what an assignment of statements overwrote has none.
OneOwner ==
    wrong = "nothing" =>
        \A h \in open : Cardinality(Owners(h)) = IF h \in lost THEN 0 ELSE 1

\* Nothing is freed twice or used after it has been freed, and no owner keeps a handle
\* that is gone, but for a handle that a query had borrowed from its statement.
FreedOnce ==
    /\ wrong \in {"freed twice", "used after free"} => borrowed
    /\ ~borrowed => \A o \in Objects : Owns(o) => handle[o] \in open

\* Both together: what a program that uses these classes relies on.
HandlesAreOwned == OneOwner /\ FreedOnce
=============================================================================
