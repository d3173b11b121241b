---------------------------- MODULE SqliteFetch ----------------------------
(***************************************************************************)
(* fetch, fetch_format and fetch_format_scalar of common/sqlite_utils.cpp, *)
(* a client of SqliteHandles: the query they make lives from execQuery to  *)
(* the end of the try block.  A behaviour is either this client or any     *)
(* other one.                                                              *)
(***************************************************************************)
EXTENDS SqliteHandles, Sequences, SequencesExt, Functions

CONSTANTS query,       \* the local variable of fetch
          Statements,  \* what may be asked: see IsStatement
          MaxCalls,    \* bound: calls made
          Null         \* a cell without a value

\* percent: does the text, once formatted, contain a '%'?  Rows are as wide as the names,
\* and sqlite gives none to a statement that has no column.
IsStatement(s) ==
    /\ s.percent \in BOOLEAN
    /\ s.names \in Seq(Range(s.names)) /\ s.rows \in Seq(Range(s.rows))
    /\ \A r \in Range(s.rows) : r \in Seq(Range(r)) /\ Len(r) = Len(s.names)
    /\ s.names = <<>> => s.rows = <<>>

ASSUME FetchAssumption ==
    query \in Objects /\ MaxCalls \in Nat /\ \A s \in Statements : IsStatement(s)

VARIABLES pc, call,    \* "rows", "map" (the class of the result) or "scalar"
          asked, stmt, \* the statement asked for and the one sqlite gets
          row,         \* rows read
          info,        \* the result set of the caller, or of the scalar call
          before,      \* what it was when the call began
          widths,      \* numbers of fields fetched into it
          ret, result, calls

fetchVars == <<pc, call, asked, stmt, row, info, before, widths, ret, result, calls>>
fvars == <<vars, fetchVars>>

NoRows == [field |-> 0, header |-> <<>>, rows |-> <<>>]

FInit ==
    /\ Init
    /\ pc \in {"other client", "idle"}
    /\ pc = "idle" => kind \in [Objects -> {"query"}]
    /\ call \in {"rows", "map"}
    /\ asked \in Statements /\ stmt = asked /\ row = 0
    /\ pc = "other client" => call = "rows" /\ asked = CHOOSE s \in Statements : TRUE
    /\ info = NoRows /\ before = NoRows /\ widths = {}
    /\ ret = 0 /\ result = "unset" /\ calls = 0

Text(cell) == IF cell = Null THEN "" ELSE cell

\* In a map the last of the columns of one name stays.
AsRow(c, s, cells) ==
    IF c # "map" THEN [j \in DOMAIN cells |-> Text(cells[j])]
    ELSE [name \in Range(s.names) |-> Text(cells[SelectLastInSeq(s.names, LAMBDA x : x = name)])]

-----------------------------------------------------------------------------
\* A call with the text that vsnprintf makes.  fetch_format_scalar hands that text to
\* fetch_format as a format again: with a '%' in it sqlite gets some other text.
Call ==
    /\ pc = "idle" /\ calls < MaxCalls /\ wrong = "nothing"
    /\ calls' = calls + 1
    /\ call' \in {call, "scalar"}
    /\ asked' \in Statements
    /\ stmt' \in IF call' = "scalar" /\ asked'.percent THEN Statements ELSE {asked'}
    /\ info' = IF call' = "scalar" \/ call = "scalar" THEN NoRows ELSE info
    /\ widths' = IF call' = "scalar" \/ call = "scalar" THEN {} ELSE widths
    /\ before' = info' /\ row' = 0
    /\ pc' = IF connected THEN "execute" ELSE "connect"
    /\ UNCHANGED <<vars, ret, result>>

\* connect: when sqlite3_open fails the new object is deleted again.
Connect ==
    /\ pc = "connect"
    /\ \/ connected' = TRUE /\ pc' = "execute" /\ UNCHANGED ret
       \/ connected' = FALSE /\ pc' = "return" /\ ret' = -1
    /\ UNCHANGED <<kind, fields, made, open, wrong, lost, borrowed>>
    /\ UNCHANGED <<call, asked, stmt, row, info, before, widths, result, calls>>

\* _sql->execQuery, and the fields of the query; or it throws.
ExecQuery ==
    /\ pc = "execute"
    /\ \/ /\ Execute(query) /\ eof'[query] = (stmt.rows = <<>>)
          /\ info' = [info EXCEPT !.field = Len(stmt.names),
                                  !.header = IF call = "map" THEN @ \o stmt.names ELSE @]
          /\ widths' = widths \cup {Len(stmt.names)}
          /\ pc' = "row" /\ UNCHANGED ret
       \/ /\ pc' = "return" /\ ret' = -1
          /\ UNCHANGED <<vars, info, widths>>
    /\ UNCHANGED <<call, asked, stmt, row, before, result, calls>>

AddRowBehind == info' = [info EXCEPT !.rows = Append(@, AsRow(call, stmt, stmt.rows[IF row = 0 THEN 1 ELSE row]))]

AddRow == info' = [info EXCEPT !.rows = Append(@, AsRow(call, stmt, stmt.rows[row + 1]))]

\* The row is kept, then nextRow, which may throw.
ReadRow ==
    /\ pc = "row" /\ ~eof[query]
    /\ AddRow
    /\ row' = row + 1
    /\ \/ /\ NextRow(query) /\ eof'[query] = (row' = Len(stmt.rows))
          /\ UNCHANGED <<pc, ret>>
       \/ /\ NextRowFails(query)
          /\ pc' = "unwind" /\ ret' = -1
    /\ UNCHANGED <<call, asked, stmt, before, widths, result, calls>>

EndRows ==
    /\ pc = "row" /\ eof[query]
    /\ Finalize(query)
    /\ ret' = Len(info.rows)
    /\ pc' = "unwind"
    /\ UNCHANGED <<call, asked, stmt, row, info, before, widths, result, calls>>

\* The try block ends, in one way or the other.
Unwind ==
    /\ pc = "unwind"
    /\ Destroy(query)
    /\ pc' = "return"
    /\ UNCHANGED <<call, asked, stmt, row, info, before, widths, ret, result, calls>>

NoCell == info.rows = <<>> \/ info.field < 1

\* In the scalar call the answer is get_data(0, 0), or the default.
Return ==
    /\ pc = "return"
    /\ result' = IF call # "scalar" \/ ret < 0 THEN result
                 ELSE IF NoCell THEN "default" ELSE info.rows[1][1]
    /\ pc' = "returned"
    /\ UNCHANGED <<vars, call, asked, stmt, row, info, before, widths, ret, calls>>

Again ==
    /\ pc = "returned"
    /\ pc' = "idle"
    /\ result' = "unset"
    /\ UNCHANGED <<vars, call, asked, stmt, row, info, before, widths, ret, calls>>

\* close between calls: CppSQLite3DB::close and delete.
Disconnect ==
    /\ pc = "idle"
    /\ Close
    /\ UNCHANGED fetchVars

FetchStep == Call \/ Connect \/ ExecQuery \/ ReadRow \/ EndRows \/ Unwind \/ Return \/ Again \/ Disconnect

FNext ==
    \/ pc = "other client" /\ ClientStep /\ UNCHANGED fetchVars
    \/ FetchStep

FSpec == FInit /\ [][FNext]_fvars

-----------------------------------------------------------------------------
\* However a fetch ends, it has not left a statement open, which would keep the
\* connection from closing, nor finalized one twice.
FetchLeavesNothing ==
    /\ pc # "other client" => wrong = "nothing"
    /\ pc \in {"idle", "return", "returned"} => open = {}

\* A fetch that reports success has added all rows of the statement to the result set,
\* one that fails the first of them, and a scalar call gives the first cell or the default
\* on success and leaves the result alone on failure; unless a '%' is formatted twice.
\* get_data, which tests its column against the fields of the last fetch, reads inside
\* every row if all statements fetched into the set were equally wide.
FetchReports ==
    (pc = "returned" /\ ~(call = "scalar" /\ asked.percent)) =>
        LET all == [k \in DOMAIN asked.rows |-> AsRow(call, asked, asked.rows[k])] IN
        /\ ret >= 0 => info.rows = before.rows \o all /\ ret = Len(info.rows)
        /\ ret < 0 => \E k \in 0 .. Len(all) : info.rows = before.rows \o SubSeq(all, 1, k)
        /\ (call = "scalar" /\ ret >= 0) =>
               result = IF asked.rows = <<>> THEN "default" ELSE Text(asked.rows[1][1])
        /\ (call # "scalar" \/ ret < 0) => result = "unset"
        /\ (call = "rows" /\ Cardinality(widths) <= 1) =>
               \A k \in DOMAIN info.rows : Len(info.rows[k]) = info.field

\* A call of fetch is complete in both respects.
FetchCompletes == FetchLeavesNothing /\ FetchReports
=============================================================================
