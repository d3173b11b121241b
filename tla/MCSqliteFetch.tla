--------------------------- MODULE MCSqliteFetch ---------------------------
EXTENDS SqliteFetch

CONSTANTS a, b, c

\* Two objects of one class, which may be copied and assigned, and a third one.
MCKinds == {[o \in Objects |-> IF o = c THEN other ELSE class] :
               class \in {"query", "table", "statement"}, other \in {"query", "statement"}}

\* No row; one cell that may be null; two columns of one name and two rows.
MCStatements ==
    {[names |-> <<"x">>, rows |-> rs, percent |-> p] :
        rs \in {<<>>, <<<<"v">>>>, <<<<Null>>, <<"v">>>>}, p \in BOOLEAN}
    \cup {[names |-> <<"x", "y", "x">>, rows |-> <<<<"v", Null, "w">>, <<"w", "v", Null>>>>, percent |-> FALSE]}
=============================================================================
