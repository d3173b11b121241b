------------------------------ MODULE Strings ------------------------------
(***************************************************************************)
(* str_split, str_join, split_multi and str_del of common/string_utils.cpp *)
(* and the two functions of common/file_utils.cpp that read the lines of a *)
(* file.  A string is a sequence of characters.                            *)
(***************************************************************************)
EXTENDS Integers, Sequences, FiniteSets, SequencesExt

Newline == "\n"
White == {"\n", " "}
Nul == "NUL"

\* boost::split at any of delim: one token more than there are delimiters, or, when it
\* compresses, than there are runs of them.
SplitStarts(s, delim, compress) ==
    {1} \cup {k + 1 : k \in {j \in DOMAIN s : s[j] \in delim
                                              /\ ~(compress /\ j < Len(s) /\ s[j + 1] \in delim)}}

SplitStops(s, delim, compress) ==
    {Len(s)} \cup {k - 1 : k \in {j \in DOMAIN s : s[j] \in delim
                                                   /\ ~(compress /\ j > 1 /\ s[j - 1] \in delim)}}

Split(s, delim, compress) ==
    LET starts == SetToSortSeq(SplitStarts(s, delim, compress), <)
        stops  == SetToSortSeq(SplitStops(s, delim, compress), <)
    IN  [k \in DOMAIN starts |-> SubSeq(s, starts[k], stops[k])]

\* str_split to a set.
SplitToSet(s, delim, compress) == ToSet(Split(s, delim, compress)) \ {<<>>}

\* str_split_int, _float, _double: what is read are the tokens that are not empty.
SplitNumbers(s, delim) == SelectSeq(Split(s, delim, TRUE), LAMBDA t : t # <<>>)

\* The tokens that end at a separator: what lies behind the last one is lost.
SplitMulti(s, delim) ==
    LET ends == SetToSortSeq({k \in DOMAIN s : s[k] \in delim}, <)
    IN  [n \in DOMAIN ends |-> SubSeq(s, (IF n = 1 THEN 0 ELSE ends[n - 1]) + 1, ends[n] - 1)]

\* str_join: the delimiter only goes behind something.
Join(tokens, delim) ==
    FoldLeft(LAMBDA dst, t : IF dst = <<>> THEN t ELSE dst \o delim \o t, <<>>, tokens)

StrUniqueAdd(strs, str) == IF str \in ToSet(strs) THEN strs ELSE Append(strs, str)

PastTheEnd == "past the end"

\* strs.erase(iter++): the iterator has moved on before the elements behind it close up,
\* so that one of them is passed over; behind the last element it leaves the vector.
StrDel(strs, str) ==
    LET from[j \in 1 .. Len(strs) + 2] ==
            IF j > Len(strs) THEN <<>>
            ELSE IF strs[j] # str THEN <<strs[j]>> \o from[j + 1]
            ELSE IF j = Len(strs) THEN <<PastTheEnd>>
            ELSE <<strs[j + 1]>> \o from[j + 2]
    IN  from[1]

\* generate_custom looks for ways to split each field, but what it then reads are fields[1]
\* and, of its pairs, kvs[1], each time: there may be none, and what there is then is undefined.
Undefined == <<"undefined">>

GenerateCustom(s) ==
    LET fields == SplitMulti(s, {"|"})
        tried  == \E k \in DOMAIN fields : Len(SplitMulti(fields[k], {":"})) = 2
        kvs    == Split(fields[2], {";"}, TRUE)
        kv     == Split(kvs[2], {":"}, TRUE)
    IN  IF ~tried THEN <<>>
        ELSE IF Len(fields) < 2 \/ Len(kvs) < 2 THEN Undefined
        ELSE IF Len(kv) = 2 THEN <<fields[1], kv[1], kv[2]>>
        ELSE <<>>

-----------------------------------------------------------------------------
Trim(s) ==
    LET first == SelectInSeq(s, LAMBDA c : c \notin White)
    IN  IF first = 0 THEN <<>> ELSE SubSeq(s, first, SelectLastInSeq(s, LAMBDA c : c \notin White))

CString(s) ==
    LET nul == SelectInSeq(s, LAMBDA c : c = Nul)
    IN  IF nul = 0 THEN s ELSE SubSeq(s, 1, nul - 1)

\* file_read to lines: the content ends at a zero byte; lines are trimmed, and empty ones
\* left out.
FileRead(content) ==
    LET lines == Split(CString(content), {Newline}, TRUE)
        trimmed == [k \in DOMAIN lines |-> Trim(lines[k])]
    IN  SelectSeq(trimmed, LAMBDA l : l # <<>>)

FileReadQuickTerminated(content) ==
    IF content = <<>> THEN [ret |-> -3, lines |-> <<>>]
    ELSE [ret |-> 0, lines |-> Front(Split(content, {Newline}, FALSE))]

\* file_read_quick: every line as it is, the last one if it is not empty; an empty file
\* cannot be mapped.
FileReadQuick(content) ==
    IF content = <<>> THEN [ret |-> -3, lines |-> <<>>]
    ELSE LET lines == Split(content, {Newline}, FALSE)
         IN  [ret |-> 0, lines |-> IF Last(lines) = <<>> THEN Front(lines) ELSE lines]
=============================================================================
