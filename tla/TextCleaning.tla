---------------------------- MODULE TextCleaning ----------------------------
(***************************************************************************)
(* What text_normalize does to a Chinese text before it is split           *)
(* (search/frontend_utils.cpp), byte by byte as the code does it, and the  *)
(* functions that read UTF-8: SplitUtf, cacu_utf8_len                      *)
(* (common/string_utils.cpp) and decode_utf8 (search/core_bpe.cpp).        *)
(***************************************************************************)
EXTENDS Integers, Sequences, SequencesExt

Blank == <<32>>
FullStop == <<227, 128, 130>>     \* 。
FullComma == <<239, 188, 140>>    \* ，
Enumeration == <<227, 128, 129>>  \* 、
Dash == <<226, 128, 148>>         \* —
Square == <<194, 178>>            \* ²
SquareWord == <<229, 185, 179, 230, 150, 185>>  \* 平方
Cube == <<194, 179>>              \* ³
CubeWord == <<231, 171, 139, 230, 150, 185>>    \* 立方
Brackets == {<<239, 188, 136>>, <<239, 188, 137>>,            \* （ ）
             <<227, 128, 144>>, <<227, 128, 145>>, <<96>>}    \* 【 】 `

\* The number of bytes that a first byte announces, 0 if it is none.
Announced(b) ==
    IF b < 128 THEN 1
    ELSE IF b < 192 \/ b >= 254 THEN 0
    ELSE IF b < 224 THEN 2
    ELSE IF b < 240 THEN 3
    ELSE IF b < 248 THEN 4
    ELSE IF b < 252 THEN 5
    ELSE 6

\* SplitUtf: up to a byte that is no first byte, or a character that is cut off.  The
\* bytes behind the first one are not looked at.
SplitUtf(s) ==
    LET from[p \in 1 .. Len(s) + 1] ==
            IF p > Len(s) THEN <<>>
            ELSE LET n == Announced(s[p])
                 IN  IF n = 0 \/ p + n - 1 > Len(s) THEN <<>>
                     ELSE <<SubSeq(s, p, p + n - 1)>> \o from[p + n]
    IN  from[1]

CacuUtf8Len(s) == Len(SplitUtf(s))

\* The number of bytes of the first charLen characters (at least of one).
CacuUtf8LenRaw(s, charLen) ==
    LET chars == SplitUtf(s)
        n == IF charLen < 1 THEN 1 ELSE charLen
    IN  IF Len(chars) < n THEN Len(s) ELSE Len(FlattenSeq(SubSeq(chars, 1, n)))

\* decode_utf8 stops at a byte that does not continue as announced, too, and at five or
\* six bytes.
DecodeUtf8(s) ==
    LET follows(p, n) == p + n - 1 <= Len(s) /\ \A k \in p + 1 .. p + n - 1 : s[k] \in 128 .. 191
        low(k) == s[k] % 64
        from[p \in 1 .. Len(s) + 1] ==
            IF p > Len(s) THEN <<>>
            ELSE LET n == Announced(s[p])
                 IN  IF n \notin 1 .. 4 \/ ~follows(p, n) THEN <<>>
                     ELSE <<CASE n = 1 -> s[p]
                              [] n = 2 -> low(p) * 64 + low(p + 1)
                              [] n = 3 -> ((s[p] % 16) * 64 + low(p + 1)) * 64 + low(p + 2)
                              [] n = 4 -> (((s[p] % 8) * 64 + low(p + 1)) * 64 + low(p + 2)) * 64 + low(p + 3)>>
                          \o from[p + n]
    IN  from[1]

\* The bytes of a code point.
Continuation(c) == 128 + (c % 64)

Encoded(c) ==
    IF c < 128 THEN <<c>>
    ELSE IF c < 2048 THEN <<192 + (c \div 64), Continuation(c)>>
    ELSE IF c < 65536 THEN <<224 + (c \div 4096), Continuation(c \div 64), Continuation(c)>>
    ELSE <<240 + (c \div 262144), Continuation(c \div 4096), Continuation(c \div 64), Continuation(c)>>

Valid(s) == FlattenSeq([k \in DOMAIN DecodeUtf8(s) |-> Encoded(DecodeUtf8(s)[k])]) = s

\* pcre2 does not match a text that is not UTF-8, and then no character is Chinese.
ContainsChinese(s) == Valid(s) /\ \E c \in ToSet(DecodeUtf8(s)) : c \in 19968 .. 40959

-----------------------------------------------------------------------------
\* boost::replace_all
Replace(s, src, dst) ==
    LET from[p \in 1 .. Len(s) + Len(src)] ==
            IF p > Len(s) THEN <<>>
            ELSE IF p + Len(src) - 1 <= Len(s) /\ SubSeq(s, p, p + Len(src) - 1) = src THEN dst \o from[p + Len(src)]
            ELSE <<s[p]>> \o from[p + 1]
    IN  from[1]

\* str_trim with its default "\r\n\t ".
White == {13, 10, 9, 32}

Trim(s) ==
    LET first == SelectInSeq(s, LAMBDA b : b \notin White)
        last  == SelectLastInSeq(s, LAMBDA b : b \notin White)
    IN  IF first = 0 THEN <<>> ELSE SubSeq(s, first, last)

Visible(char) == Len(char) = 1 /\ char # Blank

BlankStaysBehind(chars, k) == k \in 2 .. Len(chars) - 1 /\ Visible(chars[k - 1])

BlankStays(chars, k) == k \in 2 .. Len(chars) - 1 /\ Visible(chars[k - 1]) /\ Visible(chars[k + 1])

\* A blank stays between two characters of one byte that are no blanks.
ReplaceBlank(s) ==
    LET chars == SplitUtf(s)
    IN  FlattenSeq([k \in DOMAIN chars |->
            IF chars[k] = Blank /\ ~BlankStays(chars, k) THEN <<>> ELSE chars[k]])

ReplaceCornerMark(s) == Replace(Replace(s, Square, SquareWord), Cube, CubeWord)

RemoveBracket(s) ==
    Replace(FoldLeft(LAMBDA t, b : Replace(t, b, <<>>), s, SetToSeq(Brackets)), Dash \o Dash, Blank)

\* [，,、] is a class of bytes for std::regex, and + takes those at the end of the text,
\* the last bytes of another character, too.
MarkBytes == {FullComma[k] : k \in 1 .. 3} \cup {44} \cup {Enumeration[k] : k \in 1 .. 3}

RemoveTailMark(s) ==
    LET last == SelectLastInSeq(s, LAMBDA b : b \notin MarkBytes)
    IN  IF last = Len(s) THEN s ELSE SubSeq(s, 1, last) \o FullStop

\* text_normalize up to split_paragraph: any other text only gets its numbers spelled.
Normalized(s) ==
    IF ~ContainsChinese(Trim(s)) THEN [lang |-> "en", text |-> Trim(s)]
    ELSE LET a == ReplaceCornerMark(ReplaceBlank(Replace(Trim(s), <<10>>, <<>>)))
             b == Replace(Replace(a, <<46>>, FullStop), <<32, 45, 32>>, FullComma)
         IN  [lang |-> "zh", text |-> RemoveTailMark(RemoveBracket(b))]
=============================================================================
