----------------------------- MODULE TextCalls -----------------------------
(***************************************************************************)
(* A call of a function of common/ or search/ that cleans a text, takes it *)
(* apart or puts it together, or spells out a number, and what its result  *)
(* must be.                                                                *)
(***************************************************************************)
EXTENDS Integers, Sequences, FiniteSets, SequencesExt, OneCall

CONSTANTS ByteStrings,                   \* texts in UTF-8 and others
          CharTexts, TokenLists, CustomTexts, Contents,
          Numbers, Doubles, NumberTexts

T == INSTANCE TextCleaning
S == INSTANCE Strings
N == INSTANCE NumberWords

Decode == \E s \in ByteStrings : Called("decode", s, T!DecodeUtf8(s))
Clean == \E s \in ByteStrings : Called("clean", s, T!Normalized(s))
ReplaceBlank == \E s \in ByteStrings : Called("blank", s, T!ReplaceBlank(s))

Split == \E s \in CharTexts, compress \in BOOLEAN :
            Called("split", [text |-> s, compress |-> compress], S!Split(s, {","}, compress))
Join == \E ts \in TokenLists : Called("join", ts, S!Join(ts, <<",">>))
Unique == \E ts \in TokenLists : Called("unique", ts, FoldLeft(S!StrUniqueAdd, <<>>, ts))
Custom == \E s \in CustomTexts : Called("custom", s, S!GenerateCustom(s))
Delete == \E ts \in TokenLists : \E t \in ToSet(ts) : Called("del", [from |-> ts, str |-> t], S!StrDel(ts, t))
ReadLines == \E s \in Contents : Called("lines", s, S!FileReadQuick(s))

ToWords == \E n \in Numbers, and \in BOOLEAN : Called("words", n, N!NumberToWords(n, and))
DoubleToWords == \E x \in Doubles : Called("double", x, N!DoubleToWords(x))
Format == \E n \in Numbers : n >= 0 /\ Called("format", n, N!FormatNumber(n))
SpellOut == \E s \in NumberTexts : Called("spell", s, N!SpellOutNumber(s))

TextNext ==
    \/ Decode \/ Clean \/ ReplaceBlank
    \/ Split \/ Join \/ Unique \/ Custom \/ Delete \/ ReadLines
    \/ ToWords \/ DoubleToWords \/ Format \/ SpellOut

-----------------------------------------------------------------------------
IsLetter(char) ==
    \/ Len(char) = 1 /\ char[1] \in 97 .. 122
    \/ Len(char) = 3 /\ char[1] \in 228 .. 233
Letters(s) == SelectSeq(T!SplitUtf(s), IsLetter)

Marks == {T!FullComma, T!Enumeration, <<44>>}

EndsInMarkByte(s) ==
    LET kept == SelectSeq(T!SplitUtf(s), LAMBDA c : c \notin Marks \cup T!Brackets \cup {T!Blank, <<10>>})
    IN  kept # <<>> /\ Last(Last(kept)) \in T!MarkBytes

\* The characters that are looked at for marks at the end.
Kept(s) == SelectSeq(T!SplitUtf(T!ReplaceBlank(T!Replace(T!Trim(s), <<10>>, <<>>))), LAMBDA c : c \notin T!Brackets)

\* A text with Chinese characters keeps all of its letters, in order, when it is cleaned, and the marks
\* at its end, if there are any, become one full stop; unless the last character that is kept is no mark but ends in a
\* byte of one, as U+4E00 does.  No blank stays next to a character of several bytes, and only as
\* many bytes are read as are right: what cannot be decoded ends a text.
CleaningKept ==
    /\ fn = "decode" =>
           /\ \E k \in 0 .. Len(arg) : FlattenSeq([j \in DOMAIN res |-> T!Encoded(res[j])]) = SubSeq(arg, 1, k)
           /\ Len(res) <= T!CacuUtf8Len(arg)
           /\ \A k \in DOMAIN res : T!CacuUtf8LenRaw(arg, k) = Len(FlattenSeq([j \in 1 .. k |-> T!Encoded(res[j])]))
    /\ (fn = "clean" /\ res.lang = "zh" /\ ~EndsInMarkByte(arg)) =>
           /\ Letters(res.text) = Letters(T!ReplaceCornerMark(arg))
           /\ T!ContainsChinese(res.text)
           /\ LET chars == T!SplitUtf(res.text) IN
              /\ Last(chars) \notin Marks
              /\ Last(Kept(arg)) \in Marks => Last(chars) = T!FullStop /\ chars[Len(chars) - 1] \notin Marks
    /\ fn = "blank" =>
           LET chars == T!SplitUtf(res) IN
           /\ \A k \in DOMAIN chars : chars[k] = T!Blank =>
                  /\ k \in 2 .. Len(chars) - 1
                  /\ \A j \in {k - 1, k + 1} : Len(chars[j]) = 1 /\ chars[j] # T!Blank
           /\ SelectSeq(chars, LAMBDA c : c # T!Blank) = SelectSeq(T!SplitUtf(arg), LAMBDA c : c # T!Blank)

-----------------------------------------------------------------------------
WithoutLeading(s) ==
    LET first == SelectInSeq(s, LAMBDA c : c # ",") IN IF first = 0 THEN <<>> ELSE SubSeq(s, first, Len(s))

Apart(ts, t) == \A k \in DOMAIN ts : ts[k] = t => k < Len(ts) /\ ts[k + 1] # t

\* Splitting and joining undo each other but for what comes empty at the front; compressing
\* drops just the empty tokens inside; str_del deletes all copies if they are apart and none is
\* the last, and never anything else; adding each once gives the set; generate_custom finds
\* one pair at most, and reads outside what there is just when the second field is missing
\* or has one pair; file_read_quick gives the lines of file_read, but for an
\* empty file and behind a zero byte.
ListsKept ==
    /\ fn = "split" =>
           /\ S!Join(S!Split(arg.text, {","}, FALSE), <<",">>) = WithoutLeading(arg.text)
           /\ \A k \in 2 .. Len(res) - 1 : arg.compress => res[k] # <<>>
           /\ S!SplitNumbers(arg.text, {","}) = SelectSeq(S!Split(arg.text, {","}, FALSE), LAMBDA t : t # <<>>)
           /\ S!SplitToSet(arg.text, {","}, arg.compress) = ToSet(S!SplitNumbers(arg.text, {","}))
           /\ S!SplitMulti(arg.text, {","}) = Front(S!Split(arg.text, {","}, FALSE))
    /\ (fn = "join" /\ arg # <<>> /\ \A k \in DOMAIN arg : arg[k] # <<>>) => S!Split(res, {","}, FALSE) = arg
    /\ fn = "unique" => /\ ToSet(res) = ToSet(arg)
                        /\ \A j, k \in DOMAIN res : res[j] = res[k] => j = k
    /\ fn = "custom" =>
           LET fields == S!SplitMulti(arg, {"|"})
               inner  == {k \in DOMAIN fields[2] : fields[2][k] = ";"} IN
           /\ res = S!Undefined => Len(fields) < 2 \/ inner = {}
           /\ res \notin {S!Undefined, <<>>} => Len(fields) > 1 /\ res[1] = fields[1] /\ inner # {}
    /\ fn = "del" =>
           LET others(ts) == SelectSeq(ts, LAMBDA t : t # arg.str) IN
           IF res # <<>> /\ Last(res) = S!PastTheEnd THEN Last(arg.from) = arg.str
           ELSE /\ others(res) = others(arg.from)
                /\ Apart(arg.from, arg.str) => res = others(arg.from)
    /\ fn = "lines" =>
           /\ (S!Nul \notin ToSet(arg) /\ res.ret = 0) =>
                  S!FileRead(arg) = SelectSeq([k \in DOMAIN res.lines |-> S!Trim(res.lines[k])], LAMBDA l : l # <<>>)
           /\ res.ret = 0 <=> arg # <<>>

-----------------------------------------------------------------------------
OfThousand(scale) == CASE scale = 1 -> 1000 [] scale = 2 -> 1000000 [] scale = 3 -> 1000000000

\* A number as it is read aloud: what has been read of a group, and of the whole.
Heard(words) ==
    LET one(w) == SelectInSeq(N!Ones, LAMBDA x : x = w)
        ten(w) == SelectInSeq(N!Tens, LAMBDA x : x = w)
        scale(w) == SelectInSeq(N!Scales, LAMBDA x : x = w)
        hear(acc, w) ==
            IF w = "hundred" THEN [acc EXCEPT !.group = 100 * @]
            ELSE IF scale(w) > 0 THEN [all |-> acc.all + acc.group * OfThousand(scale(w)), group |-> 0]
            ELSE IF one(w) > 0 THEN [acc EXCEPT !.group = @ + one(w)]
            ELSE [acc EXCEPT !.group = @ + 10 * ten(w)]
        end == FoldLeft(hear, [all |-> 0, group |-> 0], words)
    IN  IF words # <<>> /\ Head(words) = "minus" THEN -(end.all + end.group) ELSE end.all + end.group

AllDigits(s) == s # <<>> /\ \A k \in DOMAIN s : N!IsDigit(s[k])

\* A number in words is heard as that number, with or without "and", and a floating one as it is
\* rounded, but for the sign of what lies between -1 and 0, and for what the rounding carries into
\* the whole part, which is lost: 0.99999999999 is read "zero point" (frontend_utils.cpp:248-260).
\* With commas a number has its digits, but 0, which has none.  A text is spelled part by part: where a character that is no
\* digit divides it, both sides are spelled on their own and the character stays.
NumbersRead ==
    /\ fn = "words" => Heard(res) = arg
    /\ fn = "double" =>
           LET point == SelectInSeq(res, LAMBDA w : w = "point")
               whole == IF point = 0 THEN res ELSE SubSeq(res, 1, point - 1)
               heard == [k \in 1 .. 2 |-> IF point = 0 \/ point + k > Len(res) THEN 0 ELSE Heard(<<res[point + k]>>)] IN
           /\ Heard(whole) = IF arg.negative THEN -arg.whole ELSE arg.whole
           /\ whole[1] = "minus" <=> arg.negative /\ arg.whole > 0
           /\ point = 0 <=> arg.fraction = 0
           /\ IF arg.fraction < 995 THEN 10 * (10 * heard[1] + heard[2]) - arg.fraction \in -4 .. 5
              ELSE point = Len(res)
    /\ fn = "format" => /\ N!Atoi(SelectSeq(res, N!IsDigit)) = arg
                        /\ \A k \in DOMAIN res : res[k] = "," <=> k > 1 /\ (Len(res) - k) % 4 = 3
                        /\ arg > 0 <=> res # <<>>
    /\ fn = "spell" =>
           /\ AllDigits(arg) => IF N!Atoi(arg) = N!Overflow THEN res = <<"any number">> ELSE Heard(res) = N!Atoi(arg)
           /\ \A k \in DOMAIN arg : ~N!IsDigit(arg[k]) =>
                  res = N!SpellOutNumber(SubSeq(arg, 1, k - 1)) \o <<arg[k]>>
                        \o N!SpellOutNumber(SubSeq(arg, k + 1, Len(arg)))

\* What is cleaned keeps its text, and what is spelled out its number.
TextsKept == CleaningKept /\ NumbersRead
=============================================================================
