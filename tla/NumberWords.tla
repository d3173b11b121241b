---------------------------- MODULE NumberWords ----------------------------
(***************************************************************************)
(* Numbers as text: number_to_words and spell_out_number                   *)
(* (search/frontend_utils.cpp) and format_number (common/string_utils.cpp).*)
(* A text is a sequence of characters and words; the blanks between words  *)
(* are left out.                                                           *)
(***************************************************************************)
EXTENDS Integers, Sequences, SequencesExt

Ones == <<"one", "two", "three", "four", "five", "six", "seven", "eight", "nine", "ten",
          "eleven", "twelve", "thirteen", "fourteen", "fifteen", "sixteen", "seventeen",
          "eighteen", "nineteen">>
Tens == <<"ten", "twenty", "thirty", "forty", "fifty", "sixty", "seventy", "eighty", "ninety">>
Scales == <<"thousand", "million", "billion", "trillion", "quadrillion", "quintillion">>

DigitChars == <<"0", "1", "2", "3", "4", "5", "6", "7", "8", "9">>
DigitValue(c) == SelectInSeq(DigitChars, LAMBDA d : d = c) - 1
IsDigit(c) == DigitValue(c) >= 0

If(condition, words) == IF condition THEN words ELSE <<>>

ConvertHundreds(num, wantAnd) ==
    LET hundreds == num \div 100
        rest     == num % 100
    IN  If(hundreds > 0, <<Ones[hundreds], "hundred">> \o If(rest > 0 /\ wantAnd, <<"and">>))
        \o If(rest \in 1 .. 19, <<Ones[rest]>>)
        \o If(rest > 19, <<Tens[rest \div 10]>> \o If(rest % 10 > 0, <<"-", Ones[rest % 10]>>))

\* Groups of three digits, the highest first.
Chunks[num \in Nat] == IF num = 0 THEN <<>> ELSE Append(Chunks[num \div 1000], num % 1000)

Scaled(chunks, wantAnd) ==
    LET add(words, i) == words \o If(words # <<>>, <<",">>) \o ConvertHundreds(chunks[i], wantAnd)
                               \o If(i < Len(chunks), <<Scales[Len(chunks) - i]>>)
    IN  FoldLeft(add, <<>>, SelectSeq([i \in DOMAIN chunks |-> i], LAMBDA i : chunks[i] # 0))

NumberToWords(num, wantAnd) ==
    IF num = 0 THEN <<"zero">>
    ELSE If(num < 0, <<"minus">>) \o Scaled(Chunks[IF num < 0 THEN -num ELSE num], wantAnd)

\* number_to_words of a floating number: its sign, whole part and a fraction in units of
\* 1/1000, of which two places are printed (ten in the code), rounded, without the
\* zeros at the end and without what is carried into the whole part.
DoubleToWords(x) ==
    LET printed == ((x.fraction + 5) \div 10) % 100
        places  == CASE printed = 0 -> <<>>
                     [] printed > 0 /\ printed % 10 = 0 -> <<printed \div 10>>
                     [] OTHER -> <<printed \div 10, printed % 10>>
    IN  NumberToWords(IF x.negative THEN -x.whole ELSE x.whole, TRUE)
        \o If(x.fraction > 0, <<"point">> \o FlattenSeq([k \in DOMAIN places |-> NumberToWords(places[k], FALSE)]))

-----------------------------------------------------------------------------
IntMax == 2147483647
Overflow == -1

\* atoi of digits, which is not defined above IntMax.
Atoi(digits) ==
    FoldLeft(LAMBDA n, c : IF n = Overflow \/ n > (IntMax - DigitValue(c)) \div 10 THEN Overflow
                           ELSE 10 * n + DigitValue(c), 0, digits)

Spelled(digits) ==
    IF Atoi(digits) = Overflow THEN <<"any number">> ELSE NumberToWords(Atoi(digits), TRUE)

\* Each run of digits is replaced when the character behind it, or the end, is reached.
SpellOutNumber(text) ==
    LET step(acc, c) ==
            IF IsDigit(c) THEN [acc EXCEPT !.run = Append(@, c)]
            ELSE [out |-> acc.out \o If(acc.run # <<>>, Spelled(acc.run)) \o <<c>>, run |-> <<>>]
        all == FoldLeft(step, [out |-> <<>>, run |-> <<>>], text)
    IN  all.out \o If(all.run # <<>>, Spelled(all.run))

-----------------------------------------------------------------------------
Padded(num) == <<DigitChars[num \div 100 + 1], DigitChars[((num \div 10) % 10) + 1], DigitChars[(num % 10) + 1]>>

Decimal(num) ==
    LET first == SelectInSeq(Padded(num), LAMBDA c : c # "0")
    IN  IF first = 0 THEN <<"0">> ELSE SubSeq(Padded(num), first, 3)

\* Groups with commas between, all but the first with leading zeros; nothing for 0.
FormatNumber(num) ==
    FlattenSeq([i \in DOMAIN Chunks[num] |->
                    IF i = 1 THEN Decimal(Chunks[num][i]) ELSE <<",">> \o Padded(Chunks[num][i])])
=============================================================================
