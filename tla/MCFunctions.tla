---------------------------- MODULE MCFunctions ----------------------------
(* One call of a function that keeps no state: split_paragraph, loop turn by    *)
(* loop turn, or one of the others, or the calls of one CppSQLite3Binary, or of *)
(* one CMurmurHash2A.                                                           *)
EXTENDS MCSplitParagraph, Hashing, EncodedBlob, WrittenCalls

\* All lengths modulo 3 of base64, twice, over bytes with every kind of bits.
MCByteTexts == BoundedSeq({0, 1, 90, 254}, 5)

\* "%", "/", "0", "F", "a", "G" and a byte above 127.
MCUrlTexts == BoundedSeq({37, 47, 48, 70, 97, 71, 200}, 4)

MCRc4Bytes == 4
MCXor == [a \in 0 .. 3 |-> [b \in 0 .. 3 |-> ((a + b) % 2) + 2 * (((a \div 2) + (b \div 2)) % 2)]]
MCRc4Keys == BoundedSeq(0 .. 3, 3) \ {<<>>}
MCRc4Texts == BoundedSeq(0 .. 3, 2)

\* Up to 19 bytes, told apart by where they are: every place modulo 4, and modulo 8, for a chunk to
\* begin and end at, with up to four whole words inside.
MCInputs == {[k \in 1 .. n |-> k] : n \in 0 .. 19}

\* A letter, a blank, comma, newline; U+4E00, which ends in a byte of a mark; 中, ，, 、, ²,
\* brackets and the dash; a first byte and a continuation on their own, and a byte that is neither.
Characters == {<<97>>, <<32>>, <<44>>, <<10>>, <<228, 184, 128>>, <<228, 184, 173>>, <<239, 188, 140>>,
               <<194, 178>>, <<239, 188, 136>>, <<226, 128, 148>>, <<240, 159, 145, 141>>}
Broken == {<<228>>, <<128>>, <<255>>, <<226, 128>>}

ByteStrings == {FlattenSeq(cs) : cs \in BoundedSeq(Characters \cup Broken, 3)}
               \cup {FlattenSeq(cs) : cs \in [1 .. 4 -> {<<97>>, <<32>>, <<228, 184, 128>>, <<226, 128, 148>>,
                                                         <<227, 128, 129>>}]}

CharTexts == BoundedSeq({"a", ",", "b"}, 5)
TokenLists == BoundedSeq({<<>>, <<"a">>, <<"b", "a">>}, 4)
CustomTexts == BoundedSeq({"a", ":", ";", "|"}, 7)
Contents == BoundedSeq({"a", " ", "\n", "NUL"}, 5)

Numbers == 0 .. 120 \cup {999, 1000, 1001, 1010, 1100, 19019, 20020, 100000, 100100, 999999, 1000000, 1000001,
                          1001000, 12000345, 999999999, 1000000000, 1000001000, 2147483647, -1, -40, -1002003}
Doubles == [negative : BOOLEAN, whole : {0, 1, 123}, fraction : {0, 2, 6, 40, 200, 234, 900, 994, 997}]
NumberTexts == BoundedSeq({"0", "1", "7", "x"}, 5)
               \cup {<<"2", "1", "4", "7", "4", "8", "3", "6", "4", d>> : d \in {"7", "8"}}
               \cup {<<"9", "9", "9", "9", "9", "9", "9", "9", "9", "9", "9">>}

\* China, which has no summer time, and a zone that has it, west of Greenwich.
MCZones == {[offset |-> 28800, from |-> 0, until |-> 0],
          [offset |-> -18000, from |-> 1741503600, until |-> 1762063200]}

\* On the first day of 1970, around 2024-02-29, a new year, a begin of summer and a midnight in it.
MCInstants == UNION {{t - 1, t, t + 3599, t + 3600, t + 43210} :
                      t \in {18001, 1709164800, 1735660800, 1735689600, 1741503600, 1751256000, 1762063200}}

MCFields == {<<y, m, d>> \o clock : y \in {1970, 2024, 2025}, m \in {0, 1, 2, 4, 12, 13}, d \in {0, 1, 28, 29, 30, 31, 32},
                                  clock \in {<<2, 2, 2>>, <<23, 59, 60>>, <<24, 0, 0>>}}

Calls == INSTANCE TextCalls

\* Bound: three bytes of seven values, so that offsets with no, one and more escapes occur, and
\* strings that are well formed and that are not, with a quote and without.  Up to 31 is an
\* int: the size for four bytes is below zero, that for six and for eight too small.
MCBlobs == BoundedSeq(0 .. 6, 3) \cup {[k \in 1 .. n |-> k % 7] : n \in {4, 6, 8}}
MCStrings == BoundedSeq({1, 2, 3, 5}, 4) \cup BoundedSeq(1 .. 5, 3)

FunctionsInit ==
    /\ Init /\ HashInit /\ CallInit /\ BlobInit

FunctionsNext ==
    \/ fn = "none" /\ input = <<>> /\ Next /\ UNCHANGED <<callVars, blobVars, hashVars>>
    \/ /\ text = <<>> /\ UNCHANGED vars
       /\ \/ /\ input = <<>> /\ BlobInit /\ fn = "none"
             /\ WrittenNext \/ Calls!TextNext
             /\ UNCHANGED <<blobVars, hashVars>>
          \/ input = <<>> /\ fn = "none" /\ BlobNext /\ UNCHANGED <<callVars, hashVars>>
          \/ fn = "none" /\ BlobInit /\ HashNext /\ UNCHANGED <<callVars, blobVars>>

FunctionsSpec == FunctionsInit /\ [][FunctionsNext]_<<vars, callVars, blobVars, hashVars>>

\* A call that writes or reads a time, on its own.
TimesSpec == FunctionsInit /\ text = <<>>
             /\ [][(ReadTime \/ WriteTime) /\ UNCHANGED <<vars, blobVars, hashVars>>]_<<vars, callVars, blobVars, hashVars>>

TextsKept == Calls!TextsKept
ListsKept == Calls!ListsKept
=============================================================================
