----------------------------- MODULE Vocabulary -----------------------------
(***************************************************************************)
(* How a vocabulary is read and how the tables of a CoreBPE come and go:   *)
(* data_gym_to_mergeable_bpe_ranks, load_tiktoken_bpe, the constructor and *)
(* destructor of CoreBPE (search/core_bpe.cpp), and WhisperToken, which    *)
(* numbers its special tokens behind the ranks it has read.                *)
(***************************************************************************)
EXTENDS Integers, Sequences, FiniteSets, SequencesExt, Functions

CONSTANTS
    ByteCount,      \* 256 in the code
    Printable,      \* the bytes that are printable and not a blank
    EndOfText,      \* the two words dropped from encoder.json, as characters
    StartOfText,
    MaxNumThreads,  \* copies of a regex and of its match data
    MaxObjects,     \* bound: objects made one after the other
    Sources         \* what may be read: see IsSource

Bytes == 0 .. ByteCount - 1

(* A line is the sequence of its fields, as str_split makes them at blanks; a  *)
(* field is a sequence of characters.  In a tiktoken file the first field is   *)
(* base64, here the bytes it stands for, and the second is a number; a line of *)
(* any other shape is empty here.                                              *)
IsSource(s) ==
    \/ /\ s.kind = "gym"
       /\ s.lines \in Seq(Seq(Seq(Nat)))        \* vocab.bpe
       /\ s.json \in Seq(Seq(Nat) \X Nat)       \* encoder.json
       /\ s.parses \in BOOLEAN
    \/ /\ s.kind = "tiktoken"
       /\ s.lines \in Seq((Seq(Bytes) \X Nat) \cup {<<>>})

ASSUME VocabularyAssumption ==
    /\ ByteCount \in Nat \ {0} /\ Printable \subseteq Bytes
    /\ {EndOfText, StartOfText} \subseteq Seq(Printable)
    /\ MaxNumThreads \in Nat \ {0} /\ MaxObjects \in Nat
    /\ \A s \in Sources : IsSource(s)

VARIABLES source, names,    \* the files and the names of the special tokens
          pc, i,            \* i: next line or entry
          ranks, n,         \* bpe_ranks and the next rank
          encoder,          \* encoder_json_loaded
          specials,         \* special_tokens: name -> id
          tables,           \* lengths of the four vectors of the object
          decoder,          \* _decoder
          held,             \* objects of the regex library that exist
          made, thrown      \* how many constructors began, and threw at the second regex

loading == <<ranks, n, encoder>>
object == <<tables, decoder, held, made, thrown>>
vars == <<source, names, pc, i, loading, specials, object>>

NoTables == [regex |-> 0, data |-> 0, specialRegex |-> 0, specialData |-> 0]
Nothing == [context |-> 0, code |-> 0, data |-> 0]

\* map[key] = value: an entry is made or overwritten.
Assign(map, key, value) ==
    [k \in DOMAIN map \cup {key} |-> IF k = key THEN value ELSE map[k]]

IndexIn(s, e) == CHOOSE k \in DOMAIN s : s[k] = e

\* rank_to_intbyte: the printable bytes in order, then the others in order.
Earlier(c, b) == IF b \in Printable THEN c \in Printable /\ c < b ELSE c \in Printable \/ c < b

RankOfByte(b) == Cardinality({c \in Bytes : Earlier(c, b)})

\* data_gym_byte_to_byte: printable bytes stand for themselves, the k-th other one
\* is written as the character ByteCount + k.
ByteOf(char) ==
    IF char \in Printable THEN char
    ELSE IF char \in ByteCount .. ByteCount + Cardinality(Bytes \ Printable) - 1
         THEN CHOOSE b \in Bytes : RankOfByte(b) = Cardinality(Printable) + (char - ByteCount)
         ELSE 0    \* map::operator[] makes the entry

DecodeDataGym(chars) == [k \in DOMAIN chars |-> ByteOf(chars[k])]

SingleBytes == [w \in {<<b>> : b \in Bytes} |-> RankOfByte(w[1])]

\* None, those of gpt2, and those of WhisperToken, where the languages come in the order
\* in which an unordered_map is walked.
SpecialNames == {<<>>, <<"endoftext">>}
    \cup {<<"endoftext">> \o languages \o <<"notimestamps">> : languages \in SetToSeqs({"en", "zh"})}

Init ==
    /\ source \in Sources
    /\ names \in SpecialNames
    /\ pc = "load" /\ i = IF source.kind = "gym" THEN 2 ELSE 1
    /\ ranks = IF source.kind = "gym" THEN SingleBytes ELSE <<>>
    /\ n = IF source.kind = "gym" THEN ByteCount ELSE 0
    /\ encoder = <<>> /\ specials = <<>>
    /\ tables = NoTables /\ decoder = <<>> /\ held = Nothing /\ made = 0 /\ thrown = 0

-----------------------------------------------------------------------------
\* One line of vocab.bpe: two fields are a merge, any other number is passed over.
ReadMerge ==
    /\ pc = "load" /\ source.kind = "gym" /\ i <= Len(source.lines)
    /\ LET fields == source.lines[i] IN
       IF Len(fields) = 2
       THEN /\ ranks' = Assign(ranks, DecodeDataGym(fields[1]) \o DecodeDataGym(fields[2]), n)
            /\ n' = n + 1
       ELSE UNCHANGED <<ranks, n>>
    /\ i' = i + 1
    /\ UNCHANGED <<source, names, pc, encoder, specials, object>>

ParseEncoder ==
    /\ pc = "load" /\ source.kind = "gym" /\ i > Len(source.lines)
    /\ pc' = IF source.parses THEN "json" ELSE "failed"
    /\ i' = 1
    /\ UNCHANGED <<source, names, loading, specials, object>>

ReadEntry ==
    /\ pc = "json" /\ i <= Len(source.json)
    /\ encoder' = Assign(encoder, DecodeDataGym(source.json[i][1]), source.json[i][2])
    /\ i' = i + 1
    /\ UNCHANGED <<source, names, pc, ranks, n, specials, object>>

WithoutTextMarks(f) ==
    Restrict(f, DOMAIN f \ {DecodeDataGym(EndOfText), DecodeDataGym(StartOfText)})

MatchesInSize(f) == Cardinality(DOMAIN f) = Cardinality(DOMAIN ranks)

Matches(f) == f = ranks

CompareWithEncoder ==
    /\ pc = "json" /\ i > Len(source.json)
    /\ encoder' = WithoutTextMarks(encoder)
    /\ pc' = IF Matches(encoder') THEN "number" ELSE "failed"
    /\ UNCHANGED <<source, names, i, ranks, n, specials, object>>

\* A line of two fields, the second through atoi; a file that cannot be read is one
\* without lines.
ReadTiktokenLine ==
    /\ pc = "load" /\ source.kind = "tiktoken" /\ i <= Len(source.lines)
    /\ ranks' = IF Len(source.lines[i]) = 2
                THEN Assign(ranks, source.lines[i][1], source.lines[i][2])
                ELSE ranks
    /\ i' = i + 1
    /\ UNCHANGED <<source, names, pc, n, encoder, specials, object>>

EndTiktoken ==
    /\ pc = "load" /\ source.kind = "tiktoken" /\ i > Len(source.lines)
    /\ pc' = "number"
    /\ UNCHANGED <<source, names, i, loading, specials, object>>

-----------------------------------------------------------------------------
NumberFrom(first) == [t \in Range(names) |-> first + IndexIn(names, t) - 1]

NumberFromMaximum == specials' = NumberFrom(CHOOSE m \in Range(ranks) \cup {0} : \A r \in Range(ranks) : r <= m)

\* special_tokens[token] = n_vocab++, from ranks.size().
NumberSpecials == specials' = NumberFrom(Cardinality(DOMAIN ranks))

Number ==
    /\ pc = "number"
    /\ NumberSpecials
    /\ pc' = "new"
    /\ UNCHANGED <<source, names, i, loading, object>>

Add(kind, k) == held' = [held EXCEPT ![kind] = @ + k]

New ==
    /\ pc \in {"new", "gone"} /\ made < MaxObjects
    /\ Add("context", 1)
    /\ made' = made + 1
    /\ pc' = "regex"
    /\ UNCHANGED <<source, names, i, loading, specials, tables, decoder, thrown>>

\* The regex is compiled, copied, and the first one freed; or it does not compile.
Regex ==
    /\ pc = "regex"
    /\ \/ /\ tables' = [tables EXCEPT !.regex = MaxNumThreads, !.data = MaxNumThreads]
          /\ held' = [held EXCEPT !.code = @ + MaxNumThreads, !.data = @ + MaxNumThreads]
          /\ pc' = "special"
       \/ /\ pc' = "gone"
          /\ UNCHANGED <<tables, held>>
    /\ UNCHANGED <<source, names, i, loading, specials, decoder, made, thrown>>

SpecialRegex ==
    /\ pc = "special" /\ specials # <<>>
    /\ \/ /\ tables' = [tables EXCEPT !.specialRegex = MaxNumThreads, !.specialData = MaxNumThreads]
          /\ held' = [held EXCEPT !.code = @ + MaxNumThreads, !.data = @ + MaxNumThreads]
          /\ pc' = "decoder"
          /\ UNCHANGED thrown
       \/ /\ tables' = NoTables    \* the vectors go, what their pointers point to stays
          /\ pc' = "gone"
          /\ thrown' = thrown + 1
          /\ UNCHANGED held
    /\ UNCHANGED <<source, names, i, loading, specials, decoder, made>>

NoSpecialRegex ==
    /\ pc = "special" /\ specials = <<>>
    /\ pc' = "decoder"
    /\ UNCHANGED <<source, names, i, loading, specials, object>>

DecoderByPlace ==
    LET words == SetToSortSeq(DOMAIN ranks, LAMBDA v, w : ranks[v] < ranks[w])
    IN  decoder' = [r \in 0 .. Len(words) - 1 |-> words[r + 1]]

\* The encoder is walked in the order of a hash map: of two words with one rank,
\* either may come last.
DecoderByRank ==
    decoder' \in {d \in [Range(ranks) -> DOMAIN ranks] : \A r \in DOMAIN d : ranks[d[r]] = r}

FillDecoder ==
    /\ pc = "decoder"
    /\ DecoderByRank
    /\ pc' = "ready"
    /\ UNCHANGED <<source, names, i, loading, specials, tables, held, made, thrown>>

FreeNormalOnly == [held EXCEPT !.code = @ - tables.regex, !.data = @ - tables.data]

FreeTables == [held EXCEPT !.code = @ - (tables.regex + tables.specialRegex),
                           !.data = @ - (tables.data + tables.specialData)]

Delete ==
    /\ pc = "ready"
    /\ held' = FreeTables
    /\ tables' = NoTables /\ decoder' = <<>>
    /\ pc' = "gone"
    /\ UNCHANGED <<source, names, i, loading, specials, made, thrown>>

Stopped ==
    /\ pc = "failed" \/ (pc \in {"new", "gone"} /\ made = MaxObjects)
    /\ UNCHANGED vars

Next ==
    \/ ReadMerge \/ ParseEncoder \/ ReadEntry \/ CompareWithEncoder
    \/ ReadTiktokenLine \/ EndTiktoken
    \/ Number \/ New \/ Regex \/ SpecialRegex \/ NoSpecialRegex \/ FillDecoder \/ Delete
    \/ Stopped

Spec == Init /\ [][Next]_vars
-----------------------------------------------------------------------------
MergedWord(k) == DecodeDataGym(source.lines[k][1]) \o DecodeDataGym(source.lines[k][2])

MergeLines == {k \in 2 .. Len(source.lines) : Len(source.lines[k]) = 2}

\* "this sanity check is important since tiktoken assumes that ranks are ordered the
\* same as merge priority" (core_bpe.cpp:402): when encoder.json numbers its words
\* without a gap, what passes the comparison ranks an earlier line of two fields below a
\* later one, so that no two make one word, and each above all single bytes.  It says
\* nothing of other lines, which are passed over, nor of a character outside the table:
\* both files may have it, and it is byte 0 in both.
RanksFollowMerges ==
    (pc = "number" /\ source.kind = "gym" /\ Range(encoder) = 0 .. Cardinality(DOMAIN encoder) - 1) =>
        /\ \A j, k \in MergeLines : j < k => ranks[MergedWord(j)] < ranks[MergedWord(k)]
        /\ \A k \in MergeLines, b \in Bytes : ranks[<<b>>] < ranks[MergedWord(k)]

\* A vocabulary of the gym format has every byte, so that encoding cannot throw, and
\* no two words of one rank whatever the merges repeat: each token has one word.  One of the
\* tiktoken format decodes if its file gives no two words one rank.
DecodesBack ==
    pc = "ready" =>
        /\ source.kind = "gym" => \A b \in Bytes : <<b>> \in DOMAIN ranks
        /\ (source.kind = "gym" \/ IsInjective(ranks)) =>
               \A w \in DOMAIN ranks : <<ranks[w], w>> \in {<<r, decoder[r]>> : r \in DOMAIN decoder}

\* If the ranks of the file are those of its order, the special tokens follow without
\* a gap and share no number with a rank: what explicit_n_vocab stands for
\* (tiktoken.cpp:31), and what the constructor does not check.
SpecialsBehindRanks ==
    (pc = "ready" /\ Range(ranks) = 0 .. Cardinality(DOMAIN ranks) - 1) =>
        LET nVocab == Cardinality(DOMAIN ranks) + Cardinality(DOMAIN specials) IN
        /\ IsInjective(specials)
        /\ Range(ranks) \cup Range(specials) = 0 .. nVocab - 1

\* Every regex and match data that exists is in a vector of the object, where its
\* destructor frees it, except those that the throw at a special regex that does not
\* compile leaves behind; and a complete object has one of each for every thread,
\* if it has special tokens at all.
HeldIsReachable ==
    /\ held.code = tables.regex + tables.specialRegex + thrown * MaxNumThreads
    /\ held.data = tables.data + tables.specialData + thrown * MaxNumThreads
    /\ (pc = "ready" /\ names # <<>>) => \A v \in DOMAIN tables : tables[v] = MaxNumThreads
=============================================================================
