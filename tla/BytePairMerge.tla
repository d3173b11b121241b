--------------------------- MODULE BytePairMerge ---------------------------
(***************************************************************************)
(* byte_pair_encode and _byte_pair_merge of search/core_bpe.cpp: the loop  *)
(* that merges the bytes of one piece, with the `parts` vector whose       *)
(* elements cache the rank of the pair that starts there.  The cache is    *)
(* updated by hand, for two elements, before the element between them is   *)
(* erased: a stale entry merges the wrong pair, or one that does not exist.*)
(* Indices are one greater than the code's.                                *)
(***************************************************************************)
EXTENDS Integers, Sequences, SequencesExt

CONSTANTS Byte,        \* the values of a byte
          Pieces,      \* the pieces the regex may cut from a text
          RankTables,  \* the vocabularies: functions from byte strings to ranks
          SizeMax      \* numeric_limits<size_t>::max(), "no rank"

ASSUME PiecesAssumption == Pieces \subseteq Seq(Byte)

ASSUME SizeMaxAssumption == SizeMax \in Nat

\* A rank is a line number of the vocabulary file, never SIZE_MAX.
ASSUME RanksAssumption ==
    \A r \in RankTables :
        /\ DOMAIN r \subseteq Seq(Byte)
        /\ \A w \in DOMAIN r : r[w] \in Nat /\ r[w] < SizeMax

VARIABLES piece,   \* the argument
          ranks,   \* the vocabulary, CoreBPE::_encoder
          parts,   \* the vector of (start, rank)
          out,     \* the tokens emitted so far
          pc       \* where the call is

vars == <<piece, ranks, parts, out, pc>>

Word(from, to) == SubSeq(piece, from + 1, to)

RankOf(w) == IF w \in DOMAIN ranks THEN ranks[w] ELSE SizeMax

\* The rank of the pair that starts at i once the next `skip` elements are gone.
GetRank(i, skip) ==
    IF i + skip + 2 <= Len(parts)
    THEN RankOf(Word(parts[i].start, parts[i + skip + 2].start))
    ELSE SizeMax

IsMinRightmost(i) ==
    /\ parts[i].rank < SizeMax
    /\ \A j \in 1 .. Len(parts) - 1 :
           \/ parts[i].rank < parts[j].rank
           \/ parts[i].rank = parts[j].rank /\ i >= j

\* The scan: the first element, but the last, that holds the least rank.
IsMin(i) ==
    /\ parts[i].rank < SizeMax
    /\ \A j \in 1 .. Len(parts) - 1 :
           \/ parts[i].rank < parts[j].rank
           \/ parts[i].rank = parts[j].rank /\ i <= j

Minima == {i \in 1 .. Len(parts) - 1 : IsMin(i)}

Init == /\ piece \in Pieces
        /\ ranks \in RankTables
        /\ parts = <<>>
        /\ out = <<>>
        /\ pc = "call"

\* byte_pair_encode: one byte is looked up at once; an unknown one gives no token.
OneByte ==
    /\ pc = "call"
    /\ Len(piece) = 1
    /\ out' = IF piece \in DOMAIN ranks THEN <<ranks[piece]>> ELSE <<>>
    /\ pc' = "done"
    /\ UNCHANGED <<piece, ranks, parts>>

\* One element per byte and one for the end, then the rank of every pair.
Start ==
    /\ pc = "call"
    /\ Len(piece) # 1
    /\ parts' = [i \in 1 .. Len(piece) + 1 |->
                    [start |-> i - 1,
                     rank  |-> IF i + 1 <= Len(piece)
                               THEN RankOf(Word(i - 1, i + 1)) ELSE SizeMax]]
    /\ pc' = "merge"
    /\ UNCHANGED <<piece, ranks, out>>

Reranked(k, skip) == [start |-> parts[k].start, rank |-> GetRank(k, skip)]

\* Plausible slips (each replaces the definition it precedes in a run that must fail):
\* the left neighbour keeps its rank; the look-ups do not skip the element about to go;
\* the element i is erased, or none.
MergeKeepsLeft(i) ==
    /\ parts' = [k \in 1 .. Len(parts) - 1 |->
                   IF k = i THEN Reranked(k, 1)
                   ELSE IF k < i THEN parts[k] ELSE parts[k + 1]]
    /\ UNCHANGED <<piece, ranks, out, pc>>

MergeNoSkip(i) ==
    /\ parts' = [k \in 1 .. Len(parts) - 1 |->
                   IF k \in {i - 1, i} THEN Reranked(k, 0)
                   ELSE IF k < i THEN parts[k] ELSE parts[k + 1]]
    /\ UNCHANGED <<piece, ranks, out, pc>>

MergeNoErase(i) ==
    /\ parts' = [k \in 1 .. Len(parts) |->
                   IF k \in {i - 1, i} THEN Reranked(k, 1)
                   ELSE parts[k]]
    /\ UNCHANGED <<piece, ranks, out, pc>>

\* One turn of the loop that merges: the ranks at i and i - 1 are looked up over the
\* element i + 1, and that element is erased.
MergeAt(i) ==
    /\ parts' = [k \in 1 .. Len(parts) - 1 |->
                   IF k \in {i - 1, i} THEN Reranked(k, 1)
                   ELSE IF k < i THEN parts[k] ELSE parts[k + 1]]
    /\ UNCHANGED <<piece, ranks, out, pc>>

Merge == pc = "merge" /\ \E i \in Minima : MergeAt(i)

\* The loop ends: nothing has a rank.
NothingLeft ==
    /\ pc = "merge"
    /\ Minima = {}
    /\ pc' = "emit"
    /\ UNCHANGED <<piece, ranks, parts, out>>

Segment(i) == Word(parts[i].start, parts[i + 1].start)

ReturnEarly ==
    /\ pc = "emit"
    /\ Len(out) + 1 >= Len(parts) - 1
    /\ pc' = "done"
    /\ UNCHANGED <<piece, ranks, parts, out>>

\* f applied to the next range: its token, or runtime_error.
Emit ==
    /\ pc = "emit"
    /\ Len(out) < Len(parts) - 1
    /\ IF Segment(Len(out) + 1) \in DOMAIN ranks
       THEN out' = Append(out, ranks[Segment(Len(out) + 1)]) /\ pc' = pc
       ELSE pc' = "thrown" /\ out' = out
    /\ UNCHANGED <<piece, ranks, parts>>

Return ==
    /\ pc = "emit"
    /\ Len(out) = Len(parts) - 1
    /\ pc' = "done"
    /\ UNCHANGED <<piece, ranks, parts, out>>

Done == pc \in {"done", "thrown"} /\ UNCHANGED vars

Next == OneByte \/ Start \/ Merge \/ NothingLeft \/ Emit \/ Return \/ Done

Spec == Init /\ [][Next]_vars

-----------------------------------------------------------------------------
Merging == pc \in {"merge", "emit"}

Parts == [start : Nat, rank : Nat]

\* The variables have the types the code gives them.
TypeOK ==
    /\ piece \in Seq(Byte)
    /\ \A w \in DOMAIN ranks : ranks[w] \in Nat /\ ranks[w] < SizeMax
    /\ parts \in Seq(Parts)
    /\ out \in Seq(Nat)
    /\ pc \in {"call", "merge", "emit", "done", "thrown"}

\* The boundaries in parts cut the piece from its first byte to its last into segments
\* that are not empty: no merge loses, repeats or reorders a byte.
Partition ==
    Merging =>
        /\ Len(parts) >= 1
        /\ parts[1].start = 0
        /\ parts[Len(parts)].start = Len(piece)
        /\ \A i, j \in 1 .. Len(parts) : i < j => parts[i].start < parts[j].start

\* The rank a part caches is the one a fresh look-up of its pair would find: the
\* two refreshes of a merge are enough.
CacheFresh ==
    Merging => \A i \in 1 .. Len(parts) : parts[i].rank = GetRank(i, 0)

\* A segment of several bytes exists only because its word has a rank, ...
MergedIsRanked ==
    Merging => \A i \in 1 .. Len(parts) - 1 :
                   parts[i + 1].start > parts[i].start + 1 => Segment(i) \in DOMAIN ranks

BytesKnown == \A i \in 1 .. Len(piece) : <<piece[i]>> \in DOMAIN ranks

\* ... so the runtime_error of byte_pair_encode, which no caller up to the service
\* catches, needs a byte that the vocabulary does not have.
ThrowsOnlyOnUnknownByte == pc = "thrown" => ~BytesKnown

Decode(t) == CHOOSE w \in DOMAIN ranks : ranks[w] = t

\* Decoding the tokens of a piece gives the piece back if no two words share a rank, except
\* that byte_pair_encode drops a piece that is one unknown byte.
Lossless ==
    (pc = "done" /\ IsInjective(ranks)) =>
        \/ FlattenSeq([i \in DOMAIN out |-> Decode(out[i])]) = piece
        \/ Len(piece) = 1 /\ ~BytesKnown /\ out = <<>>

-----------------------------------------------------------------------------
\* The segments the abstract specification keeps, read off the parts.
Segs == IF parts = <<>> THEN [i \in 1 .. Len(piece) |-> <<piece[i]>>]
        ELSE [i \in 1 .. Len(parts) - 1 |-> Segment(i)]

Abstract == INSTANCE ByteMerging WITH segs <- Segs, ended <- pc \in {"emit", "done", "thrown"}

\* The loop with its cache implements the merging that looks every rank up afresh: it joins
\* what that joins, and goes over to the tokens only when nothing joins any more.
MergesAsPromised == Abstract!Spec

\* The call always ends.
Terminates == <>(pc \in {"done", "thrown"})
=============================================================================
