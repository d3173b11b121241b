---------------------------- MODULE EncodeProofs ----------------------------
(***************************************************************************)
(* For every piece and every vocabulary: the cached ranks of the merge     *)
(* loop are fresh, its parts cut the piece without loss, the tokens decode *)
(* to the piece, and the encoder throws only on an unknown byte.  For      *)
(* every text and every choice of special tokens: those in the output are  *)
(* allowed, and up to the first of them no byte of the text is lost.       *)
(***************************************************************************)
EXTENDS MCEncode, SequenceTheorems, WellFoundedInduction, TLAPS

\* The inductive invariant: the four named invariants, and that a part of the loop's
\* vector is there as soon as the loop runs.  MergedIsRanked needs CacheFresh (the pair
\* merged has the rank it caches) and ThrowsOnlyOnUnknownByte needs MergedIsRanked.
IInv == TypeOK /\ Partition /\ CacheFresh /\ MergedIsRanked /\ ThrowsOnlyOnUnknownByte

\* A rank, or the lack of one, is a size_t.
LEMMA RankType == ASSUME TypeOK, NEW w PROVE RankOf(w) \in Nat /\ RankOf(w) <= SizeMax
  BY SizeMaxAssumption DEF TypeOK, RankOf

\* A word has a rank below SIZE_MAX exactly when the vocabulary has it.
LEMMA RankedWord == ASSUME TypeOK, NEW w, RankOf(w) < SizeMax PROVE w \in DOMAIN ranks
  BY SizeMaxAssumption DEF TypeOK, RankOf

\* A look-up returns a size_t.
LEMMA GetRankType ==
    ASSUME TypeOK, NEW i, NEW skip PROVE GetRank(i, skip) \in Nat
  BY RankType, SizeMaxAssumption DEF GetRank

\* A segment of one byte is that byte.
LEMMA OneByteWord ==
    ASSUME NEW p \in Seq(Byte), NEW n \in 0 .. Len(p) - 1
    PROVE  SubSeq(p, n + 1, n + 1) = <<p[n + 1]>>
  <1> DEFINE s == SubSeq(p, n + 1, n + 1)
  <1>1. s \in Seq(Byte) /\ Len(s) = 1 /\ s[1] = p[n + 1]
    <2>1. n + 1 \in Int /\ \A i \in n + 1 .. n + 1 : p[i] \in Byte
      OBVIOUS
    <2>2. /\ s \in Seq(Byte)
          /\ Len(s) = IF n + 1 <= n + 1 THEN (n + 1) - (n + 1) + 1 ELSE 0
          /\ \A i \in 1 .. (n + 1) - (n + 1) + 1 : s[i] = p[(n + 1) + i - 1]
      BY <2>1, SubSeqProperties
    <2>3. QED
      BY <2>2
  <1> DEFINE t == <<p[n + 1]>>
  <1>2. t \in Seq(Byte) /\ Len(t) = 1 /\ t[1] = p[n + 1]
    OBVIOUS
  <1> HIDE DEF s, t
  <1>3. Len(s) = Len(t) /\ \A j \in 1 .. Len(s) : s[j] = t[j]
    <2>1. \A j \in 1 .. 1 : j = 1
      OBVIOUS
    <2>2. QED
      BY <1>1, <1>2, <2>1
  <1>4. s = t
    BY <1>1, <1>2, <1>3, SeqEqual
  <1>5. QED
    BY <1>4 DEF s, t

\* The initial states satisfy the invariant.
LEMMA InitIInv == Init => IInv
  <1> SUFFICES ASSUME Init PROVE IInv
    OBVIOUS
  <1>1. TypeOK
    BY PiecesAssumption, RanksAssumption DEF Init, TypeOK
  <1>2. QED
    BY <1>1 DEF Init, IInv, Partition, CacheFresh, MergedIsRanked, Merging,
                ThrowsOnlyOnUnknownByte

\* The first look-ups establish the invariant.
LEMMA StartIInv == IInv /\ Start => IInv'
  <1> SUFFICES ASSUME IInv, Start PROVE IInv'
    OBVIOUS
  <1> DEFINE n == Len(piece)
  <1>1. n \in Nat /\ piece \in Seq(Byte)
    BY DEF IInv, TypeOK
  <1>2. /\ Len(parts') = n + 1
        /\ DOMAIN parts' = 1 .. n + 1
        /\ \A i \in 1 .. n + 1 :
              parts'[i] = [start |-> i - 1,
                           rank  |-> IF i + 1 <= n THEN RankOf(Word(i - 1, i + 1))
                                     ELSE SizeMax]
    BY <1>1 DEF Start
  <1>3. parts' \in Seq(Parts)
    <2>1. \A i \in 1 .. n + 1 : parts'[i] \in Parts
      BY <1>1, <1>2, RankType, SizeMaxAssumption DEF IInv, Parts
    <2>2. parts' \in [1 .. n + 1 -> Parts]
      BY <1>1, <2>1 DEF Start
    <2>3. QED
      BY <1>1, <2>2
  <1>4. TypeOK'
    BY <1>3 DEF IInv, TypeOK, Start
  <1>5. Partition'
    BY <1>1, <1>2 DEF Start, Partition
  <1>6. CacheFresh'
    <2> SUFFICES ASSUME NEW i \in 1 .. n + 1 PROVE parts'[i].rank = GetRank(i, 0)'
      BY <1>2 DEF CacheFresh
    <2>1. CASE i + 1 <= n
      <3>1. parts'[i].start = i - 1 /\ parts'[i + 2].start = i + 1
        BY <1>1, <1>2, <2>1
      <3>2. GetRank(i, 0)' = RankOf(Word(i - 1, i + 1))
        BY <1>1, <1>2, <2>1, <3>1 DEF GetRank, RankOf, Word, Start
      <3>3. QED
        BY <1>2, <2>1, <3>2
    <2>2. CASE ~(i + 1 <= n)
      BY <1>1, <1>2, <2>2 DEF GetRank
    <2>3. QED
      BY <2>1, <2>2
  <1>7. MergedIsRanked'
    BY <1>1, <1>2 DEF MergedIsRanked
  <1>8. ThrowsOnlyOnUnknownByte'
    BY DEF Start, ThrowsOnlyOnUnknownByte
  <1>9. QED
    BY <1>4, <1>5, <1>6, <1>7, <1>8 DEF IInv

\* What a merge leaves of the parts: the starts but one, the ranks but two.
LEMMA MergedParts ==
    ASSUME IInv, pc = "merge", NEW i \in Minima, MergeAt(i)
    PROVE  /\ Len(parts') = Len(parts) - 1
           /\ \A k \in 1 .. Len(parts) - 1 :
                 /\ parts'[k] \in Parts
                 /\ parts'[k].start = IF k <= i THEN parts[k].start ELSE parts[k + 1].start
                 /\ parts'[k].rank = IF k \in {i - 1, i} THEN GetRank(k, 1)
                                     ELSE IF k < i THEN parts[k].rank ELSE parts[k + 1].rank
  <1> DEFINE n == Len(parts)
  <1>2. /\ parts \in Seq(Parts) /\ n \in Nat /\ i \in 1 .. n - 1
    BY DEF IInv, TypeOK, Minima
  <1>3. /\ Len(parts') = n - 1
        /\ \A k \in 1 .. n - 1 :
              parts'[k] = IF k \in {i - 1, i} THEN Reranked(k, 1)
                          ELSE IF k < i THEN parts[k] ELSE parts[k + 1]
    BY <1>2 DEF MergeAt
  <1>4. \A k \in 1 .. n : parts[k] \in Parts
    BY <1>2
  <1>5. \A k \in 1 .. n - 1 :
          /\ parts'[k] \in Parts
          /\ parts'[k].start = IF k <= i THEN parts[k].start ELSE parts[k + 1].start
          /\ parts'[k].rank = IF k \in {i - 1, i} THEN GetRank(k, 1)
                              ELSE IF k < i THEN parts[k].rank ELSE parts[k + 1].rank
    <2> SUFFICES ASSUME NEW k \in 1 .. n - 1
                 PROVE /\ parts'[k] \in Parts
                       /\ parts'[k].start = IF k <= i THEN parts[k].start
                                            ELSE parts[k + 1].start
                       /\ parts'[k].rank = IF k \in {i - 1, i} THEN GetRank(k, 1)
                              ELSE IF k < i THEN parts[k].rank ELSE parts[k + 1].rank
      OBVIOUS
    <2>1. GetRank(k, 1) \in Nat
      BY GetRankType DEF IInv
    <2>2. parts[k] \in Parts /\ parts[k + 1] \in Parts
      BY <1>2, <1>4
    <2>3. CASE k \in {i - 1, i}
      <3>1. parts'[k] = [start |-> parts[k].start, rank |-> GetRank(k, 1)]
        BY <1>3, <2>3 DEF Reranked
      <3>2. parts'[k].start = parts[k].start /\ parts'[k].rank = GetRank(k, 1)
        BY <3>1
      <3>3. parts'[k] \in Parts
        BY <2>1, <2>2, <3>1 DEF Parts
      <3>4. k <= i
        BY <1>2, <2>3
      <3>5. QED
        BY <2>3, <3>2, <3>3, <3>4
    <2>4. CASE k \notin {i - 1, i}
      <3>1. parts'[k] = IF k < i THEN parts[k] ELSE parts[k + 1]
        BY <1>3, <2>4
      <3>2. k < i \/ k > i
        BY <1>2, <2>4
      <3>3. QED
        BY <1>2, <2>2, <2>4, <3>1, <3>2
    <2>5. QED
      BY <2>3, <2>4
  <1>6. QED
    BY <1>3, <1>5

\* One merge keeps it: the two look-ups over the erased element are the only ranks
\* that the merge makes stale.
LEMMA MergeIInv == IInv /\ Merge => IInv'
  <1> SUFFICES ASSUME IInv, Merge PROVE IInv'
    OBVIOUS
  <1>1. PICK i \in Minima : MergeAt(i)
    BY DEF Merge
  <1> DEFINE n == Len(parts)
  <1>2. /\ parts \in Seq(Parts) /\ n \in Nat /\ i \in 1 .. n - 1
        /\ pc = "merge" /\ pc' = "merge" /\ piece' = piece /\ ranks' = ranks /\ out' = out
    BY <1>1 DEF IInv, TypeOK, Minima, MergeAt, Merge
  <1>3. Len(parts') = n - 1
    BY <1>1, <1>2, MergedParts
  <1>4. \A k \in 1 .. n : parts[k] \in Parts
    BY <1>2
  <1>5. \A k \in 1 .. n - 1 :
          /\ parts'[k] \in Parts
          /\ parts'[k].start = IF k <= i THEN parts[k].start ELSE parts[k + 1].start
          /\ parts'[k].rank = IF k \in {i - 1, i} THEN GetRank(k, 1)
                              ELSE IF k < i THEN parts[k].rank ELSE parts[k + 1].rank
    BY <1>1, <1>2, MergedParts
  <1>6. TypeOK'
    <2>1. parts' \in [1 .. n - 1 -> Parts]
      BY <1>1, <1>5 DEF MergeAt
    <2>2. parts' \in Seq(Parts)
      BY <1>2, <2>1
    <2>3. QED
      BY <1>2, <2>2 DEF IInv, TypeOK
  <1>7. Partition'
    <2>1. \A k \in 1 .. n : parts[k].start \in Nat
      BY <1>4 DEF Parts
    <2>2. /\ parts[1].start = 0 /\ parts[n].start = Len(piece)
          /\ \A j, k \in 1 .. n : j < k => parts[j].start < parts[k].start
      BY <1>2 DEF IInv, Partition, Merging
    <2>3. parts'[1].start = 0 /\ parts'[n - 1].start = Len(piece)
      <3>1. parts[i].rank < SizeMax /\ parts[i].rank = GetRank(i, 0)
        BY <1>1, <1>2 DEF Minima, IsMin, IInv, CacheFresh, Merging
      <3>2. i + 2 <= n
        BY <1>2, <3>1, SizeMaxAssumption DEF GetRank
      <3>3. QED
        BY <1>2, <1>5, <2>2, <3>2
    <2>4. ASSUME NEW j \in 1 .. n - 1, NEW k \in 1 .. n - 1, j < k
          PROVE  parts'[j].start < parts'[k].start
      <3> DEFINE Old(m) == IF m <= i THEN m ELSE m + 1
      <3>1. parts'[j].start = parts[Old(j)].start /\ parts'[k].start = parts[Old(k)].start
        BY <1>5
      <3>2. Old(j) \in 1 .. n /\ Old(k) \in 1 .. n /\ Old(j) < Old(k)
        BY <1>2, <2>4
      <3>3. QED
        BY <2>2, <3>1, <3>2
    <2>5. QED
      BY <1>2, <1>3, <2>3, <2>4 DEF Partition
  <1>8. CacheFresh'
    <2> SUFFICES ASSUME NEW k \in 1 .. n - 1 PROVE parts'[k].rank = GetRank(k, 0)'
      BY <1>3 DEF CacheFresh
    <2>1. GetRank(k, 0)' = IF k + 2 <= n - 1
                           THEN RankOf(Word(parts'[k].start, parts'[k + 2].start))
                           ELSE SizeMax
      BY <1>2, <1>3 DEF GetRank, RankOf, Word
    <2>2. CASE k \in {i - 1, i}
      <3>1. parts'[k].rank = GetRank(k, 1)
        BY <1>5, <2>2
      <3>2. CASE k + 2 <= n - 1
        <4>1. parts'[k].start = parts[k].start /\ parts'[k + 2].start = parts[k + 3].start
          BY <1>2, <1>5, <2>2, <3>2
        <4>2. QED
          BY <1>2, <2>1, <3>1, <3>2, <4>1 DEF GetRank
      <3>3. CASE ~(k + 2 <= n - 1)
        BY <1>2, <2>1, <3>1, <3>3 DEF GetRank
      <3>4. QED
        BY <3>2, <3>3
    <2>3. CASE k < i - 1
      <3>1. /\ k + 2 <= n - 1 /\ k + 2 <= n
            /\ parts'[k].rank = parts[k].rank
            /\ parts'[k].start = parts[k].start /\ parts'[k + 2].start = parts[k + 2].start
        BY <1>2, <1>5, <2>3
      <3>2. parts[k].rank = GetRank(k, 0)
        BY <1>2 DEF IInv, CacheFresh, Merging
      <3>3. QED
        BY <2>1, <3>1, <3>2 DEF GetRank
    <2>4. CASE k > i
      <3>1. /\ parts'[k].rank = parts[k + 1].rank
            /\ parts'[k].start = parts[k + 1].start
            /\ k + 2 <= n - 1 => parts'[k + 2].start = parts[k + 3].start
        <4>1. parts'[k].rank = parts[k + 1].rank /\ parts'[k].start = parts[k + 1].start
          BY <1>2, <1>5, <2>4
        <4>2. ASSUME k + 2 <= n - 1 PROVE parts'[k + 2].start = parts[k + 3].start
          <5>1. PICK m \in 1 .. n - 1 : m = k + 2
            BY <1>2, <2>4, <4>2
          <5>2. parts'[m].start = parts[m + 1].start
            BY <1>2, <1>5, <2>4, <5>1
          <5>3. m + 1 = k + 3
            BY <5>1
          <5>4. QED
            BY <5>1, <5>2, <5>3
        <4>3. QED
          BY <4>1, <4>2
      <3>2. parts[k + 1].rank = GetRank(k + 1, 0)
        BY <1>2 DEF IInv, CacheFresh, Merging
      <3>3. QED
        BY <1>2, <2>1, <3>1, <3>2 DEF GetRank
    <2>5. QED
      BY <1>2, <2>2, <2>3, <2>4
  <1>9. MergedIsRanked'
    <2>0. Len(parts') - 1 = n - 2
      BY <1>2, <1>3
    <2> SUFFICES ASSUME NEW k \in 1 .. n - 2,
                        parts'[k + 1].start > parts'[k].start + 1
                 PROVE  Segment(k)' \in DOMAIN ranks
      BY <1>2, <2>0 DEF MergedIsRanked
    <2>1. Segment(k)' = Word(parts'[k].start, parts'[k + 1].start)
      BY <1>2 DEF Segment, Word
    <2>2. CASE k = i
      <3>1. /\ parts[i].rank < SizeMax
            /\ parts[i].rank = GetRank(i, 0)
        BY <1>1, <1>2 DEF Minima, IsMin, IInv, CacheFresh, Merging
      <3>2. i + 2 <= n /\ RankOf(Word(parts[i].start, parts[i + 2].start)) < SizeMax
        BY <1>2, <3>1, SizeMaxAssumption DEF GetRank
      <3>3. parts'[k].start = parts[i].start /\ parts'[k + 1].start = parts[i + 2].start
        BY <1>2, <1>5, <2>2
      <3>4. QED
        BY <2>1, <3>2, <3>3, RankedWord DEF IInv
    <2>3. CASE k # i
      <3> DEFINE m == IF k < i THEN k ELSE k + 1
      <3>1. /\ m \in 1 .. n - 1
            /\ parts'[k].start = parts[m].start /\ parts'[k + 1].start = parts[m + 1].start
        BY <1>2, <1>5, <2>3
      <3>2. parts[m + 1].start > parts[m].start + 1 => Segment(m) \in DOMAIN ranks
        BY <1>2, <3>1 DEF IInv, MergedIsRanked, Merging
      <3>3. QED
        BY <2>1, <3>1, <3>2 DEF Segment
    <2>4. QED
      BY <2>2, <2>3
  <1>10. ThrowsOnlyOnUnknownByte'
    BY <1>2 DEF ThrowsOnlyOnUnknownByte
  <1>11. QED
    BY <1>6, <1>7, <1>8, <1>9, <1>10 DEF IInv

\* Emitting a token keeps it; a throw names a segment of one byte.
LEMMA EmitIInv == IInv /\ Emit => IInv'
  <1> SUFFICES ASSUME IInv, Emit PROVE IInv'
    OBVIOUS
  <1> DEFINE k == Len(out) + 1
  <1>1. /\ piece \in Seq(Byte) /\ parts \in Seq(Parts) /\ out \in Seq(Nat)
        /\ pc = "emit" /\ pc' \in {"emit", "thrown"} /\ k \in 1 .. Len(parts) - 1
        /\ piece' = piece /\ ranks' = ranks /\ parts' = parts
    BY DEF IInv, TypeOK, Emit
  <1>2. TypeOK'
    <2>1. out' \in Seq(Nat)
      <3>1. CASE Segment(k) \in DOMAIN ranks
        <4>1. ranks[Segment(k)] \in Nat
          BY <3>1 DEF IInv, TypeOK
        <4>2. out' = Append(out, ranks[Segment(k)])
          BY <3>1 DEF Emit
        <4>3. QED
          BY <1>1, <4>1, <4>2, AppendProperties
      <3>2. CASE Segment(k) \notin DOMAIN ranks
        BY <1>1, <3>2 DEF Emit
      <3>3. QED
        BY <3>1, <3>2
    <2>2. QED
      BY <1>1, <2>1 DEF IInv, TypeOK
  <1>3. Partition' /\ MergedIsRanked'
    BY <1>1 DEF IInv, Partition, MergedIsRanked, Merging, Segment, Word
  <1>4. CacheFresh'
    BY <1>1 DEF IInv, CacheFresh, Merging, GetRank, RankOf, Word
  <1>5. ThrowsOnlyOnUnknownByte'
    <2> SUFFICES ASSUME pc' = "thrown" PROVE ~BytesKnown
      BY <1>1 DEF ThrowsOnlyOnUnknownByte, BytesKnown
    <2>1. Segment(k) \notin DOMAIN ranks
      BY <1>1 DEF Emit
    <2>2. /\ parts[k].start \in Nat /\ parts[k + 1].start \in Nat
          /\ parts[k].start < parts[k + 1].start
          /\ ~(parts[k + 1].start > parts[k].start + 1)
      <3>1. parts[k] \in Parts /\ parts[k + 1] \in Parts
        BY <1>1
      <3>2. parts[k].start < parts[k + 1].start
        BY <1>1 DEF IInv, Partition, Merging
      <3>3. ~(parts[k + 1].start > parts[k].start + 1)
        BY <1>1, <2>1 DEF IInv, MergedIsRanked, Merging
      <3>4. QED
        BY <3>1, <3>2, <3>3 DEF Parts
    <2>3. parts[k + 1].start = parts[k].start + 1
      BY <2>2
    <2>4. parts[k + 1].start <= Len(piece)
      <3>1. parts[Len(parts)].start = Len(piece) /\ parts[Len(parts)].start \in Nat
        BY <1>1 DEF IInv, Partition, Merging, Parts
      <3>2. CASE k + 1 = Len(parts)
        BY <3>1, <3>2, <2>2
      <3>3. CASE k + 1 < Len(parts)
        BY <1>1, <3>1, <3>3, <2>2 DEF IInv, Partition, Merging
      <3>4. QED
        BY <1>1, <3>2, <3>3
    <2>5. Segment(k) = <<piece[parts[k].start + 1]>>
      BY <1>1, <2>2, <2>3, <2>4, OneByteWord DEF Segment, Word
    <2>6. QED
      BY <1>1, <2>1, <2>2, <2>3, <2>4, <2>5 DEF BytesKnown
  <1>6. QED
    BY <1>2, <1>3, <1>4, <1>5 DEF IInv

\* The other steps leave the vector alone.
LEMMA OtherIInv ==
    IInv /\ (OneByte \/ NothingLeft \/ Return \/ UNCHANGED vars) => IInv'
  <1> SUFFICES ASSUME IInv, OneByte \/ NothingLeft \/ Return \/ UNCHANGED vars PROVE IInv'
    OBVIOUS
  <1>1. piece' = piece /\ ranks' = ranks /\ parts' = parts
    BY DEF OneByte, NothingLeft, Return, vars
  <1>2. TypeOK'
    <2>1. CASE OneByte
      <3>1. CASE piece \in DOMAIN ranks
        <4>1. ranks[piece] \in Nat
          BY <3>1 DEF IInv, TypeOK
        <4>2. out' = <<ranks[piece]>>
          BY <2>1, <3>1 DEF OneByte
        <4>3. out' \in Seq(Nat)
          BY <4>1, <4>2
        <4>4. QED
          BY <1>1, <2>1, <4>3 DEF IInv, TypeOK, OneByte
      <3>2. CASE piece \notin DOMAIN ranks
        BY <1>1, <2>1, <3>2 DEF IInv, TypeOK, OneByte
      <3>3. QED
        BY <3>1, <3>2
    <2>2. CASE NothingLeft \/ Return \/ UNCHANGED vars
      BY <1>1, <2>2 DEF IInv, TypeOK, NothingLeft, Return, vars
    <2>3. QED
      BY <2>1, <2>2
  <1>3. Merging' => Merging
    BY DEF OneByte, NothingLeft, Return, vars, Merging
  <1>4. Partition' /\ MergedIsRanked'
    BY <1>1, <1>3 DEF IInv, Partition, MergedIsRanked, Segment, Word
  <1>5. CacheFresh'
    BY <1>1, <1>3 DEF IInv, CacheFresh, GetRank, RankOf, Word
  <1>6. ThrowsOnlyOnUnknownByte'
    BY <1>1 DEF IInv, ThrowsOnlyOnUnknownByte, BytesKnown, OneByte, NothingLeft, Return, vars
  <1>7. QED
    BY <1>2, <1>4, <1>5, <1>6 DEF IInv

\* IInv holds in every reachable state.
THEOREM IInvHolds == Spec => []IInv
  <1>1. IInv /\ [Next]_vars => IInv'
    BY StartIInv, MergeIInv, EmitIInv, OtherIInv DEF Next, Done
  <1>2. QED
    BY InitIInv, <1>1, PTL DEF Spec

\* The variables keep their types.
THEOREM Typing == Spec => []TypeOK
  <1>1. IInv => TypeOK
    BY DEF IInv
  <1>2. QED
    BY <1>1, IInvHolds, PTL

\* The merges of _byte_pair_merge lose, repeat and reorder no byte.
THEOREM PartitionHolds == Spec => []Partition
  <1>1. IInv => Partition
    BY DEF IInv
  <1>2. QED
    BY <1>1, IInvHolds, PTL

\* No cached rank of _byte_pair_merge is ever stale.
THEOREM CacheFreshHolds == Spec => []CacheFresh
  <1>1. IInv => CacheFresh
    BY DEF IInv
  <1>2. QED
    BY <1>1, IInvHolds, PTL

\* A vocabulary with all the bytes of a piece encodes it without an exception.
THEOREM NoThrow == Spec => []ThrowsOnlyOnUnknownByte
  <1>1. IInv => ThrowsOnlyOnUnknownByte
    BY DEF IInv
  <1>2. QED
    BY <1>1, IInvHolds, PTL
-----------------------------------------------------------------------------
(* The refinement: the loop with its cache implements the merging that     *)
(* looks every rank up afresh.                                             *)

\* Every set of numbers that is not empty has a least one.
LEMMA LeastNumber ==
    ASSUME NEW T, T \subseteq Nat, T # {}
    PROVE  \E x \in T : \A y \in T : x <= y
  <1> DEFINE R == OpToRel(<, Nat)
  <1>1. IsWellFoundedOn(R, Nat)
    BY NatLessThanWellFounded
  <1>2. \A y, x \in Nat : y < x => <<y, x>> \in R
    BY DEF OpToRel
  <1> HIDE DEF R
  <1>3. PICK x \in T : \A y \in T : <<y, x>> \notin R
    BY <1>1, WFMin
  <1>4. ASSUME NEW y \in T PROVE x <= y
    <2>1. x \in Nat /\ y \in Nat /\ ~(y < x)
      BY <1>2, <1>3
    <2>2. QED
      BY <2>1
  <1>5. QED
    BY <1>4

\* Before the first look-ups there is no vector, and the segments are the bytes.
Uncut == pc = "call" => parts = <<>>

LEMMA UncutHolds == Spec => []Uncut
  <1>1. Init => Uncut
    BY DEF Init, Uncut
  <1>2. Uncut /\ [Next]_vars => Uncut'
    BY DEF Uncut, Next, OneByte, Start, Merge, MergeAt, NothingLeft, Emit, Return, Done, vars
  <1>3. QED
    BY <1>1, <1>2, PTL DEF Spec

\* Two neighbouring substrings of a string make the substring over both.
LEMMA Neighbours ==
    ASSUME NEW S, NEW p \in Seq(S), NEW x \in Nat, NEW y \in Nat, NEW z \in Nat,
           x <= y, y <= z, z <= Len(p)
    PROVE  SubSeq(p, x + 1, y) \o SubSeq(p, y + 1, z) = SubSeq(p, x + 1, z)
  <1> DEFINE s == SubSeq(p, x + 1, y)
             t == SubSeq(p, y + 1, z)
             u == SubSeq(p, x + 1, z)
  <1>1. ASSUME NEW v \in Nat, NEW w \in Nat, v <= w, w <= Len(p)
        PROVE  /\ SubSeq(p, v + 1, w) \in Seq(S) /\ Len(SubSeq(p, v + 1, w)) = w - v
               /\ \A i \in 1 .. w - v : SubSeq(p, v + 1, w)[i] = p[v + i]
    <2>1. v + 1 \in Int /\ w \in Int /\ \A i \in v + 1 .. w : p[i] \in S
      BY <1>1
    <2>2. /\ SubSeq(p, v + 1, w) \in Seq(S)
          /\ Len(SubSeq(p, v + 1, w)) = IF v + 1 <= w THEN w - (v + 1) + 1 ELSE 0
          /\ \A i \in 1 .. w - (v + 1) + 1 : SubSeq(p, v + 1, w)[i] = p[(v + 1) + i - 1]
      BY <2>1, SubSeqProperties
    <2>3. w - (v + 1) + 1 = w - v /\ \A i \in 1 .. w - v : (v + 1) + i - 1 = v + i
      OBVIOUS
    <2>4. Len(SubSeq(p, v + 1, w)) = w - v
      BY <1>1, <2>2
    <2>5. \A i \in 1 .. w - v : SubSeq(p, v + 1, w)[i] = p[v + i]
      BY <2>2, <2>3
    <2>6. QED
      BY <2>2, <2>4, <2>5
  <1>2. /\ s \in Seq(S) /\ Len(s) = y - x /\ \A i \in 1 .. y - x : s[i] = p[x + i]
        /\ t \in Seq(S) /\ Len(t) = z - y /\ \A i \in 1 .. z - y : t[i] = p[y + i]
        /\ u \in Seq(S) /\ Len(u) = z - x /\ \A i \in 1 .. z - x : u[i] = p[x + i]
    BY <1>1
  <1> HIDE DEF s, t, u
  <1>3. /\ s \o t \in Seq(S) /\ Len(s \o t) = Len(s) + Len(t)
        /\ \A i \in 1 .. Len(s) + Len(t) :
               (s \o t)[i] = IF i <= Len(s) THEN s[i] ELSE t[i - Len(s)]
    BY <1>2, ConcatProperties
  <1>4. Len(s \o t) = Len(u)
    BY <1>2, <1>3
  <1>5. ASSUME NEW i \in 1 .. Len(s \o t) PROVE (s \o t)[i] = u[i]
    <2>1. CASE i <= y - x
      BY <1>2, <1>3, <2>1
    <2>2. CASE ~(i <= y - x)
      <3> DEFINE j == i - (y - x)
      <3>1. Len(s) = y - x /\ Len(s \o t) = z - x
        BY <1>2, <1>3, <1>4
      <3>2. j \in 1 .. z - y /\ i \in 1 .. z - x /\ i \in 1 .. Len(s) + Len(t)
        BY <1>3, <2>2, <3>1
      <3>3. (s \o t)[i] = t[j]
        BY <1>3, <2>2, <3>1, <3>2
      <3>4. y + j = x + i
        BY <3>2
      <3> HIDE DEF j
      <3>5. t[j] = p[y + j] /\ u[i] = p[x + i]
        BY <1>2, <3>2
      <3>6. QED
        BY <3>3, <3>4, <3>5
    <2>3. QED
      BY <2>1, <2>2
  <1>6. s \o t = u
    BY <1>2, <1>3, <1>4, <1>5, SeqEqual
  <1>7. QED
    BY <1>6 DEF s, t, u

\* While the loop runs the segments are those between the parts, ...
LEMMA SegsOfParts ==
    ASSUME IInv, Merging
    PROVE  /\ Len(parts) \in Nat \ {0}
           /\ Segs = [k \in 1 .. Len(parts) - 1 |-> Segment(k)]
           /\ Len(Segs) = Len(parts) - 1
  <1>1. Len(parts) \in Nat /\ Len(parts) >= 1
    BY DEF IInv, TypeOK, Partition
  <1>2. Segs = [k \in 1 .. Len(parts) - 1 |-> Segment(k)]
    BY <1>1 DEF Segs
  <1>3. QED
    BY <1>1, <1>2

\* ... two of them join to the word whose rank the first part caches, ...
LEMMA JoinedIsCached ==
    ASSUME IInv, Merging, NEW k \in 1 .. Len(parts) - 2
    PROVE  /\ Abstract!Joined(k) = Word(parts[k].start, parts[k + 2].start)
           /\ parts[k].rank = RankOf(Abstract!Joined(k))
  <1>1. /\ parts \in Seq(Parts) /\ Len(parts) \in Nat /\ piece \in Seq(Byte)
        /\ k \in 1 .. Len(parts) - 1 /\ k + 1 \in 1 .. Len(parts) - 1
    BY DEF IInv, TypeOK
  <1>2. Segs[k] = Segment(k) /\ Segs[k + 1] = Segment(k + 1)
    BY <1>1, SegsOfParts
  <1>3. /\ parts[k].start \in Nat /\ parts[k + 1].start \in Nat /\ parts[k + 2].start \in Nat
        /\ parts[k].start <= parts[k + 1].start /\ parts[k + 1].start <= parts[k + 2].start
        /\ parts[k + 2].start <= Len(piece)
    <2>1. parts[k] \in Parts /\ parts[k + 1] \in Parts /\ parts[k + 2] \in Parts
          /\ parts[Len(parts)] \in Parts
      BY <1>1
    <2>2. /\ parts[k].start < parts[k + 1].start
          /\ parts[k + 1].start < parts[k + 2].start
          /\ parts[Len(parts)].start = Len(piece)
          /\ k + 2 < Len(parts) => parts[k + 2].start < parts[Len(parts)].start
      BY <1>1 DEF IInv, Partition
    <2>3. QED
      BY <1>1, <2>1, <2>2 DEF Parts
  <1>4. Abstract!Joined(k) = Word(parts[k].start, parts[k + 2].start)
    <2>1. Abstract!Joined(k) = SubSeq(piece, parts[k].start + 1, parts[k + 1].start)
                               \o SubSeq(piece, parts[k + 1].start + 1, parts[k + 2].start)
      <3>1. (k + 1) + 1 = k + 2
        OBVIOUS
      <3>2. QED
        BY <1>2, <3>1 DEF Abstract!Joined, Segment, Word
    <2>2. QED
      BY <1>1, <1>3, <2>1, Neighbours DEF Word
  <1>5. parts[k].rank = RankOf(Word(parts[k].start, parts[k + 2].start))
    <2>1. parts[k].rank = GetRank(k, 0)
      BY <1>1 DEF IInv, CacheFresh
    <2>2. k + 0 + 2 <= Len(parts) /\ k + 0 + 2 = k + 2
      BY <1>1
    <2>3. QED
      BY <2>1, <2>2 DEF GetRank
  <1>6. QED
    BY <1>4, <1>5

\* ... and the last part, which starts no pair, caches none.
LEMMA LastHasNoRank ==
    ASSUME IInv, Merging, NEW k \in 1 .. Len(parts) - 1, parts[k].rank < SizeMax
    PROVE  k \in 1 .. Len(parts) - 2
  <1>1. Len(parts) \in Nat
    BY DEF IInv, TypeOK
  <1>2. parts[k].rank = GetRank(k, 0)
    BY <1>1 DEF IInv, CacheFresh
  <1>3. QED
    BY <1>1, <1>2, SizeMaxAssumption DEF GetRank

\* The first look-ups leave the segments the bytes they were.
LEMMA StartStutters ==
    ASSUME IInv, Uncut, Start PROVE Segs' = Segs
  <1> DEFINE n == Len(piece)
  <1>1. n \in Nat /\ piece \in Seq(Byte) /\ parts = <<>> /\ piece' = piece
    BY DEF IInv, TypeOK, Uncut, Start
  <1>2. /\ Len(parts') = n + 1
        /\ \A i \in 1 .. n + 1 : parts'[i].start = i - 1
    BY <1>1 DEF Start
  <1>3. parts' # <<>>
    BY <1>1, <1>2
  <1>4. ASSUME NEW k \in 1 .. n PROVE Segment(k)' = <<piece[k]>>
    <2>1. parts'[k].start = k - 1 /\ parts'[k + 1].start = k
      BY <1>1, <1>2
    <2>2. k - 1 \in 0 .. Len(piece) - 1 /\ (k - 1) + 1 = k
      BY <1>1
    <2>3. Segment(k)' = SubSeq(piece, (k - 1) + 1, k)
      BY <1>1, <2>1 DEF Segment, Word
    <2>4. SubSeq(piece, (k - 1) + 1, (k - 1) + 1) = <<piece[(k - 1) + 1]>>
      BY <1>1, <2>2, OneByteWord
    <2>5. QED
      BY <2>2, <2>3, <2>4
  <1>5. Segs' = [k \in 1 .. n |-> Segment(k)']
    BY <1>1, <1>2, <1>3 DEF Segs
  <1>6. Segs = [k \in 1 .. n |-> <<piece[k]>>]
    BY <1>1 DEF Segs
  <1>7. QED
    BY <1>4, <1>5, <1>6

\* A merge joins the two neighbours of the lowest rank, the leftmost of equals.
LEMMA MergeJoins ==
    ASSUME IInv, IInv', Merge PROVE Abstract!Join
  <1>1. PICK i \in Minima : MergeAt(i)
    BY DEF Merge
  <1> DEFINE n == Len(parts)
  <1>2. /\ n \in Nat /\ i \in 1 .. n - 1 /\ parts \in Seq(Parts)
        /\ Merging /\ Merging' /\ piece' = piece /\ ranks' = ranks
        /\ parts[i].rank < SizeMax
    BY <1>1 DEF IInv, TypeOK, Minima, IsMin, Merge, MergeAt, Merging
  <1>3. i \in 1 .. n - 2
    BY <1>2, LastHasNoRank
  <1>4. Len(Segs) = n - 1 /\ Segs = [k \in 1 .. n - 1 |-> Segment(k)]
    BY <1>2, SegsOfParts
  <1>5. /\ Len(parts') = n - 1
        /\ \A k \in 1 .. n - 1 :
              parts'[k].start = IF k <= i THEN parts[k].start ELSE parts[k + 1].start
    BY <1>1, MergedParts DEF Merge
  <1>6. Segs' = [k \in 1 .. n - 2 |-> Segment(k)']
    <2>1. Len(parts') - 1 = n - 2
      BY <1>2, <1>5
    <2>2. Segs' = [k \in 1 .. Len(parts') - 1 |-> Segment(k)']
      BY <1>2, <1>3, <1>5 DEF Segs
    <2>3. QED
      BY <2>1, <2>2
  <1>7. \A k \in 1 .. n - 2 : k \in Abstract!Joinable <=> parts[k].rank < SizeMax
    <2> SUFFICES ASSUME NEW k \in 1 .. n - 2
                 PROVE  k \in Abstract!Joinable <=> parts[k].rank < SizeMax
      OBVIOUS
    <2>1. parts[k].rank = RankOf(Abstract!Joined(k))
      BY <1>2, JoinedIsCached
    <2>2. k \in Abstract!Joinable <=> Abstract!Joined(k) \in DOMAIN ranks
      BY <1>2, <1>4 DEF Abstract!Joinable
    <2>3. Abstract!Joined(k) \in DOMAIN ranks <=> RankOf(Abstract!Joined(k)) < SizeMax
      BY SizeMaxAssumption DEF IInv, TypeOK, RankOf
    <2>4. QED
      BY <2>1, <2>2, <2>3
  <1>8. i \in Abstract!Joinable
    BY <1>2, <1>3, <1>7
  <1>9. ASSUME NEW j \in Abstract!Joinable PROVE Abstract!Before(i, j)
    <2>1. j \in 1 .. n - 2 /\ Abstract!Joined(j) \in DOMAIN ranks
      BY <1>2, <1>4 DEF Abstract!Joinable
    <2>2. Abstract!Joined(i) \in DOMAIN ranks
      BY <1>8 DEF Abstract!Joinable
    <2>3. /\ parts[i].rank = ranks[Abstract!Joined(i)]
          /\ parts[j].rank = ranks[Abstract!Joined(j)]
      BY <1>2, <1>3, <2>1, <2>2, JoinedIsCached DEF RankOf
    <2>4. \/ parts[i].rank < parts[j].rank
          \/ parts[i].rank = parts[j].rank /\ i <= j
      BY <1>1, <1>2, <2>1 DEF Minima, IsMin
    <2>5. QED
      BY <2>3, <2>4 DEF Abstract!Before
  <1>10. ASSUME NEW k \in 1 .. n - 2
         PROVE  Segment(k)' = IF k < i THEN Segs[k]
                              ELSE IF k = i THEN Abstract!Joined(i) ELSE Segs[k + 1]
    <2>1. Segment(k)' = Word(parts'[k].start, parts'[k + 1].start)
      BY <1>2 DEF Segment, Word
    <2>2. k \in 1 .. n - 1 /\ k + 1 \in 1 .. n - 1 /\ (k + 1) + 1 = k + 2
      BY <1>2
    <2>3. Segs[k] = Segment(k) /\ Segs[k + 1] = Segment(k + 1)
      BY <1>4, <2>2
    <2>4. CASE k < i
      <3>1. parts'[k].start = parts[k].start /\ parts'[k + 1].start = parts[k + 1].start
        BY <1>2, <1>5, <2>2, <2>4
      <3>2. QED
        BY <2>1, <2>3, <2>4, <3>1 DEF Segment
    <2>5. CASE k = i
      <3>1. parts'[k].start = parts[i].start /\ parts'[k + 1].start = parts[i + 2].start
        BY <1>2, <1>5, <2>2, <2>5
      <3>2. Abstract!Joined(i) = Word(parts[i].start, parts[i + 2].start)
        BY <1>2, <1>3, JoinedIsCached
      <3>3. QED
        BY <2>1, <2>5, <3>1, <3>2
    <2>6. CASE k > i
      <3>1. /\ parts'[k].start = parts[k + 1].start
            /\ parts'[k + 1].start = parts[(k + 1) + 1].start
        BY <1>2, <1>5, <2>2, <2>6
      <3>2. Segment(k + 1) = Word(parts[k + 1].start, parts[(k + 1) + 1].start)
        BY DEF Segment
      <3>3. ~(k < i) /\ k # i
        BY <1>2, <2>6
      <3>4. QED
        BY <2>1, <2>3, <3>1, <3>2, <3>3
    <2>7. QED
      BY <1>2, <2>4, <2>5, <2>6
  <1>11. Segs' = [k \in 1 .. Len(Segs) - 1 |->
                     IF k < i THEN Segs[k]
                     ELSE IF k = i THEN Abstract!Joined(i) ELSE Segs[k + 1]]
    <2>1. Len(Segs) - 1 = n - 2
      BY <1>2, <1>4
    <2>2. QED
      BY <1>6, <1>10, <2>1
  <1>12. pc = "merge" /\ pc' = "merge"
    BY <1>1 DEF Merge, MergeAt
  <1>13. QED
    BY <1>2, <1>8, <1>9, <1>11, <1>12 DEF Abstract!Join

\* If any part caches a rank, one of them is the first with the least.
LEMMA MinimumExists ==
    ASSUME IInv, Merging, NEW k \in 1 .. Len(parts) - 1, parts[k].rank < SizeMax
    PROVE  Minima # {}
  <1> DEFINE I == 1 .. Len(parts) - 1
             R == {parts[j].rank : j \in I}
  <1>1. Len(parts) \in Nat /\ \A j \in I : parts[j].rank \in Nat
    <2>1. parts \in Seq(Parts) /\ Len(parts) \in Nat
      BY DEF IInv, TypeOK
    <2>2. \A j \in I : parts[j] \in Parts
      BY <2>1
    <2>3. QED
      BY <2>1, <2>2 DEF Parts
  <1>2. PICK r \in R : \A q \in R : r <= q
    BY <1>1, LeastNumber
  <1> DEFINE F == {j \in I : parts[j].rank = r}
  <1>3. PICK m \in F : \A j \in F : m <= j
    <2>1. F \subseteq Nat /\ F # {}
      BY <1>1
    <2>2. QED
      BY <2>1, LeastNumber
  <1>4. m \in I /\ parts[m].rank = r /\ r <= parts[k].rank /\ r \in Nat
    BY <1>1, <1>2, <1>3
  <1>5. ASSUME NEW j \in I
        PROVE  parts[m].rank < parts[j].rank \/ (parts[m].rank = parts[j].rank /\ m <= j)
    <2>1. parts[j].rank \in Nat /\ r <= parts[j].rank
      BY <1>1, <1>2
    <2>2. CASE parts[j].rank = r
      BY <1>3, <1>4, <2>2
    <2>3. CASE parts[j].rank # r
      BY <1>4, <2>1, <2>3
    <2>4. QED
      BY <2>2, <2>3
  <1>6. parts[m].rank < SizeMax
    BY <1>1, <1>4, SizeMaxAssumption
  <1>7. QED
    BY <1>4, <1>5, <1>6 DEF Minima, IsMin

\* A word that two neighbours join to has a rank if the first part caches one.
LEMMA JoinableIsCached ==
    ASSUME IInv, Merging, NEW k \in Abstract!Joinable
    PROVE  k \in 1 .. Len(parts) - 1 /\ parts[k].rank < SizeMax
  <1>1. Len(parts) \in Nat /\ Len(Segs) = Len(parts) - 1
    BY SegsOfParts
  <1>2. k \in 1 .. Len(parts) - 2 /\ Abstract!Joined(k) \in DOMAIN ranks
    BY <1>1 DEF Abstract!Joinable
  <1>3. parts[k].rank = RankOf(Abstract!Joined(k))
    BY <1>2, JoinedIsCached
  <1>4. QED
    BY <1>1, <1>2, <1>3 DEF IInv, TypeOK, RankOf

\* The merging ends when nothing joins.
LEMMA EndsInTime ==
    ASSUME IInv, NothingLeft PROVE Abstract!End
  <1>1. Merging /\ Minima = {} /\ pc = "merge" /\ pc' = "emit"
    BY DEF NothingLeft, Merging
  <1>2. Abstract!Joinable = {}
    BY <1>1, JoinableIsCached, MinimumExists
  <1>3. UNCHANGED <<piece, ranks, Segs>>
    BY DEF NothingLeft, Segs, Segment, Word
  <1>4. QED
    BY <1>1, <1>2, <1>3 DEF Abstract!End

\* One byte has no neighbour.
LEMMA OneByteEnds ==
    ASSUME IInv, Uncut, OneByte PROVE Abstract!End
  <1>1. /\ pc = "call" /\ pc' = "done" /\ Len(piece) = 1 /\ parts = <<>>
        /\ piece' = piece /\ ranks' = ranks /\ parts' = parts
    BY DEF OneByte, Uncut
  <1>2. Segs = [k \in 1 .. 1 |-> <<piece[k]>>]
    BY <1>1 DEF Segs
  <1>3. Abstract!Joinable = {}
    BY <1>2 DEF Abstract!Joinable
  <1>4. Segs' = Segs
    BY <1>1 DEF Segs
  <1>5. QED
    BY <1>1, <1>3, <1>4 DEF Abstract!End

\* The other steps leave the segments alone.
LEMMA OtherStutters ==
    ASSUME Emit \/ Return \/ UNCHANGED vars
    PROVE  UNCHANGED Abstract!vars
  <1>1. piece' = piece /\ parts' = parts /\ ranks' = ranks
    BY DEF Emit, Return, vars
  <1>2. (pc \in {"emit", "done", "thrown"})' <=> pc \in {"emit", "done", "thrown"}
    BY DEF Emit, Return, vars
  <1>3. Segs' = Segs
    BY <1>1 DEF Segs, Segment, Word
  <1>4. QED
    BY <1>1, <1>2, <1>3 DEF Abstract!vars

\* The merge loop of _byte_pair_merge, whose parts cache a rank each and are refreshed
\* by hand, joins what a merging does that remembers no rank, always the neighbours of the
\* lowest rank, the leftmost of equals, and it is left only when no two neighbours join.
THEOREM MergesAsPromisedHolds == Spec => MergesAsPromised
  <1>1. Init => Abstract!Init
    BY DEF Init, Abstract!Init, Segs
  <1>2. IInv /\ IInv' /\ Uncut /\ [Next]_vars => [Abstract!Next]_(Abstract!vars)
    <2> SUFFICES ASSUME IInv, IInv', Uncut, [Next]_vars
                 PROVE  [Abstract!Next]_(Abstract!vars)
      OBVIOUS
    <2>1. CASE Merge
      BY <2>1, MergeJoins DEF Abstract!Next
    <2>2. CASE Start
      <3>1. pc = "call" /\ pc' = "merge" /\ piece' = piece /\ ranks' = ranks
        BY <2>2 DEF Start
      <3>2. QED
        BY <2>2, <3>1, StartStutters DEF Abstract!vars
    <2>3. CASE OneByte
      BY <2>3, OneByteEnds DEF Abstract!Next
    <2>4. CASE NothingLeft
      BY <2>4, EndsInTime DEF Abstract!Next
    <2>5. CASE Emit \/ Return \/ UNCHANGED vars
      BY <2>5, OtherStutters
    <2>6. QED
      BY <2>1, <2>2, <2>3, <2>4, <2>5 DEF Next, Done
  <1>3. QED
    BY <1>1, <1>2, IInvHolds, UncutHolds, PTL DEF Spec, MergesAsPromised, Abstract!Spec
-----------------------------------------------------------------------------
(* Decoding gives the piece back.                                          *)

\* g[k] is what the first k of the sequences make, one after the other.
Joins(g, ss, n) == \A k \in 1 .. n : g[k] = IF k = 1 THEN ss[k] ELSE g[k - 1] \o ss[k]

\* Flattening gives the last of such a g: the sequence that the CHOOSE of FlattenSeq picks
\* agrees with it everywhere.
LEMMA FlattenIs ==
    ASSUME NEW S, NEW ss, NEW n \in Nat \ {0}, Len(ss) = n, NEW g \in [1 .. n -> S],
           Joins(g, ss, n)
    PROVE  FlattenSeq(ss) = g[n]
  <1> DEFINE Flattens(f) == f = [k \in 1 .. n |-> IF k = 1 THEN ss[k] ELSE f[k - 1] \o ss[k]]
             h == CHOOSE f : Flattens(f)
  <1>1. FlattenSeq(ss) = h[n]
    BY DEF FlattenSeq
  <1>2. Flattens(g)
    BY DEF Joins
  <1>3. Flattens(h)
    BY <1>2
  <1>4. \A k \in 1 .. n : h[k] = IF k = 1 THEN ss[k] ELSE h[k - 1] \o ss[k]
    BY <1>3
  <1> HIDE DEF h, Flattens
  <1> DEFINE Wrong == {k \in 1 .. n : g[k] # h[k]}
  <1>5. Wrong = {}
    <2> SUFFICES ASSUME Wrong # {} PROVE FALSE
      OBVIOUS
    <2>1. Wrong \subseteq Nat
      OBVIOUS
    <2>2. PICK x \in Wrong : \A y \in Wrong : x <= y
      BY <2>1, LeastNumber
    <2>3. x \in 1 .. n /\ g[x] # h[x]
      OBVIOUS
    <2>4. CASE x = 1
      BY <1>4, <2>3, <2>4 DEF Joins
    <2>5. CASE x # 1
      <3>1. x - 1 \in 1 .. n /\ ~(x <= x - 1)
        BY <2>3, <2>5
      <3>2. x - 1 \notin Wrong
        BY <2>2, <3>1
      <3>3. g[x - 1] = h[x - 1]
        BY <3>1, <3>2
      <3>4. QED
        BY <1>4, <2>3, <2>5, <3>3 DEF Joins
    <2>6. QED
      BY <2>4, <2>5
  <1>6. n \in 1 .. n
    OBVIOUS
  <1>7. QED
    BY <1>1, <1>5, <1>6

\* What the tokens emitted so far are: those of the segments from the first one on.
Emitted ==
    /\ pc \in {"call", "merge"} => out = <<>>
    /\ pc = "emit" => /\ Len(out) <= Len(parts) - 1
                      /\ \A k \in 1 .. Len(out) : /\ Segment(k) \in DOMAIN ranks
                                                  /\ out[k] = ranks[Segment(k)]

\* A rank decodes to its word.
LEMMA DecodesToWord ==
    ASSUME IsInjective(ranks), NEW w \in DOMAIN ranks PROVE Decode(ranks[w]) = w
  BY DEF IsInjective, Decode

\* Joining the segments gives the piece.
LEMMA JoinedSegments ==
    ASSUME IInv, Merging
    PROVE  FlattenSeq([k \in 1 .. Len(parts) - 1 |-> Segment(k)]) = piece
  <1> DEFINE n == Len(parts) - 1
             ss == [k \in 1 .. n |-> Segment(k)]
  <1>1. /\ parts \in Seq(Parts) /\ piece \in Seq(Byte) /\ n \in Nat /\ Len(parts) = n + 1
        /\ parts[1].start = 0 /\ parts[n + 1].start = Len(piece)
        /\ \A j, k \in 1 .. n + 1 : j < k => parts[j].start < parts[k].start
    BY DEF IInv, TypeOK, Partition
  <1> HIDE DEF n
  <1>2. \A k \in 1 .. n + 1 : parts[k].start \in Nat /\ parts[k].start <= Len(piece)
    <2> SUFFICES ASSUME NEW k \in 1 .. n + 1
                 PROVE  parts[k].start \in Nat /\ parts[k].start <= Len(piece)
      OBVIOUS
    <2>1. parts[k] \in Parts
      BY <1>1
    <2>2. parts[k].start \in Nat
      BY <2>1 DEF Parts
    <2>3. CASE k = n + 1
      BY <1>1, <2>2, <2>3
    <2>4. CASE k # n + 1
      <3>1. k < n + 1 /\ n + 1 \in 1 .. n + 1
        BY <1>1, <2>4
      <3>2. parts[k].start < parts[n + 1].start
        BY <1>1, <3>1
      <3>3. QED
        BY <1>1, <2>2, <3>2
    <2>5. QED
      BY <2>3, <2>4
  <1>3. Len(ss) = n /\ \A k \in 1 .. n : ss[k] = Segment(k)
    BY <1>1
  <1>4. CASE n = 0
    <2>1. Len(piece) = 0
      <3>1. n + 1 = 1
        BY <1>4
      <3>2. QED
        BY <1>1, <3>1
    <2>2. piece = <<>>
      BY <1>1, <2>1, EmptySeq
    <2>3. ss = <<>>
      <3> DEFINE S == {Segment(k) : k \in 1 .. n}
      <3>0. ss \in [1 .. n -> S]
        OBVIOUS
      <3> HIDE DEF ss, S
      <3>1. ss \in Seq(S)
        BY <1>1, <3>0
      <3>2. QED
        BY <1>3, <1>4, <3>1, EmptySeq
    <2> HIDE DEF ss
    <2>4. FlattenSeq(ss) = ss
      BY <1>3, <1>4 DEF FlattenSeq
    <2>5. QED
      BY <2>2, <2>3, <2>4 DEF ss, n
  <1>5. CASE n # 0
    <2> DEFINE g == [k \in 1 .. n |-> SubSeq(piece, 1, parts[k + 1].start)]
    <2>1. ASSUME NEW k \in 1 .. n
          PROVE  g[k] = IF k = 1 THEN ss[k] ELSE g[k - 1] \o ss[k]
      <3>1. ss[k] = SubSeq(piece, parts[k].start + 1, parts[k + 1].start)
        BY <1>3 DEF Segment, Word
      <3>2. CASE k = 1
        <4>1. parts[k].start + 1 = 1
          BY <1>1, <3>2
        <4>2. QED
          BY <3>1, <3>2, <4>1
      <3>3. CASE k # 1
        <4>1. k - 1 \in 1 .. n /\ (k - 1) + 1 = k /\ k \in 1 .. n + 1 /\ k + 1 \in 1 .. n + 1
          BY <1>1, <3>3
        <4>2. g[k - 1] = SubSeq(piece, 1, parts[k].start)
          BY <4>1
        <4>3. /\ parts[k].start \in Nat /\ parts[k + 1].start \in Nat
              /\ parts[k].start <= parts[k + 1].start /\ parts[k + 1].start <= Len(piece)
          BY <1>1, <1>2, <4>1
        <4>4. SubSeq(piece, 1, parts[k].start) \o ss[k]
              = SubSeq(piece, 1, parts[k + 1].start)
          <5> DEFINE y == parts[k].start
                     z == parts[k + 1].start
          <5>1. y \in Nat /\ z \in Nat /\ 0 <= y /\ y <= z /\ z <= Len(piece) /\ 0 \in Nat
            BY <4>3
          <5>2. ss[k] = SubSeq(piece, y + 1, z)
            BY <3>1
          <5> HIDE DEF y, z, ss
          <5>3. SubSeq(piece, 0 + 1, y) \o SubSeq(piece, y + 1, z) = SubSeq(piece, 0 + 1, z)
            BY <1>1, <5>1, Neighbours
          <5>4. 0 + 1 = 1
            OBVIOUS
          <5>5. SubSeq(piece, 1, y) \o ss[k] = SubSeq(piece, 1, z)
            BY <5>2, <5>3, <5>4
          <5>6. QED
            BY <5>5 DEF y, z
        <4>5. g[k] = SubSeq(piece, 1, parts[k + 1].start)
          OBVIOUS
        <4> HIDE DEF g, ss
        <4>6. QED
          BY <3>3, <4>2, <4>4, <4>5
      <3>4. QED
        BY <3>2, <3>3
    <2>2. g \in [1 .. n -> Seq(Byte)]
      <3> SUFFICES ASSUME NEW k \in 1 .. n
                   PROVE  SubSeq(piece, 1, parts[k + 1].start) \in Seq(Byte)
        OBVIOUS
      <3>1. k + 1 \in 1 .. n + 1
        BY <1>1
      <3>2. parts[k + 1].start \in Nat /\ parts[k + 1].start <= Len(piece)
        BY <1>2, <3>1
      <3>3. \A i \in 1 .. parts[k + 1].start : piece[i] \in Byte
        BY <1>1, <3>2
      <3>4. QED
        BY <3>2, <3>3, SubSeqProperties
    <2>3. g[n] = piece
      <3>1. g[n] = SubSeq(piece, 1, Len(piece))
        BY <1>1, <1>5
      <3>2. QED
        BY <1>1, <3>1
    <2> HIDE DEF g, ss
    <2>4. Joins(g, ss, n)
      BY <2>1 DEF Joins
    <2>5. n \in Nat \ {0} /\ Len(ss) = n
      BY <1>1, <1>3, <1>5
    <2>6. FlattenSeq(ss) = g[n]
      BY <2>2, <2>4, <2>5, FlattenIs
    <2>7. QED
      BY <2>3, <2>6 DEF ss, n
  <1>6. QED
    BY <1>4, <1>5 DEF n

\* The last return of the loop emits no less and no more than the segments.
LEMMA ReturnIsLossless ==
    ASSUME IInv, Emitted, Return PROVE Lossless'
  <1> SUFFICES ASSUME IsInjective(ranks)
               PROVE  FlattenSeq([i \in DOMAIN out |-> Decode(out[i])]) = piece
    BY DEF Return, Lossless, Decode
  <1> DEFINE n == Len(parts) - 1
  <1>1. Merging /\ Len(out) = n /\ out \in Seq(Nat) /\ pc = "emit"
    BY DEF Return, Merging, IInv, TypeOK
  <1>2. DOMAIN out = 1 .. n
    BY <1>1
  <1>3. \A k \in 1 .. n : Decode(out[k]) = Segment(k)
    BY <1>1, DecodesToWord DEF Emitted
  <1>4. [i \in DOMAIN out |-> Decode(out[i])] = [k \in 1 .. n |-> Segment(k)]
    BY <1>2, <1>3
  <1>5. QED
    BY <1>1, <1>4, JoinedSegments

\* One byte has a token of its own, or none.
LEMMA OneByteIsLossless ==
    ASSUME IInv, Emitted, OneByte PROVE Lossless'
  <1> SUFFICES ASSUME IsInjective(ranks)
               PROVE  \/ FlattenSeq([i \in DOMAIN out' |-> Decode(out'[i])]) = piece
                      \/ Len(piece) = 1 /\ ~BytesKnown /\ out' = <<>>
    BY DEF OneByte, Lossless, Decode, BytesKnown
  <1>1. Len(piece) = 1 /\ piece \in Seq(Byte)
    BY DEF OneByte, IInv, TypeOK
  <1>2. CASE piece \in DOMAIN ranks
    <2> DEFINE ss == <<piece>>
    <2>1. out' = <<ranks[piece]>>
      BY <1>2 DEF OneByte
    <2>2. [i \in DOMAIN out' |-> Decode(out'[i])] = ss
      BY <1>2, <2>1, DecodesToWord
    <2>3. /\ Len(ss) = 1 /\ ss \in [1 .. 1 -> Seq(Byte)] /\ 1 \in Nat \ {0}
          /\ Joins(ss, ss, 1)
      BY <1>1 DEF Joins
    <2>4. ss[1] = piece
      OBVIOUS
    <2> HIDE DEF ss
    <2>5. FlattenSeq(ss) = ss[1]
      BY <2>3, FlattenIs
    <2>6. QED
      BY <2>2, <2>4, <2>5
  <1>3. CASE piece \notin DOMAIN ranks
    <2>1. out' = <<>>
      BY <1>3 DEF OneByte
    <2>2. piece = <<piece[1]>>
      BY <1>1
    <2>3. ~BytesKnown
      BY <1>1, <1>3, <2>2 DEF BytesKnown
    <2>4. QED
      BY <1>1, <2>1, <2>3
  <1>4. QED
    BY <1>2, <1>3

\* Each step emits the token of the next segment, or none.
LEMMA EmittedStep == IInv /\ Emitted /\ [Next]_vars => Emitted'
  <1> SUFFICES ASSUME IInv, Emitted, [Next]_vars PROVE Emitted'
    OBVIOUS
  <1>1. CASE Emit
    <2>1. /\ out \in Seq(Nat) /\ Len(out) \in Nat /\ Len(parts) \in Nat
          /\ pc = "emit" /\ Len(out) < Len(parts) - 1
          /\ piece' = piece /\ ranks' = ranks /\ parts' = parts
      BY <1>1 DEF Emit, IInv, TypeOK
    <2>2. \A k : Segment(k)' = Segment(k)
      BY <2>1 DEF Segment, Word
    <2>3. CASE Segment(Len(out) + 1) \in DOMAIN ranks
      <3> DEFINE t == ranks[Segment(Len(out) + 1)]
      <3>1. t \in Nat
        BY <2>3 DEF IInv, TypeOK
      <3>2. out' = Append(out, t) /\ pc' = "emit"
        BY <1>1, <2>1, <2>3 DEF Emit
      <3>3. /\ Len(out') = Len(out) + 1
            /\ \A k \in 1 .. Len(out) : out'[k] = out[k]
            /\ out'[Len(out) + 1] = t
        BY <2>1, <3>1, <3>2, AppendProperties
      <3>4. ASSUME NEW k \in 1 .. Len(out')
            PROVE  Segment(k) \in DOMAIN ranks /\ out'[k] = ranks[Segment(k)]
        <4>1. CASE k \in 1 .. Len(out)
          BY <2>1, <3>3, <4>1 DEF Emitted
        <4>2. CASE k = Len(out) + 1
          BY <2>3, <3>3, <4>2
        <4>3. QED
          BY <2>1, <3>3, <4>1, <4>2
      <3>5. Len(out') <= Len(parts') - 1
        BY <2>1, <3>3
      <3>6. QED
        BY <2>1, <2>2, <3>2, <3>4, <3>5 DEF Emitted
    <2>4. CASE Segment(Len(out) + 1) \notin DOMAIN ranks
      BY <1>1, <2>4 DEF Emit, Emitted
    <2>5. QED
      BY <2>3, <2>4
  <1>2. CASE NothingLeft
    <2>1. out = <<>> /\ out' = <<>> /\ parts' = parts /\ Len(parts) >= 1 /\ Len(parts) \in Nat
      BY <1>2 DEF NothingLeft, Emitted, IInv, TypeOK, Partition, Merging
    <2>2. pc' = "emit" /\ Len(out') = 0
      BY <1>2, <2>1 DEF NothingLeft
    <2>3. QED
      BY <2>1, <2>2 DEF Emitted
  <1>3. CASE OneByte \/ Return
    BY <1>3 DEF OneByte, Return, Emitted
  <1>4. CASE Start
    BY <1>4 DEF Start, Emitted
  <1>5. CASE Merge
    BY <1>5 DEF Merge, MergeAt, Emitted
  <1>6. CASE UNCHANGED vars
    BY <1>6 DEF vars, Emitted, Segment, Word
  <1>7. QED
    BY <1>1, <1>2, <1>3, <1>4, <1>5, <1>6 DEF Next, Done

\* The tokens of a call that returns decode to its piece, whatever the piece and the
\* ranks: what byte_pair_encode loses is a piece of one unknown byte and nothing else.
THEOREM LosslessHolds == Spec => []Lossless
  <1>1. Init => Emitted /\ Lossless
    BY DEF Init, Emitted, Lossless
  <1>2. IInv /\ Emitted /\ Lossless /\ [Next]_vars => Lossless'
    <2> SUFFICES ASSUME IInv, Emitted, Lossless, [Next]_vars PROVE Lossless'
      OBVIOUS
    <2>1. CASE OneByte
      BY <2>1, OneByteIsLossless
    <2>2. CASE Return
      BY <2>2, ReturnIsLossless
    <2>3. CASE Start \/ Merge \/ NothingLeft \/ Emit
      BY <2>3 DEF Start, Merge, MergeAt, NothingLeft, Emit, Lossless
    <2>4. CASE UNCHANGED vars
      BY <2>4 DEF vars, Lossless, Decode, BytesKnown
    <2>5. QED
      BY <2>1, <2>2, <2>3, <2>4 DEF Next, Done
  <1>3. QED
    BY <1>1, <1>2, EmittedStep, IInvHolds, PTL DEF Spec
-----------------------------------------------------------------------------
(* A text with special tokens.                                             *)

Token == [special : BOOLEAN, bytes : Seq(Chars)]

\* Offsets are numbers; what the search found lies in the text, behind start, and is allowed.
TextType ==
    /\ text \in Texts
    /\ start \in Nat /\ startFind \in Nat /\ offset \in Nat
    /\ start <= startFind /\ start <= Len(text)
    /\ ret \in Seq(Token)
    /\ special # NoSpecial =>
           /\ special \in Nat \X Nat
           /\ start <= special[1] /\ special[1] <= special[2] /\ special[2] <= Len(text)
           /\ Text!Substr(text, special[1], special[2] - special[1]) \in allowed

\* Nothing is found before the search, and nothing is left to push after the call.
InPart ==
    /\ textPc \in {"check", "search"} => offset = 0 /\ special = NoSpecial
    /\ textPc = "done" => special = NoSpecial

\* With SpecialsAreAllowed they make an inductive invariant.
TextInv == TextType /\ InPart /\ SpecialsAreAllowed

\* A text is a sequence of characters.
LEMMA TextIsSeq == ASSUME TextType PROVE text \in Seq(Chars) /\ Len(text) \in Nat
  BY TextsAssumption DEF TextType, Text!SpecialsAssumption

\* A special token is a sequence of characters, and not empty.
LEMMA SpecialWord ==
    ASSUME NEW w \in Specials PROVE w \in Seq(Chars) /\ Len(w) \in Nat \ {0}
  <1>1. w \in Seq(Chars) /\ w # <<>>
    BY TextsAssumption DEF Text!SpecialsAssumption
  <1>2. QED
    BY <1>1, EmptySeq

\* substr of a range that lies in the string.
LEMMA SubstrInside ==
    ASSUME NEW x \in Seq(Chars), NEW p \in Nat, NEW n \in Nat, p + n <= Len(x)
    PROVE  /\ Text!Substr(x, p, n) = SubSeq(x, p + 1, p + n)
           /\ Text!Substr(x, p, n) \in Seq(Chars)
  <1>1. Text!Substr(x, p, n) = SubSeq(x, p + 1, p + n)
    BY DEF Text!Substr
  <1>2. p + 1 \in Int /\ p + n \in Int /\ \A k \in p + 1 .. p + n : x[k] \in Chars
    OBVIOUS
  <1>3. SubSeq(x, p + 1, p + n) \in Seq(Chars)
    BY <1>2, SubSeqProperties
  <1>4. QED
    BY <1>1, <1>3

\* A suffix is as much shorter as it starts later.
LEMMA SuffixLength ==
    ASSUME TextType, NEW from \in Nat
    PROVE  Len(Text!Suffix(from)) = IF from < Len(text) THEN Len(text) - from ELSE 0
  <1>1. text \in Seq(Chars) /\ Len(text) \in Nat
    BY TextIsSeq
  <1>2. Text!Suffix(from) = SubSeq(text, from + 1, Len(text))
    BY <1>1 DEF Text!Suffix, Text!Substr
  <1>3. /\ from + 1 \in Int /\ Len(text) \in Int
        /\ \A k \in from + 1 .. Len(text) : text[k] \in Chars
    BY <1>1
  <1>4. Len(SubSeq(text, from + 1, Len(text)))
        = IF from + 1 <= Len(text) THEN Len(text) - (from + 1) + 1 ELSE 0
    BY <1>1, <1>3, SubSeqProperties
  <1>5. QED
    BY <1>1, <1>2, <1>4

\* What is found lies in the subject, not before the place where the search starts ...
LEMMA MatchInside ==
    ASSUME NEW words, words \subseteq Specials, NEW x, NEW from \in Nat, Len(x) \in Nat,
           NEW m \in Text!Matches(words, x, from)
    PROVE  /\ m \in Nat \X Nat
           /\ from <= m[1] /\ m[1] <= m[2] /\ m[2] <= Len(x)
  <1> DEFINE at == {p \in from .. Len(x) - 1 : \E w \in words : Text!OccursAt(w, x, p)}
             p0 == CHOOSE p \in at : \A q \in at : p <= q
  <1>1. /\ at # {}
        /\ m \in {<<p0, p0 + Len(w)>> : w \in {v \in words : Text!OccursAt(v, x, p0)}}
    BY DEF Text!Matches
  <1>2. at \subseteq Nat
    OBVIOUS
  <1>3. \E p \in at : \A q \in at : p <= q
    BY <1>1, <1>2, LeastNumber
  <1>4. p0 \in at
    BY <1>3
  <1>5. p0 \in Nat /\ from <= p0
    BY <1>4
  <1>6. PICK w \in words : Text!OccursAt(w, x, p0) /\ m = <<p0, p0 + Len(w)>>
    BY <1>1
  <1>7. Len(w) \in Nat
    BY <1>6, SpecialWord
  <1> HIDE DEF p0
  <1>8. p0 + Len(w) <= Len(x)
    BY <1>6 DEF Text!OccursAt
  <1>9. QED
    BY <1>5, <1>6, <1>7, <1>8

\* ... and nothing is found only if nothing is there.
LEMMA NoMatch ==
    ASSUME TextType, NEW words, words \subseteq Specials, Text!Matches(words, text, 0) = {}
    PROVE  \A w \in words : \A p \in 0 .. Len(text) : ~Text!OccursAt(w, text, p)
  <1> DEFINE at == {p \in 0 .. Len(text) - 1 : \E w \in words : Text!OccursAt(w, text, p)}
             p0 == CHOOSE p \in at : \A q \in at : p <= q
  <1>1. at = {}
    <2> SUFFICES ASSUME at # {} PROVE FALSE
      OBVIOUS
    <2>1. at \subseteq Nat
      BY TextIsSeq
    <2>2. \E p \in at : \A q \in at : p <= q
      BY <2>1, LeastNumber
    <2>3. p0 \in at
      BY <2>2
    <2>4. \E w \in words : Text!OccursAt(w, text, p0)
      BY <2>3
    <2>5. {<<p0, p0 + Len(w)>> : w \in {v \in words : Text!OccursAt(v, text, p0)}} = {}
      BY DEF Text!Matches
    <2>6. QED
      BY <2>4, <2>5
  <1>2. ASSUME NEW w \in words, NEW p \in 0 .. Len(text), Text!OccursAt(w, text, p)
        PROVE  FALSE
    <2>1. Len(w) \in Nat \ {0} /\ Len(text) \in Nat /\ p + Len(w) <= Len(text)
      BY <1>2, SpecialWord, TextIsSeq DEF Text!OccursAt
    <2>2. p \in 0 .. Len(text) - 1
      BY <2>1
    <2>3. p \in at
      BY <1>2, <2>2
    <2>4. QED
      BY <1>1, <2>3
  <1>3. QED
    BY <1>2

\* The call starts with nothing found.
LEMMA InitTextInv == Text!Init => TextInv
  <1> SUFFICES ASSUME Text!Init PROVE TextInv
    OBVIOUS
  <1>1. TextType
    <2>1. text \in Texts /\ start = 0 /\ startFind = 0 /\ offset = 0 /\ ret = <<>>
          /\ special = NoSpecial
      BY DEF Text!Init
    <2>2. text \in Seq(Chars)
      BY <2>1, TextsAssumption DEF Text!SpecialsAssumption
    <2>3. QED
      BY <2>1, <2>2 DEF TextType
  <1>2. InPart /\ SpecialsAreAllowed
    BY DEF Text!Init, InPart, SpecialsAreAllowed, Text!SpecialsAreAllowed, Text!SpecialsIn
  <1>3. QED
    BY <1>1, <1>2 DEF TextInv

\* Check lets a text through only without the tokens it refuses.
LEMMA CheckStep == ASSUME TextInv, Text!Check PROVE TextInv'
  <1>1. TextType'
    BY DEF TextInv, TextType, Text!Check, Text!Substr
  <1>2. InPart'
    BY DEF TextInv, InPart, Text!Check, Text!End
  <1>3. ASSUME checkAll, textPc' # "refused"
        PROVE  \A w \in Specials \ allowed : \A p \in 0 .. Len(text) : ~Text!OccursAt(w, text, p)
    <2>1. Text!Disallowed = Specials \ allowed
      BY <1>3 DEF Text!Disallowed
    <2>2. Specials \ allowed = {} \/ Text!Matches(Specials \ allowed, text, 0) = {}
      BY <1>3, <2>1 DEF Text!Check
    <2>3. QED
      BY <2>2, NoMatch DEF TextInv
  <1>4. SpecialsAreAllowed'
    BY <1>3 DEF TextInv, SpecialsAreAllowed, Text!SpecialsAreAllowed, Text!Check,
                Text!SpecialsIn, Text!OccursAt, Text!Substr
  <1>5. QED
    BY <1>1, <1>2, <1>4 DEF TextInv

\* The search takes what it finds only if the text has an allowed token there.
LEMMA SearchStep == ASSUME TextInv, Text!Search PROVE TextInv'
  <1>1. /\ text' = text /\ allowed' = allowed /\ checkAll' = checkAll /\ start' = start
        /\ offset' = offset /\ ret' = ret /\ textPc = "search" /\ special = NoSpecial
        /\ offset = 0
    BY DEF Text!Search, TextInv, InPart
  <1>2. text \in Seq(Chars) /\ Len(text) \in Nat /\ startFind \in Nat /\ start \in Nat
        /\ start <= startFind /\ start <= Len(text)
    BY TextIsSeq DEF TextInv, TextType
  <1> DEFINE found == Text!Matches(Specials, Text!Suffix(startFind), startFind)
             ms == IF Text!Readable(Text!Suffix(startFind), startFind) THEN found ELSE {}
  <1>3. CASE ms = {}
    <2>1. special' = NoSpecial /\ textPc' = "split" /\ startFind' = startFind
      BY <1>3 DEF Text!Search
    <2>2. TextType'
      BY <1>1, <2>1 DEF TextInv, TextType
    <2>3. InPart'
      BY <1>1, <1>2, <2>1 DEF InPart, Text!End
    <2>4. SpecialsAreAllowed'
      BY <1>1, <2>1 DEF TextInv, SpecialsAreAllowed, Text!SpecialsAreAllowed,
                        Text!SpecialsIn, Text!OccursAt, Text!Substr
    <2>5. QED
      BY <2>2, <2>3, <2>4 DEF TextInv
  <1>4. CASE ms # {}
    <2>1. PICK m \in found : Text!Found(m)
      BY <1>4 DEF Text!Search
    <2>2. Len(Text!Suffix(startFind)) \in Nat /\ Len(Text!Suffix(startFind)) <= Len(text)
      BY <1>2, SuffixLength DEF TextInv
    <2>3. /\ m \in Nat \X Nat /\ startFind <= m[1] /\ m[1] <= m[2]
          /\ m[2] <= Len(Text!Suffix(startFind))
      BY <1>2, <2>2, MatchInside
    <2>4. /\ m \in Nat \X Nat /\ start <= m[1] /\ m[1] <= m[2] /\ m[2] <= Len(text)
          /\ m[1] \in Nat /\ m[2] \in Nat /\ start <= m[1] + 1 /\ m[1] + 1 \in Nat
      BY <1>2, <2>2, <2>3
    <2>5. m # NoSpecial
      BY <2>4, TextsAssumption DEF Text!SpecialsAssumption
    <2>6. CASE Text!Substr(text, m[1], m[2] - m[1]) \in allowed
      <3>1. special' = m /\ textPc' = "split" /\ startFind' = startFind
        BY <2>1, <2>6 DEF Text!Found
      <3>2. TextType'
        BY <1>1, <2>4, <2>6, <3>1 DEF TextInv, TextType
      <3>3. InPart'
        BY <1>1, <1>2, <2>4, <2>5, <3>1 DEF InPart, Text!End
      <3>4. SpecialsAreAllowed'
        BY <1>1, <2>4, <3>1 DEF TextInv, SpecialsAreAllowed, Text!SpecialsAreAllowed,
                          Text!SpecialsIn, Text!OccursAt, Text!Substr
      <3>5. QED
        BY <3>2, <3>3, <3>4 DEF TextInv
    <2>7. CASE Text!Substr(text, m[1], m[2] - m[1]) \notin allowed
      <3>1. special' = special /\ textPc' = textPc /\ startFind' = m[1] + 1
        BY <2>1, <2>7 DEF Text!Found
      <3>2. TextType'
        BY <1>1, <2>4, <3>1 DEF TextInv, TextType
      <3>3. InPart'
        BY <1>1, <3>1 DEF InPart
      <3>4. SpecialsAreAllowed'
        BY <1>1, <3>1 DEF TextInv, SpecialsAreAllowed, Text!SpecialsAreAllowed,
                          Text!SpecialsIn, Text!OccursAt, Text!Substr
      <3>5. QED
        BY <3>2, <3>3, <3>4 DEF TextInv
    <2>8. QED
      BY <2>6, <2>7
  <1>5. QED
    BY <1>3, <1>4

\* The part before the special token, or the rest of the text, as a range of the text.
LEMMA PartIs ==
    ASSUME TextInv
    PROVE  /\ Text!End \in Nat /\ start <= Text!End /\ Text!End <= Len(text)
           /\ Text!Part = SubSeq(text, start + 1, Text!End)
           /\ Text!Part \in Seq(Chars) /\ Len(Text!Part) = Text!End - start
           /\ \A k \in 1 .. Text!End - start : Text!Part[k] = text[start + k]
  <1>1. text \in Seq(Chars) /\ Len(text) \in Nat /\ start \in Nat
    BY TextIsSeq DEF TextInv, TextType
  <1>2. Text!End \in Nat /\ start <= Text!End /\ Text!End <= Len(text)
    BY <1>1 DEF TextInv, TextType, Text!End
  <1> DEFINE n == Text!End - start
             z == Text!End
  <1>3. n \in Nat /\ start + n <= Len(text) /\ z = start + n /\ z \in Nat
    BY <1>1, <1>2
  <1>4. Text!Part = Text!Substr(text, start, n)
    BY DEF Text!Part
  <1> HIDE DEF n, z
  <1>5. Text!Part = SubSeq(text, start + 1, z) /\ Text!Part \in Seq(Chars)
    BY <1>1, <1>3, <1>4, SubstrInside
  <1>6. start + 1 \in Int /\ z \in Int /\ \A k \in start + 1 .. z : text[k] \in Chars
    BY <1>1, <1>3
  <1>7. /\ Len(SubSeq(text, start + 1, z)) = IF start + 1 <= z THEN z - (start + 1) + 1 ELSE 0
        /\ \A k \in 1 .. z - (start + 1) + 1 : SubSeq(text, start + 1, z)[k] = text[start + 1 + k - 1]
    BY <1>1, <1>6, SubSeqProperties
  <1>8. Len(Text!Part) = n
    BY <1>1, <1>3, <1>5, <1>7
  <1>9. ASSUME NEW k \in 1 .. n PROVE Text!Part[k] = text[start + k]
    <2>1. k \in 1 .. z - (start + 1) + 1 /\ start + 1 + k - 1 = start + k
      BY <1>1, <1>3
    <2>2. QED
      BY <1>5, <1>7, <2>1
  <1>10. QED
    BY <1>2, <1>5, <1>8, <1>9 DEF n, z

\* A piece is no special token and ends in its part.
LEMMA SplitStep ==
    ASSUME TextInv, Text!Split
    PROVE  /\ TextInv'
           /\ covers =>
                \E n \in Nat \ {0} :
                   /\ ret' = Append(ret, [special |-> FALSE, bytes |-> Text!Cut(offset, n)])
                   /\ offset' = offset + n /\ offset + n <= Text!End - start
                   /\ Text!Onset(Text!Part, offset + n)
                   /\ Text!Cut(offset, n) = SubSeq(text, offset + 1, offset + n)
                   /\ [special |-> FALSE, bytes |-> Text!Cut(offset, n)] \in Token
  <1>1. /\ text' = text /\ allowed' = allowed /\ checkAll' = checkAll /\ start' = start
        /\ startFind' = startFind /\ special' = special /\ textPc' = textPc /\ textPc = "split"
    BY DEF Text!Split
  <1>2. /\ text \in Seq(Chars) /\ Len(text) \in Nat /\ start \in Nat /\ offset \in Nat
        /\ ret \in Seq(Token) /\ Text!End \in Nat /\ Text!End <= Len(text)
    BY TextIsSeq DEF TextInv, TextType, Text!End
  <1>3. PICK p \in offset .. Len(Text!Part) : \E n \in 0 .. Len(Text!Part) - p :
            /\ Text!Onset(Text!Part, p + n)
            /\ covers => p = offset /\ n > 0
            /\ ret' = Append(ret, [special |-> FALSE, bytes |-> Text!Cut(p, n)])
            /\ offset' = p + (IF n = 0 THEN 1 ELSE n)
    BY DEF Text!Split
  <1>13. PICK n \in 0 .. Len(Text!Part) - p :
            /\ Text!Onset(Text!Part, p + n)
            /\ covers => p = offset /\ n > 0
            /\ ret' = Append(ret, [special |-> FALSE, bytes |-> Text!Cut(p, n)])
            /\ offset' = p + (IF n = 0 THEN 1 ELSE n)
    BY <1>3
  <1>4. /\ n \in Nat /\ p \in Nat /\ p + n <= Len(text) /\ p + n <= Text!End - start
        /\ offset' \in Nat
    <2>1. Len(Text!Part) = Text!End - start
      BY PartIs
    <2>2. p \in Int /\ n \in Int /\ offset <= p /\ 0 <= n /\ p + n <= Text!End - start
      BY <1>2, <2>1
    <2>3. QED
      BY <1>2, <1>13, <2>2
  <1>5. Text!Cut(p, n) = SubSeq(text, p + 1, p + n) /\ Text!Cut(p, n) \in Seq(Chars)
    BY <1>2, <1>4, SubstrInside DEF Text!Cut
  <1> DEFINE x == [special |-> FALSE, bytes |-> Text!Cut(p, n)]
  <1>6. x \in Token /\ x.special = FALSE
    BY <1>5 DEF Token
  <1> HIDE DEF x
  <1>7. /\ ret' \in Seq(Token) /\ Len(ret') = Len(ret) + 1
        /\ \A k \in 1 .. Len(ret) : ret'[k] = ret[k]
        /\ ret'[Len(ret) + 1] = x
    BY <1>2, <1>13, <1>6, AppendProperties DEF x
  <1>8. TextType'
    BY <1>1, <1>2, <1>4, <1>7 DEF TextInv, TextType
  <1>9. InPart'
    BY <1>1 DEF InPart
  <1>10. Text!SpecialsIn(ret') \subseteq Text!SpecialsIn(ret)
         /\ \A k \in Text!SpecialsIn(ret') : ret'[k] = ret[k]
    <2> SUFFICES ASSUME NEW k \in DOMAIN ret', ret'[k].special
                 PROVE  k \in Text!SpecialsIn(ret) /\ ret'[k] = ret[k]
      BY DEF Text!SpecialsIn
    <2>1. k \in 1 .. Len(ret) + 1 /\ Len(ret) \in Nat /\ DOMAIN ret = 1 .. Len(ret)
      BY <1>2, <1>7
    <2>2. k # Len(ret) + 1
      BY <1>6, <1>7
    <2>3. k \in 1 .. Len(ret)
      BY <2>1, <2>2
    <2>4. QED
      BY <1>7, <2>1, <2>3 DEF Text!SpecialsIn
  <1>11. SpecialsAreAllowed'
    BY <1>1, <1>10 DEF TextInv, SpecialsAreAllowed, Text!SpecialsAreAllowed, Text!OccursAt,
                       Text!Substr, Text!SpecialsIn
  <1>12. ASSUME covers
         PROVE  /\ p = offset /\ n \in Nat \ {0} /\ offset' = offset + n
                /\ Text!Onset(Text!Part, offset + n) /\ offset + n <= Text!End - start
    BY <1>4, <1>12, <1>13
  <1>14. QED
    BY <1>12, <1>13, <1>5, <1>6, <1>8, <1>9, <1>11 DEF TextInv, x

\* What is pushed is the token that the search found, and it is allowed.
LEMMA PushStep ==
    ASSUME TextInv, Text!Push
    PROVE  /\ TextInv'
           /\ \/ textPc' = "thrown" /\ ret' = ret /\ start' = start /\ offset' = offset
              \/ /\ ret' = Append(ret, [special |-> TRUE,
                                        bytes |-> SubSeq(text, special[1] + 1, special[2])])
                 /\ [special |-> TRUE,
                     bytes |-> SubSeq(text, special[1] + 1, special[2])] \in Token
                 /\ textPc' = "search"
  <1>1. /\ text' = text /\ allowed' = allowed /\ checkAll' = checkAll
        /\ textPc = "push" /\ special # NoSpecial
    BY DEF Text!Push
  <1>2. /\ text \in Seq(Chars) /\ Len(text) \in Nat /\ ret \in Seq(Token)
        /\ special \in Nat \X Nat /\ special[1] \in Nat /\ special[2] \in Nat
        /\ special[1] <= special[2] /\ special[2] <= Len(text)
        /\ Text!Substr(text, special[1], special[2] - special[1]) \in allowed
    BY <1>1, TextIsSeq DEF TextInv, TextType
  <1> DEFINE w == Text!Substr(text, special[1], special[2] - special[1])
             x == [special |-> TRUE, bytes |-> w]
  <1>3. w = SubSeq(text, special[1] + 1, special[2]) /\ w \in Seq(Chars)
    <2> DEFINE p == special[1]
               n == special[2] - special[1]
    <2>1. p \in Nat /\ n \in Nat /\ p + n = special[2] /\ p + n <= Len(text)
      BY <1>2
    <2> HIDE DEF p, n
    <2>2. /\ Text!Substr(text, p, n) = SubSeq(text, p + 1, p + n)
          /\ Text!Substr(text, p, n) \in Seq(Chars)
      BY <1>2, <2>1, SubstrInside
    <2>3. QED
      BY <2>1, <2>2 DEF p, n
  <1>4. w \in allowed
    BY <1>2
  <1> HIDE DEF w
  <1>5. CASE w \in Specials
    <2>1. /\ ret' = Append(ret, x) /\ start' = special[2] /\ startFind' = special[2]
          /\ offset' = 0 /\ special' = NoSpecial /\ textPc' = "search"
      BY <1>5 DEF Text!Push, w
    <2>2. x \in Token /\ x.bytes \in allowed
      BY <1>3, <1>4 DEF Token
    <2> HIDE DEF x
    <2>3. /\ ret' \in Seq(Token) /\ Len(ret') = Len(ret) + 1
          /\ \A k \in 1 .. Len(ret) : ret'[k] = ret[k]
          /\ ret'[Len(ret) + 1] = x
      BY <1>2, <2>1, <2>2, AppendProperties
    <2>4. TextType'
      BY <1>1, <1>2, <2>1, <2>3 DEF TextInv, TextType
    <2>5. InPart'
      BY <2>1 DEF InPart
    <2>6. ASSUME NEW k \in Text!SpecialsIn(ret') PROVE ret'[k].bytes \in allowed
      <3>1. k \in 1 .. Len(ret) + 1 /\ Len(ret) \in Nat /\ DOMAIN ret = 1 .. Len(ret)
            /\ ret'[k].special
        BY <1>2, <2>3 DEF Text!SpecialsIn
      <3>2. CASE k = Len(ret) + 1
        BY <2>2, <2>3, <3>2
      <3>3. CASE k \in 1 .. Len(ret)
        <4>1. ret'[k] = ret[k] /\ k \in Text!SpecialsIn(ret)
          BY <2>3, <3>1, <3>3 DEF Text!SpecialsIn
        <4>2. QED
          BY <4>1 DEF TextInv, SpecialsAreAllowed, Text!SpecialsAreAllowed
      <3>4. QED
        BY <3>1, <3>2, <3>3
    <2>7. SpecialsAreAllowed'
      BY <1>1, <2>1, <2>6 DEF TextInv, SpecialsAreAllowed, Text!SpecialsAreAllowed,
                              Text!OccursAt, Text!Substr, Text!SpecialsIn
    <2>8. QED
      BY <1>3, <2>1, <2>2, <2>4, <2>5, <2>7 DEF TextInv, x
  <1>6. CASE w \notin Specials
    <2>1. /\ textPc' = "thrown" /\ start' = start /\ startFind' = startFind
          /\ special' = special /\ offset' = offset /\ ret' = ret
      BY <1>6 DEF Text!Push, w
    <2>2. TextType'
      BY <1>1, <2>1 DEF TextInv, TextType
    <2>3. InPart'
      BY <2>1 DEF InPart
    <2>4. ~(allowed \subseteq Specials)
      BY <1>4, <1>6
    <2>5. SpecialsAreAllowed'
      BY <1>1, <2>1, <2>4 DEF TextInv, SpecialsAreAllowed, Text!SpecialsAreAllowed,
                              Text!OccursAt, Text!Substr, Text!SpecialsIn
    <2>6. QED
      BY <2>1, <2>2, <2>3, <2>5 DEF TextInv
  <1>7. QED
    BY <1>5, <1>6

\* The other steps keep what they leave alone.
LEMMA RestStep ==
    ASSUME TextInv, Text!PartDone \/ Text!Return \/ UNCHANGED textVars
    PROVE  TextInv'
  <1>1. /\ text' = text /\ allowed' = allowed /\ checkAll' = checkAll /\ start' = start
        /\ startFind' = startFind /\ special' = special /\ offset' = offset /\ ret' = ret
        /\ textPc' \notin {"check", "refused"} => textPc \notin {"check", "refused"}
        /\ textPc' = "thrown" => textPc = "thrown"
    BY DEF Text!PartDone, Text!Return, textVars
  <1>2. TextType'
    BY <1>1 DEF TextInv, TextType
  <1>3. InPart'
    BY <1>1 DEF Text!PartDone, Text!Return, textVars, TextInv, InPart
  <1>4. SpecialsAreAllowed'
    BY <1>1 DEF TextInv, SpecialsAreAllowed, Text!SpecialsAreAllowed, Text!OccursAt,
                Text!Substr, Text!SpecialsIn
  <1>5. QED
    BY <1>2, <1>3, <1>4 DEF TextInv

LEMMA TextStep == TextInv /\ [Text!Next]_(Text!vars) => TextInv'
  <1> SUFFICES ASSUME TextInv, [Text!Next]_(Text!vars) PROVE TextInv'
    OBVIOUS
  <1>1. CASE UNCHANGED Text!vars
    <2>1. UNCHANGED textVars
      BY <1>1 DEF Text!vars, textVars
    <2>2. QED
      BY <2>1, RestStep
  <1>2. CASE Text!Next
    <2>1. CASE Text!Ended
      <3>1. UNCHANGED textVars
        BY <2>1 DEF Text!Ended, Text!vars, textVars
      <3>2. QED
        BY <3>1, RestStep
    <2>2. QED
      BY <1>2, <2>1, CheckStep, SearchStep, SplitStep, PushStep, RestStep DEF Text!Next
  <1>3. QED
    BY <1>1, <1>2

\* The invariant of TikTokenEncoding::encode and _encode_native.
THEOREM TextInvHolds == Text!Spec => []TextInv
  <1>1. QED
    BY InitTextInv, TextStep, PTL DEF Text!Spec

\* Whatever the offsets that the search mixes up: each special token in the output is one
\* the caller allowed, where the text has it; the default check leaves no other in the text;
\* and the call throws only if the caller allowed what is no special token.
THEOREM SpecialsAreAllowedHolds == Text!Spec => []SpecialsAreAllowed
  <1>1. TextInv => SpecialsAreAllowed
    BY DEF TextInv
  <1>2. QED
    BY <1>1, TextInvHolds, PTL
-----------------------------------------------------------------------------
(* No byte is lost up to the first special token.                          *)

BytesOf(o) == [k \in DOMAIN o |-> o[k].bytes]

\* The bytes of o, one token after the other, make x.
Make(o, x) == \E g \in [1 .. Len(o) -> Seq(Chars)] :
                  /\ Joins(g, BytesOf(o), Len(o))
                  /\ x = IF Len(o) = 0 THEN <<>> ELSE g[Len(o)]

\* What they make is what flattening them gives.
LEMMA MadeIsFlattened ==
    ASSUME NEW o \in Seq(Token), NEW x, Make(o, x) PROVE Text!Bytes(o) = x
  <1> DEFINE ss == BytesOf(o)
  <1>1. PICK g \in [1 .. Len(o) -> Seq(Chars)] :
            /\ Joins(g, BytesOf(o), Len(o))
            /\ x = IF Len(o) = 0 THEN <<>> ELSE g[Len(o)]
    BY DEF Make
  <1>2. Len(o) \in Nat /\ DOMAIN o = 1 .. Len(o)
    OBVIOUS
  <1>3. ss = [k \in 1 .. Len(o) |-> o[k].bytes]
    BY <1>2 DEF BytesOf
  <1>4. ss \in Seq({o[k].bytes : k \in 1 .. Len(o)}) /\ Len(ss) = Len(o)
    <2>1. ss \in [1 .. Len(o) -> {o[k].bytes : k \in 1 .. Len(o)}]
      BY <1>3
    <2> HIDE DEF ss
    <2>2. QED
      BY <1>2, <1>3, <2>1
  <1>5. Text!Bytes(o) = FlattenSeq(ss)
    BY DEF Text!Bytes, Text!FlattenSeq, FlattenSeq, BytesOf
  <1> HIDE DEF ss
  <1>6. CASE Len(o) = 0
    <2>1. ss = <<>>
      BY <1>4, <1>6, EmptySeq
    <2>2. FlattenSeq(ss) = ss
      BY <1>4, <1>6 DEF FlattenSeq
    <2>3. QED
      BY <1>1, <1>5, <1>6, <2>1, <2>2
  <1>7. CASE Len(o) # 0
    <2> DEFINE n == Len(o)
    <2>1. n \in Nat \ {0} /\ Len(ss) = n /\ g \in [1 .. n -> Seq(Chars)] /\ Joins(g, ss, n)
      BY <1>1, <1>2, <1>4, <1>7 DEF ss
    <2>2. x = g[n]
      BY <1>1, <1>7
    <2> HIDE DEF n
    <2>3. FlattenSeq(ss) = g[n]
      BY <2>1, FlattenIs
    <2>4. QED
      BY <1>5, <2>2, <2>3
  <1>8. QED
    BY <1>6, <1>7

\* A further token makes them that much longer.
LEMMA MakeAppend ==
    ASSUME NEW o \in Seq(Token), NEW x \in Seq(Chars), Make(o, x), NEW t \in Token
    PROVE  Make(Append(o, t), x \o t.bytes)
  <1> DEFINE n == Len(o)
             o2 == Append(o, t)
             y == x \o t.bytes
  <1>1. PICK g \in [1 .. n -> Seq(Chars)] :
            Joins(g, BytesOf(o), n) /\ x = IF n = 0 THEN <<>> ELSE g[n]
    BY DEF Make
  <1>2. t.bytes \in Seq(Chars)
    BY DEF Token
  <1>3. n \in Nat /\ DOMAIN o = 1 .. n
    OBVIOUS
  <1>4. /\ Len(o2) = n + 1 /\ DOMAIN o2 = 1 .. n + 1
        /\ \A k \in 1 .. n : o2[k] = o[k]
        /\ o2[n + 1] = t
    BY <1>3, AppendProperties
  <1>5. y \in Seq(Chars)
    BY <1>2, ConcatProperties
  <1> HIDE DEF n, o2
  <1> DEFINE h == [k \in 1 .. n + 1 |-> IF k <= n THEN g[k] ELSE y]
  <1>6. h \in [1 .. n + 1 -> Seq(Chars)]
    <2> HIDE DEF y
    <2>1. \A k \in 1 .. n + 1 : k <= n => k \in 1 .. n
      BY <1>3
    <2>2. QED
      BY <1>1, <1>5, <2>1
  <1>7. \A k \in 1 .. n : h[k] = g[k] /\ BytesOf(o2)[k] = BytesOf(o)[k]
    BY <1>3, <1>4 DEF BytesOf
  <1>8. h[n + 1] = y /\ BytesOf(o2)[n + 1] = t.bytes
    BY <1>3, <1>4 DEF BytesOf
  <1> HIDE DEF h
  <1>9. Joins(h, BytesOf(o2), n + 1)
    <2> SUFFICES ASSUME NEW k \in 1 .. n + 1
                 PROVE  h[k] = IF k = 1 THEN BytesOf(o2)[k] ELSE h[k - 1] \o BytesOf(o2)[k]
      BY DEF Joins
    <2>1. CASE k \in 1 .. n
      <3>1. g[k] = IF k = 1 THEN BytesOf(o)[k] ELSE g[k - 1] \o BytesOf(o)[k]
        BY <1>1, <2>1 DEF Joins
      <3>2. k # 1 => k - 1 \in 1 .. n
        BY <1>3, <2>1
      <3>3. QED
        BY <1>7, <2>1, <3>1, <3>2
    <2>2. CASE k = n + 1
      <3>1. CASE n = 0
        <4>1. y = t.bytes
          BY <1>1, <1>2, <3>1, ConcatEmptySeq
        <4>2. QED
          BY <1>8, <2>2, <3>1, <4>1
      <3>2. CASE n # 0
        <4>1. k # 1 /\ k - 1 = n /\ n \in 1 .. n
          BY <1>3, <2>2, <3>2
        <4>2. h[k - 1] = x
          BY <1>1, <1>7, <3>2, <4>1
        <4>3. QED
          BY <1>8, <2>2, <4>1, <4>2
      <3>3. QED
        BY <3>1, <3>2
    <2>3. QED
      BY <1>3, <2>1, <2>2
  <1>10. n + 1 # 0
    BY <1>3
  <1> HIDE DEF y
  <1>11. Make(o2, y)
    BY <1>4, <1>6, <1>8, <1>9, <1>10 DEF Make
  <1>12. QED
    BY <1>11 DEF o2, y

\* A beginning of the text is a prefix of it.
LEMMA Beginning ==
    ASSUME NEW x \in Seq(Chars), NEW n \in Nat, n <= Len(x)
    PROVE  /\ SubSeq(x, 1, n) \in Seq(Chars)
           /\ Text!IsPrefix(SubSeq(x, 1, n), x)
  <1> DEFINE y == SubSeq(x, 1, n)
  <1>1. 1 \in Int /\ n \in Int /\ \A k \in 1 .. n : x[k] \in Chars
    OBVIOUS
  <1>2. y \in Seq(Chars) /\ Len(y) = IF 1 <= n THEN n - 1 + 1 ELSE 0
    BY <1>1, SubSeqProperties
  <1>3. Len(y) = n
    BY <1>2
  <1>4. y = SubSeq(x, 1, n)
    OBVIOUS
  <1> HIDE DEF y
  <1>5. SubSeq(y, 1, Len(y)) = y
    BY <1>2
  <1>6. Text!IsPrefix(y, x)
    BY <1>3, <1>4, <1>5 DEF Text!IsPrefix
  <1>7. QED
    BY <1>2, <1>4, <1>6

\* What the search found is a special token, if it found any.
Placed == special # NoSpecial =>
              Text!Substr(text, special[1], special[2] - special[1]) \in Specials

\* In UTF-8, offset is the beginning of a character, and in the end that of the special
\* token or the end of the text.
WholeSoFar ==
    /\ Text!Onset(text, offset)
    /\ textPc = "split" => offset <= Text!End
    /\ textPc = "push" /\ Placed => offset = Text!End
    /\ textPc = "done" => offset = Len(text)

\* In what is not, nothing is found and nothing comes out.
NothingSoFar == startFind = 0 /\ special = NoSpecial /\ offset = 0

\* A range of UTF-8 from the beginning of a character to that of another is UTF-8.
LEMMA RangeIsUtf8 ==
    ASSUME NEW x \in Seq(Chars), Text!Utf8(x), NEW p \in Nat, NEW q \in Nat, p <= q, q <= Len(x),
           Text!Onset(x, p), Text!Onset(x, q)
    PROVE  Text!Utf8(SubSeq(x, p + 1, q))
  <1> DEFINE y == SubSeq(x, p + 1, q)
             n == q - p
  <1>1. Len(x) \in Nat /\ n \in Nat /\ p + n = q
    OBVIOUS
  <1>2. p + 1 \in Int /\ q \in Int /\ \A k \in p + 1 .. q : x[k] \in Chars
    OBVIOUS
  <1>3. /\ Len(y) = IF p + 1 <= q THEN q - (p + 1) + 1 ELSE 0
        /\ \A k \in 1 .. q - (p + 1) + 1 : y[k] = x[p + 1 + k - 1]
    BY <1>2, SubSeqProperties
  <1>4. Len(y) = n
    BY <1>1, <1>3
  <1>5. \A k \in 1 .. n : y[k] = x[p + k]
    <2> SUFFICES ASSUME NEW k \in 1 .. n PROVE y[k] = x[p + k]
      OBVIOUS
    <2>1. k \in 1 .. q - (p + 1) + 1 /\ p + 1 + k - 1 = p + k
      OBVIOUS
    <2> HIDE DEF y
    <2>2. QED
      BY <1>3, <2>1
  <1> HIDE DEF y, n
  <1>6. \A k \in 1 .. Len(x) : x[k] \in Continuation <=> k > 1 /\ x[k - 1] \in Leading
    BY DEF Text!Utf8
  <1>7. ASSUME NEW k \in 1 .. n
        PROVE  y[k] \in Continuation <=> k > 1 /\ y[k - 1] \in Leading
    <2>1. k \in Nat /\ 1 <= k /\ p + k <= q /\ p + k \in 1 .. Len(x) /\ y[k] = x[p + k]
      BY <1>1, <1>5
    <2>2. CASE k = 1
      <3>1. x[p + 1] \notin Continuation
        BY <2>1, <2>2 DEF Text!Onset
      <3>2. QED
        BY <2>1, <2>2, <3>1
    <2>3. CASE k > 1
      <3>1. k - 1 \in 1 .. n /\ p + k > 1 /\ p + k - 1 = p + (k - 1)
        BY <1>1, <2>1, <2>3
      <3>2. y[k - 1] = x[p + k - 1]
        BY <1>5, <3>1
      <3>3. x[p + k] \in Continuation <=> x[p + k - 1] \in Leading
        BY <1>6, <2>1, <3>1
      <3>4. QED
        BY <2>1, <2>3, <3>2, <3>3
    <2>4. QED
      BY <2>1, <2>2, <2>3
  <1>8. ASSUME n # 0 PROVE y[n] \notin Leading
    <2>1. n \in 1 .. n /\ y[n] = x[q] /\ q \in Nat /\ q \in 1 .. Len(x) /\ Len(x) # 0
      BY <1>1, <1>5, <1>8
    <2>2. CASE q = Len(x)
      BY <2>1, <2>2 DEF Text!Utf8
    <2>3. CASE q < Len(x)
      <3>1. x[q + 1] \notin Continuation /\ q + 1 \in 1 .. Len(x) /\ q + 1 > 1 /\ q + 1 - 1 = q
        BY <1>1, <2>1, <2>3 DEF Text!Onset
      <3>2. QED
        BY <1>6, <2>1, <3>1
    <2>4. QED
      BY <2>1, <2>2, <2>3
  <1>9. Text!Utf8(y)
    BY <1>4, <1>7, <1>8 DEF Text!Utf8
  <1>10. QED
    BY <1>9 DEF y

\* Until a special token is pushed, the output is the beginning of the text up to offset;
\* right after the first one it is a beginning too.
PrefixSoFar ==
    covers =>
        /\ Text!SpecialsIn(ret) = {} =>
               /\ start = 0 /\ offset <= Len(text) /\ Make(ret, SubSeq(text, 1, offset))
               /\ IF Text!Utf8(text) THEN WholeSoFar ELSE NothingSoFar
        /\ Text!SpecialsIn(ret) = {Len(ret)} => Text!IsPrefix(Text!Bytes(ret), text)

LEMMA PrefixIsLossless == ASSUME TextInv, PrefixSoFar PROVE LosslessToFirstSpecial
  <1>1. /\ text \in Seq(Chars) /\ Len(text) \in Nat /\ ret \in Seq(Token)
        /\ offset \in Nat /\ start \in Nat
    BY TextIsSeq DEF TextInv, TextType
  <1> SUFFICES ASSUME covers
               PROVE  /\ Text!SpecialsIn(ret) \subseteq {Len(ret)} => Text!IsPrefix(Text!Bytes(ret), text)
                      /\ textPc = "done" /\ Text!SpecialsIn(ret) = {} =>
                             Text!Bytes(ret) = IF Text!Utf8(text) THEN text ELSE <<>>
    BY DEF LosslessToFirstSpecial, Text!LosslessToFirstSpecial
  <1>2. ASSUME Text!SpecialsIn(ret) = {}
        PROVE  /\ Text!Bytes(ret) = SubSeq(text, 1, offset)
               /\ Text!IsPrefix(SubSeq(text, 1, offset), text)
    BY <1>1, <1>2, MadeIsFlattened, Beginning DEF PrefixSoFar
  <1>3. ASSUME Text!SpecialsIn(ret) \subseteq {Len(ret)}
        PROVE  Text!IsPrefix(Text!Bytes(ret), text)
    <2>1. Text!SpecialsIn(ret) = {} \/ Text!SpecialsIn(ret) = {Len(ret)}
      BY <1>3
    <2>2. QED
      BY <1>2, <2>1 DEF PrefixSoFar
  <1>4. ASSUME textPc = "done", Text!SpecialsIn(ret) = {}
        PROVE  Text!Bytes(ret) = IF Text!Utf8(text) THEN text ELSE <<>>
    <2>1. CASE Text!Utf8(text)
      <3>1. offset = Len(text)
        BY <1>4, <2>1 DEF PrefixSoFar, WholeSoFar
      <3>2. SubSeq(text, 1, Len(text)) = text
        BY <1>1
      <3>3. QED
        BY <1>2, <1>4, <2>1, <3>1, <3>2
    <2>2. CASE ~Text!Utf8(text)
      <3>1. offset = 0
        BY <1>4, <2>2 DEF PrefixSoFar, NothingSoFar
      <3>2. SubSeq(text, 1, 0) = <<>>
        BY <1>1, SubSeqEmpty
      <3>3. QED
        BY <1>2, <1>4, <2>2, <3>1, <3>2
    <2>3. QED
      BY <2>1, <2>2
  <1>5. QED
    BY <1>3, <1>4

\* The token that an Append adds is special or not; the others are what they were.
LEMMA SpecialsOfAppend ==
    ASSUME NEW o \in Seq(Token), NEW t \in Token
    PROVE  /\ Len(Append(o, t)) = Len(o) + 1
           /\ t.special => Text!SpecialsIn(Append(o, t)) = Text!SpecialsIn(o) \cup {Len(o) + 1}
           /\ ~t.special => Text!SpecialsIn(Append(o, t)) = Text!SpecialsIn(o)
           /\ \A k \in Text!SpecialsIn(o) : k \in 1 .. Len(o)
  <1> DEFINE o2 == Append(o, t)
             n == Len(o)
  <1>1. n \in Nat /\ DOMAIN o = 1 .. n
    OBVIOUS
  <1>2. /\ Len(o2) = n + 1 /\ DOMAIN o2 = 1 .. n + 1
        /\ \A k \in 1 .. n : o2[k] = o[k]
        /\ o2[n + 1] = t
    BY <1>1, AppendProperties
  <1> HIDE DEF o2, n
  <1>3. 1 .. n + 1 = 1 .. n \cup {n + 1}
    BY <1>1
  <1>4. ASSUME t.special PROVE Text!SpecialsIn(o2) = Text!SpecialsIn(o) \cup {n + 1}
    BY <1>1, <1>2, <1>3, <1>4 DEF Text!SpecialsIn
  <1>5. ASSUME ~t.special PROVE Text!SpecialsIn(o2) = Text!SpecialsIn(o)
    BY <1>1, <1>2, <1>3, <1>5 DEF Text!SpecialsIn
  <1>6. \A k \in Text!SpecialsIn(o) : k \in 1 .. n
    BY <1>1 DEF Text!SpecialsIn
  <1>7. QED
    BY <1>2, <1>4, <1>5, <1>6 DEF o2, n

LEMMA InitPrefix == Text!Init => PrefixSoFar
  <1> SUFFICES ASSUME Text!Init PROVE PrefixSoFar
    OBVIOUS
  <1>1. /\ text \in Seq(Chars) /\ start = 0 /\ offset = 0 /\ ret = <<>> /\ Len(text) \in Nat
        /\ startFind = 0 /\ special = NoSpecial /\ textPc = "check"
    <2>1. text \in Texts
      BY DEF Text!Init
    <2>2. text \in Seq(Chars)
      BY <2>1, TextsAssumption DEF Text!SpecialsAssumption
    <2>3. QED
      BY <2>2 DEF Text!Init
  <1>2. SubSeq(text, 1, 0) = <<>>
    BY <1>1, SubSeqEmpty
  <1>3. Make(<<>>, <<>>)
    <2> DEFINE g == [k \in 1 .. 0 |-> <<>>]
    <2>1. g \in [1 .. Len(<<>>) -> Seq(Chars)] /\ Joins(g, BytesOf(<<>>), Len(<<>>))
      BY DEF Joins
    <2> HIDE DEF g
    <2>2. QED
      BY <2>1 DEF Make
  <1>4. Text!SpecialsIn(<<>>) = {}
    BY DEF Text!SpecialsIn
  <1>5. /\ Make(ret, SubSeq(text, 1, offset))
        /\ Text!SpecialsIn(ret) = {}
    BY <1>1, <1>2, <1>3, <1>4
  <1>6. Text!Utf8(text) => WholeSoFar
    <2>1. ASSUME Text!Utf8(text) PROVE Text!Onset(text, 0)
      <3>1. SUFFICES ASSUME 0 < Len(text) PROVE text[1] \notin Continuation
        BY DEF Text!Onset
      <3>2. 1 \in 1 .. Len(text) /\ ~(1 > 1)
        BY <1>1, <3>1
      <3>3. QED
        BY <2>1, <3>2 DEF Text!Utf8
    <2>2. QED
      BY <1>1, <2>1 DEF WholeSoFar
  <1>7. ret # <<>> => Len(ret) # 0
    BY <1>1
  <1>8. QED
    BY <1>1, <1>5, <1>6 DEF PrefixSoFar, NothingSoFar

\* A part in which the regex matches on ends with a character: the text goes on with another.
LEMMA PartEndsWhole ==
    ASSUME TextInv, PrefixSoFar, covers, Text!SpecialsIn(ret) = {}, Text!Utf8(text),
           start < Text!End, offset < Text!End, Text!Readable(Text!Part, offset)
    PROVE  Text!Onset(text, Text!End)
  <1> SUFFICES ASSUME Text!End < Len(text) PROVE text[Text!End + 1] \notin Continuation
    BY DEF Text!Onset
  <1>1. /\ text \in Seq(Chars) /\ Len(text) \in Nat /\ offset \in Nat /\ start = 0
        /\ Text!End \in Nat
    BY TextIsSeq, PartIs DEF TextInv, TextType, PrefixSoFar
  <1> DEFINE y == Text!Part
             e == Text!End
  <1>2. /\ y \in Seq(Chars) /\ Len(y) = e /\ \A k \in 1 .. e : y[k] = text[k]
    BY <1>1, PartIs
  <1> HIDE DEF y, e
  <1> DEFINE z == SubSeq(y, offset + 1, e)
  <1>3. /\ offset + 1 \in Int /\ e \in Int /\ offset + 1 <= e
        /\ \A k \in offset + 1 .. e : y[k] \in Chars
    BY <1>1, <1>2 DEF e
  <1>4. /\ Len(z) = IF offset + 1 <= e THEN e - (offset + 1) + 1 ELSE 0
        /\ \A k \in 1 .. e - (offset + 1) + 1 : z[k] = y[offset + 1 + k - 1]
    BY <1>3, SubSeqProperties
  <1>5. Text!Utf8(z)
    BY <1>2 DEF Text!Readable, y
  <1> HIDE DEF z
  <1>6. Len(z) = e - offset /\ e - offset \in 1 .. e - (offset + 1) + 1
        /\ offset + 1 + (e - offset) - 1 = e
    BY <1>1, <1>3, <1>4
  <1>7. z[Len(z)] = y[e] /\ Len(z) # 0
    BY <1>3, <1>4, <1>6
  <1>8. z[Len(z)] \notin Leading
    BY <1>5, <1>7 DEF Text!Utf8
  <1>9. text[e] \notin Leading
    BY <1>1, <1>2, <1>3, <1>7, <1>8
  <1>10. e + 1 \in 1 .. Len(text) /\ e + 1 > 1 /\ e + 1 - 1 = e
    BY <1>1, <1>3 DEF e
  <1>11. \A k \in 1 .. Len(text) : text[k] \in Continuation <=> k > 1 /\ text[k - 1] \in Leading
    BY DEF Text!Utf8
  <1>12. text[e + 1] \notin Continuation
    <2> DEFINE k == e + 1
    <2>1. k \in 1 .. Len(text) /\ k - 1 = e
      BY <1>3, <1>10
    <2> HIDE DEF k
    <2>2. text[k] \notin Continuation
      BY <1>3, <1>9, <1>11, <2>1
    <2>3. QED
      BY <2>2 DEF k
  <1>13. QED
    BY <1>12 DEF e

\* A range of a beginning is one of the whole.
LEMMA SubSeqOfPrefix ==
    ASSUME NEW x \in Seq(Chars), NEW p \in Nat, NEW q \in Nat, p <= q, q <= Len(x)
    PROVE  SubSeq(SubSeq(x, 1, q), p + 1, q) = SubSeq(x, p + 1, q)
  OBVIOUS

\* A piece goes on where the output ends.
LEMMA SplitPrefix == ASSUME TextInv, PrefixSoFar, Text!Split PROVE PrefixSoFar'
  <1> SUFFICES ASSUME covers PROVE PrefixSoFar'
    BY DEF PrefixSoFar, Text!Split
  <1>1. PICK n \in Nat \ {0} :
            /\ ret' = Append(ret, [special |-> FALSE, bytes |-> Text!Cut(offset, n)])
            /\ offset' = offset + n /\ offset + n <= Text!End - start
            /\ Text!Onset(Text!Part, offset + n)
            /\ Text!Cut(offset, n) = SubSeq(text, offset + 1, offset + n)
            /\ [special |-> FALSE, bytes |-> Text!Cut(offset, n)] \in Token
    BY SplitStep
  <1> DEFINE t == [special |-> FALSE, bytes |-> Text!Cut(offset, n)]
  <1>2. t \in Token /\ ~t.special /\ t.bytes = SubSeq(text, offset + 1, offset + n)
        /\ ret' = Append(ret, t)
    BY <1>1
  <1>3. /\ text \in Seq(Chars) /\ Len(text) \in Nat /\ ret \in Seq(Token) /\ Len(ret) \in Nat
        /\ offset \in Nat /\ start \in Nat /\ Text!End \in Nat /\ Text!End <= Len(text)
        /\ text' = text /\ start' = start /\ special' = special /\ startFind' = startFind
        /\ covers' = covers /\ textPc = "split" /\ textPc' = "split"
        /\ start < Text!End /\ Text!Readable(Text!Part, offset)
    BY TextIsSeq, PartIs DEF TextInv, TextType, Text!Split
  <1>8. Text!End' = Text!End /\ Text!Utf8(text)' = Text!Utf8(text)
    BY <1>3 DEF Text!End, Text!Utf8
  <1>9. offset + n <= Len(text)
    BY <1>1, <1>3
  <1> HIDE DEF t
  <1>4. /\ Len(ret') = Len(ret) + 1
        /\ Text!SpecialsIn(ret') = Text!SpecialsIn(ret)
        /\ \A k \in Text!SpecialsIn(ret) : k \in 1 .. Len(ret)
    BY <1>2, <1>3, SpecialsOfAppend
  <1>5. Text!SpecialsIn(ret') # {Len(ret')}
    <2> SUFFICES ASSUME Text!SpecialsIn(ret') = {Len(ret')} PROVE FALSE
      OBVIOUS
    <2>1. Len(ret) + 1 \in Text!SpecialsIn(ret)
      BY <1>4
    <2>2. Len(ret) + 1 \in 1 .. Len(ret)
      BY <1>4, <2>1
    <2>3. QED
      BY <1>3, <2>2
  <1>10. ASSUME Text!SpecialsIn(ret') = {}, Text!Utf8(text) PROVE WholeSoFar'
    <2>1. start = 0 /\ Text!SpecialsIn(ret) = {}
      BY <1>4, <1>10 DEF PrefixSoFar
    <2>2. offset + n <= Text!End /\ offset < Text!End /\ offset + n \in Nat
      BY <1>1, <1>3, <2>1
    <2>3. Text!Onset(text, offset + n)
      <3>1. CASE offset + n < Text!End
        <4>1. Len(Text!Part) = Text!End /\ Text!Part[offset + n + 1] = text[offset + n + 1]
          <5> DEFINE k == offset + n + 1
          <5>1. k \in 1 .. Text!End - start /\ start + k = k /\ Text!End - start = Text!End
            BY <1>3, <2>1, <2>2, <3>1
          <5> HIDE DEF k
          <5>2. Text!Part[k] = text[k] /\ Len(Text!Part) = Text!End
            BY <5>1, PartIs
          <5>3. QED
            BY <5>2 DEF k
        <4>2. QED
          BY <1>1, <3>1, <4>1 DEF Text!Onset
      <3>2. CASE offset + n = Text!End
        BY <1>3, <1>10, <2>1, <2>2, <3>2, PartEndsWhole
      <3>3. QED
        BY <1>3, <2>2, <3>1, <3>2
    <2>4. QED
      BY <1>1, <1>3, <1>8, <2>2, <2>3 DEF WholeSoFar, Text!Onset
  <1>11. ASSUME Text!SpecialsIn(ret') = {}, ~Text!Utf8(text) PROVE FALSE
    <2>1. special = NoSpecial /\ offset = 0 /\ start = 0
      BY <1>4, <1>11 DEF PrefixSoFar, NothingSoFar
    <2>2. Text!End = Len(text) /\ Text!Part = SubSeq(text, 0 + 1, Len(text)) /\ Len(Text!Part) = Len(text) - 0
      BY <2>1, PartIs DEF Text!End
    <2>3. 0 + 1 = 1 /\ Len(text) - 0 = Len(text) /\ SubSeq(text, 1, Len(text)) = text
      BY <1>3
    <2>4. Text!Part = text
      BY <2>2, <2>3
    <2>5. Text!Utf8(SubSeq(text, 0 + 1, Len(text)))
      BY <1>3, <2>1, <2>4 DEF Text!Readable
    <2>6. QED
      BY <1>11, <2>3, <2>5
  <1>6. ASSUME Text!SpecialsIn(ret') = {}
        PROVE  Make(ret', SubSeq(text, 1, offset + n)) /\ start = 0
    <2>1. start = 0 /\ offset <= Len(text) /\ Make(ret, SubSeq(text, 1, offset))
      BY <1>4, <1>6 DEF PrefixSoFar
    <2>2. SubSeq(text, 1, offset) \in Seq(Chars)
      BY <1>3, <2>1, Beginning
    <2>3. Make(ret', SubSeq(text, 1, offset) \o t.bytes)
      BY <1>2, <1>3, <2>1, <2>2, MakeAppend
    <2>4. SubSeq(text, 1, offset) \o SubSeq(text, offset + 1, offset + n)
          = SubSeq(text, 1, offset + n)
      <3> DEFINE z == offset + n
      <3>1. 0 \in Nat /\ z \in Nat /\ 0 <= offset /\ offset <= z /\ z <= Len(text)
        BY <1>1, <1>3
      <3> HIDE DEF z
      <3>2. SubSeq(text, 0 + 1, offset) \o SubSeq(text, offset + 1, z) = SubSeq(text, 0 + 1, z)
        BY <1>3, <3>1, Neighbours
      <3>3. 0 + 1 = 1
        OBVIOUS
      <3>4. QED
        BY <3>2, <3>3 DEF z
    <2>5. QED
      BY <1>2, <2>1, <2>3, <2>4
  <1>7. QED
    BY <1>1, <1>3, <1>5, <1>6, <1>8, <1>9, <1>10, <1>11 DEF PrefixSoFar

\* A search that finds nothing yet has found nothing; in what is no UTF-8 it finds nothing.
LEMMA SearchPrefix == ASSUME TextInv, PrefixSoFar, Text!Search PROVE PrefixSoFar'
  <1>1. /\ text' = text /\ start' = start /\ offset' = offset /\ ret' = ret /\ covers' = covers
        /\ textPc = "search" /\ offset = 0 /\ textPc' \in {"search", "split"}
    BY DEF Text!Search, Text!Found, TextInv, InPart
  <1>2. text \in Seq(Chars) /\ Len(text) \in Nat /\ Text!End' \in Int /\ 0 <= Text!End'
    <2>1. TextInv'
      BY SearchStep
    <2>2. text \in Seq(Chars) /\ Len(text) \in Nat
      BY TextIsSeq DEF TextInv
    <2>3. QED
      BY <1>1, <2>1, <2>2 DEF TextInv, TextType, Text!End
  <1>3. Text!Utf8(text)' = Text!Utf8(text)
    BY <1>1 DEF Text!Utf8
  <1>4. ASSUME covers, Text!SpecialsIn(ret) = {}, Text!Utf8(text) PROVE WholeSoFar'
    <2>1. WholeSoFar
      BY <1>4 DEF PrefixSoFar
    <2>2. QED
      BY <1>1, <1>2, <2>1 DEF WholeSoFar, Text!Onset
  <1>5. ASSUME covers, Text!SpecialsIn(ret) = {}, ~Text!Utf8(text) PROVE NothingSoFar'
    <2>1. startFind = 0 /\ special = NoSpecial /\ offset = 0
      BY <1>5 DEF PrefixSoFar, NothingSoFar
    <2>2. Text!Suffix(0) = text
      BY <1>2 DEF Text!Suffix, Text!Substr
    <2>3. SubSeq(text, 0 + 1, Len(text)) = text
      BY <1>2
    <2>4. ~Text!Readable(Text!Suffix(startFind), startFind)
      BY <1>5, <2>1, <2>2, <2>3 DEF Text!Readable
    <2>5. special' = NoSpecial /\ startFind' = startFind
      BY <2>4 DEF Text!Search
    <2>6. QED
      BY <1>1, <2>1, <2>5 DEF NothingSoFar
  <1>6. QED
    BY <1>1, <1>3, <1>4, <1>5 DEF PrefixSoFar

\* In UTF-8 the part before a special token is matched to its end.
LEMMA PartDonePrefix == ASSUME TextInv, PrefixSoFar, Text!PartDone PROVE PrefixSoFar'
  <1>1. /\ text' = text /\ start' = start /\ offset' = offset /\ ret' = ret /\ covers' = covers
        /\ special' = special /\ startFind' = startFind
        /\ textPc = "split" /\ textPc' = "push"
    BY DEF Text!PartDone
  <1>2. /\ text \in Seq(Chars) /\ Len(text) \in Nat /\ offset \in Nat
        /\ Text!End \in Nat /\ Text!End <= Len(text)
    BY TextIsSeq, PartIs DEF TextInv, TextType
  <1>3. Text!Utf8(text)' = Text!Utf8(text) /\ Text!End' = Text!End /\ Placed' = Placed
    BY <1>1 DEF Text!Utf8, Text!End, Placed, Text!Substr
  <1>4. ASSUME covers, Text!SpecialsIn(ret) = {}, Text!Utf8(text), Placed
        PROVE  offset = Text!End
    <2>1. start = 0 /\ Text!Onset(text, offset) /\ offset <= Text!End
      BY <1>1, <1>4 DEF PrefixSoFar, WholeSoFar
    <2>2. Text!Onset(text, Text!End)
      <3>1. CASE special = NoSpecial
        BY <1>2, <3>1 DEF Text!End, Text!Onset
      <3>2. CASE special # NoSpecial
        <4> DEFINE p == special[1]
                   n == special[2] - special[1]
                   w == Text!Substr(text, p, n)
        <4>1. p \in Nat /\ n \in Nat /\ p + n <= Len(text) /\ Text!End = p
          BY <1>2, <3>2 DEF TextInv, TextType, Text!End
        <4>2. w \in Specials
          BY <1>4, <3>2 DEF Placed
        <4>3. Text!Utf8(w) /\ w \in Seq(Chars) /\ Len(w) \in Nat \ {0}
          BY <4>2, SpecialWord, TextsAssumption DEF Text!SpecialsAssumption
        <4> HIDE DEF p, n
        <4>4. w = SubSeq(text, p + 1, p + n)
          BY <1>2, <4>1, SubstrInside
        <4> HIDE DEF w
        <4> DEFINE q == p + n
        <4>5. /\ p + 1 \in Int /\ q \in Int /\ \A k \in p + 1 .. q : text[k] \in Chars
              /\ w = SubSeq(text, p + 1, q)
          BY <1>2, <4>1, <4>4
        <4> HIDE DEF q
        <4>6. /\ Len(w) = IF p + 1 <= q THEN q - (p + 1) + 1 ELSE 0
              /\ \A k \in 1 .. q - (p + 1) + 1 : w[k] = text[p + 1 + k - 1]
          BY <4>5, SubSeqProperties
        <4>7. 1 \in 1 .. Len(w) /\ ~(1 > 1)
          BY <4>3
        <4>8. w[1] \notin Continuation
          BY <4>3, <4>7 DEF Text!Utf8
        <4>9. 1 \in 1 .. q - (p + 1) + 1 /\ p + 1 + 1 - 1 = p + 1
          BY <4>1, <4>3, <4>5, <4>6
        <4>10. w[1] = text[p + 1]
          BY <4>6, <4>9
        <4>11. QED
          BY <4>1, <4>8, <4>10 DEF Text!Onset
      <3>3. QED
        BY <3>1, <3>2
    <2>3. Len(Text!Part) = Text!End /\ Text!Part = SubSeq(text, 1, Text!End)
      <3>1. 0 + 1 = 1 /\ Text!End - 0 = Text!End
        BY <1>2
      <3>2. QED
        BY <2>1, <3>1, PartIs
    <2>4. SubSeq(Text!Part, offset + 1, Text!End) = SubSeq(text, offset + 1, Text!End)
      BY <1>2, <2>1, <2>3, SubSeqOfPrefix
    <2>5. Text!Utf8(SubSeq(text, offset + 1, Text!End))
      BY <1>2, <1>4, <2>1, <2>2, RangeIsUtf8
    <2>6. Text!Readable(Text!Part, offset)
      BY <2>1, <2>3, <2>4, <2>5 DEF Text!Readable
    <2>7. offset >= Text!End
      BY <1>4, <2>3, <2>6 DEF Text!PartDone
    <2>8. QED
      BY <1>2, <2>1, <2>7
  <1>5. ASSUME covers, Text!SpecialsIn(ret) = {}, Text!Utf8(text) PROVE WholeSoFar'
    <2>1. Text!Onset(text, offset)
      BY <1>5 DEF PrefixSoFar, WholeSoFar
    <2>2. QED
      BY <1>1, <1>3, <1>4, <1>5, <2>1 DEF WholeSoFar, Text!Onset
  <1>6. NothingSoFar => NothingSoFar'
    BY <1>1 DEF NothingSoFar
  <1>7. QED
    BY <1>1, <1>3, <1>5, <1>6 DEF PrefixSoFar

\* A call that ends without a special token has gone through the text.
LEMMA ReturnPrefix == ASSUME TextInv, PrefixSoFar, Text!Return PROVE PrefixSoFar'
  <1>1. /\ text' = text /\ start' = start /\ offset' = offset /\ ret' = ret /\ covers' = covers
        /\ special' = special /\ startFind' = startFind
        /\ textPc = "push" /\ textPc' = "done" /\ special = NoSpecial
    BY DEF Text!Return
  <1>2. Text!Utf8(text)' = Text!Utf8(text) /\ Text!End = Len(text) /\ Placed
    BY <1>1 DEF Text!Utf8, Text!End, Placed
  <1>3. WholeSoFar => WholeSoFar'
    BY <1>1, <1>2 DEF WholeSoFar, Text!Onset
  <1>4. NothingSoFar => NothingSoFar'
    BY <1>1 DEF NothingSoFar
  <1>5. QED
    BY <1>1, <1>2, <1>3, <1>4 DEF PrefixSoFar

\* The first special token goes where the part before it ends.
LEMMA PushPrefix == ASSUME TextInv, PrefixSoFar, Text!Push PROVE PrefixSoFar'
  <1> SUFFICES ASSUME covers PROVE PrefixSoFar'
    BY DEF PrefixSoFar, Text!Push
  <1>1. /\ text \in Seq(Chars) /\ Len(text) \in Nat /\ ret \in Seq(Token) /\ Len(ret) \in Nat
        /\ offset \in Nat /\ start \in Nat /\ text' = text
        /\ special # NoSpecial /\ textPc = "push" /\ Text!End = special[1]
        /\ special[1] \in Nat /\ special[2] \in Nat
        /\ special[1] <= special[2] /\ special[2] <= Len(text)
    BY TextIsSeq DEF TextInv, TextType, Text!Push, Text!End
  <1>2. CASE textPc' = "thrown"
    <2>1. ret' = ret /\ start' = start /\ offset' = offset /\ special' = special
          /\ startFind' = startFind /\ covers' = covers
      BY <1>2 DEF Text!Push
    <2>2. Text!Utf8(text)' = Text!Utf8(text)
      BY <1>1 DEF Text!Utf8
    <2>3. WholeSoFar => WholeSoFar'
      BY <1>1, <1>2, <2>1 DEF WholeSoFar, Text!Onset
    <2>4. NothingSoFar => NothingSoFar'
      BY <2>1 DEF NothingSoFar
    <2>5. QED
      BY <1>1, <2>1, <2>2, <2>3, <2>4 DEF PrefixSoFar
  <1>3. CASE textPc' # "thrown"
    <2> DEFINE w == SubSeq(text, special[1] + 1, special[2])
               t == [special |-> TRUE, bytes |-> w]
    <2>1. ret' = Append(ret, t) /\ t \in Token
      BY <1>3, PushStep
    <2>2. t.special /\ t.bytes = w
      OBVIOUS
    <2> HIDE DEF t
    <2>3. /\ Len(ret') = Len(ret) + 1
          /\ Text!SpecialsIn(ret') = Text!SpecialsIn(ret) \cup {Len(ret) + 1}
          /\ \A k \in Text!SpecialsIn(ret) : k \in 1 .. Len(ret)
      BY <1>1, <2>1, <2>2, SpecialsOfAppend
    <2>4. ret' \in Seq(Token)
      BY <1>1, <2>1, AppendProperties
    <2>5. ASSUME Text!SpecialsIn(ret') = {Len(ret')}
          PROVE  Text!IsPrefix(Text!Bytes(ret'), text)
      <3>1. Text!SpecialsIn(ret) = {}
        <4> SUFFICES ASSUME NEW k \in Text!SpecialsIn(ret) PROVE FALSE
          OBVIOUS
        <4>1. k \in 1 .. Len(ret) /\ k = Len(ret) + 1
          BY <2>3, <2>5
        <4>2. QED
          BY <1>1, <4>1
      <3>2. offset = special[1] /\ offset <= Len(text) /\ Make(ret, SubSeq(text, 1, offset))
        <4>1. Text!Utf8(text)
          BY <1>1, <3>1 DEF PrefixSoFar, NothingSoFar
        <4>2. Placed
          BY <1>3 DEF Text!Push, Placed
        <4>3. QED
          BY <1>1, <3>1, <4>1, <4>2 DEF PrefixSoFar, WholeSoFar
      <3>3. SubSeq(text, 1, offset) \in Seq(Chars)
        BY <1>1, <3>2, Beginning
      <3>4. Make(ret', SubSeq(text, 1, offset) \o w)
        BY <1>1, <2>1, <2>2, <3>2, <3>3, MakeAppend
      <3>5. SubSeq(text, 1, offset) \o w = SubSeq(text, 1, special[2])
        <4> DEFINE y == special[1]
                   z == special[2]
        <4>1. 0 \in Nat /\ y \in Nat /\ z \in Nat /\ 0 <= y /\ y <= z /\ z <= Len(text)
          BY <1>1
        <4>2. w = SubSeq(text, y + 1, z) /\ offset = y
          BY <3>2
        <4> HIDE DEF w, y, z
        <4>3. SubSeq(text, 0 + 1, y) \o SubSeq(text, y + 1, z) = SubSeq(text, 0 + 1, z)
          BY <1>1, <4>1, Neighbours
        <4>4. 0 + 1 = 1
          OBVIOUS
        <4>5. QED
          BY <4>2, <4>3, <4>4 DEF z
      <3>6. Text!Bytes(ret') = SubSeq(text, 1, special[2])
        BY <2>4, <3>4, <3>5, MadeIsFlattened
      <3>7. QED
        BY <1>1, <3>6, Beginning
    <2>6. Text!SpecialsIn(ret') # {}
      BY <2>3
    <2>7. QED
      BY <1>1, <2>5, <2>6 DEF PrefixSoFar
  <1>4. QED
    BY <1>2, <1>3, PushStep

LEMMA PrefixStep ==
    TextInv /\ PrefixSoFar /\ [Text!Next]_(Text!vars) => PrefixSoFar'
  <1> SUFFICES ASSUME TextInv, PrefixSoFar, [Text!Next]_(Text!vars) PROVE PrefixSoFar'
    OBVIOUS
  <1>1. CASE Text!Check \/ UNCHANGED Text!vars
    <2>1. /\ text' = text /\ start' = start /\ offset' = offset /\ ret' = ret /\ covers' = covers
          /\ special' = special /\ startFind' = startFind
          /\ textPc' = textPc \/ textPc' \in {"refused", "search"}
      BY <1>1 DEF Text!Check, Text!vars
    <2>2. Text!Utf8(text)' = Text!Utf8(text) /\ Text!End' = Text!End /\ Placed' = Placed
      BY <2>1 DEF Text!Utf8, Text!End, Placed, Text!Substr
    <2>3. WholeSoFar => WholeSoFar'
      BY <2>1, <2>2 DEF WholeSoFar, Text!Onset
    <2>4. NothingSoFar => NothingSoFar'
      BY <2>1 DEF NothingSoFar
    <2>5. QED
      BY <2>1, <2>2, <2>3, <2>4 DEF PrefixSoFar
  <1>2. CASE Text!Ended
    BY <1>1, <1>2 DEF Text!Ended
  <1>3. QED
    BY <1>1, <1>2, SearchPrefix, SplitPrefix, PartDonePrefix, PushPrefix, ReturnPrefix DEF Text!Next

\* Whatever a regex that matches everywhere cuts and the search finds: up to the first
\* special token the output is the text, and all of it if there is none and it is UTF-8.
THEOREM LosslessToFirstSpecialHolds == Text!Spec => []LosslessToFirstSpecial
  <1>1. Text!Spec => [](TextInv /\ PrefixSoFar)
    <2>1. Text!Init => TextInv /\ PrefixSoFar
      BY InitTextInv, InitPrefix
    <2>2. TextInv /\ PrefixSoFar /\ [Text!Next]_(Text!vars) => (TextInv /\ PrefixSoFar)'
      BY TextStep, PrefixStep
    <2>3. QED
      BY <2>1, <2>2, PTL DEF Text!Spec
  <1>2. TextInv /\ PrefixSoFar => LosslessToFirstSpecial
    BY PrefixIsLossless
  <1>3. QED
    BY <1>1, <1>2, PTL

-----------------------------------------------------------------------------
\* A behaviour of the runs is one of each machine.
LEMMA EncodeRuns == EncodeSpec => Spec /\ Text!Spec
  <1>1. EncodeInit => Init /\ Text!Init
    BY DEF EncodeInit
  <1>2. [EncodeNext]_<<call, vars, textVars>> => [Next]_vars /\ [Text!Next]_(Text!vars)
    BY DEF EncodeNext, textVars, Text!vars
  <1>3. QED
    BY <1>1, <1>2, PTL DEF EncodeSpec, Spec, Text!Spec
=============================================================================
