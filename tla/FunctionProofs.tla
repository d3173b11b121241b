------------------------ MODULE FunctionProofs ------------------------
(***************************************************************************)
(* Of split_paragraph, for any text and limits: the utterances are as long *)
(* as the limits let them be (what is cut is a sentence each, and what is  *)
(* merged becomes longer than TokenMaxN only by one sentence), and no word *)
(* and no comma of the text is lost, doubled or moved.  Of the hashes of   *)
(* murmurhash2.cc, for any input: however it is cut into chunks and        *)
(* wherever it lies, the same words are mixed.  Of CppSQLite3Binary, for   *)
(* any bytes: in whichever form they are kept, they stay the same, and the *)
(* buffer is large enough for both forms.  Of base64, percent codes and    *)
(* RC4, for any texts: the decoders undo the encoders.  Of the times of    *)
(* timer.cpp, for any instants and zones: they are parsed as written.      *)
(***************************************************************************)
EXTENDS SplitParagraph, Hashing, EncodedBlob, WrittenCalls, SequenceTheorems,
        FiniteSetTheorems, WellFoundedInduction, TLAPS

Utt == Seq(Kinds)

TypeOK ==
    /\ text \in Utt /\ words \in Utt /\ i \in Nat /\ st \in Nat
    /\ utts \in Seq(Utt) /\ cur \in Utt /\ final \in Seq(Utt)
    /\ pc \in {"cut", "merge", "normalize", "done"}

\* What is not cut yet has no stop in it, and nothing is merged.
CutsAtStops ==
    pc = "cut" => /\ i > 0 /\ st > 0 /\ st <= i + 1 /\ cur = <<>> /\ final = <<>>
                  /\ \A k \in st .. i - 1 : words[k] # "stop"

\* Every utterance that is cut is one sentence.
Sentences == \A u \in 1 .. Len(utts) : OneSentence(utts[u])

\* Not too long, or a sentence behind no more than TokenMinN characters.
LongBySentence(utt) ==
    \/ Len(utt) <= TokenMaxN
    \/ \E before \in 0 .. TokenMinN : OneSentence(SubSeq(utt, before + 1, Len(utt)))

\* What is merged so far keeps to the limits.
MergesInLimits ==
    pc = "merge" => /\ LongBySentence(cur)
                    /\ \A u \in 1 .. Len(final) : LongBySentence(final[u]) /\ Len(final[u]) > TokenMinN

\* The inductive invariant.
IInv == TypeOK /\ CutsAtStops /\ Sentences /\ MergesInLimits /\ LengthsKept

-----------------------------------------------------------------------------
(* Numbers and sequences.                                                  *)

\* A set of numbers has a least one.
LEMMA LeastNumber ==
    ASSUME NEW T, T \subseteq Nat, T # {}
    PROVE  \E x \in T : \A y \in T : x <= y
  <1> DEFINE R == OpToRel(<, Nat)
  <1>1. IsWellFoundedOn(R, Nat)
    BY NatLessThanWellFounded
  <1>2. \A y, x \in Nat : y < x => <<y, x>> \in R
    BY DEF OpToRel
  <1> HIDE DEF R
  <1>3. PICK x \in T : \A y \in T : <<y, x>> \notin R
    BY <1>1, WFMin
  <1>4. ASSUME NEW y \in T PROVE x <= y
    <2>1. x \in Nat /\ y \in Nat /\ ~(y < x)
      BY <1>2, <1>3
    <2>2. QED
      BY <2>1
  <1>5. QED
    BY <1>4

\* Induction over the numbers, with a set in the place of a predicate.
LEMMA EveryNumber ==
    ASSUME NEW T, 0 \in T, \A n \in Nat : n \in T => n + 1 \in T
    PROVE  Nat \subseteq T
  <1> DEFINE Wrong == {n \in Nat : n \notin T}
  <1>1. SUFFICES ASSUME Wrong # {} PROVE FALSE
    OBVIOUS
  <1>2. PICK x \in Wrong : \A y \in Wrong : x <= y
    <2>1. Wrong \subseteq Nat
      OBVIOUS
    <2>2. QED
      BY <1>1, <2>1, LeastNumber
  <1>3. x \in Nat /\ x \notin T /\ x # 0
    OBVIOUS
  <1>4. x - 1 \in Nat /\ ~(x <= x - 1) /\ (x - 1) + 1 = x
    BY <1>3
  <1>5. x - 1 \in T
    BY <1>2, <1>4
  <1>6. QED
    BY <1>3, <1>4, <1>5

\* Induction over sequences, with a set in the place of a predicate.
LEMMA EverySequence ==
    ASSUME NEW A, NEW U, <<>> \in U, \A s \in Seq(A) : \A x \in A : s \in U => Append(s, x) \in U
    PROVE  Seq(A) \subseteq U
  <1> DEFINE T == {n \in Nat : \A s \in Seq(A) : Len(s) = n => s \in U}
  <1>1. 0 \in T
    BY EmptySeq
  <1>2. ASSUME NEW n \in Nat, n \in T PROVE n + 1 \in T
    <2> SUFFICES ASSUME NEW s \in Seq(A), Len(s) = n + 1 PROVE s \in U
      OBVIOUS
    <2>1. s # <<>>
      BY EmptySeq
    <2>2. PICK r \in Seq(A), x \in A : s = Append(r, x)
      BY <2>1, SequenceEmptyOrAppend
    <2>3. Len(r) \in Nat /\ Len(s) = Len(r) + 1
      BY <2>2, AppendProperties, LenProperties
    <2>4. Len(r) = n
      BY <2>3
    <2>5. r \in U
      BY <1>2, <2>4
    <2>6. QED
      BY <2>2, <2>5
  <1> HIDE DEF T
  <1>3. Nat \subseteq T
    BY <1>1, <1>2, EveryNumber
  <1>4. QED
    BY <1>3, LenProperties DEF T

\* Appending to the second of two sequences.
LEMMA ConcatAppend ==
    ASSUME NEW A, NEW s \in Seq(A), NEW t \in Seq(A), NEW x \in A
    PROVE  s \o Append(t, x) = Append(s \o t, x)
  <1>1. Append(t, x) = t \o <<x>> /\ <<x>> \in Seq(A) /\ s \o t \in Seq(A)
    BY AppendIsConcat, ConcatProperties
  <1>2. Append(s \o t, x) = (s \o t) \o <<x>>
    BY <1>1, AppendIsConcat
  <1>3. QED
    BY <1>1, <1>2, ConcatAssociative

-----------------------------------------------------------------------------
(* What Only leaves.                                                       *)

\* f[k] is what is left of the first k elements.
Leaves(f, s, S, n) ==
    f = [k \in 0 .. n |-> IF k = 0 THEN <<>>
                          ELSE IF s[k] \in S THEN Append(f[k - 1], s[k]) ELSE f[k - 1]]

\* There is such an f.
LEMMA LeavesSome == ASSUME NEW s, NEW S, NEW n \in Nat PROVE \E f : Leaves(f, s, S, n)
  <1> DEFINE T == {m \in Nat : \E f : Leaves(f, s, S, m)}
  <1>1. 0 \in T
    <2> DEFINE f == [k \in 0 .. 0 |-> <<>>]
    <2>1. Leaves(f, s, S, 0)
      BY DEF Leaves
    <2>2. QED
      BY <2>1
  <1>2. ASSUME NEW m \in Nat, m \in T PROVE m + 1 \in T
    <2>1. PICK f : Leaves(f, s, S, m)
      BY <1>2
    <2> DEFINE g == [k \in 0 .. m + 1 |->
                        IF k <= m THEN f[k]
                        ELSE IF s[k] \in S THEN Append(f[m], s[k]) ELSE f[m]]
    <2>2. ASSUME NEW k \in 0 .. m + 1
          PROVE  g[k] = IF k = 0 THEN <<>>
                        ELSE IF s[k] \in S THEN Append(g[k - 1], s[k]) ELSE g[k - 1]
      <3>1. \A j \in 0 .. m : f[j] = IF j = 0 THEN <<>>
                                     ELSE IF s[j] \in S THEN Append(f[j - 1], s[j]) ELSE f[j - 1]
        BY <2>1 DEF Leaves
      <3>2. CASE k = m + 1
        <4>1. k - 1 = m /\ ~(k <= m) /\ k # 0 /\ m \in 0 .. m + 1
          BY <3>2
        <4>2. g[m] = f[m]
          BY <4>1
        <4>3. QED
          BY <3>2, <4>1, <4>2
      <3>3. CASE k # m + 1
        <4>1. k \in 0 .. m /\ (k # 0 => k - 1 \in 0 .. m)
          BY <3>3
        <4>2. QED
          BY <3>1, <4>1
      <3>4. QED
        BY <3>2, <3>3
    <2>3. Leaves(g, s, S, m + 1)
      <3> DEFINE h == [k \in 0 .. m + 1 |-> IF k = 0 THEN <<>>
                          ELSE IF s[k] \in S THEN Append(g[k - 1], s[k]) ELSE g[k - 1]]
      <3>1. g = h
        <4>1. \A k \in 0 .. m + 1 : g[k] = h[k]
          BY <2>2
        <4>2. QED
          BY <4>1
      <3> HIDE DEF g
      <3>2. QED
        BY <3>1 DEF Leaves
    <2>4. QED
      BY <2>3
  <1> HIDE DEF T
  <1>3. Nat \subseteq T
    BY <1>1, <1>2, EveryNumber
  <1>4. QED
    BY <1>3 DEF T

\* Only is the last of such an f.
LEMMA OnlyLeaves ==
    ASSUME NEW s, NEW S, Len(s) \in Nat
    PROVE  \E f : /\ Only(s, S) = f[Len(s)] /\ f[0] = <<>>
                  /\ \A k \in 1 .. Len(s) : f[k] = IF s[k] \in S THEN Append(f[k - 1], s[k]) ELSE f[k - 1]
  <1> DEFINE f == CHOOSE g : Leaves(g, s, S, Len(s))
  <1>1. Only(s, S) = f[Len(s)]
    BY DEF Only, Leaves
  <1>2. Leaves(f, s, S, Len(s))
    BY LeavesSome
  <1> HIDE DEF f
  <1> DEFINE n == Len(s)
  <1> HIDE DEF n
  <1>0. n \in Nat /\ Leaves(f, s, S, n)
    BY <1>2 DEF n
  <1>3. \A k \in 0 .. n : f[k] = IF k = 0 THEN <<>>
                               ELSE IF s[k] \in S THEN Append(f[k - 1], s[k]) ELSE f[k - 1]
    BY <1>0 DEF Leaves
  <1>4. f[0] = <<>> /\ \A k \in 1 .. n : f[k] = IF s[k] \in S THEN Append(f[k - 1], s[k]) ELSE f[k - 1]
    <2>1. 0 \in 0 .. n /\ \A k \in 1 .. n : k \in 0 .. n /\ k # 0
      BY <1>0
    <2>2. QED
      BY <1>3, <2>1
  <1>5. QED
    BY <1>1, <1>4 DEF n

\* Of nothing there is nothing left.
LEMMA OnlyOfEmpty == ASSUME NEW S PROVE Only(<<>>, S) = <<>>
  <1>1. Len(<<>>) = 0
    OBVIOUS
  <1>2. PICK e : Only(<<>>, S) = e[Len(<<>>)] /\ e[0] = <<>>
    BY <1>1, OnlyLeaves
  <1>3. QED
    BY <1>1, <1>2

\* One element more.
LEMMA OnlyAppend ==
    ASSUME NEW A, NEW S, NEW s \in Seq(A), NEW x \in A
    PROVE  Only(Append(s, x), S) = IF x \in S THEN Append(Only(s, S), x) ELSE Only(s, S)
  <1> DEFINE n == Len(s)
             t == Append(s, x)
  <1>1. n \in Nat /\ Len(t) = n + 1 /\ t[n + 1] = x /\ \A k \in 1 .. n : t[k] = s[k]
    BY AppendProperties, LenProperties
  <1> HIDE DEF t
  <1>2. PICK f : /\ Only(s, S) = f[n] /\ f[0] = <<>>
                 /\ \A k \in 1 .. n : f[k] = IF s[k] \in S THEN Append(f[k - 1], s[k]) ELSE f[k - 1]
    BY <1>1, OnlyLeaves
  <1>3. PICK g : /\ Only(t, S) = g[n + 1] /\ g[0] = <<>>
                 /\ \A k \in 1 .. n + 1 : g[k] = IF t[k] \in S THEN Append(g[k - 1], t[k]) ELSE g[k - 1]
    <2>1. Len(t) \in Nat
      BY <1>1
    <2>2. PICK g : /\ Only(t, S) = g[Len(t)] /\ g[0] = <<>>
                   /\ \A k \in 1 .. Len(t) : g[k] = IF t[k] \in S THEN Append(g[k - 1], t[k]) ELSE g[k - 1]
      BY <2>1, OnlyLeaves
    <2>3. QED
      BY <1>1, <2>2
  <1> HIDE DEF n
  <1> DEFINE T == {k \in Nat : k <= n => f[k] = g[k]}
  <1>4. 0 \in T
    BY <1>2, <1>3
  <1>5. ASSUME NEW k \in Nat, k \in T PROVE k + 1 \in T
    <2> SUFFICES ASSUME k + 1 <= n PROVE f[k + 1] = g[k + 1]
      OBVIOUS
    <2>1. k + 1 \in 1 .. n /\ k + 1 \in 1 .. n + 1 /\ (k + 1) - 1 = k /\ k <= n
      BY <1>1
    <2>2. f[k] = g[k]
      BY <1>5, <2>1
    <2>3. QED
      BY <1>1, <1>2, <1>3, <2>1, <2>2
  <1> HIDE DEF T
  <1>6. Nat \subseteq T
    BY <1>4, <1>5, EveryNumber
  <1>7. f[n] = g[n]
    BY <1>1, <1>6 DEF T
  <1>8. n + 1 \in 1 .. n + 1 /\ (n + 1) - 1 = n
    BY <1>1
  <1>9. Only(t, S) = IF x \in S THEN Append(Only(s, S), x) ELSE Only(s, S)
    BY <1>1, <1>2, <1>3, <1>7, <1>8
  <1>10. QED
    BY <1>9 DEF t

\* What is left is of the same elements.
LEMMA OnlyType == ASSUME NEW A, NEW S, NEW s \in Seq(A) PROVE Only(s, S) \in Seq(A)
  <1> DEFINE T == {r \in Seq(A) : Only(r, S) \in Seq(A)}
  <1>1. <<>> \in T
    BY EmptySeq, OnlyOfEmpty
  <1>2. ASSUME NEW r \in Seq(A), NEW x \in A, r \in T PROVE Append(r, x) \in T
    <2>1. Only(r, S) \in Seq(A) /\ Append(r, x) \in Seq(A)
      BY <1>2, AppendProperties
    <2>2. Only(Append(r, x), S) = IF x \in S THEN Append(Only(r, S), x) ELSE Only(r, S)
      BY OnlyAppend
    <2>3. Append(Only(r, S), x) \in Seq(A)
      BY <2>1, AppendProperties
    <2>4. QED
      BY <2>1, <2>2, <2>3
  <1> HIDE DEF T
  <1>3. Seq(A) \subseteq T
    BY <1>1, <1>2, EverySequence
  <1>4. QED
    BY <1>3 DEF T

\* Of two sequences each keeps its own.
LEMMA OnlyConcat ==
    ASSUME NEW A, NEW S, NEW s \in Seq(A), NEW t \in Seq(A)
    PROVE  Only(s \o t, S) = Only(s, S) \o Only(t, S)
  <1> DEFINE U == {r \in Seq(A) : Only(s \o r, S) = Only(s, S) \o Only(r, S)}
  <1>4. \A r \in Seq(A) : Only(r, S) \in Seq(A)
    BY OnlyType
  <1>5. <<>> \in U
    BY <1>4, OnlyOfEmpty, EmptySeq, ConcatEmptySeq
  <1>6. ASSUME NEW r \in Seq(A), NEW x \in A, r \in U PROVE Append(r, x) \in U
    <2>1. Append(r, x) \in Seq(A) /\ s \o r \in Seq(A)
      BY AppendProperties, ConcatProperties
    <2>2. s \o Append(r, x) = Append(s \o r, x)
      BY ConcatAppend
    <2>3. Only(s \o r, S) = Only(s, S) \o Only(r, S)
      BY <1>6
    <2>4. Only(Append(s \o r, x), S) = IF x \in S THEN Append(Only(s \o r, S), x) ELSE Only(s \o r, S)
      <3> DEFINE sr == s \o r
      <3>1. sr \in Seq(A)
        BY <2>1
      <3> HIDE DEF sr
      <3>2. Only(Append(sr, x), S) = IF x \in S THEN Append(Only(sr, S), x) ELSE Only(sr, S)
        BY <3>1, OnlyAppend
      <3>3. QED
        BY <3>2 DEF sr
    <2>7. Only(Append(r, x), S) = IF x \in S THEN Append(Only(r, S), x) ELSE Only(r, S)
      BY <2>1, OnlyAppend
    <2>5. Only(s, S) \o Append(Only(r, S), x) = Append(Only(s, S) \o Only(r, S), x)
      BY <1>4, ConcatAppend
    <2>6. QED
      BY <2>1, <2>2, <2>3, <2>4, <2>5, <2>7
  <1> HIDE DEF U
  <1>7. Seq(A) \subseteq U
    BY <1>5, <1>6, EverySequence
  <1>8. QED
    BY <1>7 DEF U

\* Nothing is left of elements that are not in S.
LEMMA OnlyNone ==
    ASSUME NEW A, NEW S, NEW s \in Seq(A), \A k \in 1 .. Len(s) : s[k] \notin S
    PROVE  Only(s, S) = <<>>
  <1> DEFINE U == {r \in Seq(A) : (\A k \in 1 .. Len(r) : r[k] \notin S) => Only(r, S) = <<>>}
  <1>1. <<>> \in U
    BY EmptySeq, OnlyOfEmpty
  <1>2. ASSUME NEW r \in Seq(A), NEW x \in A, r \in U PROVE Append(r, x) \in U
    <2>1. /\ Append(r, x) \in Seq(A) /\ Len(Append(r, x)) = Len(r) + 1 /\ Len(r) \in Nat
          /\ Append(r, x)[Len(r) + 1] = x /\ \A k \in 1 .. Len(r) : Append(r, x)[k] = r[k]
      BY AppendProperties, LenProperties
    <2>2. SUFFICES ASSUME \A k \in 1 .. Len(Append(r, x)) : Append(r, x)[k] \notin S
                   PROVE  Only(Append(r, x), S) = <<>>
      BY <2>1
    <2>3. /\ Len(r) + 1 \in 1 .. Len(Append(r, x))
          /\ \A k \in 1 .. Len(r) : k \in 1 .. Len(Append(r, x))
      BY <2>1
    <2>4. x \notin S /\ \A k \in 1 .. Len(r) : r[k] \notin S
      BY <2>1, <2>2, <2>3
    <2>5. QED
      BY <1>2, <2>4, OnlyAppend
  <1> HIDE DEF U
  <1>3. Seq(A) \subseteq U
    BY <1>1, <1>2, EverySequence
  <1>4. QED
    BY <1>3 DEF U

-----------------------------------------------------------------------------
(* Texts and utterances, which are sequences of characters.                *)
\* Texts put together are a text.
LEMMA Together ==
    /\ <<>> \in Utt
    /\ \A s \in Utt : s \o <<>> = s /\ <<>> \o s = s
    /\ \A s, t \in Utt : s \o t \in Utt
    /\ \A s, t, u \in Utt : (s \o t) \o u = s \o (t \o u)
  BY EmptySeq, ConcatEmptySeq, ConcatProperties, ConcatAssociative DEF Utt

\* What is left of a text is a text, and of two texts each keeps its own.
LEMMA OnlyTogether ==
    ASSUME NEW S
    PROVE  /\ \A s \in Utt : Only(s, S) \in Utt
           /\ \A s, t \in Utt : Only(s \o t, S) = Only(s, S) \o Only(t, S)
  BY OnlyType, OnlyConcat DEF Utt

\* The same behind a third text.
LEMMA OnlyBehind ==
    ASSUME NEW S, NEW f \in Utt, NEW s \in Utt, NEW t \in Utt
    PROVE  f \o Only(s \o t, S) = (f \o Only(s, S)) \o Only(t, S)
  <1>1. Only(s \o t, S) = Only(s, S) \o Only(t, S)
    BY OnlyTogether
  <1>2. Only(s, S) \in Utt /\ Only(t, S) \in Utt
    BY OnlyTogether
  <1>3. (f \o Only(s, S)) \o Only(t, S) = f \o (Only(s, S) \o Only(t, S))
    BY <1>2, Together
  <1>4. QED
    BY <1>1, <1>3

-----------------------------------------------------------------------------
(* What FlattenSeq makes.                                                  *)

\* f[k] is what the first k of the sequences make, one after the other.
Joins(f, ss, n) == f = [k \in 1 .. n |-> IF k = 1 THEN ss[k] ELSE f[k - 1] \o ss[k]]

\* There is such an f.
LEMMA JoinsSome == ASSUME NEW ss, NEW n \in Nat PROVE \E f : Joins(f, ss, n)
  <1> DEFINE T == {m \in Nat : \E f : Joins(f, ss, m)}
  <1>1. 0 \in T
    <2> DEFINE f == [k \in 1 .. 0 |-> <<>>]
               h == [k \in 1 .. 0 |-> IF k = 1 THEN ss[k] ELSE f[k - 1] \o ss[k]]
    <2>1. \A k \in 1 .. 0 : FALSE
      OBVIOUS
    <2>2. f = h
      BY <2>1
    <2> HIDE DEF f
    <2>3. Joins(f, ss, 0)
      BY <2>2 DEF Joins
    <2>4. QED
      BY <2>3
  <1>2. ASSUME NEW m \in Nat, m \in T PROVE m + 1 \in T
    <2>1. PICK f : Joins(f, ss, m)
      BY <1>2
    <2> DEFINE g == [k \in 1 .. m + 1 |->
                        IF k <= m THEN f[k] ELSE IF k = 1 THEN ss[k] ELSE f[m] \o ss[k]]
    <2>2. ASSUME NEW k \in 1 .. m + 1
          PROVE  g[k] = IF k = 1 THEN ss[k] ELSE g[k - 1] \o ss[k]
      <3>1. \A j \in 1 .. m : f[j] = IF j = 1 THEN ss[j] ELSE f[j - 1] \o ss[j]
        BY <2>1 DEF Joins
      <3>2. CASE k = m + 1
        <4>1. k - 1 = m /\ ~(k <= m)
          BY <3>2
        <4>2. k # 1 => g[m] = f[m]
          BY <4>1
        <4>3. QED
          BY <3>2, <4>1, <4>2
      <3>3. CASE k # m + 1
        <4>1. k \in 1 .. m /\ (k # 1 => k - 1 \in 1 .. m)
          BY <3>3
        <4>2. QED
          BY <3>1, <4>1
      <3>4. QED
        BY <3>2, <3>3
    <2>3. Joins(g, ss, m + 1)
      <3> DEFINE h == [k \in 1 .. m + 1 |-> IF k = 1 THEN ss[k] ELSE g[k - 1] \o ss[k]]
      <3>1. g = h
        <4>1. \A k \in 1 .. m + 1 : g[k] = h[k]
          BY <2>2
        <4>2. QED
          BY <4>1
      <3> HIDE DEF g
      <3>2. QED
        BY <3>1 DEF Joins
    <2>4. QED
      BY <2>3
  <1> HIDE DEF T
  <1>3. Nat \subseteq T
    BY <1>1, <1>2, EveryNumber
  <1>4. QED
    BY <1>3 DEF T

\* FlattenSeq is the last of such an f.
LEMMA FlattenJoins ==
    ASSUME NEW ss, Len(ss) \in Nat, Len(ss) # 0
    PROVE  \E f : /\ FlattenSeq(ss) = f[Len(ss)]
                  /\ \A k \in 1 .. Len(ss) : f[k] = IF k = 1 THEN ss[k] ELSE f[k - 1] \o ss[k]
  <1> DEFINE f == CHOOSE g : Joins(g, ss, Len(ss))
  <1>1. FlattenSeq(ss) = f[Len(ss)]
    BY DEF FlattenSeq, Joins
  <1>2. Joins(f, ss, Len(ss))
    BY JoinsSome
  <1> DEFINE n == Len(ss)
  <1> HIDE DEF f, n
  <1>3. Joins(f, ss, n)
    BY <1>2 DEF n
  <1>4. \A k \in 1 .. n : f[k] = IF k = 1 THEN ss[k] ELSE f[k - 1] \o ss[k]
    BY <1>3 DEF Joins
  <1>5. QED
    BY <1>1, <1>4 DEF n

\* One sequence more.
LEMMA FlattenAppend ==
    ASSUME NEW ss \in Seq(Utt), NEW x \in Utt
    PROVE  FlattenSeq(Append(ss, x)) = IF ss = <<>> THEN x ELSE FlattenSeq(ss) \o x
  <1> DEFINE n == Len(ss)
             t == Append(ss, x)
  <1>1. n \in Nat /\ Len(t) = n + 1 /\ t[n + 1] = x /\ \A k \in 1 .. n : t[k] = ss[k]
    BY AppendProperties, LenProperties
  <1>2. ss = <<>> <=> n = 0
    BY EmptySeq
  <1> HIDE DEF t
  <1>3. PICK g : /\ FlattenSeq(t) = g[n + 1]
                 /\ \A k \in 1 .. n + 1 : g[k] = IF k = 1 THEN t[k] ELSE g[k - 1] \o t[k]
    <2>1. Len(t) \in Nat /\ Len(t) # 0
      BY <1>1
    <2>2. PICK g : /\ FlattenSeq(t) = g[Len(t)]
                   /\ \A k \in 1 .. Len(t) : g[k] = IF k = 1 THEN t[k] ELSE g[k - 1] \o t[k]
      BY <2>1, FlattenJoins
    <2>3. QED
      BY <1>1, <2>2
  <1>4. CASE n = 0
    <2>1. 1 \in 1 .. n + 1 /\ n + 1 = 1
      BY <1>4
    <2>2. QED
      BY <1>1, <1>2, <1>3, <1>4, <2>1 DEF t
  <1>5. CASE n # 0
    <2>1. PICK f : /\ FlattenSeq(ss) = f[n]
                   /\ \A k \in 1 .. n : f[k] = IF k = 1 THEN ss[k] ELSE f[k - 1] \o ss[k]
      BY <1>1, <1>5, FlattenJoins
    <2> HIDE DEF n
    <2> DEFINE T == {k \in Nat : k \in 1 .. n => f[k] = g[k]}
    <2>2. 0 \in T
      OBVIOUS
    <2>3. ASSUME NEW k \in Nat, k \in T PROVE k + 1 \in T
      <3> SUFFICES ASSUME k + 1 \in 1 .. n PROVE f[k + 1] = g[k + 1]
        OBVIOUS
      <3>1. k + 1 \in 1 .. n + 1 /\ (k + 1) - 1 = k /\ (k + 1 = 1 \/ k \in 1 .. n)
        BY <1>1
      <3>2. k + 1 # 1 => f[k] = g[k]
        BY <2>3, <3>1
      <3>3. f[k + 1] = IF k + 1 = 1 THEN ss[k + 1] ELSE f[k] \o ss[k + 1]
        BY <2>1, <3>1
      <3>4. g[k + 1] = IF k + 1 = 1 THEN t[k + 1] ELSE g[k] \o t[k + 1]
        BY <1>3, <3>1
      <3>5. t[k + 1] = ss[k + 1]
        BY <1>1
      <3>6. QED
        BY <3>2, <3>3, <3>4, <3>5
    <2> HIDE DEF T
    <2>4. Nat \subseteq T
      BY <2>2, <2>3, EveryNumber
    <2>5. n \in 1 .. n /\ n + 1 \in 1 .. n + 1 /\ (n + 1) - 1 = n /\ n + 1 # 1
      BY <1>1, <1>5
    <2>6. f[n] = g[n]
      BY <1>1, <2>4, <2>5 DEF T
    <2>7. g[n + 1] = g[n] \o t[n + 1]
      BY <1>3, <2>5
    <2>8. ss # <<>>
      BY <1>2, <1>5
    <2>9. QED
      BY <1>1, <1>3, <2>1, <2>6, <2>7, <2>8 DEF t
  <1>6. QED
    BY <1>4, <1>5

\* Of no sequence nothing is made, and of texts a text.
LEMMA FlattenType ==
    /\ FlattenSeq(<<>>) = <<>>
    /\ \A ss \in Seq(Utt) : FlattenSeq(ss) \in Utt
  <1> DEFINE U == {ss \in Seq(Utt) : FlattenSeq(ss) \in Utt}
  <1>1. FlattenSeq(<<>>) = <<>>
    <2>1. Len(<<>>) = 0
      OBVIOUS
    <2>2. QED
      BY <2>1 DEF FlattenSeq
  <1>2. <<>> \in U
    BY <1>1, EmptySeq, Together
  <1>3. ASSUME NEW ss \in Seq(Utt), NEW x \in Utt, ss \in U PROVE Append(ss, x) \in U
    <2>1. FlattenSeq(ss) \in Utt /\ Append(ss, x) \in Seq(Utt)
      BY <1>3, AppendProperties
    <2>2. FlattenSeq(ss) \o x \in Utt
      BY <2>1, Together
    <2>3. FlattenSeq(Append(ss, x)) \in Utt
      BY <2>2, FlattenAppend
    <2>4. QED
      BY <2>1, <2>3
  <1> HIDE DEF U
  <1>4. Seq(Utt) \subseteq U
    BY <1>2, <1>3, EverySequence
  <1>5. QED
    BY <1>1, <1>4 DEF U

\* What is left of the characters of the utterances us.
Left(us, S) == Only(FlattenSeq(us), S)

\* It is of characters.
LEMMA LeftType ==
    ASSUME NEW S
    PROVE  /\ Left(<<>>, S) = <<>>
           /\ \A us \in Seq(Utt) : Left(us, S) \in Utt
  <1>1. Left(<<>>, S) = <<>>
    BY FlattenType, OnlyOfEmpty DEF Left
  <1>2. ASSUME NEW us \in Seq(Utt) PROVE Left(us, S) \in Utt
    <2>1. FlattenSeq(us) \in Utt
      BY FlattenType
    <2>2. QED
      BY <2>1, OnlyTogether DEF Left
  <1>3. QED
    BY <1>1, <1>2

\* One utterance more.
LEMMA LeftAppend ==
    ASSUME NEW S, NEW us \in Seq(Utt), NEW x \in Utt
    PROVE  Left(Append(us, x), S) = Left(us, S) \o Only(x, S)
  <1>1. CASE us = <<>>
    <2>1. <<>> \o Only(x, S) = Only(x, S)
      BY OnlyTogether, Together
    <2>2. FlattenSeq(Append(us, x)) = x
      BY <1>1, FlattenAppend
    <2>3. Left(us, S) = <<>>
      BY <1>1, LeftType
    <2>4. QED
      BY <2>1, <2>2, <2>3 DEF Left
  <1>2. CASE us # <<>>
    <2>1. FlattenSeq(Append(us, x)) = FlattenSeq(us) \o x
      BY <1>2, FlattenAppend
    <2> DEFINE flat == FlattenSeq(us)
    <2>2. flat \in Utt
      BY FlattenType
    <2> HIDE DEF flat
    <2>3. Only(flat \o x, S) = Only(flat, S) \o Only(x, S)
      BY <2>2, OnlyTogether
    <2>4. QED
      BY <2>1, <2>3 DEF Left, flat
  <1>3. QED
    BY <1>1, <1>2

\* A last utterance with more at its end leaves more at the end.
LEMMA LeftMore ==
    ASSUME NEW S, NEW us \in Seq(Utt), NEW x \in Utt, NEW c \in Utt
    PROVE  Left(Append(us, x \o c), S) = Left(Append(us, x), S) \o Only(c, S)
  <1> DEFINE new == x \o c
             f   == Left(us, S)
  <1>1. new \in Utt
    BY Together
  <1>2. f \in Utt
    BY LeftType
  <1> HIDE DEF new, f
  <1>3. Left(Append(us, new), S) = f \o Only(new, S)
    BY <1>1, LeftAppend DEF f
  <1>4. Left(Append(us, x), S) = f \o Only(x, S)
    BY LeftAppend DEF f
  <1>5. f \o Only(x \o c, S) = (f \o Only(x, S)) \o Only(c, S)
    BY <1>2, OnlyBehind, Zenon
  <1>6. QED
    BY <1>3, <1>4, <1>5 DEF new

\* So what goes to the last utterance comes at the end.
LEMMA LeftAddToLast ==
    ASSUME NEW S, NEW us \in Seq(Utt), us # <<>>, NEW c \in Utt
    PROVE  Left(AddToLast(us, c), S) = Left(us, S) \o Only(c, S)
  <1>1. PICK front \in Seq(Utt), last \in Utt : us = Append(front, last)
    BY SequenceEmptyOrAppend
  <1> DEFINE n    == Len(front)
             new  == last \o c
             to   == [us EXCEPT ![n + 1] = new]
             made == Append(front, new)
  <1>2. new \in Utt
    BY Together
  <1>3. /\ n \in Nat /\ Len(us) = n + 1 /\ us[n + 1] = last /\ \A k \in 1 .. n : us[k] = front[k]
    BY <1>1, AppendProperties, LenProperties
  <1> HIDE DEF new
  <1>4. /\ made \in Seq(Utt) /\ Len(made) = n + 1 /\ made[n + 1] = new
        /\ \A k \in 1 .. n : made[k] = front[k]
    BY <1>2, AppendProperties
  <1>5. AddToLast(us, c) = to
    BY <1>3 DEF AddToLast, new
  <1>6. /\ to \in Seq(Utt) /\ Len(to) = n + 1
        /\ \A k \in 1 .. n + 1 : to[k] = IF k = n + 1 THEN new ELSE us[k]
    BY <1>2, <1>3, ExceptSeq
  <1>7. Left(made, S) = Left(us, S) \o Only(c, S)
    <2>1. Left(Append(front, last \o c), S) = Left(Append(front, last), S) \o Only(c, S)
      BY LeftMore
    <2>2. QED
      BY <1>1, <2>1, Zenon DEF new
  <1> HIDE DEF to, made, n
  <1>8. \A k \in 1 .. n + 1 : to[k] = made[k]
    <2>1. \A k \in 1 .. n + 1 : k = n + 1 \/ (k \in 1 .. n /\ k # n + 1)
      BY <1>3
    <2>2. QED
      BY <1>3, <1>4, <1>6, <2>1
  <1>9. to = made
    BY <1>4, <1>6, <1>8, SeqEqual
  <1>10. QED
    BY <1>5, <1>7, <1>9

\* The first utterance and the others.
LEMMA LeftHeadTail ==
    ASSUME NEW S, NEW us \in Seq(Utt), us # <<>>
    PROVE  Left(us, S) = Only(Head(us), S) \o Left(Tail(us), S)
  <1> DEFINE U == {r \in Seq(Utt) : r # <<>> => Left(r, S) = Only(Head(r), S) \o Left(Tail(r), S)}
  <1>1. <<>> \in U
    BY EmptySeq
  <1>2. ASSUME NEW r \in Seq(Utt), NEW x \in Utt, r \in U PROVE Append(r, x) \in U
    <2>1. Append(r, x) \in Seq(Utt)
      BY AppendProperties
    <2>2. /\ Left(r, S) \in Utt /\ Only(x, S) \in Utt /\ Left(<<>>, S) = <<>>
          /\ Left(Append(r, x), S) = Left(r, S) \o Only(x, S)
      BY LeftAppend, LeftType, OnlyTogether
    <2>3. /\ Head(Append(r, x)) = IF r = <<>> THEN x ELSE Head(r)
          /\ Tail(Append(r, x)) = IF r = <<>> THEN <<>> ELSE Append(Tail(r), x)
      BY HeadTailAppend
    <2>4. CASE r = <<>>
      <3>1. <<>> \o Only(x, S) = Only(x, S) /\ Only(x, S) \o <<>> = Only(x, S)
        BY <2>2, Together
      <3>2. Left(Append(r, x), S) = Only(Head(Append(r, x)), S) \o Left(Tail(Append(r, x)), S)
        BY <2>2, <2>3, <2>4, <3>1
      <3>3. QED
        BY <2>1, <3>2
    <2>5. CASE r # <<>>
      <3>1. Head(r) \in Utt /\ Tail(r) \in Seq(Utt)
        BY <2>5, HeadTailProperties
      <3> DEFINE h == Only(Head(r), S)
                 t == Left(Tail(r), S)
                 w == Only(x, S)
      <3>2. h \in Utt /\ t \in Utt /\ w \in Utt /\ Left(Append(Tail(r), x), S) = t \o w
        BY <3>1, LeftAppend, LeftType, OnlyTogether
      <3>3. Left(r, S) = h \o t
        BY <1>2, <2>5
      <3>4. Left(Append(r, x), S) = (h \o t) \o w
        BY <2>2, <3>3
      <3>5. Only(Head(Append(r, x)), S) = h /\ Left(Tail(Append(r, x)), S) = t \o w
        BY <2>3, <2>5, <3>2
      <3> HIDE DEF h, t, w
      <3>8. h \in Utt /\ t \in Utt /\ w \in Utt
        BY <3>2
      <3>6. (h \o t) \o w = h \o (t \o w)
        BY <3>8, Together
      <3>7. QED
        BY <2>1, <3>4, <3>5, <3>6
    <2>6. QED
      BY <2>4, <2>5
  <1> HIDE DEF U
  <1>3. Seq(Utt) \subseteq U
    BY <1>1, <1>2, EverySequence
  <1>4. QED
    BY <1>3 DEF U

\* Leaving out utterances of which nothing is left changes nothing.
LEMMA LeftOfSome ==
    ASSUME NEW S, NEW Some, NEW us \in Seq(Utt),
           \A k \in 1 .. Len(us) : us[k] \notin Some => Only(us[k], S) = <<>>
    PROVE  Left(Only(us, Some), S) = Left(us, S)
  <1> DEFINE U == {r \in Seq(Utt) :
                     (\A k \in 1 .. Len(r) : r[k] \notin Some => Only(r[k], S) = <<>>)
                         => Left(Only(r, Some), S) = Left(r, S)}
  <1>1. <<>> \in U
    BY EmptySeq, OnlyOfEmpty
  <1>2. ASSUME NEW r \in Seq(Utt), NEW x \in Utt, r \in U PROVE Append(r, x) \in U
    <2>1. /\ Append(r, x) \in Seq(Utt) /\ Len(Append(r, x)) = Len(r) + 1 /\ Len(r) \in Nat
          /\ Append(r, x)[Len(r) + 1] = x /\ \A k \in 1 .. Len(r) : Append(r, x)[k] = r[k]
      BY AppendProperties, LenProperties
    <2> DEFINE a == Append(r, x)
    <2>2. SUFFICES ASSUME \A k \in 1 .. Len(a) : a[k] \notin Some => Only(a[k], S) = <<>>
                   PROVE  Left(Only(a, Some), S) = Left(a, S)
      BY <2>1
    <2>3. Len(r) + 1 \in 1 .. Len(a) /\ \A k \in 1 .. Len(r) : k \in 1 .. Len(a)
      BY <2>1
    <2>4. /\ x \notin Some => Only(x, S) = <<>>
          /\ \A k \in 1 .. Len(r) : r[k] \notin Some => Only(r[k], S) = <<>>
      BY <2>1, <2>2, <2>3
    <2>5. Left(Only(r, Some), S) = Left(r, S)
      BY <1>2, <2>4
    <2>6. Only(a, Some) = IF x \in Some THEN Append(Only(r, Some), x) ELSE Only(r, Some)
      BY OnlyAppend
    <2>7. Only(r, Some) \in Seq(Utt)
      BY OnlyType
    <2>8. /\ Left(Append(Only(r, Some), x), S) = Left(Only(r, Some), S) \o Only(x, S)
          /\ Left(a, S) = Left(r, S) \o Only(x, S) /\ Left(r, S) \in Utt
      BY <2>7, LeftAppend, LeftType
    <2>9. Left(r, S) \o <<>> = Left(r, S)
      BY <2>8, Together
    <2>10. QED
      BY <2>4, <2>5, <2>6, <2>8, <2>9
  <1> HIDE DEF U
  <1>3. Seq(Utt) \subseteq U
    BY <1>1, <1>2, EverySequence
  <1>4. QED
    BY <1>3 DEF U

-----------------------------------------------------------------------------
(* Parts of a text.                                                        *)
\* A prefix and the suffix behind it.
LEMMA Parts ==
    ASSUME NEW s \in Utt, NEW t \in Utt
    PROVE  /\ SubSeq(s \o t, Len(s) + 1, Len(s \o t)) = t
           /\ SubSeq(s \o t, 1, Len(s \o t) - Len(t)) = s
  <1>1. /\ s \o t \in Utt /\ Len(s \o t) = Len(s) + Len(t) /\ Len(s) \in Nat /\ Len(t) \in Nat
        /\ \A k \in 1 .. Len(s) + Len(t) :
               (s \o t)[k] = IF k <= Len(s) THEN s[k] ELSE t[k - Len(s)]
    BY ConcatProperties, LenProperties DEF Utt
  <1> DEFINE w == s \o t
  <1>2. \A k \in 1 .. Len(w) : w[k] \in Kinds
    BY <1>1, ElementOfSeq DEF Utt
  <1> HIDE DEF w
  <1>3. w \in Utt /\ Len(w) = Len(s) + Len(t)
    BY <1>1 DEF w
  <1>4. SubSeq(w, Len(s) + 1, Len(w)) = t
    <2> DEFINE v == SubSeq(w, Len(s) + 1, Len(w))
    <2>1. \A k \in Len(s) + 1 .. Len(w) : w[k] \in Kinds
      BY <1>1, <1>2, <1>3
    <2>2. /\ v \in Utt /\ Len(v) = IF Len(s) + 1 <= Len(w) THEN Len(w) - (Len(s) + 1) + 1 ELSE 0
          /\ \A k \in 1 .. Len(w) - (Len(s) + 1) + 1 : v[k] = w[Len(s) + 1 + k - 1]
      BY <1>1, <1>3, <2>1, SubSeqProperties DEF Utt
    <2> HIDE DEF v
    <2>3. Len(v) = Len(t)
      BY <1>1, <1>3, <2>2
    <2>4. \A k \in 1 .. Len(t) : v[k] = t[k]
      BY <1>1, <1>3, <2>2 DEF w
    <2>5. v = t
      BY <2>2, <2>3, <2>4, SeqEqual DEF Utt
    <2>6. QED
      BY <2>5 DEF v
  <1>5. SubSeq(w, 1, Len(w) - Len(t)) = s
    <2> DEFINE v == SubSeq(w, 1, Len(s))
    <2>1. \A k \in 1 .. Len(s) : w[k] \in Kinds
      BY <1>1, <1>2, <1>3
    <2>2. /\ v \in Utt /\ Len(v) = IF 1 <= Len(s) THEN Len(s) - 1 + 1 ELSE 0
          /\ \A k \in 1 .. Len(s) - 1 + 1 : v[k] = w[1 + k - 1]
      BY <1>1, <2>1, SubSeqProperties DEF Utt
    <2> HIDE DEF v
    <2>3. Len(v) = Len(s)
      BY <1>1, <2>2
    <2>4. \A k \in 1 .. Len(s) : v[k] = s[k]
      BY <1>1, <1>3, <2>2 DEF w
    <2>5. v = s
      BY <2>2, <2>3, <2>4, SeqEqual DEF Utt
    <2>6. Len(w) - Len(t) = Len(s)
      BY <1>1, <1>3
    <2>7. QED
      BY <2>5, <2>6 DEF v
  <1>6. QED
    BY <1>4, <1>5 DEF w

\* A sentence is long by itself alone.
LEMMA SentenceIsLong ==
    ASSUME NEW utt \in Utt, OneSentence(utt)
    PROVE  LongBySentence(utt)
  <1>1. SubSeq(utt, 0 + 1, Len(utt)) = utt /\ 0 \in 0 .. TokenMinN
    BY SubSeqFull, LimitsAssumption DEF Utt
  <1>2. QED
    BY <1>1 DEF LongBySentence

\* Characters without a stop and then one are a sentence.
LEMMA ClosedSentence ==
    ASSUME NEW body \in Utt, NEW c \in Kinds, \A k \in 1 .. Len(body) : body[k] # "stop"
    PROVE  Append(body, c) \in Utt /\ OneSentence(Append(body, c))
  <1> DEFINE a == Append(body, c)
  <1>1. /\ a \in Utt /\ Len(a) = Len(body) + 1 /\ Len(body) \in Nat
        /\ \A k \in 1 .. Len(body) : a[k] = body[k]
    BY AppendProperties, LenProperties DEF Utt
  <1> HIDE DEF a
  <1>2. OneSentence(a)
    BY <1>1 DEF OneSentence
  <1>3. QED
    BY <1>1, <1>2 DEF a

\* So is a sentence and a quote.
LEMMA QuotedSentence ==
    ASSUME NEW utt \in Utt, OneSentence(utt)
    PROVE  utt \o <<"quote">> \in Utt /\ OneSentence(utt \o <<"quote">>)
  <1>1. "quote" \in Kinds
    BY DEF Kinds
  <1>2. utt \o <<"quote">> = Append(utt, "quote")
    BY <1>1, AppendIsConcat DEF Utt
  <1> DEFINE a == Append(utt, "quote")
  <1>3. /\ a \in Utt /\ Len(a) = Len(utt) + 1 /\ Len(utt) \in Nat
        /\ (\A k \in 1 .. Len(utt) : a[k] = utt[k]) /\ a[Len(utt) + 1] = "quote"
    BY <1>1, AppendProperties, LenProperties DEF Utt
  <1> HIDE DEF a
  <1>4. OneSentence(a)
    <2> SUFFICES ASSUME NEW k \in 1 .. Len(a), a[k] = "stop", NEW j \in k + 1 .. Len(a)
                 PROVE  a[j] = "quote"
      BY DEF OneSentence
    <2>1. CASE j = Len(utt) + 1
      BY <1>3, <2>1
    <2>2. CASE j # Len(utt) + 1
      <3>1. k \in 1 .. Len(utt) /\ j \in k + 1 .. Len(utt) /\ j \in 1 .. Len(utt)
        BY <1>3, <2>2
      <3>2. QED
        BY <1>3, <3>1 DEF OneSentence
    <2>3. QED
      BY <2>1, <2>2
  <1>5. QED
    BY <1>2, <1>3, <1>4 DEF a

-----------------------------------------------------------------------------
(* The cut.                                                                *)
LEMMA InitIInv == Init => IInv
  <1> SUFFICES ASSUME Init PROVE IInv
    OBVIOUS
  <1>1. text \in Utt
    BY TextsAssumption DEF Init, Utt
  <1>2. words \in Utt
    <2>1. Append(text, "stop") \in Utt
      BY <1>1, AppendProperties DEF Utt, Kinds
    <2>2. QED
      BY <1>1, <2>1, EmptySeq DEF Init, Ended, Utt
  <1>3. TypeOK
    BY <1>1, <1>2, EmptySeq DEF Init, TypeOK, Utt
  <1>4. CutsAtStops /\ Sentences /\ MergesInLimits /\ LengthsKept
    BY DEF Init, CutsAtStops, Sentences, MergesInLimits, LengthsKept, LongOnlyBySentence,
           NotShort
  <1>5. QED
    BY <1>3, <1>4 DEF IInv

\* At a stop a sentence is cut off, or its quote goes with the one before.
LEMMA CutAtStopSentences ==
    ASSUME TypeOK, CutsAtStops, Sentences, pc = "cut", i <= Len(words), words[i] = "stop", CutAtStop
    PROVE  utts' \in Seq(Utt) /\ Sentences'
  <1> DEFINE body   == SubSeq(words, st, i - 1)
             closed == IF body = <<>> THEN utts ELSE Append(utts, Append(body, words[i]))
  <1>1. /\ words \in Utt /\ Len(words) \in Nat /\ i \in 1 .. Len(words) /\ st \in Nat /\ st > 0
        /\ words[i] \in Kinds
    BY LenProperties, ElementOfSeq DEF TypeOK, CutsAtStops, Utt
  <1>2. body \in Utt /\ \A k \in 1 .. Len(body) : body[k] # "stop"
    <2>1. \A k \in st .. i - 1 : words[k] \in Kinds
      BY <1>1, ElementOfSeq DEF Utt
    <2>2. /\ body \in Utt /\ Len(body) = IF st <= i - 1 THEN (i - 1) - st + 1 ELSE 0
          /\ \A k \in 1 .. (i - 1) - st + 1 : body[k] = words[st + k - 1]
      BY <1>1, <2>1, SubSeqProperties DEF Utt
    <2> HIDE DEF body
    <2>3. QED
      BY <1>1, <2>2 DEF CutsAtStops
  <1>3. closed \in Seq(Utt) /\ \A u \in 1 .. Len(closed) : OneSentence(closed[u])
    <2> DEFINE new == Append(body, words[i])
    <2>1. new \in Utt /\ OneSentence(new)
      BY <1>1, <1>2, ClosedSentence
    <2> HIDE DEF body, new
    <2>2. utts \in Seq(Utt) /\ Len(utts) \in Nat /\ \A u \in 1 .. Len(utts) : OneSentence(utts[u])
      BY LenProperties DEF TypeOK, Sentences
    <2>3. /\ Append(utts, new) \in Seq(Utt) /\ Len(Append(utts, new)) = Len(utts) + 1
          /\ \A u \in 1 .. Len(utts) : Append(utts, new)[u] = utts[u]
          /\ Append(utts, new)[Len(utts) + 1] = new
      BY <2>1, <2>2, AppendProperties
    <2>4. \A u \in 1 .. Len(utts) + 1 : u \in 1 .. Len(utts) \/ u = Len(utts) + 1
      BY <2>2
    <2>5. \A u \in 1 .. Len(Append(utts, new)) : OneSentence(Append(utts, new)[u])
      BY <2>1, <2>2, <2>3, <2>4
    <2>6. QED
      BY <2>2, <2>3, <2>5 DEF new
  <1>4. utts' = IF QuoteFollows /\ closed # <<>> THEN AddToLast(closed, <<"quote">>) ELSE closed
    BY DEF CutAtStop
  <1> HIDE DEF closed
  <1>5. CASE QuoteFollows /\ closed # <<>>
    <2> DEFINE last == Len(closed)
               new  == closed[last] \o <<"quote">>
    <2>1. last \in 1 .. Len(closed)
      BY <1>3, <1>5, EmptySeq
    <2>2. closed[last] \in Utt /\ OneSentence(closed[last])
      BY <1>3, <2>1, ElementOfSeq
    <2>3. new \in Utt /\ OneSentence(new)
      BY <2>2, QuotedSentence
    <2>4. utts' = [closed EXCEPT ![last] = new]
      BY <1>4, <1>5 DEF AddToLast
    <2> HIDE DEF last, new
    <2>5. /\ [closed EXCEPT ![last] = new] \in Seq(Utt)
          /\ Len([closed EXCEPT ![last] = new]) = Len(closed)
          /\ \A u \in 1 .. Len(closed) :
                 [closed EXCEPT ![last] = new][u] = IF u = last THEN new ELSE closed[u]
      BY <1>3, <2>1, <2>3, ExceptSeq
    <2>6. \A u \in 1 .. Len(utts') : OneSentence(utts'[u])
      BY <1>3, <2>3, <2>4, <2>5
    <2>7. QED
      BY <2>4, <2>5, <2>6 DEF Sentences
  <1>6. CASE ~(QuoteFollows /\ closed # <<>>)
    BY <1>3, <1>4, <1>6 DEF Sentences
  <1>7. QED
    BY <1>5, <1>6

\* A turn of the loop that cuts, and its end.
LEMMA CutKeeps == ASSUME IInv, Cut PROVE IInv'
  <1>1. /\ pc = "cut" /\ pc' = "cut" /\ i <= Len(words) /\ i' = i + 1 /\ UNCHANGED <<text, words, cur, final>>
        /\ TypeOK /\ CutsAtStops /\ Sentences /\ i \in Nat /\ st \in Nat /\ i > 0 /\ st > 0
    BY DEF Cut, IInv, TypeOK, CutsAtStops
  <1>2. CASE words[i] = "stop"
    <2>1. utts' \in Seq(Utt) /\ Sentences'
      BY <1>1, <1>2, CutAtStopSentences DEF Cut
    <2>2. st' = i + 1 \/ st' = i + 2
      BY <1>2 DEF Cut, CutAtStop
    <2>3. TypeOK'
      BY <1>1, <2>1, <2>2 DEF TypeOK
    <2>4. CutsAtStops'
      <3>1. \A k \in st' .. i' - 1 : FALSE
        BY <1>1, <2>2
      <3>2. QED
        BY <1>1, <2>2, <3>1 DEF CutsAtStops
    <2>5. QED
      BY <1>1, <2>1, <2>3, <2>4
         DEF IInv, MergesInLimits, LengthsKept, LongOnlyBySentence, NotShort
  <1>3. CASE words[i] # "stop"
    <2>1. utts' = utts /\ st' = st
      BY <1>3 DEF Cut
    <2>2. TypeOK' /\ Sentences'
      BY <1>1, <2>1 DEF TypeOK, Sentences
    <2>3. CutsAtStops'
      <3>1. \A k \in st .. i' - 1 : k \in st .. i - 1 \/ k = i
        BY <1>1
      <3>2. QED
        BY <1>1, <1>3, <2>1, <3>1 DEF CutsAtStops
    <2>4. QED
      BY <1>1, <2>2, <2>3
         DEF IInv, MergesInLimits, LengthsKept, LongOnlyBySentence, NotShort
  <1>4. QED
    BY <1>2, <1>3

\* The merge begins with nothing gathered.
LEMMA EndCutKeeps == ASSUME IInv, EndCut PROVE IInv'
  <1>1. /\ pc = "cut" /\ pc' = "merge" /\ cur = <<>> /\ final = <<>>
        /\ UNCHANGED <<text, words, i, st, utts, cur, final>>
    BY DEF EndCut, IInv, CutsAtStops, cutting
  <1>2. TypeOK' /\ CutsAtStops' /\ Sentences' /\ LengthsKept'
    BY <1>1 DEF IInv, TypeOK, CutsAtStops, Sentences, LengthsKept, LongOnlyBySentence, NotShort
  <1>3. LongBySentence(<<>>)
    BY LimitsAssumption DEF LongBySentence
  <1>4. MergesInLimits'
    BY <1>1, <1>3 DEF MergesInLimits
  <1>5. QED
    BY <1>2, <1>4 DEF IInv

-----------------------------------------------------------------------------
(* The merge.                                                              *)

\* A turn of the loop that merges: what is handed on has reached TokenMinN, and what is
\* gathered is short enough, or its last sentence came behind little.
LEMMA MergeKeeps == ASSUME IInv, Merge PROVE IInv'
  <1> DEFINE h == Head(utts)
  <1>1. /\ pc = "merge" /\ pc' = "merge" /\ utts # <<>> /\ utts' = Tail(utts)
        /\ UNCHANGED <<text, words, i, st>>
        /\ final' = IF TooLong(h) THEN Append(final, cur) ELSE final
        /\ cur' = IF TooLong(h) THEN h ELSE cur \o h
    BY DEF Merge, cutting
  <1>2. /\ utts \in Seq(Utt) /\ cur \in Utt /\ final \in Seq(Utt) /\ Len(cur) \in Nat /\ Len(final) \in Nat
        /\ Sentences /\ LongBySentence(cur)
        /\ \A u \in 1 .. Len(final) : LongBySentence(final[u]) /\ Len(final[u]) > TokenMinN
    BY <1>1, LenProperties DEF IInv, TypeOK, MergesInLimits, Utt
  <1>3. /\ h \in Utt /\ Tail(utts) \in Seq(Utt) /\ OneSentence(h)
        /\ \A u \in 1 .. Len(Tail(utts)) : OneSentence(Tail(utts)[u])
    <2>1. Len(utts) \in Nat \ {0} /\ h = utts[1]
      BY <1>1, <1>2, EmptySeq
    <2>2. /\ h \in Utt /\ Tail(utts) \in Seq(Utt) /\ Len(Tail(utts)) = Len(utts) - 1
          /\ \A u \in 1 .. Len(Tail(utts)) : Tail(utts)[u] = utts[u + 1]
      BY <1>1, <1>2, HeadTailProperties
    <2>3. \A u \in 1 .. Len(utts) - 1 : u + 1 \in 1 .. Len(utts)
      BY <2>1
    <2>4. QED
      BY <1>2, <2>1, <2>2, <2>3 DEF Sentences
  <1> HIDE DEF h
  <1>4. Sentences'
    BY <1>1, <1>3 DEF Sentences
  <1>5. cur' \in Utt /\ LongBySentence(cur')
    <2>1. CASE TooLong(h)
      BY <1>1, <1>3, <2>1, SentenceIsLong
    <2>2. CASE ~TooLong(h)
      <3>1. cur \o h \in Utt /\ Len(cur \o h) = Len(cur) + Len(h) /\ Len(h) \in Nat
        BY <1>2, <1>3, ConcatProperties, LenProperties DEF Utt
      <3>2. Len(cur \o h) <= TokenMaxN \/ Len(cur) \in 0 .. TokenMinN
        BY <1>2, <2>2, <3>1, LimitsAssumption DEF TooLong
      <3>3. SubSeq(cur \o h, Len(cur) + 1, Len(cur \o h)) = h
        BY <1>2, <1>3, Parts
      <3>4. LongBySentence(cur \o h)
        BY <1>3, <3>2, <3>3 DEF LongBySentence
      <3>5. QED
        BY <1>1, <2>2, <3>1, <3>4
    <2>3. QED
      BY <2>1, <2>2
  <1>6. /\ final' \in Seq(Utt)
        /\ \A u \in 1 .. Len(final') : LongBySentence(final'[u]) /\ Len(final'[u]) > TokenMinN
    <2>1. CASE TooLong(h)
      <3>1. Len(cur) > TokenMinN
        BY <2>1 DEF TooLong
      <3>2. /\ Append(final, cur) \in Seq(Utt) /\ Len(Append(final, cur)) = Len(final) + 1
            /\ \A u \in 1 .. Len(final) : Append(final, cur)[u] = final[u]
            /\ Append(final, cur)[Len(final) + 1] = cur
        BY <1>2, AppendProperties
      <3>3. \A u \in 1 .. Len(final) + 1 : u \in 1 .. Len(final) \/ u = Len(final) + 1
        BY <1>2
      <3>4. QED
        BY <1>1, <1>2, <2>1, <3>1, <3>2, <3>3
    <2>2. CASE ~TooLong(h)
      BY <1>1, <1>2, <2>2
    <2>3. QED
      BY <2>1, <2>2
  <1>7. TypeOK'
    BY <1>1, <1>3, <1>5, <1>6 DEF IInv, TypeOK
  <1>8. MergesInLimits'
    BY <1>1, <1>5, <1>6 DEF MergesInLimits, LongBySentence
  <1>9. QED
    BY <1>1, <1>4, <1>7, <1>8 DEF IInv, CutsAtStops, LengthsKept, LongOnlyBySentence, NotShort

\* What LengthsKept promises of a list of utterances.
Kept(f) ==
    \A u \in 1 .. Len(f) :
        /\ \E tail \in 0 .. IF u = Len(f) /\ MergeLen > 0 THEN MergeLen - 1 ELSE 0 :
               LongBySentence(SubSeq(f[u], 1, Len(f[u]) - tail))
        /\ IF u < Len(f) THEN Len(f[u]) > TokenMinN
           ELSE u > 1 => Len(f[u]) >= MergeLen

\* An utterance that is long by a sentence is so without a tail.
LEMMA NoTail ==
    ASSUME NEW utt \in Utt, LongBySentence(utt), NEW n \in Nat
    PROVE  \E tail \in 0 .. n : LongBySentence(SubSeq(utt, 1, Len(utt) - tail))
  <1>1. Len(utt) \in Nat /\ SubSeq(utt, 1, Len(utt)) = utt
    BY SubSeqFull, LenProperties DEF Utt
  <1>2. Len(utt) - 0 = Len(utt) /\ 0 \in 0 .. n
    BY <1>1
  <1>3. QED
    BY <1>1, <1>2

\* What is left in cur is a tail of the last utterance or the last one.
LEMMA EndMergeKept ==
    ASSUME TypeOK, MergesInLimits, pc = "merge",
           NEW f, f = IF cur = <<>> THEN final ELSE WithTail
    PROVE  f \in Seq(Utt) /\ Kept(f)
  <1> DEFINE Room(u, g) == IF u = Len(g) /\ MergeLen > 0 THEN MergeLen - 1 ELSE 0
  <1>1. /\ cur \in Utt /\ final \in Seq(Utt) /\ Len(cur) \in Nat /\ Len(final) \in Nat
        /\ LongBySentence(cur) /\ MergeLen \in Nat /\ TokenMinN \in Nat /\ MergeLen <= TokenMinN + 1
        /\ \A u \in 1 .. Len(final) :
               /\ final[u] \in Utt /\ Len(final[u]) \in Nat
               /\ LongBySentence(final[u]) /\ Len(final[u]) > TokenMinN
    BY LenProperties, ElementOfSeq, LimitsAssumption DEF TypeOK, MergesInLimits, Utt
  <1>2. \A g : \A u \in 1 .. Len(g) : Room(u, g) \in Nat
    BY <1>1
  <1>3. CASE cur = <<>>
    <2>1. \A u \in 1 .. Len(final) :
              \E tail \in 0 .. Room(u, final) : LongBySentence(SubSeq(final[u], 1, Len(final[u]) - tail))
      BY <1>1, <1>2, NoTail
    <2>2. QED
      BY <1>1, <1>3, <2>1 DEF Kept
  <1>4. CASE cur # <<>> /\ ShouldMerge(cur) /\ final # <<>>
    <2> DEFINE last == Len(final)
               new  == final[last] \o cur
    <2>1. last \in 1 .. Len(final) /\ Len(cur) < MergeLen
      BY <1>1, <1>4, EmptySeq DEF ShouldMerge
    <2>2. new \in Utt /\ Len(new) = Len(final[last]) + Len(cur) /\ SubSeq(new, 1, Len(new) - Len(cur)) = final[last]
      BY <1>1, <2>1, ConcatProperties, Parts DEF Utt
    <2>3. f = [final EXCEPT ![last] = new]
      BY <1>4 DEF WithTail, AddToLast
    <2> HIDE DEF new
    <2>4. /\ f \in Seq(Utt) /\ Len(f) = Len(final)
          /\ \A u \in 1 .. Len(final) : f[u] = IF u = last THEN new ELSE final[u]
      <3> DEFINE g == [final EXCEPT ![last] = new]
      <3>1. /\ g \in Seq(Utt) /\ Len(g) = Len(final)
            /\ \A u \in 1 .. Len(final) : g[u] = IF u = last THEN new ELSE final[u]
        BY <1>1, <2>1, <2>2, ExceptSeq
      <3> HIDE DEF g
      <3>2. f = g
        BY <2>3 DEF g
      <3>3. QED
        BY <3>1, <3>2
    <2> SUFFICES ASSUME NEW u \in 1 .. Len(f)
                 PROVE  /\ \E tail \in 0 .. Room(u, f) : LongBySentence(SubSeq(f[u], 1, Len(f[u]) - tail))
                        /\ IF u < Len(f) THEN Len(f[u]) > TokenMinN
                           ELSE u > 1 => Len(f[u]) >= MergeLen
      BY <2>4 DEF Kept
    <2>5. CASE u = last
      <3>1. Len(cur) \in 0 .. Room(u, f) /\ f[u] = new /\ ~(u < Len(f))
        BY <1>1, <2>1, <2>4, <2>5
      <3>2. LongBySentence(SubSeq(f[u], 1, Len(f[u]) - Len(cur)))
        BY <1>1, <2>1, <2>2, <3>1
      <3>3. Len(f[u]) >= MergeLen
        BY <1>1, <2>1, <2>2, <3>1
      <3>4. QED
        BY <3>1, <3>2, <3>3
    <2>6. CASE u # last
      <3>1. f[u] = final[u] /\ u \in 1 .. Len(final) /\ u < Len(f)
        BY <1>1, <2>4, <2>6
      <3>2. \E tail \in 0 .. Room(u, f) : LongBySentence(SubSeq(f[u], 1, Len(f[u]) - tail))
        BY <1>1, <1>2, <3>1, NoTail
      <3>3. QED
        BY <1>1, <3>1, <3>2
    <2>7. QED
      BY <2>5, <2>6
  <1>5. CASE cur # <<>> /\ ~(ShouldMerge(cur) /\ final # <<>>)
    <2>1. f = Append(final, cur)
      BY <1>5 DEF WithTail
    <2>2. /\ f \in Seq(Utt) /\ Len(f) = Len(final) + 1
          /\ (\A u \in 1 .. Len(final) : f[u] = final[u]) /\ f[Len(final) + 1] = cur
      <3> DEFINE g == Append(final, cur)
      <3>1. /\ g \in Seq(Utt) /\ Len(g) = Len(final) + 1
            /\ (\A u \in 1 .. Len(final) : g[u] = final[u]) /\ g[Len(final) + 1] = cur
        BY <1>1, AppendProperties
      <3> HIDE DEF g
      <3>2. f = g
        BY <2>1 DEF g
      <3>3. QED
        BY <3>1, <3>2
    <2> SUFFICES ASSUME NEW u \in 1 .. Len(f)
                 PROVE  /\ \E tail \in 0 .. Room(u, f) : LongBySentence(SubSeq(f[u], 1, Len(f[u]) - tail))
                        /\ IF u < Len(f) THEN Len(f[u]) > TokenMinN
                           ELSE u > 1 => Len(f[u]) >= MergeLen
      BY <2>2 DEF Kept
    <2>3. f[u] \in Utt /\ LongBySentence(f[u]) /\ (u < Len(f) => Len(f[u]) > TokenMinN)
      BY <1>1, <2>2
    <2>4. ~(u < Len(f)) /\ u > 1 => Len(f[u]) >= MergeLen
      <3>1. SUFFICES ASSUME ~(u < Len(f)), u > 1 PROVE Len(f[u]) >= MergeLen
        OBVIOUS
      <3>2. f[u] = cur /\ final # <<>>
        BY <1>1, <2>2, <3>1, EmptySeq
      <3>3. QED
        BY <1>1, <1>5, <3>2 DEF ShouldMerge
    <2>5. \E tail \in 0 .. Room(u, f) : LongBySentence(SubSeq(f[u], 1, Len(f[u]) - tail))
      BY <1>2, <2>3, NoTail
    <2>6. QED
      BY <2>3, <2>4, <2>5
  <1>6. QED
    BY <1>3, <1>4, <1>5

\* The end of the merge.
LEMMA EndMergeKeeps == ASSUME IInv, EndMerge PROVE IInv'
  <1>1. /\ pc = "merge" /\ pc' = "normalize" /\ UNCHANGED <<text, words, i, st, utts, cur>>
        /\ final' = IF cur = <<>> THEN final ELSE WithTail
        /\ TypeOK /\ MergesInLimits /\ Sentences
    BY DEF EndMerge, cutting, IInv
  <1>2. final' \in Seq(Utt) /\ Kept(final')
    BY <1>1, EndMergeKept
  <1>3. TypeOK' /\ CutsAtStops' /\ Sentences' /\ MergesInLimits'
    BY <1>1, <1>2 DEF TypeOK, CutsAtStops, Sentences, MergesInLimits
  <1>4. LengthsKept'
    BY <1>2 DEF Kept, LengthsKept, LongOnlyBySentence, NotShort, LongBySentence
  <1>5. QED
    BY <1>3, <1>4 DEF IInv

\* So no step disturbs the invariant.
LEMMA NextIInv == IInv /\ [Next]_vars => IInv'
  <1> SUFFICES ASSUME IInv, [Next]_vars PROVE IInv'
    OBVIOUS
  <1>1. CASE EraseOnlyPunctuation
    <2>1. /\ pc' = "done" /\ UNCHANGED <<text, words, i, st, utts, cur>>
          /\ final' = Only(final, {utt \in Range(final) : ~OnlyPunctuation(utt)})
      BY <1>1 DEF EraseOnlyPunctuation, cutting
    <2>2. final' \in Seq(Utt)
      BY <2>1, OnlyType DEF IInv, TypeOK
    <2>3. QED
      BY <2>1, <2>2 DEF IInv, TypeOK, CutsAtStops, Sentences, MergesInLimits, LengthsKept,
                        LongOnlyBySentence, NotShort
  <1>2. CASE UNCHANGED vars
    BY <1>2 DEF vars, cutting, IInv, TypeOK, CutsAtStops, Sentences, MergesInLimits,
       LengthsKept,
                LongOnlyBySentence, NotShort
  <1>3. QED
    BY <1>1, <1>2, CutKeeps, EndCutKeeps, MergeKeeps, EndMergeKeeps DEF Next

(* The invariant holds in every behaviour: what is cut is a sentence each, *)
(* and what is merged keeps to the limits.                                 *)
THEOREM IInvHolds == Spec => []IInv
  BY InitIInv, NextIInv, PTL DEF Spec

(* An utterance of split_paragraph is longer than its limit only by one    *)
(* sentence and a short tail, and only the last one may be short.          *)
THEOREM LengthsKeptHolds == Spec => []LengthsKept
  <1>1. IInv => LengthsKept
    BY DEF IInv
  <1>2. QED
    BY <1>1, IInvHolds, PTL

-----------------------------------------------------------------------------
(* Nothing is lost.                                                        *)

\* What has to be kept: words and commas, or words alone.  Stops and quotes are not.
Wanted == {{"word", "comma"}, {"word"}}

\* What CutsAtStops does not say of the loop that cuts: it ends with a stop, and it
\* leaves out no more than a quote.
CutPlaces ==
    pc = "cut" => /\ text # <<>> /\ words = Ended(text) /\ i <= Len(words) + 1
                  /\ st = i + 1 => i <= Len(words) /\ words[i] = "quote"

\* What is cut and the characters since then are all characters read so far; what is
\* merged, what is gathered and what is still to be merged are the text.
TextSoFar ==
    \A S \in Wanted :
        /\ pc = "cut" =>
               Left(utts, S) \o Only(SubSeq(words, st, i - 1), S) = Only(SubSeq(words, 1, i - 1), S)
        /\ pc = "merge" => (Left(final, S) \o Only(cur, S)) \o Left(utts, S) = Only(text, S)
        /\ pc = "normalize" => Left(final, S) = Only(text, S)

\* At the end the words are left.
WordsLeft == pc = "done" => Left(final, {"word"}) = Only(text, {"word"})

\* The inductive invariant of KeepsText.
TextInv == IInv /\ CutPlaces /\ TextSoFar /\ WordsLeft

\* A stop and a quote are not wanted.
LEMMA Marks ==
    /\ "stop" \in Kinds /\ "quote" \in Kinds
    /\ \A S \in Wanted : "stop" \notin S /\ "quote" \notin S
  BY DEF Wanted, Kinds

\* One character more.
LEMMA OnlyChar ==
    ASSUME NEW S, NEW s \in Utt, NEW x \in Kinds
    PROVE  /\ Append(s, x) \in Utt
           /\ x \in S => Only(Append(s, x), S) = Append(Only(s, S), x)
           /\ x \notin S => Only(Append(s, x), S) = Only(s, S)
  BY OnlyAppend, AppendProperties DEF Utt

\* Of a quote nothing is left.
LEMMA OnlyQuote == ASSUME NEW S \in Wanted PROVE <<"quote">> \in Utt /\ Only(<<"quote">>, S) = <<>>
  <1>1. Append(<<>>, "quote") = <<"quote">>
    OBVIOUS
  <1>2. Append(<<>>, "quote") \in Utt /\ Only(Append(<<>>, "quote"), S) = Only(<<>>, S)
    BY Marks, OnlyChar, Together
  <1>3. QED
    BY <1>1, <1>2, OnlyOfEmpty

\* A part of a text that is longer by the character at n.
LEMMA Longer ==
    ASSUME NEW s \in Utt, NEW m \in 1 .. Len(s), NEW n \in m .. Len(s)
    PROVE  /\ s[n] \in Kinds /\ SubSeq(s, m, n - 1) \in Utt
           /\ SubSeq(s, m, n) = Append(SubSeq(s, m, n - 1), s[n])
  <1>1. Len(s) \in Nat /\ m \in Nat /\ n \in Nat /\ n \in 1 .. Len(s)
    BY LenProperties DEF Utt
  <1>2. s[n] \in Kinds
    BY <1>1, ElementOfSeq DEF Utt
  <1>3. SubSeq(s, m, n - 1) \in Utt
    <2>1. \A k \in m .. n - 1 : s[k] \in Kinds
      <3>1. \A k \in m .. n - 1 : k \in 1 .. Len(s)
        BY <1>1
      <3>2. QED
        BY <3>1, ElementOfSeq DEF Utt
    <2>2. QED
      BY <1>1, <2>1, SubSeqProperties DEF Utt
  <1> DEFINE front == SubSeq(s, m, n - 1)
             x     == s[n]
  <1>4. SubSeq(s, m, n) = front \o <<x>>
    BY SubSeqRecursiveSecond DEF Utt
  <1>5. front \in Seq(Kinds) /\ x \in Kinds
    BY <1>2, <1>3 DEF Utt
  <1> HIDE DEF front, x
  <1>6. Append(front, x) = front \o <<x>>
    BY <1>5, AppendIsConcat
  <1>7. QED
    BY <1>2, <1>3, <1>4, <1>6 DEF front, x

\* The text that is cut is the argument but for a stop.
LEMMA EndedText ==
    ASSUME NEW t \in Utt, t # <<>>
    PROVE  /\ Ended(t) \in Utt /\ Len(Ended(t)) \in Nat \ {0} /\ Ended(t)[Len(Ended(t))] = "stop"
           /\ \A S \in Wanted : Only(Ended(t), S) = Only(t, S)
  <1>1. Len(t) \in Nat \ {0}
    BY EmptySeq, LenProperties DEF Utt
  <1>2. CASE Last(t) = "stop"
    BY <1>1, <1>2 DEF Ended, Last
  <1>3. CASE Last(t) # "stop"
    <2>1. Ended(t) = Append(t, "stop")
      BY <1>3 DEF Ended
    <2>2. /\ Append(t, "stop") \in Utt /\ Len(Append(t, "stop")) = Len(t) + 1
          /\ Append(t, "stop")[Len(t) + 1] = "stop"
      BY Marks, AppendProperties DEF Utt
    <2>3. \A S \in Wanted : Only(Append(t, "stop"), S) = Only(t, S)
      BY Marks, OnlyChar
    <2>4. QED
      BY <1>1, <2>1, <2>2, <2>3
  <1>4. QED
    BY <1>2, <1>3

\* At the beginning nothing is read.
LEMMA InitTextInv == Init => TextInv
  <1> SUFFICES ASSUME Init PROVE TextInv
    OBVIOUS
  <1>1. IInv
    BY InitIInv
  <1>2. CASE text = <<>>
    <2>1. pc = "done" /\ final = <<>>
      BY <1>2 DEF Init
    <2>2. WordsLeft
      BY <1>2, <2>1, LeftType, OnlyOfEmpty DEF WordsLeft
    <2>3. QED
      BY <1>1, <2>1, <2>2 DEF TextInv, CutPlaces, TextSoFar
  <1>3. CASE text # <<>>
    <2>1. /\ pc = "cut" /\ i = 1 /\ st = 1 /\ utts = <<>> /\ words = Ended(text)
      BY <1>3 DEF Init
    <2>2. CutPlaces
      BY <1>1, <1>3, <2>1, EndedText DEF CutPlaces, IInv, TypeOK
    <2>3. ASSUME NEW S \in Wanted
          PROVE  Left(utts, S) \o Only(SubSeq(words, st, i - 1), S) = Only(SubSeq(words, 1, i - 1), S)
      <3>1. SubSeq(words, 1, 1 - 1) = <<>>
        BY SubSeqEmpty
      <3>2. Left(<<>>, S) = <<>> /\ Only(<<>>, S) = <<>> /\ <<>> \o <<>> = <<>>
        BY LeftType, OnlyOfEmpty
      <3>3. QED
        BY <2>1, <3>1, <3>2
    <2>4. QED
      BY <1>1, <2>1, <2>2, <2>3 DEF TextInv, TextSoFar, WordsLeft
  <1>4. QED
    BY <1>2, <1>3

\* A character that is no stop stays with the others, but for a quote that went before.
LEMMA CutReads ==
    ASSUME TypeOK, CutsAtStops, CutPlaces, NEW S \in Wanted, pc = "cut", i <= Len(words), words[i] # "stop",
           Left(utts, S) \o Only(SubSeq(words, st, i - 1), S) = Only(SubSeq(words, 1, i - 1), S)
    PROVE  Left(utts, S) \o Only(SubSeq(words, st, i), S) = Only(SubSeq(words, 1, i), S)
  <1> DEFINE x     == words[i]
             since == SubSeq(words, st, i - 1)
             read  == SubSeq(words, 1, i - 1)
             cut   == Left(utts, S)
  <1>1. words \in Utt /\ Len(words) \in Nat /\ i \in 1 .. Len(words) /\ st \in Nat /\ st > 0 /\ st <= i + 1
    BY LenProperties DEF TypeOK, CutsAtStops, Utt
  <1>2. x \in Kinds /\ read \in Utt /\ SubSeq(words, 1, i) = Append(read, x)
    <2>1. 1 \in 1 .. Len(words)
      BY <1>1
    <2>2. QED
      BY <1>1, <2>1, Longer
  <1>3. CASE st <= i
    <2>1. since \in Utt /\ SubSeq(words, st, i) = Append(since, x)
      <3>1. st \in 1 .. Len(words) /\ i \in st .. Len(words)
        BY <1>1, <1>3
      <3>2. QED
        BY <1>1, <3>1, Longer
    <2>2. cut \o Only(since, S) = Only(read, S)
      OBVIOUS
    <2>3. cut \in Utt
      BY LeftType DEF TypeOK
    <2> HIDE DEF x, since, read, cut
    <2>4. Only(since, S) \in Utt /\ Only(read, S) \in Utt
      BY <1>2, <2>1, OnlyTogether
    <2>5. CASE x \in S
      <3>1. /\ Only(Append(since, x), S) = Append(Only(since, S), x)
            /\ Only(Append(read, x), S) = Append(Only(read, S), x)
        BY <1>2, <2>1, <2>5, OnlyChar
      <3>2. cut \o Append(Only(since, S), x) = Append(cut \o Only(since, S), x)
        <4> DEFINE o == Only(since, S)
        <4>1. cut \in Seq(Kinds) /\ o \in Seq(Kinds) /\ x \in Kinds
          BY <1>2, <2>3, <2>4 DEF Utt
        <4> HIDE DEF o
        <4>2. cut \o Append(o, x) = Append(cut \o o, x)
          BY <4>1, ConcatAppend
        <4>3. QED
          BY <4>2 DEF o
      <3>3. QED
        BY <1>2, <2>1, <2>2, <3>1, <3>2 DEF cut
    <2>6. CASE x \notin S
      <3>1. Only(Append(since, x), S) = Only(since, S) /\ Only(Append(read, x), S) = Only(read, S)
        BY <1>2, <2>1, <2>6, OnlyChar
      <3>2. QED
        BY <1>2, <2>1, <2>2, <3>1 DEF cut
    <2>7. QED
      BY <2>5, <2>6
  <1>4. CASE ~(st <= i)
    <2>1. st = i + 1 /\ x = "quote"
      BY <1>1, <1>4 DEF CutPlaces
    <2>2. SubSeq(words, st, i) = <<>> /\ since = <<>>
      BY <1>1, <2>1, SubSeqEmpty
    <2>3. Only(Append(read, x), S) = Only(read, S)
      BY <1>2, <2>1, Marks, OnlyChar
    <2>4. QED
      BY <1>2, <2>2, <2>3
  <1>5. QED
    BY <1>3, <1>4

\* At a stop what was read since the last is an utterance, but for the stop if it is empty.
LEMMA CutCloses ==
    ASSUME TypeOK, CutsAtStops, CutPlaces, NEW S \in Wanted, pc = "cut", i <= Len(words), words[i] = "stop",
           CutAtStop,
           Left(utts, S) \o Only(SubSeq(words, st, i - 1), S) = Only(SubSeq(words, 1, i - 1), S)
    PROVE  Left(utts', S) = Only(SubSeq(words, 1, i), S)
  <1> DEFINE body   == SubSeq(words, st, i - 1)
             read   == SubSeq(words, 1, i - 1)
             closed == IF body = <<>> THEN utts ELSE Append(utts, Append(body, "stop"))
             before == Left(utts, S)
  <1>1. words \in Utt /\ Len(words) \in Nat /\ i \in 1 .. Len(words) /\ st \in Nat /\ st > 0 /\ st <= i + 1
    BY LenProperties DEF TypeOK, CutsAtStops, Utt
  <1>2. read \in Utt /\ SubSeq(words, 1, i) = Append(read, "stop")
    <2>1. 1 \in 1 .. Len(words)
      BY <1>1
    <2>2. QED
      BY <1>1, <2>1, Longer
  <1>3. body \in Utt
    <2>1. CASE st <= i
      <3>1. st \in 1 .. Len(words) /\ i \in st .. Len(words)
        BY <1>1, <2>1
      <3>2. QED
        BY <1>1, <3>1, Longer
    <2>2. CASE ~(st <= i)
      <3>1. i - 1 < st
        BY <1>1, <2>2
      <3>2. body = <<>>
        BY <1>1, <3>1, SubSeqEmpty
      <3>3. QED
        BY <3>2, Together
    <2>3. QED
      BY <2>1, <2>2
  <1>4. before \o Only(body, S) = Only(read, S)
    OBVIOUS
  <1>5. utts' = IF QuoteFollows /\ closed # <<>> THEN AddToLast(closed, <<"quote">>) ELSE closed
    BY DEF CutAtStop
  <1>6. utts \in Seq(Utt) /\ before \in Utt
    BY LeftType DEF TypeOK
  <1> HIDE DEF body, read, before
  <1>7. Only(SubSeq(words, 1, i), S) = Only(read, S)
    BY <1>2, Marks, OnlyChar
  <1>8. closed \in Seq(Utt) /\ Left(closed, S) = Only(read, S)
    <2>1. CASE body = <<>>
      <3>1. before \o <<>> = before
        BY <1>6, Together
      <3>2. QED
        BY <1>4, <1>6, <2>1, <3>1, OnlyOfEmpty DEF before
    <2>2. CASE body # <<>>
      <3> DEFINE new == Append(body, "stop")
      <3>1. new \in Utt /\ Only(new, S) = Only(body, S)
        BY <1>3, Marks, OnlyChar
      <3> HIDE DEF new
      <3>2. Append(utts, new) \in Seq(Utt)
        BY <1>6, <3>1, AppendProperties
      <3>3. Left(Append(utts, new), S) = before \o Only(new, S)
        BY <1>6, <3>1, LeftAppend DEF before
      <3>4. closed = Append(utts, new)
        BY <2>2 DEF new
      <3>5. QED
        BY <1>4, <3>1, <3>2, <3>3, <3>4
    <2>3. QED
      BY <2>1, <2>2
  <1> HIDE DEF closed
  <1>9. CASE QuoteFollows /\ closed # <<>>
    <2>1. <<"quote">> \in Utt /\ Only(<<"quote">>, S) = <<>>
      BY OnlyQuote
    <2>2. Left(AddToLast(closed, <<"quote">>), S) = Left(closed, S) \o Only(<<"quote">>, S)
      BY <1>8, <1>9, <2>1, LeftAddToLast
    <2>3. Only(read, S) \o <<>> = Only(read, S)
      BY <1>2, OnlyTogether, Together
    <2>4. QED
      BY <1>5, <1>7, <1>8, <1>9, <2>1, <2>2, <2>3
  <1>10. CASE ~(QuoteFollows /\ closed # <<>>)
    BY <1>5, <1>7, <1>8, <1>10
  <1>11. QED
    BY <1>9, <1>10

\* A turn of the loop that cuts.
LEMMA CutText == ASSUME TextInv, Cut PROVE CutPlaces' /\ TextSoFar' /\ WordsLeft'
  <1>1. /\ pc = "cut" /\ pc' = "cut" /\ i <= Len(words) /\ i' = i + 1 /\ UNCHANGED <<text, words, cur, final>>
        /\ TypeOK /\ CutsAtStops /\ CutPlaces /\ TextSoFar /\ i \in Nat /\ st \in Nat /\ i > 0 /\ st > 0
        /\ st <= i + 1 /\ Len(words) \in Nat
    BY LenProperties DEF Cut, TextInv, IInv, TypeOK, CutsAtStops, Utt
  <1>2. WordsLeft' /\ i' - 1 = i
    BY <1>1 DEF WordsLeft
  <1>3. ASSUME NEW S \in Wanted
        PROVE  Left(utts, S) \o Only(SubSeq(words, st, i - 1), S) = Only(SubSeq(words, 1, i - 1), S)
    BY <1>1 DEF TextSoFar
  <1>4. CASE words[i] = "stop"
    <2>1. CutAtStop /\ st' = IF QuoteFollows THEN i + 2 ELSE i + 1
      BY <1>4 DEF Cut, CutAtStop
    <2>2. CutPlaces'
      <3>1. CASE QuoteFollows
        <4>1. st' = i' + 1 /\ i' <= Len(words) /\ words[i'] = "quote"
          BY <1>1, <2>1, <3>1 DEF QuoteFollows
        <4>2. QED
          BY <1>1, <4>1 DEF CutPlaces
      <3>2. CASE ~QuoteFollows
        <4>1. st' # i' + 1 /\ i' <= Len(words) + 1
          BY <1>1, <2>1, <3>2
        <4>2. QED
          BY <1>1, <4>1 DEF CutPlaces
      <3>3. QED
        BY <3>1, <3>2
    <2>3. ASSUME NEW S \in Wanted
          PROVE  Left(utts', S) \o Only(SubSeq(words, st', i), S) = Only(SubSeq(words, 1, i), S)
      <3>1. Left(utts', S) = Only(SubSeq(words, 1, i), S)
        BY <1>1, <1>3, <1>4, <2>1, CutCloses
      <3>2. SubSeq(words, st', i) = <<>>
        <4> DEFINE m == st'
        <4>1. m \in Int /\ i \in Int /\ i < m
          BY <1>1, <2>1
        <4> HIDE DEF m
        <4>2. SubSeq(words, m, i) = <<>>
          BY <4>1, SubSeqEmpty
        <4>3. QED
          BY <4>2 DEF m
      <3>3. SubSeq(words, 1, i) \in Utt
        <4>1. 1 \in 1 .. Len(words) /\ i \in 1 .. Len(words)
          BY <1>1
        <4>2. words \in Utt
          BY <1>1 DEF TypeOK
        <4>3. /\ words[i] \in Kinds /\ SubSeq(words, 1, i - 1) \in Utt
              /\ SubSeq(words, 1, i) = Append(SubSeq(words, 1, i - 1), words[i])
          BY <4>1, <4>2, Longer
        <4> DEFINE read == SubSeq(words, 1, i - 1)
                   x    == words[i]
        <4>4. read \in Utt /\ x \in Kinds
          BY <4>3
        <4> HIDE DEF read, x
        <4>5. Append(read, x) \in Utt
          BY <4>4, OnlyChar
        <4>6. QED
          BY <4>3, <4>5 DEF read, x
      <3> DEFINE all == Only(SubSeq(words, 1, i), S)
      <3>4. all \in Utt
        BY <3>3, OnlyTogether
      <3> HIDE DEF all
      <3>5. all \o <<>> = all
        BY <3>4, Together
      <3>6. Only(<<>>, S) = <<>>
        BY OnlyOfEmpty
      <3>7. QED
        BY <3>1, <3>2, <3>5, <3>6 DEF all
    <2>4. TextSoFar'
      BY <1>1, <1>2, <2>3 DEF TextSoFar
    <2>5. QED
      BY <1>2, <2>2, <2>4
  <1>5. CASE words[i] # "stop"
    <2>1. utts' = utts /\ st' = st
      BY <1>5 DEF Cut
    <2>2. CutPlaces'
      BY <1>1, <2>1 DEF CutPlaces
    <2>3. ASSUME NEW S \in Wanted
          PROVE  Left(utts, S) \o Only(SubSeq(words, st, i), S) = Only(SubSeq(words, 1, i), S)
      BY <1>1, <1>3, <1>5, CutReads
    <2>4. TextSoFar'
      BY <1>1, <1>2, <2>1, <2>3 DEF TextSoFar
    <2>5. QED
      BY <1>2, <2>2, <2>4
  <1>6. QED
    BY <1>4, <1>5

\* When everything is read nothing is left that is not cut: the last character is a stop.
LEMMA EndCutText == ASSUME TextInv, EndCut PROVE CutPlaces' /\ TextSoFar' /\ WordsLeft'
  <1>1. /\ pc = "cut" /\ pc' = "merge" /\ i > Len(words) /\ UNCHANGED <<text, words, utts, cur, final>>
        /\ TypeOK /\ CutsAtStops /\ CutPlaces /\ TextSoFar
        /\ i \in Nat /\ st \in Nat /\ cur = <<>> /\ final = <<>> /\ text # <<>> /\ words = Ended(text)
        /\ text \in Utt /\ words \in Utt /\ utts \in Seq(Utt)
    BY DEF EndCut, cutting, TextInv, IInv, TypeOK, CutsAtStops, CutPlaces
  <1>2. Len(words) \in Nat \ {0} /\ words[Len(words)] = "stop" /\ i - 1 = Len(words)
    BY <1>1, EndedText DEF CutPlaces
  <1>3. st > Len(words)
    <2>1. ~(Len(words) \in st .. i - 1)
      BY <1>1, <1>2 DEF CutsAtStops
    <2>2. QED
      BY <1>1, <1>2, <2>1
  <1>4. ASSUME NEW S \in Wanted
        PROVE  (Left(final, S) \o Only(cur, S)) \o Left(utts, S) = Only(text, S)
    <2>1. Left(utts, S) \o Only(SubSeq(words, st, i - 1), S) = Only(SubSeq(words, 1, i - 1), S)
      BY <1>1 DEF TextSoFar
    <2>2. SubSeq(words, st, i - 1) = <<>>
      BY <1>1, <1>2, <1>3, SubSeqEmpty
    <2>3. SubSeq(words, 1, i - 1) = words
      BY <1>1, <1>2, SubSeqFull DEF Utt
    <2>4. Only(words, S) = Only(text, S)
      BY <1>1, EndedText
    <2> DEFINE all == Left(utts, S)
    <2>5. all \in Utt
      BY <1>1, LeftType
    <2>6. Only(<<>>, S) = <<>> /\ Left(<<>>, S) = <<>>
      BY OnlyOfEmpty, LeftType
    <2> HIDE DEF all
    <2>7. all \o <<>> = all /\ <<>> \o all = all /\ <<>> \o <<>> = <<>>
      BY <2>5, Together
    <2>8. QED
      BY <1>1, <2>1, <2>2, <2>3, <2>4, <2>6, <2>7 DEF all
  <1>5. QED
    BY <1>1, <1>4 DEF CutPlaces, TextSoFar, WordsLeft

-----------------------------------------------------------------------------
(* The merge and what is erased.                                           *)

\* An utterance goes from those to be merged to what is gathered, or what is gathered
\* goes to the merged ones first.
LEMMA MergeText == ASSUME TextInv, Merge PROVE CutPlaces' /\ TextSoFar' /\ WordsLeft'
  <1> DEFINE head == Head(utts)
  <1>1. /\ pc = "merge" /\ pc' = "merge" /\ utts # <<>> /\ utts' = Tail(utts) /\ UNCHANGED text
        /\ final' = IF TooLong(head) THEN Append(final, cur) ELSE final
        /\ cur' = IF TooLong(head) THEN head ELSE cur \o head
        /\ TypeOK /\ TextSoFar /\ utts \in Seq(Utt) /\ cur \in Utt /\ final \in Seq(Utt)
    BY DEF Merge, TextInv, IInv, TypeOK
  <1>2. head \in Utt /\ Tail(utts) \in Seq(Utt)
    BY <1>1, HeadTailProperties
  <1>3. ASSUME NEW S \in Wanted
        PROVE  (Left(final', S) \o Only(cur', S)) \o Left(utts', S) = Only(text, S)
    <2> DEFINE f == Left(final, S)
               c == Only(cur, S)
               h == Only(head, S)
               t == Left(Tail(utts), S)
    <2>1. f \in Utt /\ t \in Utt
      BY <1>1, <1>2, LeftType
    <2>2. c \in Utt /\ h \in Utt
      BY <1>1, <1>2, OnlyTogether
    <2>3. Left(utts, S) = h \o t
      BY <1>1, LeftHeadTail
    <2>4. (f \o c) \o Left(utts, S) = Only(text, S)
      BY <1>1 DEF TextSoFar
    <2>5. CASE TooLong(head)
      <3>1. final' = Append(final, cur) /\ cur' = head
        BY <1>1, <2>5
      <3>2. Left(final', S) = f \o c
        BY <1>1, <3>1, LeftAppend
      <3>3. Only(cur', S) = h /\ Left(utts', S) = t
        BY <1>1, <3>1
      <3> HIDE DEF f, c, h, t, head
      <3>4. ((f \o c) \o h) \o t = (f \o c) \o (h \o t)
        <4>1. f \o c \in Utt
          BY <2>1, <2>2, Together
        <4>2. QED
          BY <2>1, <2>2, <4>1, Together
      <3>5. QED
        BY <2>3, <2>4, <3>2, <3>3, <3>4
    <2>6. CASE ~TooLong(head)
      <3>1. final' = final /\ cur' = cur \o head
        BY <1>1, <2>6
      <3>2. Left(final', S) = f /\ Left(utts', S) = t
        BY <1>1, <3>1
      <3> HIDE DEF head
      <3>3. Only(cur', S) = c \o h
        BY <1>1, <1>2, <3>1, OnlyTogether
      <3> HIDE DEF f, c, h, t
      <3>4. (f \o (c \o h)) \o t = (f \o c) \o (h \o t)
        <4>1. f \o (c \o h) = (f \o c) \o h /\ f \o c \in Utt
          BY <2>1, <2>2, Together
        <4>2. ((f \o c) \o h) \o t = (f \o c) \o (h \o t)
          BY <2>1, <2>2, <4>1, Together
        <4>3. QED
          BY <4>1, <4>2
      <3>5. QED
        BY <2>3, <2>4, <3>2, <3>3, <3>4
    <2>7. QED
      BY <2>5, <2>6
  <1>4. QED
    BY <1>1, <1>3 DEF CutPlaces, TextSoFar, WordsLeft

\* What is gathered at the end goes to the last utterance, or is one.
LEMMA EndMergeText == ASSUME TextInv, EndMerge PROVE CutPlaces' /\ TextSoFar' /\ WordsLeft'
  <1>1. /\ pc = "merge" /\ pc' = "normalize" /\ utts = <<>> /\ UNCHANGED text
        /\ final' = IF cur = <<>> THEN final ELSE WithTail
        /\ TextSoFar /\ cur \in Utt /\ final \in Seq(Utt)
    BY DEF EndMerge, TextInv, IInv, TypeOK
  <1>2. ASSUME NEW S \in Wanted PROVE Left(final', S) = Only(text, S)
    <2> DEFINE f == Left(final, S)
               c == Only(cur, S)
    <2>1. f \in Utt /\ c \in Utt
      BY <1>1, LeftType, OnlyTogether
    <2>2. (f \o c) \o Left(utts, S) = Only(text, S)
      BY <1>1 DEF TextSoFar
    <2>3. Left(utts, S) = <<>>
      BY <1>1, LeftType
    <2>4. Left(final', S) = f \o c
      <3>1. CASE cur = <<>>
        <4>1. c = <<>> /\ final' = final
          BY <1>1, <3>1, OnlyOfEmpty
        <4> HIDE DEF c
        <4>2. QED
          BY <2>1, <4>1, Together
      <3>2. CASE cur # <<>> /\ ShouldMerge(cur) /\ final # <<>>
        <4>1. final' = AddToLast(final, cur)
          BY <1>1, <3>2 DEF WithTail
        <4>2. QED
          BY <1>1, <3>2, <4>1, LeftAddToLast
      <3>3. CASE cur # <<>> /\ ~(ShouldMerge(cur) /\ final # <<>>)
        <4>1. final' = Append(final, cur)
          BY <1>1, <3>3 DEF WithTail
        <4>2. QED
          BY <1>1, <4>1, LeftAppend
      <3>4. QED
        BY <3>1, <3>2, <3>3
    <2> HIDE DEF f, c
    <2>5. (f \o c) \o <<>> = f \o c
      BY <2>1, Together
    <2>6. QED
      BY <2>2, <2>3, <2>4, <2>5
  <1>3. QED
    BY <1>1, <1>2 DEF CutPlaces, TextSoFar, WordsLeft

\* What is erased has no word.
LEMMA EraseText == ASSUME TextInv, EraseOnlyPunctuation PROVE CutPlaces' /\ TextSoFar' /\ WordsLeft'
  <1> DEFINE Some == {utt \in Range(final) : ~OnlyPunctuation(utt)}
             S    == {"word"}
  <1>1. /\ pc = "normalize" /\ pc' = "done" /\ UNCHANGED text /\ final' = Only(final, Some)
        /\ TextSoFar /\ final \in Seq(Utt)
    BY DEF EraseOnlyPunctuation, TextInv, IInv, TypeOK
  <1>2. Left(final, S) = Only(text, S)
    <2>1. S \in Wanted
      BY DEF Wanted
    <2>2. QED
      BY <1>1, <2>1 DEF TextSoFar
  <1>3. ASSUME NEW k \in 1 .. Len(final), final[k] \notin Some PROVE Only(final[k], S) = <<>>
    <2>1. final[k] \in Utt /\ final[k] \in Range(final)
      BY <1>1, ElementOfSeq, RangeEquality
    <2>2. \A j \in 1 .. Len(final[k]) : final[k][j] \notin S
      BY <1>3, <2>1 DEF OnlyPunctuation
    <2>3. final[k] \in Seq(Kinds)
      BY <2>1 DEF Utt
    <2> HIDE DEF S, Some
    <2>4. QED
      BY <2>2, <2>3, OnlyNone
  <1> HIDE DEF S, Some
  <1>4. Left(Only(final, Some), S) = Left(final, S)
    BY <1>1, <1>3, LeftOfSome
  <1>5. WordsLeft'
    BY <1>1, <1>2, <1>4 DEF WordsLeft, S
  <1>6. QED
    BY <1>1, <1>5 DEF CutPlaces, TextSoFar

\* So no step loses anything.
LEMMA NextTextInv == TextInv /\ [Next]_vars => TextInv'
  <1> SUFFICES ASSUME TextInv, [Next]_vars PROVE TextInv'
    OBVIOUS
  <1>1. IInv'
    BY NextIInv DEF TextInv
  <1>2. CASE UNCHANGED vars
    <2>1. CutPlaces' /\ TextSoFar' /\ WordsLeft'
      BY <1>2 DEF vars, cutting, TextInv, CutPlaces, TextSoFar, WordsLeft
    <2>2. QED
      BY <1>1, <2>1 DEF TextInv
  <1>3. CASE Next
    <2>1. CutPlaces' /\ TextSoFar' /\ WordsLeft'
      BY <1>3, CutText, EndCutText, MergeText, EndMergeText, EraseText DEF Next
    <2>2. QED
      BY <1>1, <2>1 DEF TextInv
  <1>4. QED
    BY <1>2, <1>3

(* The inductive invariant of what is kept: at every turn of the loops     *)
(* what is read, cut, gathered and merged is the text, but for its marks.  *)
THEOREM TextInvHolds == Spec => []TextInv
  BY InitTextInv, NextTextInv, PTL DEF Spec

(* Of any text, split under any limits, every word and comma is in the     *)
(* utterances, once and in order, and the erased ones take no word along.  *)
THEOREM KeepsTextHolds == Spec => []KeepsText
  <1>1. TextInv => KeepsText
    <2>1. {"word", "comma"} \in Wanted
      BY DEF Wanted
    <2>2. QED
      BY <2>1 DEF TextInv, TextSoFar, WordsLeft, KeepsText, Left
  <1>2. QED
    BY <1>1, TextInvHolds, PTL

-----------------------------------------------------------------------------
(* The hash functions.                                                     *)

Byte == Nat \ {0}
ByteSeq == Seq(Byte)

\* The number of fours in a number and the rest are the only ones.
LEMMA FoursAre ==
    ASSUME NEW n \in Nat, NEW q \in Nat, NEW r \in 0 .. 3, n = 4 * q + r
    PROVE  n \div 4 = q /\ n % 4 = r
  OBVIOUS

\* A number is as many fours as go into it, and a rest.
LEMMA Fours ==
    ASSUME NEW n \in Nat
    PROVE  /\ n \div 4 \in Nat /\ n % 4 \in 0 .. 3
           /\ n = 4 * (n \div 4) + (n % 4)
  OBVIOUS

\* The bytes of a part.
LEMMA Part ==
    ASSUME NEW s \in ByteSeq, NEW from \in Nat, NEW n \in Nat, from + n <= Len(s)
    PROVE  /\ Bytes(s, from, n) \in ByteSeq
           /\ Len(Bytes(s, from, n)) = n
           /\ \A j \in 1 .. n : Bytes(s, from, n)[j] = s[from + j]
  <1>1. Len(s) \in Nat
    BY LenProperties DEF ByteSeq
  <1>2. from + 1 \in 1 .. Len(s) + 1 /\ from + n \in from .. Len(s)
    BY <1>1
  <1>3. /\ SubSeq(s, from + 1, from + n) \in ByteSeq
        /\ Len(SubSeq(s, from + 1, from + n)) = IF from + 1 <= from + n THEN n ELSE 0
    BY <1>1, SubSeqProperties DEF ByteSeq
  <1>4. \A j \in 1 .. n : SubSeq(s, from + 1, from + n)[j] = s[from + j]
    BY <1>1, SubSeqProperties DEF ByteSeq
  <1>5. QED
    BY <1>3, <1>4 DEF Bytes

\* Texts of one length and with the same bytes are the same.
LEMMA SameText ==
    ASSUME NEW s \in ByteSeq, NEW t \in ByteSeq, Len(s) = Len(t), \A j \in 1 .. Len(s) : s[j] = t[j]
    PROVE  s = t
  BY SeqEqual DEF ByteSeq

\* What a text is cut into: its whole words, one after the other, and what is left.
LEMMA CutOf ==
    ASSUME NEW s \in ByteSeq
    PROVE  /\ Len(s) \in Nat /\ Len(s) \div 4 \in Nat /\ Len(s) % 4 \in 0 .. 3
           /\ Len(s) = 4 * (Len(s) \div 4) + (Len(s) % 4)
           /\ OneShot(s, 4).words \in Seq(ByteSeq) /\ OneShot(s, 4).tail \in ByteSeq
           /\ Len(OneShot(s, 4).words) = Len(s) \div 4
           /\ Len(OneShot(s, 4).tail) = Len(s) % 4
           /\ \A g \in 1 .. Len(s) \div 4 : OneShot(s, 4).words[g] = Bytes(s, 4 * (g - 1), 4)
           /\ \A j \in 1 .. Len(s) % 4 : OneShot(s, 4).tail[j] = s[4 * (Len(s) \div 4) + j]
  <1>1. Len(s) \in Nat
    BY LenProperties DEF ByteSeq
  <1> DEFINE q == Len(s) \div 4
             r == Len(s) % 4
             taken == [g \in 1 .. q |-> Bytes(s, 4 * (g - 1), 4)]
             tail == Bytes(s, 4 * q, r)
  <1>2. q \in Nat /\ r \in 0 .. 3 /\ Len(s) = 4 * q + r
    BY <1>1, Fours
  <1>3. OneShot(s, 4).words = taken /\ OneShot(s, 4).tail = tail
    BY DEF OneShot
  <1> HIDE DEF q, r
  <1>4. \A g \in 1 .. q : Bytes(s, 4 * (g - 1), 4) \in ByteSeq
    <2> TAKE g \in 1 .. q
    <2>1. 4 * (g - 1) \in Nat /\ 4 * (g - 1) + 4 <= Len(s)
      BY <1>2
    <2> DEFINE from == 4 * (g - 1)
    <2> HIDE DEF from
    <2>2. Bytes(s, from, 4) \in ByteSeq
      BY <2>1, Part DEF from
    <2>3. QED
      BY <2>2 DEF from
  <1>5. taken \in Seq(ByteSeq) /\ Len(taken) = q
    <2>1. taken \in [1 .. q -> ByteSeq]
      BY <1>4
    <2>2. QED
      BY <1>2, <2>1, LenProperties
  <1>6. tail \in ByteSeq /\ Len(tail) = r /\ \A j \in 1 .. r : tail[j] = s[4 * q + j]
    <2> DEFINE from == 4 * q
    <2>1. from \in Nat /\ r \in Nat /\ from + r <= Len(s)
      BY <1>2
    <2> HIDE DEF from
    <2>2. Bytes(s, from, r) \in ByteSeq /\ Len(Bytes(s, from, r)) = r
          /\ \A j \in 1 .. r : Bytes(s, from, r)[j] = s[from + j]
      BY <2>1, Part
    <2>3. QED
      BY <2>2 DEF from
  <1>7. \A g \in 1 .. q : taken[g] = Bytes(s, 4 * (g - 1), 4)
    OBVIOUS
  <1> HIDE DEF taken, tail
  <1>8. QED
    BY <1>1, <1>2, <1>3, <1>5, <1>6, <1>7 DEF q, r

\* The bytes of a text that is followed by another.
LEMMA Followed ==
    ASSUME NEW s \in ByteSeq, NEW e \in ByteSeq
    PROVE  /\ s \o e \in ByteSeq /\ Len(s \o e) = Len(s) + Len(e)
           /\ \A j \in 1 .. Len(s) : (s \o e)[j] = s[j]
           /\ \A j \in 1 .. Len(e) : (s \o e)[Len(s) + j] = e[j]
  <1>1. Len(s) \in Nat /\ Len(e) \in Nat
    BY LenProperties DEF ByteSeq
  <1>2. s \o e \in ByteSeq /\ Len(s \o e) = Len(s) + Len(e)
    BY ConcatProperties DEF ByteSeq
  <1>3. \A j \in 1 .. Len(s) : (s \o e)[j] = s[j]
    BY <1>1, ConcatProperties DEF ByteSeq
  <1>4. ASSUME NEW j \in 1 .. Len(e) PROVE (s \o e)[Len(s) + j] = e[j]
    <2> DEFINE k == Len(s) + j
    <2>1. k \in 1 .. Len(s) + Len(e) /\ ~(k <= Len(s)) /\ k - Len(s) = j
      BY <1>1
    <2> HIDE DEF k
    <2>2. (s \o e)[k] = e[k - Len(s)]
      BY <2>1, ConcatProperties DEF ByteSeq
    <2>3. QED
      BY <2>1, <2>2 DEF k
  <1>5. QED
    BY <1>2, <1>3, <1>4

\* What is cut later: the rest of a text goes before what follows it.
LEMMA CutAfter ==
    ASSUME NEW s \in ByteSeq, NEW e \in ByteSeq
    PROVE  LET all == OneShot(OneShot(s, 4).tail \o e, 4)
           IN  /\ OneShot(s \o e, 4).words = OneShot(s, 4).words \o all.words
               /\ OneShot(s \o e, 4).tail = all.tail
  <1> DEFINE prev == OneShot(s, 4).tail
             m == Len(prev)
             rest == prev \o e
             both == s \o e
             q == Len(s) \div 4
             n == Len(rest) \div 4
             r == Len(rest) % 4
             old == OneShot(s, 4).words
             new == OneShot(rest, 4).words
             after == OneShot(rest, 4).tail
             taken == OneShot(both, 4).words
             tail == OneShot(both, 4).tail
  <1>1. /\ Len(s) \in Nat /\ Len(e) \in Nat /\ q \in Nat /\ prev \in ByteSeq /\ m \in 0 .. 3
        /\ Len(s) = 4 * q + m
    <2>1. Len(prev) = Len(s) % 4 /\ prev \in ByteSeq /\ Len(s) \in Nat /\ q \in Nat
          /\ Len(s) = 4 * q + (Len(s) % 4) /\ Len(s) % 4 \in 0 .. 3
      BY CutOf
    <2>2. QED
      BY <2>1, LenProperties DEF ByteSeq
  <1>2. /\ old \in Seq(ByteSeq) /\ Len(old) = q
        /\ \A g \in 1 .. q : old[g] = Bytes(s, 4 * (g - 1), 4)
        /\ \A j \in 1 .. m : prev[j] = s[4 * q + j]
    BY CutOf
  <1> HIDE DEF prev
  <1>3. /\ rest \in ByteSeq /\ Len(rest) = m + Len(e)
        /\ \A j \in 1 .. m : rest[j] = prev[j]
        /\ \A j \in 1 .. Len(e) : rest[m + j] = e[j]
    BY <1>1, Followed
  <1>4. /\ both \in ByteSeq /\ Len(both) = Len(s) + Len(e)
        /\ \A j \in 1 .. Len(s) : both[j] = s[j]
        /\ \A j \in 1 .. Len(e) : both[Len(s) + j] = e[j]
    BY Followed
  <1> HIDE DEF q, old, m, both, rest
  <1>5. Len(both) = 4 * q + Len(rest) /\ Len(rest) \in Nat /\ Len(both) \in Nat
    BY <1>1, <1>3, <1>4
  <1>6. ASSUME NEW j \in 1 .. Len(rest) PROVE rest[j] = both[4 * q + j]
    <2>1. CASE j <= m
      <3>1. j \in 1 .. m /\ 4 * q + j \in 1 .. Len(s)
        BY <1>1, <1>2, <1>5, <2>1
      <3>2. QED
        BY <1>1, <1>2, <1>3, <1>4, <3>1 DEF m
    <2>2. CASE ~(j <= m)
      <3> DEFINE k == j - m
      <3>1. k \in 1 .. Len(e) /\ j = m + k /\ 4 * q + j = Len(s) + k
        BY <1>1, <1>3, <1>5, <2>2
      <3> HIDE DEF k
      <3>2. rest[m + k] = e[k] /\ both[Len(s) + k] = e[k]
        BY <1>3, <1>4, <3>1 DEF m
      <3>3. QED
        BY <3>1, <3>2
    <2>3. QED
      BY <2>1, <2>2
  <1>0. ASSUME NEW from \in Nat, NEW len \in Nat, from + len <= Len(s)
        PROVE  Bytes(s, from, len) = Bytes(both, from, len)
    <2>1. from + len <= Len(both)
      BY <1>1, <1>4, <1>0
    <2>2. /\ Bytes(s, from, len) \in ByteSeq /\ Len(Bytes(s, from, len)) = len
          /\ \A j \in 1 .. len : Bytes(s, from, len)[j] = s[from + j]
      BY <1>0, Part
    <2>3. /\ Bytes(both, from, len) \in ByteSeq /\ Len(Bytes(both, from, len)) = len
          /\ \A j \in 1 .. len : Bytes(both, from, len)[j] = both[from + j]
      BY <1>4, <2>1, Part
    <2>4. \A j \in 1 .. len : from + j \in 1 .. Len(s)
      BY <1>1, <1>0
    <2>5. \A j \in 1 .. len : Bytes(s, from, len)[j] = Bytes(both, from, len)[j]
      BY <1>4, <2>2, <2>3, <2>4
    <2>6. QED
      BY <2>2, <2>3, <2>5, SameText
  <1>7. ASSUME NEW from \in Nat, NEW len \in Nat, from + len <= Len(rest)
        PROVE  Bytes(rest, from, len) = Bytes(both, 4 * q + from, len)
    <2> DEFINE there == 4 * q + from
    <2>1. there \in Nat /\ there + len <= Len(both)
      BY <1>1, <1>2, <1>5, <1>7
    <2> HIDE DEF there
    <2>2. /\ Bytes(rest, from, len) \in ByteSeq /\ Len(Bytes(rest, from, len)) = len
          /\ \A j \in 1 .. len : Bytes(rest, from, len)[j] = rest[from + j]
      BY <1>3, <1>7, Part
    <2>3. /\ Bytes(both, there, len) \in ByteSeq /\ Len(Bytes(both, there, len)) = len
          /\ \A j \in 1 .. len : Bytes(both, there, len)[j] = both[there + j]
      BY <1>4, <2>1, Part
    <2>4. ASSUME NEW j \in 1 .. len PROVE rest[from + j] = both[there + j]
      <3> DEFINE k == from + j
      <3>1. k \in 1 .. Len(rest) /\ 4 * q + k = there + j
        BY <1>1, <1>2, <1>5, <1>7 DEF there
      <3> HIDE DEF k
      <3>2. rest[k] = both[there + j]
        BY <1>6, <3>1
      <3>3. QED
        BY <3>2 DEF k
    <2>5. Bytes(rest, from, len) = Bytes(both, there, len)
      BY <2>2, <2>3, <2>4, SameText
    <2>6. QED
      BY <2>5 DEF there
  <1>8. /\ n \in Nat /\ r \in 0 .. 3 /\ Len(rest) = 4 * n + r
        /\ new \in Seq(ByteSeq) /\ after \in ByteSeq /\ Len(new) = n
        /\ \A g \in 1 .. n : new[g] = Bytes(rest, 4 * (g - 1), 4)
    BY <1>3, CutOf
  <1>9. taken \in Seq(ByteSeq) /\ Len(taken) = Len(both) \div 4
        /\ \A g \in 1 .. Len(both) \div 4 : taken[g] = Bytes(both, 4 * (g - 1), 4)
    BY <1>4, CutOf
  <1>10. Len(both) \div 4 = q + n /\ Len(both) % 4 = r
    <2> DEFINE k == q + n
    <2> HIDE DEF n, r
    <2>1. Len(both) = 4 * k + r /\ k \in Nat
      BY <1>1, <1>5, <1>8
    <2> HIDE DEF k
    <2>2. QED
      BY <1>5, <1>8, <2>1, FoursAre DEF k
  <1>11. tail = after
    <2>1. after = Bytes(rest, 4 * n, r) /\ tail = Bytes(both, 4 * (q + n), r)
      BY <1>10 DEF OneShot
    <2> HIDE DEF n, r, after, tail
    <2>2. 4 * n \in Nat /\ r \in Nat /\ 4 * n + r <= Len(rest) /\ 4 * (q + n) = 4 * q + 4 * n
      BY <1>1, <1>8
    <2>3. QED
      BY <1>7, <2>1, <2>2
  <1> HIDE DEF n, r, new, taken, tail, after
  <1>12. taken = old \o new
    <2>1. /\ old \o new \in Seq(ByteSeq) /\ Len(old \o new) = q + n
          /\ \A g \in 1 .. q + n : (old \o new)[g] = IF g <= q THEN old[g] ELSE new[g - q]
      BY <1>1, <1>2, <1>8, ConcatProperties
    <2>2. ASSUME NEW g \in 1 .. q + n PROVE taken[g] = (old \o new)[g]
      <3>1. CASE g <= q
        <4> DEFINE from == 4 * (g - 1)
        <4>1. g \in 1 .. q /\ from \in Nat /\ from + 4 <= Len(s) /\ from + 4 <= Len(both)
          BY <1>1, <1>2, <1>5, <3>1
        <4> HIDE DEF from
        <4>6. Bytes(s, from, 4) = Bytes(both, from, 4)
          BY <1>0, <4>1
        <4>7. old[g] = Bytes(s, from, 4) /\ taken[g] = Bytes(both, from, 4)
          BY <1>1, <1>2, <1>9, <1>10, <4>1 DEF from
        <4>8. QED
          BY <2>1, <3>1, <4>6, <4>7
      <3>2. CASE ~(g <= q)
        <4> DEFINE h == g - q
        <4>1. h \in 1 .. n /\ 4 * (h - 1) \in Nat /\ 4 * (h - 1) + 4 <= Len(rest)
              /\ 4 * q + 4 * (h - 1) = 4 * (g - 1)
          BY <1>1, <1>5, <1>8, <3>2
        <4>2. taken[g] = Bytes(both, 4 * (g - 1), 4)
          BY <1>9, <1>10
        <4> HIDE DEF h
        <4>3. Bytes(rest, 4 * (h - 1), 4) = Bytes(both, 4 * (g - 1), 4)
          BY <1>7, <4>1
        <4>4. new[h] = Bytes(rest, 4 * (h - 1), 4)
          BY <1>8, <4>1
        <4>5. (old \o new)[g] = new[h]
          BY <2>1, <3>2 DEF h
        <4>6. QED
          BY <4>2, <4>3, <4>4, <4>5
      <3>3. QED
        BY <3>1, <3>2
    <2>3. QED
      BY <1>9, <1>10, <2>1, <2>2, SeqEqual
  <1>13. QED
    BY <1>11, <1>12 DEF old, new, taken, tail, after, both, rest, prev

-----------------------------------------------------------------------------
\* The object to which s was added, and which counts n bytes.
Hashed(s, n) == [words |-> OneShot(s, 4).words, tail |-> OneShot(s, 4).tail, size |-> n]

\* A text is its first k bytes and the others.
LEMMA InTwo ==
    ASSUME NEW s \in ByteSeq, NEW k \in 0 .. Len(s)
    PROVE  /\ SubSeq(s, 1, k) \in ByteSeq /\ SubSeq(s, k + 1, Len(s)) \in ByteSeq
           /\ Len(SubSeq(s, 1, k)) = k /\ Len(SubSeq(s, k + 1, Len(s))) = Len(s) - k
           /\ s = SubSeq(s, 1, k) \o SubSeq(s, k + 1, Len(s))
  <1> DEFINE a == SubSeq(s, 1, k)
             b == SubSeq(s, k + 1, Len(s))
  <1>1. Len(s) \in Nat
    BY LenProperties DEF ByteSeq
  <1>2. a = Bytes(s, 0, k) /\ b = Bytes(s, k, Len(s) - k)
    BY <1>1 DEF Bytes
  <1>3. a \in ByteSeq /\ Len(a) = k /\ \A j \in 1 .. k : a[j] = s[j]
    <2>1. 0 \in Nat /\ k \in Nat /\ 0 + k <= Len(s) /\ \A j \in 1 .. k : 0 + j = j
      BY <1>1
    <2>2. /\ Bytes(s, 0, k) \in ByteSeq /\ Len(Bytes(s, 0, k)) = k
          /\ \A j \in 1 .. k : Bytes(s, 0, k)[j] = s[0 + j]
      BY <2>1, Part
    <2>3. QED
      BY <1>2, <2>1, <2>2
  <1>4. b \in ByteSeq /\ Len(b) = Len(s) - k /\ \A j \in 1 .. Len(s) - k : b[j] = s[k + j]
    <2> DEFINE n == Len(s) - k
    <2>1. k \in Nat /\ n \in Nat /\ k + n <= Len(s)
      BY <1>1
    <2> HIDE DEF n
    <2>2. /\ Bytes(s, k, n) \in ByteSeq /\ Len(Bytes(s, k, n)) = n
          /\ \A j \in 1 .. n : Bytes(s, k, n)[j] = s[k + j]
      BY <2>1, Part
    <2>3. QED
      BY <1>2, <2>2 DEF n
  <1> HIDE DEF a, b
  <1>5. /\ a \o b \in ByteSeq /\ Len(a \o b) = Len(s)
        /\ \A j \in 1 .. k : (a \o b)[j] = a[j]
        /\ \A j \in 1 .. Len(b) : (a \o b)[k + j] = b[j]
    <2>1. /\ Len(a \o b) = Len(a) + Len(b) /\ a \o b \in ByteSeq
          /\ \A j \in 1 .. Len(a) : (a \o b)[j] = a[j]
          /\ \A j \in 1 .. Len(b) : (a \o b)[Len(a) + j] = b[j]
      BY <1>3, <1>4, Followed
    <2>2. Len(a) = k /\ Len(a) + Len(b) = Len(s)
      BY <1>1, <1>3, <1>4
    <2>3. QED
      BY <2>1, <2>2
  <1>6. ASSUME NEW j \in 1 .. Len(s) PROVE (a \o b)[j] = s[j]
    <2>1. CASE j <= k
      BY <1>3, <1>5, <2>1
    <2>2. CASE ~(j <= k)
      <3> DEFINE z == j - k
      <3>1. z \in 1 .. Len(b) /\ j = k + z
        BY <1>1, <1>4, <2>2
      <3> HIDE DEF z
      <3>2. QED
        BY <1>4, <1>5, <3>1
    <2>3. QED
      BY <2>1, <2>2
  <1>7. s = a \o b
    BY <1>5, <1>6, SameText
  <1>8. QED
    BY <1>3, <1>4, <1>7 DEF a, b

\* MixTail adds the bytes before the place where it ends.
LEMMA MixTailMixes ==
    ASSUME NEW s \in ByteSeq, NEW n, NEW chunk \in ByteSeq
    PROVE  \E k \in 0 .. Len(chunk) :
               /\ TailEnds(Hashed(s, n), chunk, k)
               /\ MixTail(Hashed(s, n), chunk) = [hash |-> Hashed(s \o SubSeq(chunk, 1, k), n),
                                                 data |-> SubSeq(chunk, k + 1, Len(chunk))]
  <1> DEFINE h == Hashed(s, n)
             Ends == {k \in 0 .. Len(chunk) : TailEnds(h, chunk, k)}
             k == CHOOSE k \in 0 .. Len(chunk) :
                      TailEnds(h, chunk, k) /\ \A j \in 0 .. k - 1 : ~TailEnds(h, chunk, j)
             e == SubSeq(chunk, 1, k)
             all == OneShot(h.tail \o e, 4)
  <1>1. Len(chunk) \in Nat
    BY LenProperties DEF ByteSeq
  <1>2. PICK x \in Ends : \A y \in Ends : x <= y
    <2>0. TailEnds(h, chunk, Len(chunk))
      <3> HIDE DEF h
      <3>1. QED
        BY DEF TailEnds
    <2>1. Len(chunk) \in Ends
      BY <1>1, <2>0
    <2>2. Ends \subseteq Nat /\ Ends # {}
      BY <1>1, <2>1
    <2> HIDE DEF Ends
    <2>3. QED
      BY <2>2, LeastNumber
  <1>3. x \in 0 .. Len(chunk) /\ TailEnds(h, chunk, x)
    OBVIOUS
  <1>4. \A j \in 0 .. x - 1 : ~TailEnds(h, chunk, j)
    <2> SUFFICES ASSUME NEW j \in 0 .. x - 1, TailEnds(h, chunk, j) PROVE FALSE
      OBVIOUS
    <2>1. j \in 0 .. Len(chunk) /\ ~(x <= j)
      BY <1>1, <1>3
    <2>2. QED
      BY <1>2, <2>1
  <1>5. k \in 0 .. Len(chunk) /\ TailEnds(h, chunk, k)
    <2> HIDE DEF h
    <2>1. QED
      BY <1>3, <1>4
  <1>6. MixTail(h, chunk) = [hash |-> [words |-> h.words \o all.words, tail |-> all.tail, size |-> h.size],
                            data |-> SubSeq(chunk, k + 1, Len(chunk))]
    BY DEF MixTail
  <1> HIDE DEF k
  <1>7. e \in ByteSeq
    BY <1>5, InTwo
  <1>8. h.words = OneShot(s, 4).words /\ h.tail = OneShot(s, 4).tail
    BY DEF Hashed
  <1>9. OneShot(s \o e, 4).words = h.words \o all.words /\ OneShot(s \o e, 4).tail = all.tail
    <2>1. all = OneShot(OneShot(s, 4).tail \o e, 4)
      BY <1>8
    <2> HIDE DEF all, h, e
    <2>2. QED
      BY <1>7, <1>8, <2>1, CutAfter
  <1> HIDE DEF e
  <1>10. [words |-> h.words \o all.words, tail |-> all.tail, size |-> h.size] = Hashed(s \o e, n)
    BY <1>8, <1>9 DEF Hashed
  <1>11. QED
    BY <1>5, <1>6, <1>10 DEF e

\* Three texts in a row.
LEMMA BytesTogether ==
    ASSUME NEW s \in ByteSeq, NEW t \in ByteSeq, NEW u \in ByteSeq
    PROVE  s \o (t \o u) = (s \o t) \o u
  BY ConcatAssociative DEF ByteSeq

\* All of a text.
LEMMA AllOf ==
    ASSUME NEW s \in ByteSeq
    PROVE  SubSeq(s, 1, Len(s)) = s
  <1> DEFINE n == Len(s)
  <1>1. n \in Nat
    BY LenProperties DEF ByteSeq
  <1>2. /\ Bytes(s, 0, n) \in ByteSeq /\ Len(Bytes(s, 0, n)) = n
        /\ \A j \in 1 .. n : Bytes(s, 0, n)[j] = s[0 + j]
    <2> HIDE DEF n
    <2>1. 0 \in Nat /\ 0 + n <= n
      BY <1>1
    <2>2. QED
      BY <1>1, <2>1, Part DEF n
  <1>3. \A j \in 1 .. n : 0 + j = j
    BY <1>1
  <1>4. Bytes(s, 0, n) = s
    BY <1>2, <1>3, SameText
  <1>5. QED
    BY <1>1, <1>4 DEF Bytes

\* Nothing before or after a text.
LEMMA Nothing ==
    ASSUME NEW s \in ByteSeq
    PROVE  <<>> \in ByteSeq /\ s \o <<>> = s /\ <<>> \o s = s
  BY ConcatEmptySeq, EmptySeq DEF ByteSeq

\* A text of fewer than four bytes has no word, and is its tail.
LEMMA NoWord ==
    ASSUME NEW s \in ByteSeq, Len(s) \in 0 .. 3
    PROVE  OneShot(s, 4).words = <<>>
  <1>1. Len(s) \div 4 = 0
    <2> DEFINE n == Len(s)
    <2>1. n \in Nat /\ n \in 0 .. 3 /\ n = 4 * 0 + n
      OBVIOUS
    <2> HIDE DEF n
    <2>2. n \div 4 = 0
      BY <2>1, FoursAre
    <2>3. QED
      BY <2>2 DEF n
  <1>2. OneShot(s, 4).words \in Seq(ByteSeq) /\ Len(OneShot(s, 4).words) = 0
    BY <1>1, CutOf
  <1>3. QED
    BY <1>2, EmptySeq

\* A text of whole words has no tail.
LEMMA WholeWords ==
    ASSUME NEW s \in ByteSeq, Len(s) % 4 = 0
    PROVE  OneShot(s, 4).tail = <<>>
  <1>1. OneShot(s, 4).tail \in Seq(Byte) /\ Len(OneShot(s, 4).tail) = 0
    BY CutOf DEF ByteSeq
  <1>2. QED
    BY <1>1, EmptySeq

\* Add adds all bytes.
LEMMA AddMixes ==
    ASSUME NEW s \in ByteSeq, NEW n \in Nat, NEW chunk \in ByteSeq
    PROVE  Add(Hashed(s, n), chunk) = Hashed(s \o chunk, n + Len(chunk))
  <1> DEFINE h == Hashed(s, n)
             begun == MixTail(h, chunk)
  <1>1. Len(chunk) \in Nat
    BY LenProperties DEF ByteSeq
  <1>2. PICK k \in 0 .. Len(chunk) :
            /\ TailEnds(h, chunk, k)
            /\ begun = [hash |-> Hashed(s \o SubSeq(chunk, 1, k), n), data |-> SubSeq(chunk, k + 1, Len(chunk))]
    BY MixTailMixes
  <1> DEFINE a == SubSeq(chunk, 1, k)
             b == SubSeq(chunk, k + 1, Len(chunk))
             s1 == s \o a
             whole == OneShot(b, 4)
             h2 == [words |-> begun.hash.words \o whole.words, tail |-> begun.hash.tail,
                    size |-> n + Len(chunk)]
  <1>3. a \in ByteSeq /\ b \in ByteSeq /\ Len(a) = k /\ Len(b) = Len(chunk) - k /\ chunk = a \o b
    BY InTwo
  <1>4. s1 \in ByteSeq /\ Len(s1) = Len(s) + k /\ Len(s) \in Nat
    BY <1>3, Followed, LenProperties DEF ByteSeq
  <1>5. s1 \o b = s \o chunk /\ s \o chunk \in ByteSeq
    <2> HIDE DEF a, b
    <2>1. s \o (a \o b) = (s \o a) \o b
      BY <1>3, BytesTogether
    <2>2. QED
      BY <1>3, <2>1, Followed
  <1>6. begun.hash = Hashed(s1, n) /\ begun.data = b
    BY <1>2
  <1>7. Add(h, chunk) = MixTail(h2, whole.tail).hash
    <2>1. h.size = n
      BY DEF Hashed
    <2>2. QED
      BY <1>6, <2>1 DEF Add
  <1> HIDE DEF h, begun, a, b
  <1>8. h2 = [words |-> OneShot(s1, 4).words \o whole.words, tail |-> OneShot(s1, 4).tail,
              size |-> n + Len(chunk)]
    BY <1>6 DEF Hashed
  <1> DEFINE m == 4 * (Len(b) \div 4)
             c == SubSeq(b, 1, m)
             d == whole.tail
             r == Len(b) % 4
  <1>9. m \in 0 .. Len(b) /\ r \in 0 .. 3 /\ Len(b) = m + r /\ Len(b) \in Nat
    BY <1>3, Fours, LenProperties DEF ByteSeq
  <1>10. d = SubSeq(b, m + 1, Len(b))
    BY <1>9 DEF OneShot, Bytes
  <1> HIDE DEF h, begun, a, b, h2, c, d, m, r, s1
  <1>11. c \in ByteSeq /\ d \in ByteSeq /\ b = c \o d /\ Len(c) = m /\ Len(d) = r
    <2>1. SubSeq(b, 1, m) \in ByteSeq /\ SubSeq(b, m + 1, Len(b)) \in ByteSeq /\ Len(SubSeq(b, 1, m)) = m
          /\ Len(SubSeq(b, m + 1, Len(b))) = Len(b) - m
          /\ b = SubSeq(b, 1, m) \o SubSeq(b, m + 1, Len(b))
      BY <1>3, <1>9, InTwo
    <2>2. Len(b) - m = r
      BY <1>9
    <2>3. QED
      BY <1>10, <2>1, <2>2 DEF c
  <1>12. OneShot(s1 \o c, 4).words = OneShot(s1, 4).words \o whole.words
         /\ OneShot(s1 \o c, 4).tail = OneShot(s1, 4).tail
    <2>1. CASE k = Len(chunk)
      <3>1. Len(b) = 0 /\ Len(c) = 0
        BY <1>1, <1>3, <1>9, <1>11, <2>1
      <3>2. c = <<>> /\ whole.words = <<>>
        <4>1. c = <<>>
          BY <1>11, <3>1, EmptySeq DEF ByteSeq
        <4>2. Len(b) \in 0 .. 3
          BY <3>1
        <4>3. QED
          BY <1>3, <4>1, <4>2, NoWord
      <3>3. OneShot(s1, 4).words \o <<>> = OneShot(s1, 4).words
        BY <1>4, CutOf, ConcatEmptySeq
      <3>4. QED
        BY <1>4, <3>2, <3>3, Nothing
    <2>2. CASE k # Len(chunk)
      <3>1. (Len(OneShot(s, 4).tail) + k) % 4 = 0
        BY <1>2, <2>2 DEF TailEnds, h, Hashed
      <3>2. Len(s1) % 4 = 0
        <4> DEFINE q == Len(s) \div 4
                   t == Len(s) % 4
                   p == (t + k) \div 4
        <4>1. q \in Nat /\ t \in 0 .. 3 /\ Len(s) = 4 * q + t /\ Len(OneShot(s, 4).tail) = t
          BY CutOf
        <4> HIDE DEF q, t
        <4>2. t + k \in Nat /\ (t + k) % 4 = 0
          <5>1. t + k \in Nat
            BY <1>1, <4>1
          <5>2. Len(OneShot(s, 4).tail) + k = t + k
            BY <4>1
          <5>3. QED
            BY <3>1, <5>1, <5>2
        <4>3. p \in Nat /\ t + k = 4 * p
          BY <4>2, Fours
        <4> HIDE DEF p
        <4> DEFINE u == q + p
        <4>4. u \in Nat /\ Len(s1) \in Nat /\ Len(s1) = 4 * u + 0
          BY <1>1, <1>4, <4>1, <4>3
        <4> HIDE DEF u
        <4>5. QED
          BY <4>4, FoursAre
      <3>3. Len(c) % 4 = 0
        <4>1. Len(b) \div 4 \in Nat /\ Len(c) \in Nat
          BY <1>9, <1>11, Fours
        <4>2. Len(c) = 4 * (Len(b) \div 4) + 0
          BY <1>11, <4>1 DEF m
        <4>3. QED
          BY <4>1, <4>2, FoursAre
      <3>4. OneShot(s1, 4).tail = <<>> /\ OneShot(c, 4).tail = <<>>
        BY <1>4, <1>11, <3>2, <3>3, WholeWords
      <3>5. OneShot(s1 \o c, 4).words = OneShot(s1, 4).words \o OneShot(c, 4).words
            /\ OneShot(s1 \o c, 4).tail = OneShot(c, 4).tail
        <4>1. OneShot(OneShot(s1, 4).tail \o c, 4) = OneShot(c, 4)
          BY <1>11, <3>4, Nothing
        <4>2. LET all == OneShot(OneShot(s1, 4).tail \o c, 4)
              IN  /\ OneShot(s1 \o c, 4).words = OneShot(s1, 4).words \o all.words
                  /\ OneShot(s1 \o c, 4).tail = all.tail
          BY <1>4, <1>11, CutAfter
        <4>3. QED
          BY <4>1, <4>2
      <3>6. whole.words = OneShot(c, 4).words
        <4>1. OneShot(OneShot(c, 4).tail \o d, 4) = OneShot(d, 4)
          BY <1>11, <3>4, Nothing
        <4>2. OneShot(b, 4).words = OneShot(c, 4).words \o OneShot(d, 4).words
          <5>1. LET all == OneShot(OneShot(c, 4).tail \o d, 4)
                IN  OneShot(c \o d, 4).words = OneShot(c, 4).words \o all.words
            BY <1>11, CutAfter
          <5>2. QED
            BY <1>11, <4>1, <5>1
        <4>3. OneShot(d, 4).words = <<>>
          BY <1>9, <1>11, NoWord
        <4>4. QED
          BY <1>11, <4>2, <4>3, CutOf, ConcatEmptySeq
      <3>7. QED
        BY <3>4, <3>5, <3>6
    <2>3. QED
      BY <2>1, <2>2
  <1>13. MixTail(h2, d).hash = Hashed((s1 \o c) \o d, n + Len(chunk))
    <2> DEFINE s2 == s1 \o c
               n2 == n + Len(chunk)
    <2>1. h2 = Hashed(s2, n2)
      BY <1>8, <1>12 DEF Hashed
    <2>2. s2 \in ByteSeq
      BY <1>4, <1>11, Followed
    <2> HIDE DEF s2, n2
    <2>3. PICK j \in 0 .. Len(d) :
              /\ TailEnds(h2, d, j)
              /\ MixTail(h2, d) = [hash |-> Hashed(s2 \o SubSeq(d, 1, j), n2), data |-> SubSeq(d, j + 1, Len(d))]
      BY <1>11, <2>1, <2>2, MixTailMixes
    <2>4. j = Len(d)
      <3>1. j = Len(d) \/ Len(d) - j >= 4
        BY <2>3 DEF TailEnds
      <3>2. QED
        BY <1>9, <1>11, <3>1
    <2>5. SubSeq(d, 1, j) = d
      BY <1>11, <2>4, AllOf
    <2>6. MixTail(h2, d).hash = Hashed(s2 \o d, n2)
      <3>1. MixTail(h2, d).hash = Hashed(s2 \o SubSeq(d, 1, j), n2)
        BY <2>3
      <3>2. QED
        BY <2>5, <3>1
    <2>7. QED
      BY <2>6 DEF s2, n2
  <1>14. (s1 \o c) \o d = s \o chunk
    <2>1. (s1 \o c) \o d = s1 \o (c \o d)
      BY <1>4, <1>11, BytesTogether
    <2>2. QED
      BY <1>5, <1>11, <2>1
  <1>15. QED
    BY <1>7, <1>13, <1>14 DEF h, d

-----------------------------------------------------------------------------
\* What is in a register is the word that was put there.
LEMMA WordOf ==
    ASSUME NEW r, NEW n \in 0 .. 4, NEW w \in ByteSeq, Len(w) = n,
           \A j \in 0 .. 3 : r[j] = IF j < n THEN w[j + 1] ELSE 0
    PROVE  Word(r) = w
  <1> DEFINE Top(x) == (x = 0 \/ r[x - 1] # 0) /\ \A j \in x .. 3 : r[j] = 0
             top == CHOOSE x \in 0 .. 4 : Top(x)
  <1>1. \A j \in 1 .. n : w[j] \in Nat /\ w[j] # 0
    BY ElementOfSeq DEF ByteSeq, Byte
  <1>2. \A j \in 0 .. 3 : j < n => r[j] = w[j + 1] /\ r[j] # 0
    BY <1>1
  <1>3. \A j \in 0 .. 3 : ~(j < n) => r[j] = 0
    OBVIOUS
  <1>4. Top(n)
    BY <1>2, <1>3
  <1>5. ASSUME NEW x \in 0 .. 4, Top(x) PROVE x = n
    <2>1. CASE x < n
      <3>1. x \in x .. 3 /\ x \in 0 .. 3
        BY <2>1
      <3>2. QED
        BY <1>2, <1>5, <2>1, <3>1
    <2>2. CASE n < x
      <3>1. x - 1 \in 0 .. 3 /\ ~(x - 1 < n) /\ x # 0
        BY <2>2
      <3>2. QED
        BY <1>3, <1>5, <3>1
    <2>3. QED
      BY <2>1, <2>2
  <1>6. top = n
    <2> HIDE DEF Top
    <2>1. top \in 0 .. 4 /\ Top(top)
      BY <1>4
    <2> HIDE DEF top
    <2>2. QED
      BY <1>5, <2>1
  <1>7. Word(r) = [j \in 1 .. top |-> r[j - 1]]
    BY DEF Word
  <1> HIDE DEF top
  <1> DEFINE v == [j \in 1 .. n |-> r[j - 1]]
  <1>8. \A j \in 1 .. n : r[j - 1] = w[j] /\ w[j] \in Byte
    <2> TAKE j \in 1 .. n
    <2>1. j - 1 \in 0 .. 3 /\ j - 1 < n /\ (j - 1) + 1 = j
      OBVIOUS
    <2>2. r[j - 1] = w[j]
      BY <1>2, <2>1
    <2>3. QED
      BY <1>1, <2>2 DEF Byte
  <1>9. v \in ByteSeq /\ Len(v) = n /\ \A j \in 1 .. n : v[j] = w[j]
    <2>1. v \in [1 .. n -> Byte]
      BY <1>8
    <2>2. v \in ByteSeq /\ Len(v) = n
      BY <2>1, LenProperties DEF ByteSeq
    <2>3. QED
      BY <1>8, <2>2
  <1>10. v = w
    BY <1>9, SameText
  <1>11. QED
    BY <1>6, <1>7, <1>10

\* What the registers t and d give together, when t ends with the first bytes from p on and d
\* has those behind them, is what lies at p: a word or less.
LEMMA PutTogether ==
    ASSUME NEW s \in ByteSeq, NEW align \in 1 .. 3, NEW p \in Nat, NEW l \in 0 .. 4, NEW t,
           p + (4 - align) + l <= Len(s),
           \A j \in 0 .. 3 : j < 4 - align => t[j + align] = s[p + j + 1]
    PROVE  Word(Or(ShiftRight(t, align), ShiftLeft(Register(Bytes(s, p + (4 - align), l)), 4 - align)))
               = Bytes(s, p, IF (4 - align) + l < 4 THEN (4 - align) + l ELSE 4)
  <1> DEFINE first == 4 - align
             e == Bytes(s, p + first, l)
             d == Register(e)
             low == ShiftRight(t, align)
             high == ShiftLeft(d, first)
             r == Or(low, high)
             n == IF first + l < 4 THEN first + l ELSE 4
             w == Bytes(s, p, n)
  <1>1. first \in 1 .. 3 /\ first + align = 4 /\ Len(s) \in Nat
    BY LenProperties DEF ByteSeq
  <1>2. n \in 0 .. 4 /\ n \in Nat /\ p + n <= Len(s)
    BY <1>1
  <1>3. w \in ByteSeq /\ Len(w) = n /\ \A j \in 1 .. n : w[j] = s[p + j]
    <2> HIDE DEF n
    <2>1. QED
      BY <1>2, Part
  <1>4. e \in ByteSeq /\ Len(e) = l /\ \A j \in 1 .. l : e[j] = s[(p + first) + j]
    <2> DEFINE from == p + first
    <2>1. from \in Nat /\ l \in Nat /\ from + l <= Len(s)
      BY <1>1
    <2> HIDE DEF from
    <2>2. Bytes(s, from, l) \in ByteSeq /\ Len(Bytes(s, from, l)) = l
          /\ \A j \in 1 .. l : Bytes(s, from, l)[j] = s[from + j]
      BY <2>1, Part
    <2>3. QED
      BY <2>2 DEF from
  <1> HIDE DEF e, w
  <1>5. \A j \in 0 .. 3 : d[j] = IF j < l THEN e[j + 1] ELSE 0
    BY <1>4 DEF Register
  <1> HIDE DEF d
  <1>6. \A j \in 0 .. 3 : low[j] = IF j + align <= 3 THEN t[j + align] ELSE 0
    BY DEF ShiftRight
  <1> HIDE DEF first
  <1>7. \A j \in 0 .. 3 : high[j] = IF j >= first THEN d[j - first] ELSE 0
    BY DEF ShiftLeft
  <1> HIDE DEF low, high
  <1>8. \A j \in 0 .. 3 : r[j] = low[j] + high[j]
    BY DEF Or
  <1> HIDE DEF r
  <1>9. \A j \in 1 .. n : w[j] \in Nat
    BY <1>3, ElementOfSeq DEF ByteSeq, Byte
  <1>10. ASSUME NEW j \in 0 .. 3 PROVE r[j] = IF j < n THEN w[j + 1] ELSE 0
    <2>1. CASE j < first
      <3>1. j < n /\ j + 1 \in 1 .. n /\ j + align <= 3 /\ ~(j >= first) /\ j < 4 - align /\ p + (j + 1) = p + j + 1
        BY <1>1, <2>1
      <3>2. low[j] = t[j + align] /\ high[j] = 0
        BY <1>6, <1>7, <3>1
      <3>3. t[j + align] = s[p + j + 1]
        BY <3>1
      <3>4. w[j + 1] = s[p + j + 1] /\ w[j + 1] \in Nat
        BY <1>3, <1>9, <3>1
      <3>5. r[j] = w[j + 1] + 0
        BY <1>8, <3>2, <3>3, <3>4
      <3>6. QED
        BY <3>1, <3>4, <3>5
    <2>2. CASE ~(j < first)
      <3> DEFINE z == j - first
      <3>1. j >= first /\ ~(j + align <= 3) /\ z \in 0 .. 3
        BY <1>1, <2>2
      <3>2. low[j] = 0 /\ high[j] = d[z]
        BY <1>6, <1>7, <3>1
      <3>3. CASE z < l
        <4>1. j < n /\ j + 1 \in 1 .. n /\ z + 1 \in 1 .. l /\ (p + first) + (z + 1) = p + (j + 1)
          BY <1>1, <3>1, <3>3
        <4> HIDE DEF z
        <4>2. d[z] = e[z + 1]
          BY <1>5, <3>1, <3>3
        <4>3. e[z + 1] = s[p + (j + 1)]
          BY <1>4, <4>1
        <4>4. w[j + 1] = s[p + (j + 1)] /\ w[j + 1] \in Nat
          BY <1>3, <1>9, <4>1
        <4>5. r[j] = 0 + w[j + 1]
          BY <1>8, <3>2, <4>2, <4>3, <4>4
        <4>6. QED
          BY <4>1, <4>4, <4>5
      <3>4. CASE ~(z < l)
        <4>1. ~(j < n)
          BY <1>1, <3>1, <3>4
        <4> HIDE DEF z
        <4>2. d[z] = 0
          BY <1>5, <3>1, <3>4
        <4>3. r[j] = 0
          BY <1>8, <3>2, <4>2
        <4>4. QED
          BY <4>1, <4>3
      <3>5. QED
        BY <3>3, <3>4
    <2>3. QED
      BY <2>1, <2>2
  <1> HIDE DEF n
  <1>11. Word(r) = w
    BY <1>2, <1>3, <1>10, WordOf
  <1>12. QED
    BY <1>11 DEF r, w, n, low, high, d, e, first

\* MurmurHashAligned2 mixes what MurmurHash2 does.
LEMMA AlignedAgrees ==
    ASSUME NEW s \in ByteSeq, NEW align \in 0 .. 3
    PROVE  Aligned(s, align) = OneShot(s, 4)
  <1> DEFINE first == 4 - align
             n == (Len(s) - first) \div 4
             D(k) == Register(Bytes(s, first + 4 * (k - 1), 4))
             T(k) == IF k = 0 THEN ShiftLeft(Register(Bytes(s, 0, first)), align) ELSE D(k)
             With(k, r) == Word(Or(ShiftRight(T(k), align), ShiftLeft(r, 4 - align)))
             behind == first + 4 * n
             left == Len(s) - behind
             taken == [k \in 1 .. n |-> With(k - 1, D(k))]
  <1>0. CASE align = 0 \/ Len(s) < 4
    BY <1>0 DEF Aligned
  <1>1. SUFFICES ASSUME ~(align = 0 \/ Len(s) < 4)
                 PROVE  (IF left >= align
                         THEN [words |-> Append(taken, With(n, Register(Bytes(s, behind, align)))),
                               tail |-> Bytes(s, behind + align, left - align)]
                         ELSE [words |-> taken, tail |-> With(n, Register(Bytes(s, behind, left)))])
                        = OneShot(s, 4)
    <2>1. ASSUME ~(align = 0 \/ Len(s) < 4)
          PROVE  Aligned(s, align) =
                     (IF left >= align
                      THEN [words |-> Append(taken, With(n, Register(Bytes(s, behind, align)))),
                            tail |-> Bytes(s, behind + align, left - align)]
                      ELSE [words |-> taken, tail |-> With(n, Register(Bytes(s, behind, left)))])
      BY <2>1, Zenon DEF Aligned
    <2> HIDE DEF With, left, taken, behind
    <2>2. QED
      BY <1>0, <2>1
  <1>2. Len(s) \in Nat /\ align \in 1 .. 3 /\ first \in 1 .. 3 /\ first + align = 4
    BY <1>1, LenProperties DEF ByteSeq
  <1>3. n \in Nat /\ left \in 0 .. 3 /\ Len(s) = first + 4 * n + left
    <2> DEFINE rest == Len(s) - first
    <2>1. rest \in Nat
      BY <1>1, <1>2
    <2> HIDE DEF rest
    <2>2. rest \div 4 \in Nat /\ rest % 4 \in 0 .. 3 /\ rest = 4 * (rest \div 4) + (rest % 4)
      BY <2>1, Fours
    <2>3. n = rest \div 4
      BY DEF rest
    <2> HIDE DEF n
    <2>4. left = rest % 4
      BY <1>2, <2>1, <2>2, <2>3 DEF rest
    <2>5. QED
      BY <1>2, <2>2, <2>3, <2>4 DEF rest
  <1> HIDE DEF n
  <1>4. ASSUME NEW k \in 0 .. n
        PROVE  \A j \in 0 .. 3 : j < 4 - align => T(k)[j + align] = s[4 * k + j + 1]
    <2> SUFFICES ASSUME NEW j \in 0 .. 3, j < first PROVE T(k)[j + align] = s[4 * k + j + 1]
      OBVIOUS
    <2>1. CASE k = 0
      <3> DEFINE e == Bytes(s, 0, first)
                 d == Register(e)
      <3>1. first \in Nat /\ 0 + first <= Len(s)
        BY <1>1, <1>2
      <3> HIDE DEF first
      <3>2. Len(e) = first /\ \A z \in 1 .. first : e[z] = s[0 + z]
        BY <3>1, Part
      <3> HIDE DEF e
      <3>3. \A z \in 0 .. 3 : d[z] = IF z < first THEN e[z + 1] ELSE 0
        BY <3>2 DEF Register
      <3> HIDE DEF d
      <3>4. \A z \in 0 .. 3 : ShiftLeft(d, align)[z] = IF z >= align THEN d[z - align] ELSE 0
        BY DEF ShiftLeft
      <3>5. j + align \in 0 .. 3 /\ j + align >= align /\ (j + align) - align = j /\ j + 1 \in 1 .. first
            /\ 0 + (j + 1) = 4 * k + j + 1
        BY <1>2, <2>1
      <3>6. ShiftLeft(d, align)[j + align] = d[j]
        BY <3>4, <3>5
      <3>7. d[j] = e[j + 1] /\ e[j + 1] = s[0 + (j + 1)]
        BY <3>2, <3>3, <3>5
      <3>8. T(k) = ShiftLeft(d, align)
        BY <2>1 DEF d, e
      <3>9. QED
        BY <3>5, <3>6, <3>7, <3>8
    <2>2. CASE k # 0
      <3> DEFINE from == first + 4 * (k - 1)
                 e == Bytes(s, from, 4)
                 d == Register(e)
                 z == j + align
      <3>1. from \in Nat /\ from + 4 <= Len(s)
        BY <1>2, <1>3, <2>2
      <3>2. z \in 0 .. 3 /\ z < 4 /\ z + 1 \in 1 .. 4 /\ from + (z + 1) = 4 * k + j + 1
        BY <1>2, <2>2
      <3>3. T(k) = d
        BY <2>2
      <3> HIDE DEF from, z
      <3>0. \A l \in Nat : from + l <= Len(s) =>
                Len(Bytes(s, from, l)) = l /\ \A x \in 1 .. l : Bytes(s, from, l)[x] = s[from + x]
        BY <3>1, Part
      <3>4. Len(e) = 4 /\ \A x \in 1 .. 4 : e[x] = s[from + x]
        BY <3>0, <3>1
      <3> HIDE DEF e
      <3>5. \A x \in 0 .. 3 : d[x] = IF x < 4 THEN e[x + 1] ELSE 0
        BY <3>4 DEF Register
      <3> HIDE DEF d
      <3>6. d[z] = s[from + (z + 1)]
        BY <3>2, <3>4, <3>5
      <3>7. QED
        BY <3>2, <3>3, <3>6 DEF z
    <2>3. QED
      BY <2>1, <2>2
  <1>5. ASSUME NEW k \in 0 .. n, NEW l \in 0 .. 4, first + 4 * k + l <= Len(s)
        PROVE  With(k, Register(Bytes(s, first + 4 * k, l)))
                   = Bytes(s, 4 * k, IF first + l < 4 THEN first + l ELSE 4)
    <2> DEFINE p == 4 * k
               t == T(k)
    <2>1. p \in Nat /\ p + (4 - align) + l <= Len(s) /\ first + 4 * k = p + (4 - align)
      BY <1>2, <1>3, <1>5
    <2>2. \A j \in 0 .. 3 : j < 4 - align => t[j + align] = s[p + j + 1]
      BY <1>4
    <2> HIDE DEF p, t
    <2>3. Word(Or(ShiftRight(t, align), ShiftLeft(Register(Bytes(s, p + (4 - align), l)), 4 - align)))
              = Bytes(s, p, IF (4 - align) + l < 4 THEN (4 - align) + l ELSE 4)
      BY <1>2, <2>1, <2>2, PutTogether
    <2>4. QED
      BY <2>1, <2>3 DEF p, t
  <1>6. ASSUME NEW k \in 1 .. n PROVE With(k - 1, D(k)) = Bytes(s, 4 * (k - 1), 4)
    <2> DEFINE z == k - 1
    <2>1. z \in 0 .. n /\ first + 4 * z + 4 <= Len(s) /\ ~(first + 4 < 4)
      BY <1>2, <1>3
    <2> HIDE DEF first, z
    <2>2. With(z, Register(Bytes(s, first + 4 * z, 4))) = Bytes(s, 4 * z, 4)
      BY <1>5, <2>1
    <2>3. QED
      BY <2>2 DEF z, first
  <1> HIDE DEF With, D, T
  <1>7. taken = [k \in 1 .. n |-> Bytes(s, 4 * (k - 1), 4)]
    BY <1>6
  <1> HIDE DEF taken
  <1>8. CASE left >= align
    <2> DEFINE q == n + 1
               r == left - align
               both == [g \in 1 .. q |-> Bytes(s, 4 * (g - 1), 4)]
    <2>1. q \in Nat /\ r \in 0 .. 3 /\ Len(s) = 4 * q + r /\ behind + align = 4 * q
      BY <1>2, <1>3, <1>8
    <2>2. OneShot(s, 4) = [words |-> both, tail |-> Bytes(s, 4 * q, r)]
      <3> HIDE DEF q, r
      <3>1. Len(s) \div 4 = q /\ Len(s) % 4 = r
        BY <1>2, <2>1, FoursAre
      <3>2. QED
        BY <3>1 DEF OneShot
    <2>3. With(n, Register(Bytes(s, behind, align))) = Bytes(s, 4 * n, 4)
      <3>1. n \in 0 .. n /\ align \in 0 .. 4 /\ first + 4 * n + align <= Len(s) /\ ~(first + align < 4)
        BY <1>2, <1>3, <1>8
      <3>2. QED
        BY <1>5, <3>1
    <2>4. Append(taken, Bytes(s, 4 * n, 4)) = both
      <3> DEFINE last == Bytes(s, 4 * n, 4)
      <3>1. both \in Seq(ByteSeq) /\ Len(both) = q
        <4>1. Len(s) \div 4 = q
          BY <1>2, <2>1, FoursAre
        <4> HIDE DEF both, q
        <4>2. both = OneShot(s, 4).words
          BY <2>2
        <4>3. QED
          BY <4>1, <4>2, CutOf
      <3>2. \A g \in 1 .. q : both[g] \in ByteSeq /\ both[g] = Bytes(s, 4 * (g - 1), 4)
        BY <3>1, ElementOfSeq
      <3>3. \A g \in 1 .. n : g \in 1 .. q /\ taken[g] = both[g]
        <4>1. \A g \in 1 .. n : g \in 1 .. q
          BY <1>3
        <4>2. \A g \in 1 .. n : taken[g] = Bytes(s, 4 * (g - 1), 4)
          BY <1>7
        <4> HIDE DEF q, both
        <4>3. QED
          BY <3>2, <4>1, <4>2
      <3>4. q \in 1 .. q /\ 4 * (q - 1) = 4 * n /\ both[q] = last
        BY <1>3, <3>2
      <3>5. taken \in Seq(ByteSeq) /\ Len(taken) = n
        <4> HIDE DEF both, q, last
        <4>1. \A g \in 1 .. n : taken[g] \in ByteSeq
          BY <3>2, <3>3
        <4>2. taken \in [1 .. n -> ByteSeq]
          BY <1>7, <4>1
        <4>3. QED
          BY <1>3, <4>2, LenProperties
      <3>6. last \in ByteSeq
        BY <3>2, <3>4
      <3> HIDE DEF taken, last, both
      <3>7. /\ Append(taken, last) \in Seq(ByteSeq) /\ Len(Append(taken, last)) = n + 1
            /\ \A g \in 1 .. n + 1 : Append(taken, last)[g] = IF g <= n THEN taken[g] ELSE last
        BY <1>3, <3>5, <3>6, AppendProperties
      <3>8. \A g \in 1 .. q : Append(taken, last)[g] = both[g]
        BY <1>3, <3>3, <3>4, <3>7
      <3>9. Append(taken, last) = both
        BY <3>1, <3>7, <3>8, SeqEqual
      <3>10. QED
        BY <3>9 DEF last, both
    <2>5. QED
      BY <1>8, <2>1, <2>2, <2>3, <2>4
  <1>9. CASE ~(left >= align)
    <2> DEFINE r == first + left
    <2>1. r \in 0 .. 3 /\ Len(s) = 4 * n + r /\ r < 4
      BY <1>2, <1>3, <1>9
    <2>2. OneShot(s, 4) = [words |-> taken, tail |-> Bytes(s, 4 * n, r)]
      <3> HIDE DEF r
      <3>1. Len(s) \div 4 = n /\ Len(s) % 4 = r
        BY <1>2, <1>3, <2>1, FoursAre
      <3>2. QED
        BY <1>7, <3>1 DEF OneShot
    <2>3. With(n, Register(Bytes(s, behind, left))) = Bytes(s, 4 * n, r)
      <3>1. n \in 0 .. n /\ left \in 0 .. 4 /\ first + 4 * n + left <= Len(s)
        BY <1>2, <1>3
      <3>2. QED
        BY <1>5, <2>1, <3>1
    <2>4. QED
      BY <1>9, <2>2, <2>3
  <1>10. QED
    BY <1>8, <1>9

\* MurmurHash2_64B takes each word once, in turn.
LEMMA LanesTakeAll ==
    ASSUME NEW s \in ByteSeq
    PROVE  TakenInTurn(s)
  <1> DEFINE whole == OneShot(s, 4)
             lanes == Lanes(s)
             q == Len(s) \div 4
             r == Len(s) % 4
             pairs == Len(s) \div 8
             odd == Len(s) % 8 >= 4
             n1 == pairs + (IF odd THEN 1 ELSE 0)
  <1>1. Len(s) \in Nat /\ q \in Nat /\ r \in 0 .. 3 /\ Len(s) = 4 * q + r
    BY CutOf
  <1>2. pairs \in Nat /\ n1 \in Nat /\ q = pairs + n1 /\ 8 * pairs + (IF odd THEN 4 ELSE 0) = 4 * q
        /\ n1 >= pairs /\ n1 <= pairs + 1
    <2> DEFINE n == Len(s)
               e == n % 8
    <2> HIDE DEF n
    <2>1. n \in Nat
      BY <1>1 DEF n
    <2>2. n \div 8 \in Nat /\ e \in 0 .. 7 /\ n = 8 * (n \div 8) + e
      BY <2>1
    <2>3. pairs = n \div 8 /\ odd = (e >= 4) /\ n = 4 * q + r
      BY <1>1 DEF n
    <2> HIDE DEF e, pairs, odd, q, r
    <2>4. CASE e >= 4
      <3>1. odd
        BY <2>3, <2>4
      <3>2. q = 2 * pairs + 1
        BY <1>1, <2>2, <2>3, <2>4
      <3>3. QED
        BY <2>2, <2>3, <3>1, <3>2
    <2>5. CASE ~(e >= 4)
      <3>1. ~odd
        BY <2>3, <2>5
      <3>2. q = 2 * pairs
        BY <1>1, <2>2, <2>3, <2>5
      <3>3. QED
        BY <2>2, <2>3, <3>1, <3>2
    <2>6. QED
      BY <2>4, <2>5
  <1> DEFINE h1 == [k \in 1 .. n1 |-> Bytes(s, 4 * (2 * (k - 1)), 4)]
             h2 == [k \in 1 .. pairs |-> Bytes(s, 4 * (2 * k - 1), 4)]
             tail == Bytes(s, 4 * q, r)
  <1>3. lanes.h1 = h1 /\ lanes.h2 = h2 /\ lanes.tail = tail
    BY <1>2 DEF Lanes
  <1>4. Len(h1) = n1 /\ Len(h2) = pairs
    OBVIOUS
  <1>5. whole.words = [g \in 1 .. q |-> Bytes(s, 4 * (g - 1), 4)] /\ whole.tail = tail /\ Len(whole.words) = q
    BY CutOf DEF OneShot
  <1> HIDE DEF lanes, whole, q, r, pairs, odd, n1
  <1>6. ASSUME NEW k \in 1 .. q
        PROVE  Bytes(s, 4 * (k - 1), 4) = IF k % 2 = 1 THEN h1[(k + 1) \div 2] ELSE h2[k \div 2]
    <2> DEFINE j == k \div 2
    <2>1. k \in Nat /\ j \in Nat /\ k % 2 \in 0 .. 1 /\ k = 2 * j + (k % 2)
      BY <1>1
    <2>2. CASE k % 2 = 1
      <3> DEFINE z == (k + 1) \div 2
      <3>1. z = j + 1
        BY <2>1, <2>2
      <3> HIDE DEF z, j
      <3>2. z \in 1 .. n1 /\ 4 * (2 * (z - 1)) = 4 * (k - 1)
        BY <1>1, <1>2, <2>1, <2>2, <3>1
      <3>3. h1[z] = Bytes(s, 4 * (2 * (z - 1)), 4)
        BY <3>2
      <3> HIDE DEF h1
      <3>4. QED
        BY <2>2, <3>2, <3>3 DEF z
    <2>3. CASE k % 2 # 1
      <3> HIDE DEF j
      <3>1. j \in 1 .. pairs /\ 4 * (2 * j - 1) = 4 * (k - 1)
        BY <1>1, <1>2, <2>1, <2>3
      <3>2. h2[j] = Bytes(s, 4 * (2 * j - 1), 4)
        BY <3>1
      <3> HIDE DEF h2
      <3>3. QED
        BY <2>3, <3>1, <3>2 DEF j
    <2>4. QED
      BY <2>2, <2>3
  <1> HIDE DEF h1, h2, tail
  <1>7. whole.words = [k \in 1 .. Len(whole.words) |->
                           IF k % 2 = 1 THEN lanes.h1[(k + 1) \div 2] ELSE lanes.h2[k \div 2]]
    BY <1>3, <1>5, <1>6
  <1>8. QED
    <2>1. lanes.tail = whole.tail /\ Len(lanes.h1) + Len(lanes.h2) = Len(whole.words)
      BY <1>2, <1>3, <1>4, <1>5
    <2>2. QED
      BY <1>7, <2>1, Zenon DEF TakenInTurn, lanes, whole

-----------------------------------------------------------------------------
\* What is added next.
LEMMA MoreOf ==
    ASSUME NEW s \in ByteSeq, NEW a \in Nat, NEW n \in Nat, a + n <= Len(s)
    PROVE  /\ SubSeq(s, 1, a) \in ByteSeq /\ SubSeq(s, a + 1, a + n) \in ByteSeq
           /\ Len(SubSeq(s, a + 1, a + n)) = n
           /\ SubSeq(s, 1, a) \o SubSeq(s, a + 1, a + n) = SubSeq(s, 1, a + n)
  <1> DEFINE old == SubSeq(s, 1, a)
             more == SubSeq(s, a + 1, a + n)
             all == SubSeq(s, 1, a + n)
             m == a + n
  <1>1. Len(s) \in Nat /\ a \in 0 .. Len(s) /\ m \in 0 .. Len(s) /\ m \in Nat /\ 0 \in Nat /\ 0 + a <= Len(s)
        /\ 0 + m <= Len(s)
    BY LenProperties DEF ByteSeq
  <1>2. old = Bytes(s, 0, a) /\ more = Bytes(s, a, n) /\ all = Bytes(s, 0, m)
    BY <1>1 DEF Bytes
  <1> HIDE DEF old, more, all
  <1>3. old \in ByteSeq /\ Len(old) = a /\ \A j \in 1 .. a : old[j] = s[0 + j]
    BY <1>1, <1>2, Part
  <1>4. more \in ByteSeq /\ Len(more) = n /\ \A j \in 1 .. n : more[j] = s[a + j]
    BY <1>2, Part
  <1>5. all \in ByteSeq /\ Len(all) = m /\ \A j \in 1 .. m : all[j] = s[0 + j]
    <2> HIDE DEF m
    <2>1. QED
      BY <1>1, <1>2, Part
  <1>6. /\ old \o more \in ByteSeq /\ Len(old \o more) = Len(old) + Len(more)
        /\ \A j \in 1 .. Len(old) : (old \o more)[j] = old[j]
        /\ \A j \in 1 .. Len(more) : (old \o more)[Len(old) + j] = more[j]
    BY <1>3, <1>4, Followed
  <1>7. ASSUME NEW j \in 1 .. m PROVE (old \o more)[j] = all[j]
    <2>1. CASE j <= a
      BY <1>3, <1>5, <1>6, <2>1
    <2>2. CASE ~(j <= a)
      <3> DEFINE k == j - a
      <3>1. k \in 1 .. n /\ a + k = j /\ 0 + j = j
        BY <2>2
      <3> HIDE DEF k, m
      <3>2. (old \o more)[a + k] = more[k] /\ more[k] = s[a + k]
        BY <1>3, <1>4, <1>6, <3>1
      <3>3. QED
        BY <1>5, <3>1, <3>2
    <2>3. QED
      BY <2>1, <2>2
  <1>8. old \o more = all
    BY <1>3, <1>4, <1>5, <1>6, <1>7, SameText
  <1>9. QED
    BY <1>3, <1>4, <1>8 DEF old, more, all

HashType == input \in ByteSeq /\ at \in 0 .. Len(input)

\* The inductive invariant.
HashInv == HashType /\ Incremental

\* Nothing was added after Begin.
LEMMA Begun ==
    ASSUME NEW s \in ByteSeq
    PROVE  Begin = Hashed(SubSeq(s, 1, 0), 0)
  <1>1. Len(s) \in Nat /\ 0 \in 0 .. Len(s)
    BY LenProperties DEF ByteSeq
  <1>2. SubSeq(s, 1, 0) \in ByteSeq /\ Len(SubSeq(s, 1, 0)) = 0
    BY <1>1, InTwo
  <1> DEFINE e == SubSeq(s, 1, 0)
  <1> HIDE DEF e
  <1>3. Len(e) \in 0 .. 3 /\ Len(e) % 4 = 0
    BY <1>2 DEF e
  <1>4. OneShot(e, 4).words = <<>> /\ OneShot(e, 4).tail = <<>>
    BY <1>2, <1>3, NoWord, WholeWords DEF e
  <1>5. QED
    BY <1>4 DEF Begin, Hashed, e

\* An object has mixed what was added to it after its first Begin, and after any step.
LEMMA HashInvInductive ==
    /\ HashInit => HashInv
    /\ HashInv /\ [HashNext]_hashVars => HashInv'
  <1>1. ASSUME HashInit PROVE HashInv
    <2>1. input \in ByteSeq /\ at = 0 /\ hash = Begin /\ at \in 0 .. Len(input)
      BY <1>1, Nothing, EmptySeq DEF HashInit, ByteSeq
    <2>2. hash = Hashed(SubSeq(input, 1, at), at)
      BY <2>1, Begun
    <2>3. QED
      BY <2>1, <2>2 DEF HashInv, HashType, Incremental, Hashed
  <1>2. ASSUME HashInv, [HashNext]_hashVars PROVE HashInv'
    <2>1. input \in ByteSeq /\ at \in 0 .. Len(input) /\ Len(input) \in Nat /\ at \in Nat
      BY <1>2, LenProperties DEF HashInv, HashType, ByteSeq
    <2>2. hash = Hashed(SubSeq(input, 1, at), at)
      BY <1>2 DEF HashInv, Incremental, Hashed
    <2>3. SUFFICES /\ input' \in ByteSeq /\ at' \in 0 .. Len(input')
                   /\ hash' = Hashed(SubSeq(input', 1, at'), at')
      BY DEF HashInv, HashType, Incremental, Hashed
    <2>4. CASE BeginHash
      <3>1. input' \in ByteSeq /\ at' = 0 /\ hash' = Begin
        BY <2>4, InputsAssumption DEF BeginHash, ByteSeq, Byte
      <3>2. Len(input') \in Nat
        BY <3>1, LenProperties DEF ByteSeq
      <3>3. QED
        BY <3>1, <3>2, Begun
    <2>5. CASE AddChunk
      <3>1. PICK n \in 0 .. Len(input) - at :
                /\ hash' = Add(hash, SubSeq(input, at + 1, at + n))
                /\ at' = at + n /\ input' = input
        BY <2>5 DEF AddChunk
      <3> DEFINE old == SubSeq(input, 1, at)
                 chunk == SubSeq(input, at + 1, at + n)
      <3>2. n \in Nat /\ at + n <= Len(input) /\ at + n \in 0 .. Len(input)
        BY <2>1
      <3>3. /\ old \in ByteSeq /\ chunk \in ByteSeq /\ Len(chunk) = n
            /\ old \o chunk = SubSeq(input, 1, at + n)
        BY <2>1, <3>2, MoreOf
      <3> HIDE DEF old, chunk
      <3>4. Add(Hashed(old, at), chunk) = Hashed(old \o chunk, at + n)
        BY <2>1, <3>3, AddMixes
      <3>5. hash' = Hashed(old \o chunk, at + n)
        BY <2>2, <3>1, <3>4 DEF old, chunk
      <3>6. QED
        BY <2>1, <3>1, <3>2, <3>3, <3>5
    <2>6. CASE UNCHANGED hashVars
      BY <2>1, <2>2, <2>6 DEF hashVars
    <2>7. QED
      BY <1>2, <2>4, <2>5, <2>6 DEF HashNext
  <1>3. QED
    BY <1>1, <1>2

\* However its input is cut into chunks, CMurmurHash2A mixes what the hash of all of it would; and
\* the aligned and the two-lane versions take the same taken, of every input.
THEOREM HashesAgreeHolds == HashSpec => []HashesAgree
  <1>1. HashInv => HashesAgree
    <2> SUFFICES ASSUME HashInv PROVE HashesAgree
      OBVIOUS
    <2>1. input \in ByteSeq /\ Incremental
      BY DEF HashInv, HashType
    <2>2. QED
      BY <2>1, AlignedAgrees, LanesTakeAll DEF HashesAgree
  <1>2. QED
    BY <1>1, HashInvInductive, PTL DEF HashSpec

-----------------------------------------------------------------------------
(* Bytes as strings in SQL.                                                *)

Octet == 0 .. Base - 1
Octets == Seq(Octet)

\* What an encoded string is made of: no zero and no quote.
Clean == (1 .. Base - 1) \ {Quote}
CleanText == Seq(Clean)

\* A recursion over the numbers up to n has a result at each.
LEMMA Recursion ==
    ASSUME NEW V, NEW a \in V, NEW n \in Nat, NEW G \in [1 .. n -> [V -> V]]
    PROVE  \E f \in [0 .. n -> V] : f[0] = a /\ \A k \in 1 .. n : f[k] = G[k][f[k - 1]]
  <1> DEFINE Good(f, m) == f[0] = a /\ \A k \in 1 .. m : f[k] = G[k][f[k - 1]]
             T == {m \in Nat : m <= n => \E f \in [0 .. m -> V] : Good(f, m)}
  <1>1. 0 \in T
    <2> DEFINE f == [k \in 0 .. 0 |-> a]
    <2>1. f \in [0 .. 0 -> V] /\ f[0] = a /\ \A k \in 1 .. 0 : FALSE
      OBVIOUS
    <2>2. QED
      BY <2>1
  <1>2. ASSUME NEW m \in Nat, m \in T PROVE m + 1 \in T
    <2> SUFFICES ASSUME m + 1 <= n PROVE \E f \in [0 .. m + 1 -> V] : Good(f, m + 1)
      OBVIOUS
    <2>1. PICK f \in [0 .. m -> V] : Good(f, m)
      BY <1>2
    <2> DEFINE x == G[m + 1][f[m]]
               g == [k \in 0 .. m + 1 |-> IF k <= m THEN f[k] ELSE x]
    <2>2. x \in V
      BY <2>1
    <2>3. /\ g \in [0 .. m + 1 -> V] /\ g[m + 1] = x
          /\ \A k \in 0 .. m : g[k] = f[k]
      <3> HIDE DEF x
      <3>1. QED
        BY <2>1, <2>2
    <2> HIDE DEF g
    <2>4. ASSUME NEW k \in 1 .. m + 1 PROVE g[k] = G[k][g[k - 1]]
      <3>1. CASE k = m + 1
        <4>1. k - 1 = m /\ m \in 0 .. m
          BY <3>1
        <4>2. g[k - 1] = f[m]
          BY <2>3, <4>1
        <4>3. QED
          BY <2>3, <3>1, <4>2
      <3>2. CASE k # m + 1
        <4>1. k \in 1 .. m /\ k \in 0 .. m /\ k - 1 \in 0 .. m
          BY <3>2
        <4>2. QED
          BY <2>1, <2>3, <4>1
      <3>3. QED
        BY <3>1, <3>2
    <2>5. 0 \in 0 .. m
      OBVIOUS
    <2>6. g[0] = a
      BY <2>1, <2>3, <2>5
    <2>7. QED
      BY <2>3, <2>4, <2>6
  <1> HIDE DEF T
  <1>3. Nat \subseteq T
    BY <1>1, <1>2, EveryNumber
  <1>4. n \in T /\ n <= n
    BY <1>3
  <1>5. QED
    BY <1>4 DEF T

\* Recursions that begin alike and go on alike end alike.
LEMMA SameRecursion ==
    ASSUME NEW n \in Nat, NEW f, NEW g, f[0] = g[0],
           \A k \in 1 .. n : f[k - 1] = g[k - 1] => f[k] = g[k]
    PROVE  f[n] = g[n]
  <1> DEFINE T == {m \in Nat : m <= n => f[m] = g[m]}
  <1>1. 0 \in T
    OBVIOUS
  <1>2. ASSUME NEW m \in Nat, m \in T PROVE m + 1 \in T
    <2> SUFFICES ASSUME m + 1 <= n PROVE f[m + 1] = g[m + 1]
      OBVIOUS
    <2>1. m + 1 \in 1 .. n /\ (m + 1) - 1 = m /\ m <= n
      OBVIOUS
    <2>2. f[m] = g[m]
      BY <1>2, <2>1
    <2>3. QED
      BY <2>1, <2>2
  <1> HIDE DEF T
  <1>3. Nat \subseteq T
    BY <1>1, <1>2, EveryNumber
  <1>4. QED
    BY <1>3 DEF T

\* Sums and differences of octets.
LEMMA Modulo ==
    /\ Base \in Nat /\ Base >= 6 /\ Quote \in 4 .. Base - 2
    /\ \A a \in Int : a % Base \in Octet
    /\ \A a \in Octet : a % Base = a
    /\ \A x, e \in Octet : (x - e) % Base \in Octet /\ (((x - e) % Base) + e) % Base = x
    /\ \A y, e \in Octet : (y + e) % Base \in Octet /\ (((y + e) % Base) - e) % Base = y
  <1>1. Base \in Nat /\ Base >= 6 /\ Quote \in 4 .. Base - 2
    BY BlobAssumption
  <1>2. \A a \in Octet : a % Base = a
    BY <1>1 DEF Octet
  <1>3. \A a \in Int : a % Base \in Octet
    BY <1>1 DEF Octet
  <1>4. ASSUME NEW x \in Octet, NEW e \in Octet
        PROVE  (x - e) % Base \in Octet /\ (((x - e) % Base) + e) % Base = x
    <2>1. (x - e) % Base = IF x >= e THEN x - e ELSE x - e + Base
      BY <1>1, <1>4 DEF Octet
    <2> DEFINE y == (x - e) % Base
    <2>2. y \in Octet /\ y + e = IF x >= e THEN x ELSE x + Base
      BY <1>1, <1>4, <2>1 DEF Octet
    <2> HIDE DEF y
    <2>3. (y + e) % Base = x
      BY <1>1, <1>4, <2>2 DEF Octet
    <2>4. QED
      BY <2>2, <2>3 DEF y
  <1>5. ASSUME NEW y \in Octet, NEW e \in Octet
        PROVE  (y + e) % Base \in Octet /\ (((y + e) % Base) - e) % Base = y
    <2>1. (y + e) % Base = IF y + e < Base THEN y + e ELSE y + e - Base
      BY <1>1, <1>5 DEF Octet
    <2> DEFINE x == (y + e) % Base
    <2>2. x \in Octet /\ x - e = IF y + e < Base THEN y ELSE y - Base
      BY <1>1, <1>5, <2>1 DEF Octet
    <2> HIDE DEF x
    <2>3. (x - e) % Base = y
      BY <1>1, <1>5, <2>2 DEF Octet
    <2>4. QED
      BY <2>2, <2>3 DEF x
  <1>6. QED
    BY <1>1, <1>2, <1>3, <1>4, <1>5

\* Two characters in the place of 0, 1 and the quote.
LEMMA EscapeIs ==
    ASSUME NEW c \in Octet
    PROVE  /\ Escape(c) = IF c = 0 THEN <<1, 1>> ELSE IF c = 1 THEN <<1, 2>>
                          ELSE IF c = Quote THEN <<1, 3>> ELSE <<c>>
           /\ Escape(c) \in CleanText
           /\ Len(Escape(c)) = IF c \in {0, 1, Quote} THEN 2 ELSE 1
  <1>1. Quote # 0 /\ Quote # 1 /\ 1 \in Clean /\ 2 \in Clean /\ 3 \in Clean
    BY Modulo DEF Clean
  <1>2. Escape(c) = IF c = 0 THEN <<1, 1>> ELSE IF c = 1 THEN <<1, 2>>
                    ELSE IF c = Quote THEN <<1, 3>> ELSE <<c>>
    BY <1>1 DEF Escape
  <1>3. c \notin {0, 1, Quote} => c \in Clean
    BY Modulo DEF Clean, Octet
  <1>4. CASE c \in {0, 1, Quote}
    BY <1>1, <1>2, <1>4 DEF CleanText
  <1>5. CASE c \notin {0, 1, Quote}
    BY <1>2, <1>3, <1>5 DEF CleanText
  <1>6. QED
    BY <1>4, <1>5

-----------------------------------------------------------------------------
\* What encodes the bytes behind the offset, as a recursion.
LEMMA BodyIs ==
    ASSUME NEW s \in Octets, NEW e \in Octet
    PROVE  \E f \in [0 .. Len(s) -> CleanText] :
               /\ Body(s, e) = f[Len(s)] /\ f[0] = <<>>
               /\ \A k \in 1 .. Len(s) : f[k] = f[k - 1] \o Escape((s[k] - e) % Base)
  <1> DEFINE n == Len(s)
             Is(f) == f = [k \in 0 .. n |-> IF k = 0 THEN <<>> ELSE f[k - 1] \o Escape((s[k] - e) % Base)]
             G == [k \in 1 .. n |-> [v \in CleanText |-> v \o Escape((s[k] - e) % Base)]]
  <1>1. n \in Nat /\ \A k \in 1 .. n : s[k] \in Octet
    BY LenProperties, ElementOfSeq DEF Octets
  <1>2. <<>> \in CleanText
    BY EmptySeq DEF CleanText
  <1>3. \A k \in 1 .. n : Escape((s[k] - e) % Base) \in CleanText
    BY <1>1, Modulo, EscapeIs
  <1>4. G \in [1 .. n -> [CleanText -> CleanText]]
    <2>1. \A v \in CleanText, k \in 1 .. n : v \o Escape((s[k] - e) % Base) \in CleanText
      BY <1>3, ConcatProperties DEF CleanText
    <2>2. QED
      BY <2>1
  <1>5. PICK f \in [0 .. n -> CleanText] :
            f[0] = <<>> /\ \A k \in 1 .. n : f[k] = G[k][f[k - 1]]
    <2> HIDE DEF G, n
    <2> DEFINE V == CleanText
               a == <<>>
    <2>1. n \in Nat /\ a \in V /\ G \in [1 .. n -> [V -> V]]
      BY <1>1, <1>2, <1>4
    <2> HIDE DEF V, a
    <2>2. \E f \in [0 .. n -> V] : f[0] = a /\ \A k \in 1 .. n : f[k] = G[k][f[k - 1]]
      BY <2>1, Recursion
    <2>3. QED
      BY <2>2 DEF V, a
  <1>6. \A k \in 1 .. n : f[k] = f[k - 1] \o Escape((s[k] - e) % Base)
    <2> TAKE k \in 1 .. n
    <2>1. k - 1 \in 0 .. n /\ f[k - 1] \in CleanText
      BY <1>1, <1>5
    <2>2. QED
      BY <1>5, <2>1
  <1>7. Is(f)
    <2> DEFINE h == [k \in 0 .. n |-> IF k = 0 THEN <<>> ELSE f[k - 1] \o Escape((s[k] - e) % Base)]
    <2>1. \A k \in 0 .. n : f[k] = h[k]
      <3> TAKE k \in 0 .. n
      <3>1. k = 0 \/ k \in 1 .. n
        BY <1>1
      <3>2. QED
        BY <1>5, <1>6, <3>1
    <2>2. f = h
      BY <1>5, <2>1
    <2>3. QED
      BY <2>2
  <1> DEFINE g == CHOOSE h : Is(h)
  <1>8. Body(s, e) = g[n]
    BY DEF Body
  <1>9. Is(g)
    <2> HIDE DEF Is
    <2>1. QED
      BY <1>7
  <1> HIDE DEF g
  <1>10. g[0] = <<>> /\ \A k \in 1 .. n : g[k] = g[k - 1] \o Escape((s[k] - e) % Base)
    <2> HIDE DEF n
    <2>1. \A k \in 0 .. n : g[k] = IF k = 0 THEN <<>> ELSE g[k - 1] \o Escape((s[k] - e) % Base)
      BY <1>9
    <2>2. 0 \in 0 .. n /\ \A k \in 1 .. n : k \in 0 .. n /\ k # 0
      BY <1>1
    <2>3. QED
      BY <2>1, <2>2
  <1>11. f[n] = g[n]
    <2> HIDE DEF n
    <2>1. ASSUME NEW k \in 1 .. n, f[k - 1] = g[k - 1] PROVE f[k] = g[k]
      BY <1>6, <1>10, <2>1
    <2>2. n \in Nat /\ f[0] = g[0]
      BY <1>1, <1>5, <1>10
    <2>3. QED
      BY <2>1, <2>2, SameRecursion
  <1>12. QED
    BY <1>5, <1>6, <1>8, <1>11

\* Nothing is encoded as nothing.
LEMMA BodyOfEmpty == ASSUME NEW e \in Octet PROVE Body(<<>>, e) = <<>>
  <1>1. <<>> \in Octets /\ Len(<<>>) = 0
    BY EmptySeq DEF Octets
  <1>2. PICK f \in [0 .. Len(<<>>) -> CleanText] : Body(<<>>, e) = f[Len(<<>>)] /\ f[0] = <<>>
    BY <1>1, BodyIs
  <1>3. QED
    BY <1>1, <1>2

\* One byte more is encoded by what stands for it.
LEMMA BodyAppend ==
    ASSUME NEW s \in Octets, NEW x \in Octet, NEW e \in Octet
    PROVE  Body(Append(s, x), e) = Body(s, e) \o Escape((x - e) % Base)
  <1> DEFINE n == Len(s)
             t == Append(s, x)
  <1>1. n \in Nat /\ Len(t) = n + 1 /\ t \in Octets /\ t[n + 1] = x /\ \A k \in 1 .. n : t[k] = s[k]
    BY AppendProperties, LenProperties DEF Octets
  <1> HIDE DEF t
  <1>2. PICK f \in [0 .. n -> CleanText] :
            /\ Body(s, e) = f[n] /\ f[0] = <<>>
            /\ \A k \in 1 .. n : f[k] = f[k - 1] \o Escape((s[k] - e) % Base)
    BY BodyIs
  <1>3. PICK g :
            /\ Body(t, e) = g[n + 1] /\ g[0] = <<>>
            /\ \A k \in 1 .. n + 1 : g[k] = g[k - 1] \o Escape((t[k] - e) % Base)
    <2>1. PICK g \in [0 .. Len(t) -> CleanText] :
              /\ Body(t, e) = g[Len(t)] /\ g[0] = <<>>
              /\ \A k \in 1 .. Len(t) : g[k] = g[k - 1] \o Escape((t[k] - e) % Base)
      BY <1>1, BodyIs
    <2>2. QED
      BY <1>1, <2>1
  <1> HIDE DEF n
  <1>4. f[n] = g[n]
    <2>1. ASSUME NEW k \in 1 .. n, f[k - 1] = g[k - 1] PROVE f[k] = g[k]
      <3>1. k \in 1 .. n + 1 /\ t[k] = s[k]
        BY <1>1
      <3>2. QED
        BY <1>2, <1>3, <2>1, <3>1
    <2>2. n \in Nat /\ f[0] = g[0]
      BY <1>1, <1>2, <1>3
    <2>3. QED
      BY <2>1, <2>2, SameRecursion
  <1>5. n + 1 \in 1 .. n + 1 /\ (n + 1) - 1 = n
    BY <1>1
  <1>6. Body(t, e) = Body(s, e) \o Escape((x - e) % Base)
    BY <1>1, <1>2, <1>3, <1>4, <1>5
  <1>7. QED
    BY <1>6 DEF t

\* What is encoded has no zero and no quote.
LEMMA BodyType == ASSUME NEW s \in Octets, NEW e \in Octet PROVE Body(s, e) \in CleanText
  <1>1. Len(s) \in Nat
    BY LenProperties DEF Octets
  <1>2. PICK f \in [0 .. Len(s) -> CleanText] : Body(s, e) = f[Len(s)]
    BY BodyIs
  <1>3. Len(s) \in 0 .. Len(s)
    BY <1>1
  <1>4. QED
    BY <1>2, <1>3

-----------------------------------------------------------------------------
\* What a decoder may be in.
Decoders == [out : Octets, mode : {"plain", "escape", "end", "malformed"}]
NothingRead == [out |-> <<>>, mode |-> "plain"]

\* What each character does to a decoder.
LEMMA ReadIs ==
    ASSUME NEW d \in Decoders, NEW c \in Octet, NEW e \in Octet
    PROVE  /\ Read(d, c, e) \in Decoders
           /\ d.mode = "plain" /\ c = 0 => Read(d, c, e) = [out |-> d.out, mode |-> "end"]
           /\ d.mode = "plain" /\ c = 1 => Read(d, c, e) = [out |-> d.out, mode |-> "escape"]
           /\ d.mode = "plain" /\ c \notin {0, 1} =>
                  Read(d, c, e) = [out |-> Append(d.out, (c + e) % Base), mode |-> "plain"]
           /\ d.mode = "escape" /\ c \in 1 .. 3 =>
                  Read(d, c, e) = [out |-> Append(d.out, (Escaped[c] + e) % Base), mode |-> "plain"]
           /\ d.mode = "escape" /\ c \notin 1 .. 3 => Read(d, c, e) = [out |-> d.out, mode |-> "malformed"]
           /\ d.mode \in {"end", "malformed"} => Read(d, c, e) = d
  <1>1. d.out \in Octets /\ d.mode \in {"plain", "escape", "end", "malformed"}
    BY DEF Decoders
  <1>2. \A b \in Int : Append(d.out, (b + e) % Base) \in Octets
    <2> TAKE b \in Int
    <2>1. (b + e) % Base \in Octet
      <3>1. b + e \in Int
        BY DEF Octet
      <3>2. QED
        BY <3>1, Modulo
    <2>2. QED
      BY <1>1, <2>1, AppendProperties DEF Octets
  <1>3. CASE d.mode = "plain" /\ c = 0
    <2>1. Read(d, c, e) = [out |-> d.out, mode |-> "end"]
      BY <1>3 DEF Read
    <2>2. QED
      BY <1>1, <1>3, <2>1 DEF Decoders
  <1>4. CASE d.mode = "plain" /\ c = 1
    <2>1. Read(d, c, e) = [out |-> d.out, mode |-> "escape"]
      BY <1>4 DEF Read
    <2>2. QED
      BY <1>1, <1>4, <2>1 DEF Decoders
  <1>5. CASE d.mode = "plain" /\ c \notin {0, 1}
    <2>1. Read(d, c, e) = [out |-> Append(d.out, (c + e) % Base), mode |-> "plain"]
      BY <1>5 DEF Read
    <2>2. c \in Int
      BY DEF Octet
    <2>3. QED
      BY <1>1, <1>2, <1>5, <2>1, <2>2 DEF Decoders
  <1>6. CASE d.mode = "escape" /\ c \in 1 .. 3
    <2>1. Read(d, c, e) = [out |-> Append(d.out, (Escaped[c] + e) % Base), mode |-> "plain"]
      BY <1>6 DEF Read
    <2>2. Escaped[c] \in Int
      BY <1>6, Modulo DEF Escaped
    <2>3. Append(d.out, (Escaped[c] + e) % Base) \in Octets
      BY <1>2, <2>2
    <2>4. Read(d, c, e) \in Decoders
      BY <2>1, <2>3 DEF Decoders
    <2>5. c \notin {0}
      BY <1>6
    <2>6. QED
      BY <1>6, <2>1, <2>4
  <1>7. CASE d.mode = "escape" /\ c \notin 1 .. 3
    <2>1. Read(d, c, e) = [out |-> d.out, mode |-> "malformed"]
      BY <1>7 DEF Read
    <2>2. QED
      BY <1>1, <1>7, <2>1 DEF Decoders
  <1>8. CASE d.mode \in {"end", "malformed"}
    <2>1. Read(d, c, e) = d
      BY <1>8 DEF Read
    <2>2. QED
      BY <1>1, <1>8, <2>1
  <1>9. QED
    BY <1>1, <1>3, <1>4, <1>5, <1>6, <1>7, <1>8

\* Reading, as a recursion.
LEMMA ReadsIs ==
    ASSUME NEW s \in Octets, NEW e \in Octet
    PROVE  \E f \in [0 .. Len(s) -> Decoders] :
               /\ Reads(s, e) = f[Len(s)] /\ f[0] = NothingRead
               /\ \A k \in 1 .. Len(s) : f[k] = Read(f[k - 1], s[k], e)
  <1> DEFINE n == Len(s)
             Is(f) == f = [k \in 0 .. n |-> IF k = 0 THEN [out |-> <<>>, mode |-> "plain"]
                                            ELSE Read(f[k - 1], s[k], e)]
             G == [k \in 1 .. n |-> [v \in Decoders |-> Read(v, s[k], e)]]
  <1>1. n \in Nat /\ \A k \in 1 .. n : s[k] \in Octet
    BY LenProperties, ElementOfSeq DEF Octets
  <1>2. NothingRead \in Decoders
    BY EmptySeq DEF Decoders, NothingRead, Octets
  <1>3. \A v \in Decoders, k \in 1 .. n : Read(v, s[k], e) \in Decoders
    BY <1>1, ReadIs
  <1>4. G \in [1 .. n -> [Decoders -> Decoders]]
    BY <1>3
  <1>5. PICK f \in [0 .. n -> Decoders] : f[0] = NothingRead /\ \A k \in 1 .. n : f[k] = G[k][f[k - 1]]
    <2> HIDE DEF G, n
    <2> DEFINE V == Decoders
               a == NothingRead
    <2>1. n \in Nat /\ a \in V /\ G \in [1 .. n -> [V -> V]]
      BY <1>1, <1>2, <1>4
    <2> HIDE DEF V, a
    <2>2. \E f \in [0 .. n -> V] : f[0] = a /\ \A k \in 1 .. n : f[k] = G[k][f[k - 1]]
      BY <2>1, Recursion
    <2>3. QED
      BY <2>2 DEF V, a
  <1>6. \A k \in 1 .. n : f[k] = Read(f[k - 1], s[k], e)
    <2> TAKE k \in 1 .. n
    <2>1. k - 1 \in 0 .. n /\ f[k - 1] \in Decoders
      BY <1>1, <1>5
    <2>2. QED
      BY <1>5, <2>1
  <1>7. Is(f)
    <2> DEFINE h == [k \in 0 .. n |-> IF k = 0 THEN [out |-> <<>>, mode |-> "plain"]
                                      ELSE Read(f[k - 1], s[k], e)]
    <2>1. \A k \in 0 .. n : f[k] = h[k]
      <3> TAKE k \in 0 .. n
      <3>1. k = 0 \/ k \in 1 .. n
        BY <1>1
      <3>2. QED
        BY <1>5, <1>6, <3>1 DEF NothingRead
    <2>2. f = h
      BY <1>5, <2>1
    <2>3. QED
      BY <2>2
  <1> DEFINE g == CHOOSE h : Is(h)
  <1>8. Reads(s, e) = g[n]
    BY DEF Reads
  <1>9. Is(g)
    <2> HIDE DEF Is
    <2>1. QED
      BY <1>7
  <1> HIDE DEF g
  <1>10. g[0] = NothingRead /\ \A k \in 1 .. n : g[k] = Read(g[k - 1], s[k], e)
    <2> HIDE DEF n
    <2>1. \A k \in 0 .. n : g[k] = IF k = 0 THEN [out |-> <<>>, mode |-> "plain"]
                                   ELSE Read(g[k - 1], s[k], e)
      BY <1>9
    <2>2. 0 \in 0 .. n /\ \A k \in 1 .. n : k \in 0 .. n /\ k # 0
      BY <1>1
    <2>3. QED
      BY <2>1, <2>2 DEF NothingRead
  <1>11. f[n] = g[n]
    <2> HIDE DEF n
    <2>1. ASSUME NEW k \in 1 .. n, f[k - 1] = g[k - 1] PROVE f[k] = g[k]
      BY <1>6, <1>10, <2>1
    <2>2. n \in Nat /\ f[0] = g[0]
      BY <1>1, <1>5, <1>10
    <2>3. QED
      BY <2>1, <2>2, SameRecursion
  <1>12. QED
    BY <1>5, <1>6, <1>8, <1>11

\* At the beginning nothing is read.
LEMMA ReadsOfEmpty == ASSUME NEW e \in Octet PROVE Reads(<<>>, e) = NothingRead
  <1>1. <<>> \in Octets /\ Len(<<>>) = 0
    BY EmptySeq DEF Octets
  <1>2. PICK f \in [0 .. Len(<<>>) -> Decoders] : Reads(<<>>, e) = f[Len(<<>>)] /\ f[0] = NothingRead
    BY <1>1, ReadsIs
  <1>3. QED
    BY <1>1, <1>2

\* One character more does what it does to the decoder that has read the others.
LEMMA ReadsAppend ==
    ASSUME NEW s \in Octets, NEW c \in Octet, NEW e \in Octet
    PROVE  Reads(Append(s, c), e) = Read(Reads(s, e), c, e)
  <1> DEFINE n == Len(s)
             t == Append(s, c)
  <1>1. n \in Nat /\ Len(t) = n + 1 /\ t \in Octets /\ t[n + 1] = c /\ \A k \in 1 .. n : t[k] = s[k]
    BY AppendProperties, LenProperties DEF Octets
  <1> HIDE DEF t
  <1>2. PICK f \in [0 .. n -> Decoders] :
            /\ Reads(s, e) = f[n] /\ f[0] = NothingRead
            /\ \A k \in 1 .. n : f[k] = Read(f[k - 1], s[k], e)
    BY ReadsIs
  <1>3. PICK g :
            /\ Reads(t, e) = g[n + 1] /\ g[0] = NothingRead
            /\ \A k \in 1 .. n + 1 : g[k] = Read(g[k - 1], t[k], e)
    <2>1. PICK g \in [0 .. Len(t) -> Decoders] :
              /\ Reads(t, e) = g[Len(t)] /\ g[0] = NothingRead
              /\ \A k \in 1 .. Len(t) : g[k] = Read(g[k - 1], t[k], e)
      BY <1>1, ReadsIs
    <2>2. QED
      BY <1>1, <2>1
  <1> HIDE DEF n
  <1>4. f[n] = g[n]
    <2>1. ASSUME NEW k \in 1 .. n, f[k - 1] = g[k - 1] PROVE f[k] = g[k]
      <3>1. k \in 1 .. n + 1 /\ t[k] = s[k]
        BY <1>1
      <3>2. QED
        BY <1>2, <1>3, <2>1, <3>1
    <2>2. n \in Nat /\ f[0] = g[0]
      BY <1>1, <1>2, <1>3
    <2>3. QED
      BY <2>1, <2>2, SameRecursion
  <1>5. n + 1 \in 1 .. n + 1 /\ (n + 1) - 1 = n
    BY <1>1
  <1>6. Reads(t, e) = Read(Reads(s, e), c, e)
    BY <1>1, <1>2, <1>3, <1>4, <1>5
  <1>7. QED
    BY <1>6 DEF t

\* Reading leaves a decoder.
LEMMA ReadsType == ASSUME NEW s \in Octets, NEW e \in Octet PROVE Reads(s, e) \in Decoders
  <1>1. Len(s) \in Nat
    BY LenProperties DEF Octets
  <1>2. PICK f \in [0 .. Len(s) -> Decoders] : Reads(s, e) = f[Len(s)]
    BY ReadsIs
  <1>3. Len(s) \in 0 .. Len(s)
    BY <1>1
  <1>4. QED
    BY <1>2, <1>3

-----------------------------------------------------------------------------
\* Texts without a zero and a quote are texts.
LEMMA CleanTexts == Clean \subseteq Octet /\ CleanText \subseteq Octets /\ 0 \in Octet /\ 1 \in Clean
  <1>1. Clean \subseteq Octet /\ 0 \in Octet /\ 1 \in Clean
    BY Modulo DEF Clean, Octet
  <1>2. CleanText \subseteq Octets
    BY <1>1, SeqMonotonic DEF CleanText, Octets
  <1>3. QED
    BY <1>1, <1>2

\* An escape sequence goes behind a text as two characters, anything else as one.
LEMMA ConcatEscape ==
    ASSUME NEW s \in CleanText, NEW c \in Octet
    PROVE  /\ s \o Escape(c) \in CleanText
           /\ Len(s \o Escape(c)) = Len(s) + (IF c \in {0, 1, Quote} THEN 2 ELSE 1)
           /\ c = 0 => s \o Escape(c) = Append(Append(s, 1), 1)
           /\ c = 1 => s \o Escape(c) = Append(Append(s, 1), 2)
           /\ c = Quote => s \o Escape(c) = Append(Append(s, 1), 3)
           /\ c \notin {0, 1, Quote} => s \o Escape(c) = Append(s, c) /\ c \in Clean
  <1>1. /\ 1 \in Clean /\ 2 \in Clean /\ 3 \in Clean /\ Quote # 0 /\ Quote # 1
        /\ (c \notin {0, 1, Quote} => c \in Clean)
    BY Modulo DEF Clean, Octet
  <1>2. s \o Escape(c) \in CleanText
    BY EscapeIs, ConcatProperties DEF CleanText
  <1>3. Len(s \o Escape(c)) = Len(s) + (IF c \in {0, 1, Quote} THEN 2 ELSE 1)
    <2>1. s \in Seq(Clean) /\ Escape(c) \in Seq(Clean)
      BY EscapeIs DEF CleanText
    <2>2. Len(s \o Escape(c)) = Len(s) + Len(Escape(c))
      BY <2>1, ConcatProperties
    <2>3. QED
      BY <2>2, EscapeIs
  <1>4. \A x \in Clean : s \o <<1, x>> = Append(Append(s, 1), x)
    <2> TAKE x \in Clean
    <2>1. <<1, x>> = Append(<<1>>, x) /\ <<1>> \in Seq(Clean) /\ Append(s, 1) = s \o <<1>>
      BY <1>1, AppendIsConcat DEF CleanText
    <2>2. QED
      BY <1>1, <2>1, ConcatAppend DEF CleanText
  <1>5. \A x \in Clean : s \o <<x>> = Append(s, x)
    BY AppendIsConcat DEF CleanText
  <1>6. QED
    BY <1>1, <1>2, <1>3, <1>4, <1>5, EscapeIs

\* A decoder that begins reads back what was encoded.
LEMMA ReadsBody ==
    ASSUME NEW e \in Octet, NEW in \in Octets
    PROVE  Reads(Body(in, e), e) = [out |-> in, mode |-> "plain"]
  <1> DEFINE U == {s \in Octets : Reads(Body(s, e), e) = [out |-> s, mode |-> "plain"]}
  <1>1. <<>> \in U
    BY BodyOfEmpty, ReadsOfEmpty, EmptySeq DEF NothingRead, Octets
  <1>2. ASSUME NEW s \in Octets, NEW x \in Octet, s \in U PROVE Append(s, x) \in U
    <2> DEFINE b == Body(s, e)
               c == (x - e) % Base
               d == [out |-> s, mode |-> "plain"]
    <2>1. b \in CleanText /\ c \in Octet /\ (c + e) % Base = x /\ Append(s, x) \in Octets
      BY BodyType, Modulo, AppendProperties DEF Octets
    <2>2. Reads(b, e) = d /\ d \in Decoders /\ d.out = s /\ d.mode = "plain"
      BY <1>2 DEF Decoders
    <2>3. Body(Append(s, x), e) = b \o Escape(c)
      BY BodyAppend
    <2> HIDE DEF b, c, d
    <2>4. Reads(b \o Escape(c), e) = [out |-> Append(s, x), mode |-> "plain"]
      <3>1. b \in Octets /\ 1 \in Octet /\ 2 \in Octet /\ 3 \in Octet
        BY <2>1, CleanTexts, Modulo DEF Octet
      <3>2. CASE c \notin {0, 1, Quote}
        <4>1. b \o Escape(c) = Append(b, c) /\ c \notin {0, 1}
          BY <2>1, <3>2, ConcatEscape
        <4>2. Reads(Append(b, c), e) = Read(d, c, e)
          BY <2>1, <2>2, <3>1, ReadsAppend
        <4>3. Read(d, c, e) = [out |-> Append(s, (c + e) % Base), mode |-> "plain"]
          BY <2>1, <2>2, <4>1, ReadIs
        <4>4. QED
          BY <2>1, <4>1, <4>2, <4>3
      <3>3. ASSUME NEW k \in 1 .. 3, b \o Escape(c) = Append(Append(b, 1), k), Escaped[k] = c
            PROVE  Reads(b \o Escape(c), e) = [out |-> Append(s, x), mode |-> "plain"]
        <4> DEFINE d1 == [out |-> s, mode |-> "escape"]
        <4>1. Append(b, 1) \in Octets /\ k \in Octet
          BY <3>1, Modulo, AppendProperties DEF Octets, Octet
        <4>2. Reads(Append(b, 1), e) = d1
          <5>1. Reads(Append(b, 1), e) = Read(d, 1, e)
            BY <2>2, <3>1, ReadsAppend
          <5>2. QED
            BY <2>2, <3>1, <5>1, ReadIs
        <4>3. Reads(Append(Append(b, 1), k), e) = Read(d1, k, e)
          BY <4>1, <4>2, ReadsAppend
        <4>4. d1 \in Decoders /\ d1.mode = "escape" /\ d1.out = s
          BY DEF Decoders
        <4> HIDE DEF d1
        <4>5. Read(d1, k, e) = [out |-> Append(s, (Escaped[k] + e) % Base), mode |-> "plain"]
          BY <4>1, <4>4, ReadIs
        <4>6. QED
          BY <2>1, <3>3, <4>3, <4>5
      <3>4. /\ 1 \in 1 .. 3 /\ 2 \in 1 .. 3 /\ 3 \in 1 .. 3
            /\ Escaped[1] = 0 /\ Escaped[2] = 1 /\ Escaped[3] = Quote
        BY DEF Escaped
      <3>5. CASE c \in {0, 1, Quote}
        BY <2>1, <3>3, <3>4, <3>5, ConcatEscape
      <3>6. QED
        BY <3>2, <3>5
    <2>5. QED
      BY <2>1, <2>3, <2>4
  <1> HIDE DEF U
  <1>3. Octets \subseteq U
    BY <1>1, <1>2, EverySequence DEF Octets
  <1>4. QED
    BY <1>3 DEF U

-----------------------------------------------------------------------------
\* The places of a byte, and of one of three bytes that cost an escape.
Places(in, b) == {k \in DOMAIN in : in[k] = b}

\* A byte that is counted is counted as often as it has places.
LEMMA CountIs ==
    ASSUME NEW in \in Octets, NEW b \in Int
    PROVE  /\ Count(in, b) = Cardinality(Places(in, b % Base))
           /\ Places(in, b) \subseteq 1 .. Len(in)
           /\ IsFiniteSet(Places(in, b)) /\ Cardinality(Places(in, b)) \in Nat
           /\ Count(in, b) \in Nat
  <1>1. Len(in) \in Nat /\ DOMAIN in = 1 .. Len(in)
    BY LenProperties DEF Octets
  <1>2. IsFiniteSet(1 .. Len(in))
    BY <1>1, FS_Interval
  <1>3. \A c : /\ Places(in, c) \subseteq 1 .. Len(in) /\ IsFiniteSet(Places(in, c))
               /\ Cardinality(Places(in, c)) \in Nat
    <2> TAKE c
    <2>1. Places(in, c) \in SUBSET (1 .. Len(in))
      BY <1>1 DEF Places
    <2>2. QED
      BY <1>2, <2>1, FS_Subset, FS_CardinalityType
  <1>4. Count(in, b) = Cardinality(Places(in, b % Base))
    BY DEF Count, Places
  <1>5. QED
    BY <1>3, <1>4

\* One byte more has one place more.
LEMMA CountAppend ==
    ASSUME NEW s \in Octets, NEW x \in Octet, NEW b \in Int
    PROVE  Count(Append(s, x), b) = Count(s, b) + (IF x = b % Base THEN 1 ELSE 0)
  <1> DEFINE n == Len(s)
             t == Append(s, x)
             c == b % Base
  <1>1. n \in Nat /\ t \in Octets /\ Len(t) = n + 1 /\ t[n + 1] = x /\ \A k \in 1 .. n : t[k] = s[k]
    BY AppendProperties, LenProperties DEF Octets
  <1>2. DOMAIN s = 1 .. n /\ DOMAIN t = 1 .. n + 1
    BY <1>1, LenProperties DEF Octets
  <1>3. /\ Count(t, b) = Cardinality(Places(t, c)) /\ Count(s, b) = Cardinality(Places(s, c))
        /\ IsFiniteSet(Places(s, c)) /\ Places(s, c) \subseteq 1 .. n
    <2>1. c \in Int
      BY Modulo DEF Octet
    <2>2. QED
      BY <1>1, <2>1, CountIs
  <1> HIDE DEF t, n, c
  <1>4. CASE x = c
    <2>1. Places(t, c) = Places(s, c) \cup {n + 1}
      BY <1>1, <1>2, <1>4 DEF Places
    <2>2. n + 1 \notin Places(s, c)
      BY <1>1, <1>3
    <2>3. QED
      BY <1>3, <1>4, <2>1, <2>2, FS_AddElement DEF t, c
  <1>5. CASE x # c
    <2>1. Places(t, c) = Places(s, c)
      BY <1>1, <1>2, <1>5 DEF Places
    <2>2. Count(s, b) \in Nat
      BY CountIs
    <2>3. QED
      BY <1>3, <1>5, <2>1, <2>2 DEF t, c
  <1>6. QED
    BY <1>4, <1>5

\* The offset is the one with the fewest escapes.
LEMMA OffsetIs ==
    ASSUME NEW in \in Octets
    PROVE  /\ Offset(in) \in Clean
           /\ \A f \in Clean : Escapes(in, Offset(in)) <= Escapes(in, f)
  <1> DEFINE n(e) == Escapes(in, e)
             T == {n(e) * Base + e : e \in Clean}
             First(e) == \A f \in Clean : n(e) < n(f) \/ (n(e) = n(f) /\ e <= f)
  <1>1. \A e \in Clean : n(e) \in Nat /\ e \in 1 .. Base - 1
    <2> TAKE e \in Clean
    <2>1. e \in Int /\ e + 1 \in Int /\ e + Quote \in Int /\ e \in 1 .. Base - 1
      BY Modulo DEF Clean
    <2>2. Count(in, e) \in Nat /\ Count(in, e + 1) \in Nat /\ Count(in, e + Quote) \in Nat
      BY <2>1, CountIs
    <2>3. QED
      BY <2>1, <2>2 DEF Escapes
  <1> HIDE DEF n
  <1>2. T \subseteq Nat /\ T # {}
    <2>1. \A e \in Clean : n(e) * Base + e \in Nat
      BY <1>1, Modulo
    <2>2. QED
      BY <2>1, CleanTexts
  <1>3. PICK x \in T : \A y \in T : x <= y
    <2> HIDE DEF T
    <2>1. QED
      BY <1>2, LeastNumber
  <1>4. PICK e \in Clean : x = n(e) * Base + e
    BY <1>3
  <1>5. First(e)
    <2> SUFFICES ASSUME NEW f \in Clean PROVE n(e) < n(f) \/ (n(e) = n(f) /\ e <= f)
      OBVIOUS
    <2>1. n(e) * Base + e <= n(f) * Base + f
      BY <1>3, <1>4
    <2>2. n(e) \in Nat /\ n(f) \in Nat /\ e \in 1 .. Base - 1 /\ f \in 1 .. Base - 1 /\ Base \in Nat
      BY <1>1, Modulo
    <2>3. CASE n(e) > n(f)
      <3>1. (n(f) + 1) * Base <= n(e) * Base
        BY <2>2, <2>3
      <3>2. (n(f) + 1) * Base = n(f) * Base + Base
        BY <2>2
      <3>3. QED
        BY <2>1, <2>2, <3>1, <3>2
    <2>4. QED
      BY <2>1, <2>2, <2>3
  <1>6. Offset(in) = CHOOSE c \in Clean : First(c)
    BY DEF Offset, n, Clean
  <1>7. Offset(in) \in Clean /\ First(Offset(in))
    <2> HIDE DEF First
    <2>1. QED
      BY <1>5, <1>6
  <1>8. QED
    BY <1>1, <1>7 DEF n

\* One byte more costs an escape if it is turned into one of three bytes.
LEMMA EscapesAppend ==
    ASSUME NEW s \in Octets, NEW x \in Octet, NEW e \in Octet
    PROVE  /\ Escapes(s, e) \in Nat
           /\ Escapes(Append(s, x), e) = Escapes(s, e) + (IF (x - e) % Base \in {0, 1, Quote} THEN 1 ELSE 0)
  <1> DEFINE c == (x - e) % Base
             o1 == IF x = e % Base THEN 1 ELSE 0
             o2 == IF x = (e + 1) % Base THEN 1 ELSE 0
             o3 == IF x = (e + Quote) % Base THEN 1 ELSE 0
             p == Count(s, e)
             q == Count(s, e + 1)
             r == Count(s, e + Quote)
  <1>1. e \in Int /\ e + 1 \in Int /\ e + Quote \in Int
    BY Modulo DEF Octet
  <1>2. /\ p \in Nat /\ q \in Nat /\ r \in Nat
        /\ Count(Append(s, x), e) = p + o1 /\ Count(Append(s, x), e + 1) = q + o2
        /\ Count(Append(s, x), e + Quote) = r + o3
    BY <1>1, CountIs, CountAppend
  <1>3. o1 + o2 + o3 = IF c \in {0, 1, Quote} THEN 1 ELSE 0
    <2> HIDE DEF c
    <2>1. /\ x = e % Base <=> c = 0
          /\ x = (e + 1) % Base <=> c = 1
          /\ x = (e + Quote) % Base <=> c = Quote
      <3>1. \A y \in Octet : x = (y + e) % Base <=> c = y
        BY Modulo DEF c
      <3>2. 0 \in Octet /\ 1 \in Octet /\ Quote \in Octet /\ 0 + e = e /\ 1 + e = e + 1 /\ Quote + e = e + Quote
        BY <1>1, Modulo DEF Octet
      <3>3. QED
        BY <3>1, <3>2
    <2>2. Quote # 0 /\ Quote # 1
      BY Modulo
    <2>3. QED
      BY <2>1, <2>2
  <1>4. o1 \in Nat /\ o2 \in Nat /\ o3 \in Nat
    OBVIOUS
  <1>5. Escapes(s, e) = p + q + r /\ Escapes(Append(s, x), e) = p + o1 + (q + o2) + (r + o3)
    BY <1>2 DEF Escapes
  <1> HIDE DEF o1, o2, o3, p, q, r, c
  <1>6. Escapes(Append(s, x), e) = (p + q + r) + (o1 + o2 + o3) /\ p + q + r \in Nat
    BY <1>2, <1>4, <1>5
  <1>7. QED
    BY <1>3, <1>5, <1>6 DEF c

\* Nothing costs nothing, and no bytes cost a negative number of escapes.
LEMMA EscapesType ==
    ASSUME NEW e \in Octet
    PROVE  Escapes(<<>>, e) = 0 /\ \A s \in Octets : Escapes(s, e) \in Nat
  <1>1. \A b \in Int : Count(<<>>, b) = 0
    <2> TAKE b \in Int
    <2>1. {k \in DOMAIN <<>> : <<>>[k] = b % Base} = {}
      OBVIOUS
    <2>2. QED
      BY <2>1, FS_EmptySet DEF Count
  <1>2. e \in Int /\ e + 1 \in Int /\ e + Quote \in Int
    BY Modulo DEF Octet
  <1>3. Escapes(<<>>, e) = 0
    BY <1>1, <1>2 DEF Escapes
  <1>4. QED
    BY <1>3, EscapesAppend

\* The length of what is encoded: one for each byte, and one for each escape.
LEMMA BodyLen ==
    ASSUME NEW e \in Octet, NEW in \in Octets
    PROVE  Len(Body(in, e)) = Len(in) + Escapes(in, e)
  <1> DEFINE U == {s \in Octets : Len(Body(s, e)) = Len(s) + Escapes(s, e)}
  <1>1. <<>> \in U
    <2>1. <<>> \in Octets /\ Len(<<>>) = 0
      BY EmptySeq DEF Octets
    <2>2. QED
      BY <2>1, BodyOfEmpty, EscapesType
  <1>2. ASSUME NEW s \in Octets, NEW x \in Octet, s \in U PROVE Append(s, x) \in U
    <2> DEFINE c == (x - e) % Base
    <2>1. c \in Octet /\ Body(s, e) \in CleanText
      BY Modulo, BodyType
    <2>2. Body(Append(s, x), e) = Body(s, e) \o Escape(c)
      BY BodyAppend
    <2>3. /\ Escapes(s, e) \in Nat
          /\ Escapes(Append(s, x), e) = Escapes(s, e) + (IF c \in {0, 1, Quote} THEN 1 ELSE 0)
      BY EscapesAppend
    <2> HIDE DEF c
    <2>4. Len(Body(Append(s, x), e)) = Len(Body(s, e)) + (IF c \in {0, 1, Quote} THEN 2 ELSE 1)
      BY <2>1, <2>2, ConcatEscape
    <2>5. Len(s) \in Nat /\ Append(s, x) \in Octets /\ Len(Append(s, x)) = Len(s) + 1
      BY AppendProperties, LenProperties DEF Octets
    <2>6. Len(Body(s, e)) = Len(s) + Escapes(s, e)
      BY <1>2
    <2>7. Len(Body(Append(s, x), e)) = Len(Append(s, x)) + Escapes(Append(s, x), e)
      BY <2>3, <2>4, <2>5, <2>6
    <2>8. QED
      BY <2>5, <2>7
  <1> HIDE DEF U
  <1>3. Octets \subseteq U
    BY <1>1, <1>2, EverySequence DEF Octets
  <1>4. QED
    BY <1>3 DEF U

\* Of any bytes, what sqlite3_encode_binary makes has no zero before its end and no quote, and
\* sqlite3_decode_binary makes the bytes of it.
THEOREM EncodedDecodes ==
    ASSUME NEW in \in Octets
    PROVE  /\ Encode(in) \in Octets
           /\ Len(Encode(in)) = IF in = <<>> THEN 2 ELSE 2 + Len(in) + Escapes(in, Offset(in))
           /\ Len(Encode(in)) > 1
           /\ Decode(Encode(in)) = [out |-> in, ok |-> TRUE]
           /\ \A k \in 1 .. Len(Encode(in)) - 1 : Encode(in)[k] \in Clean
  <1>1. ASSUME NEW e \in Clean, NEW b \in CleanText, NEW d \in Decoders,
               Reads(b, e) = d, d.mode = "plain",
               NEW s, s = <<e>> \o Append(b, 0)
        PROVE  /\ s \in Octets /\ Len(s) = 2 + Len(b) /\ Decode(s) = [out |-> d.out, ok |-> TRUE]
               /\ \A k \in 1 .. Len(s) - 1 : s[k] \in Clean
    <2>1. b \in Octets /\ e \in Octet /\ 0 \in Octet /\ Append(b, 0) \in Octets /\ <<e>> \in Octets
      BY CleanTexts, AppendProperties DEF Octets
    <2>2. Len(b) \in Nat /\ Len(Append(b, 0)) = Len(b) + 1 /\ \A k \in 1 .. Len(b) : Append(b, 0)[k] = b[k]
      BY <2>1, AppendProperties, LenProperties DEF Octets
    <2>3. /\ s \in Octets /\ Len(s) = 2 + Len(b) /\ s[1] = e
          /\ \A k \in 1 .. Len(b) + 1 : s[k + 1] = Append(b, 0)[k]
      <3>1. Len(<<e>>) = 1 /\ <<e>>[1] = e
        OBVIOUS
      <3>2. s \in Octets /\ Len(s) = 1 + (Len(b) + 1)
        BY <1>1, <2>1, <2>2, <3>1, ConcatProperties DEF Octets
      <3>3. s[1] = e
        BY <1>1, <2>1, <2>2, <3>1, ConcatProperties DEF Octets
      <3>4. ASSUME NEW k \in 1 .. Len(b) + 1 PROVE s[k + 1] = Append(b, 0)[k]
        <4>1. k + 1 \in 1 .. 1 + (Len(b) + 1) /\ k + 1 > 1 /\ (k + 1) - 1 = k
          BY <2>2
        <4>2. QED
          BY <1>1, <2>1, <2>2, <3>1, <4>1, ConcatProperties DEF Octets
      <3>5. QED
        BY <2>2, <3>2, <3>3, <3>4
    <2>4. s # <<>>
      BY <2>2, <2>3
    <2>5. Head(s) = e
      BY <2>3, <2>4, HeadTailProperties DEF Octets
    <2>6. Tail(s) = Append(b, 0)
      <3>1. Tail(s) \in Octets /\ Len(Tail(s)) = Len(s) - 1 /\ \A k \in 1 .. Len(s) - 1 : Tail(s)[k] = s[k + 1]
        BY <2>3, <2>4, HeadTailProperties DEF Octets
      <3>2. Len(Tail(s)) = Len(Append(b, 0)) /\ \A k \in 1 .. Len(Tail(s)) : Tail(s)[k] = Append(b, 0)[k]
        BY <2>2, <2>3, <3>1
      <3>3. QED
        BY <2>1, <3>1, <3>2, SeqEqual DEF Octets
    <2>7. Reads(Append(b, 0), e) = [out |-> d.out, mode |-> "end"]
      <3>1. Reads(Append(b, 0), e) = Read(d, 0, e)
        BY <1>1, <2>1, ReadsAppend
      <3>2. QED
        BY <1>1, <2>1, <3>1, ReadIs
    <2>8. Decode(s) = [out |-> d.out, ok |-> TRUE]
      <3> DEFINE all == Reads(Tail(s), Head(s))
      <3>1. all = [out |-> d.out, mode |-> "end"]
        BY <2>5, <2>6, <2>7
      <3>2. Decode(s) = [out |-> all.out, ok |-> all.mode = "end"]
        BY DEF Decode
      <3> HIDE DEF all
      <3>3. all.out = d.out /\ (all.mode = "end") = TRUE
        BY <3>1
      <3>4. QED
        BY <3>2, <3>3
    <2>9. ASSUME NEW k \in 1 .. Len(s) - 1 PROVE s[k] \in Clean
      <3>1. CASE k = 1
        BY <2>3, <3>1
      <3>2. CASE k # 1
        <4>1. k - 1 \in 1 .. Len(b) /\ k - 1 \in 1 .. Len(b) + 1 /\ (k - 1) + 1 = k
          BY <2>2, <2>3, <3>2
        <4>2. s[k] = b[k - 1]
          BY <2>2, <2>3, <4>1
        <4>3. b[k - 1] \in Clean
          BY <4>1, ElementOfSeq DEF CleanText
        <4>4. QED
          BY <4>2, <4>3
      <3>3. QED
        BY <3>1, <3>2
    <2>10. QED
      BY <2>3, <2>8, <2>9
  <1>2. CASE in = <<>>
    <2> DEFINE e == Base - 1
               b == <<>>
               s == <<e>> \o Append(b, 0)
    <2>1. e \in Clean /\ e \in Octet /\ b \in CleanText /\ Len(b) = 0
      BY Modulo, EmptySeq DEF Clean, CleanText, Octet
    <2>2. NothingRead \in Decoders /\ NothingRead.mode = "plain" /\ NothingRead.out = in
      BY <1>2, EmptySeq DEF NothingRead, Decoders, Octets
    <2>3. Reads(b, e) = NothingRead
      BY <2>1, ReadsOfEmpty
    <2>4. Encode(in) = s
      BY <1>2 DEF Encode
    <2> HIDE DEF e, b
    <2>5. /\ Encode(in) \in Octets /\ Len(Encode(in)) = 2 + 0 /\ Decode(Encode(in)) = [out |-> in, ok |-> TRUE]
          /\ \A k \in 1 .. Len(Encode(in)) - 1 : Encode(in)[k] \in Clean
      BY <1>1, <2>1, <2>2, <2>3, <2>4
    <2>6. Len(Encode(in)) = 2 /\ 2 > 1
      BY <2>5
    <2>7. QED
      BY <1>2, <2>5, <2>6
  <1>3. CASE in # <<>>
    <2> DEFINE e == Offset(in)
               b == Body(in, e)
               d == [out |-> in, mode |-> "plain"]
    <2>1. e \in Clean /\ e \in Octet
      BY OffsetIs, CleanTexts
    <2>2. b \in CleanText /\ Reads(b, e) = d /\ Len(b) = Len(in) + Escapes(in, e)
      BY <2>1, BodyType, ReadsBody, BodyLen
    <2>3. d \in Decoders /\ d.mode = "plain" /\ d.out = in
      BY DEF Decoders
    <2>4. Encode(in) = <<e>> \o Append(b, 0)
      <3>1. Encode(in) = (<<e>> \o b) \o <<0>>
        BY <1>3 DEF Encode
      <3>2. b \in Octets /\ <<e>> \in Octets /\ <<0>> \in Octets
        BY <2>1, <2>2, CleanTexts DEF Octets
      <3>3. (<<e>> \o b) \o <<0>> = <<e>> \o (b \o <<0>>)
        BY <3>2, ConcatAssociative DEF Octets
      <3>4. b \o <<0>> = Append(b, 0)
        BY <3>2, CleanTexts, AppendIsConcat DEF Octets
      <3>5. QED
        BY <3>1, <3>3, <3>4
    <2> HIDE DEF b, d
    <2>5. /\ Encode(in) \in Octets /\ Len(Encode(in)) = 2 + Len(b) /\ Decode(Encode(in)) = [out |-> in, ok |-> TRUE]
          /\ \A k \in 1 .. Len(Encode(in)) - 1 : Encode(in)[k] \in Clean
      BY <1>1, <2>1, <2>2, <2>3, <2>4
    <2>6. Len(in) \in Nat /\ Len(b) \in Nat
      BY <2>2, LenProperties DEF Octets, CleanText
    <2>7. Len(Encode(in)) = 2 + Len(in) + Escapes(in, e) /\ Len(Encode(in)) > 1
      <3>1. Escapes(in, e) \in Nat
        BY <2>1, EscapesType
      <3>2. QED
        BY <2>2, <2>5, <2>6, <3>1
    <2>8. QED
      BY <1>3, <2>5, <2>7
  <1>4. QED
    BY <1>2, <1>3

-----------------------------------------------------------------------------
\* No string is shorter than the bytes that it stands for and the escapes among them.
LEMMA NoShorter ==
    ASSUME NEW e \in Octet, NEW b \in CleanText
    PROVE  LET d == Reads(b, e) IN
           /\ d \in Decoders /\ d.mode # "end"
           /\ d.mode = "plain" => Len(d.out) + Escapes(d.out, e) <= Len(b)
           /\ d.mode = "escape" => Len(d.out) + Escapes(d.out, e) + 1 <= Len(b)
  <1> DEFINE Short(d, n) ==
                 /\ d \in Decoders /\ d.mode # "end"
                 /\ d.mode = "plain" => Len(d.out) + Escapes(d.out, e) <= n
                 /\ d.mode = "escape" => Len(d.out) + Escapes(d.out, e) + 1 <= n
             U == {s \in CleanText : Short(Reads(s, e), Len(s))}
  <1>1. <<>> \in U
    <2>1. <<>> \in CleanText /\ <<>> \in Octets /\ Len(<<>>) = 0
      BY EmptySeq DEF CleanText, Octets
    <2>2. NothingRead \in Decoders /\ NothingRead.mode = "plain" /\ NothingRead.out = <<>>
      BY <2>1 DEF NothingRead, Decoders
    <2>3. QED
      BY <2>1, <2>2, ReadsOfEmpty, EscapesType
  <1>2. ASSUME NEW s \in CleanText, NEW c \in Clean, s \in U PROVE Append(s, c) \in U
    <2> DEFINE d == Reads(s, e)
               r == Read(d, c, e)
    <2>1. /\ s \in Octets /\ c \in Octet /\ c # 0 /\ c # Quote
          /\ Append(s, c) \in CleanText /\ Len(Append(s, c)) = Len(s) + 1 /\ Len(s) \in Nat
      <3>1. s \in Octets /\ c \in Octet
        BY CleanTexts
      <3>2. c # 0 /\ c # Quote
        BY Modulo DEF Clean
      <3>3. QED
        BY <3>1, <3>2, AppendProperties, LenProperties DEF CleanText
    <2>2. Short(d, Len(s))
      BY <1>2
    <2>3. Reads(Append(s, c), e) = r
      BY <2>1, ReadsAppend
    <2> HIDE DEF d, r
    <2>4. d \in Decoders /\ d.out \in Octets /\ Len(d.out) \in Nat /\ Escapes(d.out, e) \in Nat
      BY <2>2, EscapesType, LenProperties DEF Decoders, Octets
    <2>5. r \in Decoders
      BY <2>1, <2>4, ReadIs DEF r
    <2>6. ASSUME NEW x \in Octet
          PROVE  /\ Len(Append(d.out, x)) = Len(d.out) + 1
                 /\ Escapes(Append(d.out, x), e)
                      = Escapes(d.out, e) + (IF (x - e) % Base \in {0, 1, Quote} THEN 1 ELSE 0)
      BY <2>4, EscapesAppend, AppendProperties DEF Octets
    <2>7. CASE d.mode = "plain" /\ c # 1
      <3>1. r = [out |-> Append(d.out, (c + e) % Base), mode |-> "plain"]
        BY <2>1, <2>4, <2>7, ReadIs DEF r
      <3> DEFINE x == (c + e) % Base
      <3>2. x \in Octet /\ (x - e) % Base = c
        BY <2>1, Modulo
      <3> HIDE DEF x
      <3>3. Len(Append(d.out, x)) = Len(d.out) + 1 /\ Escapes(Append(d.out, x), e) = Escapes(d.out, e)
        BY <2>1, <2>4, <2>6, <2>7, <3>2
      <3>4. r.mode = "plain" /\ r.out = Append(d.out, x)
        BY <3>1 DEF x
      <3>5. Short(r, Len(s) + 1)
        BY <2>1, <2>2, <2>4, <2>5, <2>7, <3>3, <3>4
      <3>6. QED
        BY <2>1, <2>3, <3>5
    <2>8. CASE d.mode = "plain" /\ c = 1
      <3>1. r = [out |-> d.out, mode |-> "escape"]
        BY <2>1, <2>4, <2>8, ReadIs DEF r
      <3>2. r.mode = "escape" /\ r.out = d.out
        BY <3>1
      <3>3. Short(r, Len(s) + 1)
        BY <2>1, <2>2, <2>4, <2>5, <2>8, <3>2
      <3>4. QED
        BY <2>1, <2>3, <3>3
    <2>9. CASE d.mode = "escape" /\ c \in 1 .. 3
      <3>1. r = [out |-> Append(d.out, (Escaped[c] + e) % Base), mode |-> "plain"]
        BY <2>1, <2>4, <2>9, ReadIs DEF r
      <3> DEFINE x == (Escaped[c] + e) % Base
      <3>2. x \in Octet
        <4>1. Escaped[c] \in Octet
          <5>1. Escaped[1] = 0 /\ Escaped[2] = 1 /\ Escaped[3] = Quote
            BY DEF Escaped
          <5>2. 0 \in Octet /\ 1 \in Octet /\ Quote \in Octet
            BY Modulo DEF Octet
          <5>3. c = 1 \/ c = 2 \/ c = 3
            BY <2>9
          <5>4. QED
            BY <5>1, <5>2, <5>3
        <4>2. QED
          BY <4>1, Modulo
      <3> HIDE DEF x
      <3>3. /\ Len(Append(d.out, x)) = Len(d.out) + 1
            /\ Escapes(Append(d.out, x), e) <= Escapes(d.out, e) + 1 /\ Escapes(Append(d.out, x), e) \in Nat
        BY <2>4, <2>6, <3>2
      <3>4. r.mode = "plain" /\ r.out = Append(d.out, x)
        BY <3>1 DEF x
      <3>5. Short(r, Len(s) + 1)
        BY <2>1, <2>2, <2>4, <2>5, <2>9, <3>3, <3>4
      <3>6. QED
        BY <2>1, <2>3, <3>5
    <2>10. CASE d.mode = "escape" /\ c \notin 1 .. 3
      <3>1. r = [out |-> d.out, mode |-> "malformed"]
        BY <2>1, <2>4, <2>10, ReadIs DEF r
      <3>2. Short(r, Len(s) + 1)
        BY <2>5, <3>1
      <3>3. QED
        BY <2>1, <2>3, <3>2
    <2>11. CASE d.mode = "malformed"
      <3>1. r = d
        BY <2>1, <2>4, <2>11, ReadIs DEF r
      <3>2. Short(r, Len(s) + 1)
        BY <2>5, <2>11, <3>1
      <3>3. QED
        BY <2>1, <2>3, <3>2
    <2>12. d.mode \in {"plain", "escape", "malformed"}
      BY <2>2 DEF Decoders
    <2>13. QED
      BY <2>7, <2>8, <2>9, <2>10, <2>11, <2>12
  <1>3. CleanText \subseteq U
    <2> HIDE DEF U
    <2>1. QED
      BY <1>1, <1>2, EverySequence DEF CleanText
  <1>4. QED
    BY <1>3

\* Strings without a zero, as setEncoded takes them.
ByteText == Seq(1 .. Base - 1)

\* They are texts, and those without a quote are among them.
LEMMA TextsOfBytes == ByteText \subseteq Octets /\ CleanText \subseteq ByteText
  <1>1. 1 .. Base - 1 \subseteq Octet /\ Clean \subseteq 1 .. Base - 1
    BY Modulo DEF Clean, Octet
  <1>2. ByteText \subseteq Octets
    BY <1>1, SeqMonotonic DEF ByteText, Octets
  <1>3. CleanText \subseteq ByteText
    BY <1>1, SeqMonotonic DEF ByteText, CleanText
  <1>4. QED
    BY <1>2, <1>3

\* Nor is any string shorter than the bytes that it stands for.
LEMMA NoLonger ==
    ASSUME NEW e \in Octet, NEW b \in ByteText
    PROVE  LET d == Reads(b, e) IN d \in Decoders /\ d.mode # "end" /\ Len(d.out) <= Len(b)
  <1> DEFINE Short(d, n) == d \in Decoders /\ d.mode # "end" /\ Len(d.out) <= n
             U == {s \in ByteText : Short(Reads(s, e), Len(s))}
  <1>1. <<>> \in U
    <2>1. <<>> \in ByteText /\ <<>> \in Octets /\ Len(<<>>) = 0
      BY EmptySeq DEF ByteText, Octets
    <2>2. NothingRead \in Decoders /\ NothingRead.mode = "plain" /\ NothingRead.out = <<>>
      BY <2>1 DEF NothingRead, Decoders
    <2>3. QED
      BY <2>1, <2>2, ReadsOfEmpty
  <1>2. ASSUME NEW s \in ByteText, NEW c \in 1 .. Base - 1, s \in U PROVE Append(s, c) \in U
    <2> DEFINE d == Reads(s, e)
               r == Read(d, c, e)
    <2>1. /\ s \in Octets /\ c \in Octet /\ c # 0
          /\ Append(s, c) \in ByteText /\ Len(Append(s, c)) = Len(s) + 1 /\ Len(s) \in Nat
      <3>1. c \in Octet /\ c # 0
        BY Modulo DEF Octet
      <3>2. s \in Octets
        BY TextsOfBytes
      <3>3. QED
        BY <3>1, <3>2, AppendProperties, LenProperties DEF ByteText
    <2>2. Short(d, Len(s))
      BY <1>2
    <2>3. Reads(Append(s, c), e) = r
      BY <2>1, ReadsAppend
    <2> HIDE DEF d, r
    <2>4. d \in Decoders /\ d.out \in Octets /\ Len(d.out) \in Nat /\ d.mode \in {"plain", "escape", "malformed"}
      BY <2>2, LenProperties DEF Decoders, Octets
    <2>5. \A x \in Octet : Len(Append(d.out, x)) = Len(d.out) + 1
      BY <2>4, AppendProperties DEF Octets
    <2>6. r \in Decoders
      BY <2>1, <2>4, ReadIs DEF r
    <2>7. r.mode # "end" /\ Len(r.out) <= Len(d.out) + 1
      <3>1. CASE d.mode = "plain" /\ c # 1
        <4> DEFINE x == (c + e) % Base
        <4>1. x \in Octet
          BY <2>1, Modulo
        <4>2. r = [out |-> Append(d.out, x), mode |-> "plain"]
          BY <2>1, <2>4, <3>1, ReadIs DEF r
        <4> HIDE DEF x
        <4>3. r.mode = "plain" /\ r.out = Append(d.out, x)
          BY <4>2
        <4>4. QED
          BY <2>4, <2>5, <4>1, <4>3
      <3>2. CASE d.mode = "plain" /\ c = 1
        <4>1. r = [out |-> d.out, mode |-> "escape"]
          BY <2>1, <2>4, <3>2, ReadIs DEF r
        <4>2. QED
          BY <2>4, <4>1
      <3>3. CASE d.mode = "escape" /\ c \in 1 .. 3
        <4> DEFINE x == (Escaped[c] + e) % Base
        <4>1. x \in Octet
          <5>1. Escaped[1] = 0 /\ Escaped[2] = 1 /\ Escaped[3] = Quote
            BY DEF Escaped
          <5>2. 0 \in Octet /\ 1 \in Octet /\ Quote \in Octet
            BY Modulo DEF Octet
          <5>3. c = 1 \/ c = 2 \/ c = 3
            BY <3>3
          <5>4. Escaped[c] \in Octet
            BY <5>1, <5>2, <5>3
          <5>5. QED
            BY <5>4, Modulo
        <4>2. r = [out |-> Append(d.out, x), mode |-> "plain"]
          BY <2>1, <2>4, <3>3, ReadIs DEF r
        <4> HIDE DEF x
        <4>3. r.mode = "plain" /\ r.out = Append(d.out, x)
          BY <4>2
        <4>4. QED
          BY <2>4, <2>5, <4>1, <4>3
      <3>4. CASE d.mode = "escape" /\ c \notin 1 .. 3
        <4>1. r = [out |-> d.out, mode |-> "malformed"]
          BY <2>1, <2>4, <3>4, ReadIs DEF r
        <4>2. QED
          BY <2>4, <4>1
      <3>5. CASE d.mode = "malformed"
        <4>1. r = d
          BY <2>1, <2>4, <3>5, ReadIs DEF r
        <4>2. QED
          BY <2>4, <3>5, <4>1
      <3>6. QED
        BY <2>4, <3>1, <3>2, <3>3, <3>4, <3>5
    <2>8. Len(r.out) \in Nat /\ Len(d.out) <= Len(s)
      BY <2>2, <2>6, LenProperties DEF Decoders, Octets
    <2>9. Short(r, Len(s) + 1)
      BY <2>1, <2>4, <2>6, <2>7, <2>8
    <2>10. QED
      BY <2>1, <2>3, <2>9
  <1>3. ByteText \subseteq U
    <2> HIDE DEF U
    <2>1. QED
      BY <1>1, <1>2, EverySequence DEF ByteText
  <1>4. QED
    BY <1>3

-----------------------------------------------------------------------------
\* The places of the bytes that an offset up to j turns into d.
Hit(in, d, j) == {k \in 1 .. Len(in) : \E e \in Clean : e <= j /\ in[k] = (d + e) % Base}

\* The offsets up to j.
Upto(j) == IF j < Quote THEN j ELSE j - 1

\* With each offset there are as many more as it turns into d.
LEMMA HitNext ==
    ASSUME NEW in \in Octets, NEW d \in Octet, NEW j \in 1 .. Base - 1
    PROVE  Cardinality(Hit(in, d, j))
             = Cardinality(Hit(in, d, j - 1)) + (IF j \in Clean THEN Count(in, d + j) ELSE 0)
  <1> DEFINE P == Places(in, (d + j) % Base)
             H == Hit(in, d, j - 1)
  <1>1. /\ Base \in Nat /\ d \in Int /\ j \in Int /\ d + j \in Int /\ j \in Octet
        /\ Len(in) \in Nat /\ DOMAIN in = 1 .. Len(in)
    BY Modulo, LenProperties DEF Octet, Octets
  <1>2. IsFiniteSet(H) /\ Cardinality(H) \in Nat
    <2>1. H \in SUBSET (1 .. Len(in)) /\ IsFiniteSet(1 .. Len(in))
      BY <1>1, FS_Interval DEF Hit
    <2>2. QED
      BY <2>1, FS_Subset, FS_CardinalityType
  <1>3. \A e \in Clean : e \in Int /\ e \in Octet
    BY CleanTexts DEF Octet
  <1>4. CASE j \in Clean
    <2>1. Hit(in, d, j) = H \cup P
      <3>1. \A e \in Clean : e <= j <=> (e <= j - 1 \/ e = j)
        BY <1>1, <1>3
      <3>2. QED
        BY <1>1, <1>4, <3>1 DEF Hit, Places
    <2>2. H \cap P = {}
      <3>1. ASSUME NEW e \in Clean, e <= j - 1, (d + e) % Base = (d + j) % Base PROVE FALSE
        <4>1. e \in Octet /\ d \in Octet /\ j \in Octet /\ e # j
          BY <1>1, <1>3, <3>1
        <4>2. (((e + d) % Base) - d) % Base = e /\ (((j + d) % Base) - d) % Base = j
          BY <4>1, Modulo
        <4>3. e + d = d + e /\ j + d = d + j
          BY <1>1, <1>3
        <4>4. QED
          BY <3>1, <4>1, <4>2, <4>3
      <3>2. QED
        BY <3>1 DEF Hit, Places
    <2>3. (d + j) % Base \in Int
      BY <1>1, Modulo DEF Octet
    <2>4. IsFiniteSet(P) /\ Cardinality(P) \in Nat /\ Count(in, d + j) = Cardinality(P)
      BY <1>1, <2>3, CountIs
    <2> HIDE DEF H, P
    <2>5. Cardinality(H \cup P) = Cardinality(H) + Cardinality(P) - Cardinality({})
      BY <1>2, <2>2, <2>4, FS_Union
    <2>6. QED
      BY <1>2, <1>4, <2>1, <2>4, <2>5, FS_EmptySet DEF H
  <1>5. CASE j \notin Clean
    <2>1. \A e \in Clean : e <= j <=> e <= j - 1
      BY <1>1, <1>3, <1>5
    <2>2. Hit(in, d, j) = H
      BY <2>1 DEF Hit
    <2>3. QED
      BY <1>2, <1>5, <2>2
  <1>6. QED
    BY <1>4, <1>5

\* A byte is turned into each of three by one offset, so that the fewest escapes are few.
LEMMA FewEscapes ==
    ASSUME NEW in \in Octets
    PROVE  Escapes(in, Offset(in)) * (Base - 2) <= 3 * Len(in)
  <1> DEFINE m == Escapes(in, Offset(in))
             h(d, j) == Cardinality(Hit(in, d, j))
             T == {j \in Nat : j <= Base - 1 => Upto(j) * m <= h(0, j) + h(1, j) + h(Quote, j)}
  <1>0. /\ Base \in Nat /\ Base >= 6 /\ Quote \in 4 .. Base - 2
        /\ 0 \in Octet /\ 1 \in Octet /\ Quote \in Octet /\ Len(in) \in Nat
    BY Modulo, LenProperties DEF Octet, Octets
  <1>1. m \in Nat
    BY OffsetIs, CleanTexts, EscapesType
  <1>2. ASSUME NEW d \in Octet, NEW j \in Nat
        PROVE  h(d, j) \in Nat /\ h(d, j) <= Len(in) /\ (j = 0 => h(d, j) = 0)
    <2>1. Hit(in, d, j) \in SUBSET (1 .. Len(in)) /\ IsFiniteSet(1 .. Len(in)) /\ Cardinality(1 .. Len(in)) = Len(in)
      <3>1. \A a, b \in Int : IsFiniteSet(a .. b) /\ Cardinality(a .. b) = IF a > b THEN 0 ELSE b - a + 1
        BY FS_Interval
      <3>2. Hit(in, d, j) \subseteq 1 .. Len(in)
        BY DEF Hit
      <3> DEFINE l == Len(in)
      <3>3. l \in Nat
        BY <1>0
      <3> HIDE DEF l
      <3>4. IsFiniteSet(1 .. l) /\ Cardinality(1 .. l) = l
        <4>1. 1 \in Int /\ l \in Int /\ (IF 1 > l THEN 0 ELSE l - 1 + 1) = l
          BY <3>3
        <4>2. Cardinality(1 .. l) = IF 1 > l THEN 0 ELSE l - 1 + 1
          BY <3>1, <4>1
        <4>3. QED
          BY <3>1, <4>1, <4>2
      <3>5. QED
        BY <3>2, <3>4 DEF l
    <2>2. j = 0 => Hit(in, d, j) = {}
      BY <1>0 DEF Hit, Clean
    <2>3. QED
      BY <2>1, <2>2, FS_Subset, FS_CardinalityType, FS_EmptySet
  <1>3. 0 \in T
    BY <1>0, <1>1, <1>2 DEF Upto
  <1>4. ASSUME NEW k \in Nat, k \in T PROVE k + 1 \in T
    <2> DEFINE j == k + 1
    <2> SUFFICES ASSUME j <= Base - 1 PROVE Upto(j) * m <= h(0, j) + h(1, j) + h(Quote, j)
      OBVIOUS
    <2>1. j \in 1 .. Base - 1 /\ j - 1 = k /\ k <= Base - 1
      BY <1>0
    <2>2. Upto(k) * m <= h(0, k) + h(1, k) + h(Quote, k)
      BY <1>4, <2>1
    <2>3. ASSUME NEW d \in Octet
          PROVE  h(d, j) = h(d, k) + (IF j \in Clean THEN Count(in, d + j) ELSE 0)
      BY <2>1, HitNext
    <2>4. CASE j \in Clean
      <3>1. m <= Count(in, j) + Count(in, j + 1) + Count(in, j + Quote)
        BY <2>4, OffsetIs DEF Escapes
      <3>2. Count(in, j) \in Nat /\ Count(in, j + 1) \in Nat /\ Count(in, j + Quote) \in Nat
        <4>1. j \in Int /\ j + 1 \in Int /\ j + Quote \in Int
          BY <1>0, <2>1
        <4>2. QED
          BY <4>1, CountIs
      <3>3. 0 + j = j /\ 1 + j = j + 1 /\ Quote + j = j + Quote
        BY <1>0, <2>1
      <3>4. h(0, j) = h(0, k) + Count(in, j) /\ h(1, j) = h(1, k) + Count(in, j + 1)
            /\ h(Quote, j) = h(Quote, k) + Count(in, j + Quote)
        BY <1>0, <2>3, <2>4, <3>3
      <3>5. Upto(j) = Upto(k) + 1 /\ Upto(k) \in Nat
        BY <1>0, <2>1, <2>4 DEF Upto, Clean
      <3>6. (Upto(k) + 1) * m = Upto(k) * m + m
        BY <1>1, <3>5
      <3>7. h(0, k) \in Nat /\ h(1, k) \in Nat /\ h(Quote, k) \in Nat
        BY <1>0, <1>2
      <3> HIDE DEF m, h, j
      <3>8. Upto(k) * m \in Nat
        BY <1>1, <3>5
      <3>9. QED
        BY <1>1, <2>2, <3>1, <3>2, <3>4, <3>5, <3>6, <3>7, <3>8
    <2>5. CASE j \notin Clean
      <3>1. Upto(j) = Upto(k)
        BY <1>0, <2>1, <2>5 DEF Upto, Clean
      <3>2. h(0, j) = h(0, k) /\ h(1, j) = h(1, k) /\ h(Quote, j) = h(Quote, k)
        <4>1. ASSUME NEW d \in Octet PROVE h(d, j) = h(d, k) + 0 /\ h(d, k) \in Nat
          BY <1>2, <2>3, <2>5
        <4>2. QED
          BY <1>0, <4>1
      <3>3. QED
        BY <2>2, <3>1, <3>2
    <2>6. QED
      BY <2>4, <2>5
  <1> HIDE DEF T
  <1>5. Nat \subseteq T
    BY <1>3, <1>4, EveryNumber
  <1> DEFINE j == Base - 1
  <1>6. j \in Nat /\ Upto(j) = Base - 2
    BY <1>0 DEF Upto
  <1>7. Upto(j) * m <= h(0, j) + h(1, j) + h(Quote, j)
    BY <1>5, <1>6 DEF T
  <1>8. /\ h(0, j) \in Nat /\ h(1, j) \in Nat /\ h(Quote, j) \in Nat
        /\ h(0, j) <= Len(in) /\ h(1, j) <= Len(in) /\ h(Quote, j) <= Len(in)
    BY <1>0, <1>2, <1>6
  <1> HIDE DEF h, j, m
  <1>9. (Base - 2) * m <= 3 * Len(in)
    <2>1. (Base - 2) * m <= h(0, j) + h(1, j) + h(Quote, j)
      BY <1>6, <1>7
    <2>2. (Base - 2) * m \in Int
      BY <1>0, <1>1
    <2>3. QED
      BY <1>0, <1>8, <2>1, <2>2
  <1>10. (Base - 2) * m = m * (Base - 2)
    BY <1>0, <1>1
  <1>11. QED
    BY <1>9, <1>10 DEF m

\* How often b goes into a.
LEMMA Quotient ==
    ASSUME NEW a \in Nat, NEW b \in Nat, b > 0, NEW k \in Nat, k * b <= a
    PROVE  a \div b \in Nat /\ k <= a \div b
  <1> DEFINE q == a \div b
  <1>1. q \in Nat /\ a < (q + 1) * b
    <2>1. q \in Nat /\ a = b * q + (a % b) /\ a % b < b
      OBVIOUS
    <2>2. a % b \in Nat
      OBVIOUS
    <2> HIDE DEF q
    <2>3. (q + 1) * b = b * q + b
      BY <2>1
    <2>4. b * q \in Nat
      BY <2>1
    <2>5. QED
      BY <2>1, <2>2, <2>3, <2>4
  <1> HIDE DEF q
  <1>2. CASE q < k
    <2>1. q + 1 <= k
      BY <1>1, <1>2
    <2>2. (q + 1) * b <= k * b
      BY <1>1, <2>1
    <2>3. (q + 1) * b \in Nat /\ k * b \in Nat
      BY <1>1
    <2>4. QED
      BY <1>1, <2>2, <2>3
  <1>3. QED
    BY <1>1, <1>2 DEF q

\* The variable e of sqlite3_encode_binary is set when the loop over the offsets ends: it starts with
\* m = n, and one of the offsets needs less than n escapes.
THEOREM OffsetIsSet ==
    ASSUME NEW in \in Octets, in # <<>>
    PROVE  Offset(in) \in Clean /\ Escapes(in, Offset(in)) < Len(in)
  <1> DEFINE n == Len(in)
             m == Escapes(in, Offset(in))
             b == Base - 2
  <1>1. n \in Nat /\ m \in Nat /\ b \in Nat /\ b >= 4 /\ m * b <= 3 * n /\ Offset(in) \in Clean
    BY OffsetIs, FewEscapes, CleanTexts, EscapesType, Modulo, LenProperties DEF Octets
  <1>2. n > 0
    <2>1. n # 0
      BY EmptySeq DEF Octets
    <2>2. QED
      BY <1>1, <2>1
  <1> HIDE DEF n, m, b
  <1>3. m * 4 <= m * b
    BY <1>1
  <1>4. m * b \in Nat
    BY <1>1
  <1>5. m < n
    BY <1>1, <1>2, <1>3, <1>4
  <1>6. QED
    BY <1>1, <1>5 DEF m, n

\* What sqlite3_encode_binary writes for n bytes, with the zero at the end, is no longer than the buffer that
\* it asks for: "out must be able to hold at least 2 +(257*n)/254 bytes" (CppSQLite3.cpp:1507).
THEOREM EncodedFits ==
    ASSUME NEW in \in Octets
    PROVE  LET most == ((Base + 1) * Len(in)) \div (Base - 2) IN
           most \in Nat /\ Len(in) <= most /\ Len(Encode(in)) <= 2 + most
  <1> DEFINE n == Len(in)
             m == Escapes(in, Offset(in))
             a == (Base + 1) * n
             b == Base - 2
  <1>1. n \in Nat /\ m \in Nat /\ b \in Nat /\ b > 0 /\ Base = b + 2
    BY OffsetIs, CleanTexts, EscapesType, Modulo, LenProperties DEF Octets
  <1>2. m * b <= 3 * n
    BY FewEscapes
  <1> HIDE DEF m, b, n
  <1>3. (n + m) * b <= a /\ a \in Nat /\ n + m \in Nat
    <2>1. (n + m) * b = n * b + m * b /\ a = n * b + 3 * n
      BY <1>1
    <2>2. n * b \in Nat /\ m * b \in Nat /\ n + m \in Nat
      BY <1>1
    <2>3. QED
      BY <1>1, <1>2, <2>1, <2>2
  <1> HIDE DEF a
  <1>4. a \div b \in Nat /\ n + m <= a \div b
    BY <1>1, <1>3, Quotient
  <1>5. Len(Encode(in)) = IF in = <<>> THEN 2 ELSE 2 + n + m
    BY EncodedDecodes DEF n, m
  <1>6. n <= a \div b /\ Len(Encode(in)) <= 2 + (a \div b)
    BY <1>1, <1>4, <1>5
  <1>7. QED
    BY <1>4, <1>6 DEF a, b, n

\* Encoding never makes less of the bytes.
LEMMA Shorter ==
    ASSUME NEW in \in Octets
    PROVE  Len(in) \in Nat /\ Len(Encode(in)) \in Nat /\ Len(in) <= Len(Encode(in))
  <1>1. Len(in) \in Nat /\ Escapes(in, Offset(in)) \in Nat
    BY OffsetIs, CleanTexts, EscapesType, LenProperties DEF Octets
  <1>2. Len(Encode(in)) = IF in = <<>> THEN 2 ELSE 2 + Len(in) + Escapes(in, Offset(in))
    BY EncodedDecodes
  <1>3. in = <<>> => Len(in) = 0
    OBVIOUS
  <1>4. QED
    BY <1>1, <1>2, <1>3

\* What a string decodes to does not need more room than the string, and, if there is no quote in
\* the string, nor does it when it is encoded again.
LEMMA Reencoded ==
    ASSUME NEW s \in ByteText, s # <<>>,
           NEW t, t = Append(s, 0), Decode(t).ok
    PROVE  /\ t \in Octets /\ Len(t) = Len(s) + 1 /\ Len(t) > 1
           /\ Decode(t).out \in Octets /\ Decode(t) = [out |-> Decode(t).out, ok |-> TRUE]
           /\ Len(Decode(t).out) <= Len(t)
           /\ s \in CleanText => Len(Encode(Decode(t).out)) <= Len(t)
  <1> DEFINE e == Head(s)
             b == Tail(s)
             d == Reads(b, e)
  <1>1. /\ s \in Octets /\ Len(s) \in Nat /\ Len(s) > 0 /\ b \in ByteText /\ Len(b) = Len(s) - 1
        /\ e \in Octet /\ b \in Octets /\ 0 \in Octet
        /\ s \in CleanText => e \in Clean /\ b \in CleanText
    <2>1. s \in Octets /\ e \in 1 .. Base - 1 /\ b \in ByteText /\ Len(b) = Len(s) - 1 /\ 0 \in Octet
      BY TextsOfBytes, CleanTexts, HeadTailProperties DEF ByteText
    <2>2. s \in CleanText => e \in Clean /\ b \in CleanText
      BY HeadTailProperties DEF CleanText
    <2>3. Len(s) \in Nat /\ Len(b) \in Nat
      BY <2>1, LenProperties DEF ByteText
    <2> HIDE DEF e, b
    <2>4. e \in Octet /\ b \in Octets
      BY <2>1, TextsOfBytes, Modulo DEF Octet
    <2>5. QED
      BY <2>1, <2>2, <2>3, <2>4
  <1>2. t \in Octets /\ Len(t) = Len(s) + 1 /\ Len(t) > 1
    BY <1>1, AppendProperties DEF Octets
  <1>3. Head(t) = e /\ Tail(t) = Append(b, 0)
    BY <1>1, HeadTailAppend DEF Octets
  <1> DEFINE r == Read(d, 0, e)
  <1>4. Decode(t) = [out |-> r.out, ok |-> r.mode = "end"]
    <2>1. Reads(Append(b, 0), e) = r
      BY <1>1, ReadsAppend
    <2>2. QED
      BY <1>3, <2>1 DEF Decode
  <1>5. /\ d \in Decoders /\ d.mode # "end" /\ Len(d.out) <= Len(b)
        /\ (s \in CleanText /\ d.mode = "plain") => Len(d.out) + Escapes(d.out, e) <= Len(b)
    BY <1>1, NoShorter, NoLonger
  <1> HIDE DEF e, b, d, r
  <1>6. d.mode = "plain" /\ r = [out |-> d.out, mode |-> "end"]
    <2>1. r.mode = "end"
      <3> DEFINE x == Decode(t)
      <3>1. x = [out |-> r.out, ok |-> r.mode = "end"] /\ x.ok
        BY <1>4
      <3> HIDE DEF x
      <3>2. x.ok <=> r.mode = "end"
        BY <3>1, Zenon
      <3>3. QED
        BY <3>1, <3>2
    <2>2. d.mode \in {"plain", "escape", "malformed"} /\ 0 \notin 1 .. 3
      BY <1>5 DEF Decoders
    <2>3. d.mode = "escape" => r.mode = "malformed"
      BY <1>1, <1>5, <2>2, ReadIs DEF r
    <2>4. d.mode = "malformed" => r.mode = "malformed"
      BY <1>1, <1>5, ReadIs DEF r
    <2>5. d.mode = "plain"
      BY <2>1, <2>2, <2>3, <2>4
    <2>6. QED
      BY <1>1, <1>5, <2>5, ReadIs DEF r
  <1> DEFINE out == d.out
  <1>7. /\ out \in Octets /\ Len(out) \in Nat /\ Escapes(out, e) \in Nat /\ Len(out) <= Len(b)
        /\ s \in CleanText => Len(out) + Escapes(out, e) <= Len(b)
    BY <1>1, <1>5, <1>6, EscapesType, LenProperties DEF Decoders, Octets
  <1>8. Decode(t) = [out |-> out, ok |-> TRUE]
    <2>1. r.out = out /\ (r.mode = "end") = TRUE
      BY <1>6
    <2>2. QED
      BY <1>4, <2>1
  <1> HIDE DEF out
  <1>9. Escapes(out, Offset(out)) \in Nat /\ (s \in CleanText => Escapes(out, Offset(out)) <= Escapes(out, e))
    BY <1>1, <1>7, OffsetIs, CleanTexts, EscapesType
  <1>10. Len(Encode(out)) = IF out = <<>> THEN 2 ELSE 2 + Len(out) + Escapes(out, Offset(out))
    BY <1>7, EncodedDecodes
  <1>11. Len(out) <= Len(t) /\ (s \in CleanText => Len(Encode(out)) <= Len(t))
    BY <1>1, <1>2, <1>7, <1>9, <1>10
  <1>12. QED
    BY <1>2, <1>7, <1>8, <1>11

-----------------------------------------------------------------------------
\* A buffer in use, with the bytes that are wanted of it.
Held(b, r, l, enc, wanted, q) ==
    /\ b \in Octets /\ r \in Nat /\ Len(b) <= r
    /\ wanted # Malformed =>
           /\ wanted \in Octets /\ Len(wanted) <= r
           /\ q \/ (Base + 1) * Len(wanted) > MaxInt \/ Len(Encode(wanted)) <= r
    /\ ~enc => wanted # Malformed /\ l = Len(wanted) /\ SubSeq(b, 1, l) = wanted
    /\ enc => IF wanted = Malformed THEN Len(b) = 1 \/ ~Decode(b).ok
              ELSE Len(b) > 1 /\ Decode(b) = [out |-> wanted, ok |-> TRUE]

\* The buffer may be too small.
Small == failed \/ quoted \/ (Base + 1) * Len(data) > MaxInt

\* The inductive invariant of BlobKeepsData: what is in the buffer stands for the bytes that were put
\* in, and there is room for both forms of them, if not for the named cases.
BlobInv ==
    /\ (~broken /\ buf # Null /\ ~failed) => Held(buf, room, length, encoded, data, quoted)
    /\ overrun => broken /\ Small

\* No bytes are the mark of malformed ones.
LEMMA MarkIsNoBytes == Malformed \notin Octets
  <1>1. SUFFICES ASSUME Malformed \in Octets PROVE FALSE
    OBVIOUS
  <1>2. Len(Malformed) = 1 /\ Malformed[1] = -2
    BY DEF Malformed
  <1>3. Malformed[1] \in Octet
    BY <1>1, <1>2, ElementOfSeq DEF Octets
  <1>4. QED
    BY <1>2, <1>3 DEF Octet

\* What a write does.
LEMMA WriteIs ==
    ASSUME NEW n, NEW r, Write(n, r)
    PROVE  (overrun' <=> n > r) /\ (broken' <=> n > r)
  BY Zenon DEF Write

\* The product of the size, if it is an int.
LEMMA ProductIs ==
    ASSUME NEW n \in Nat, (Base + 1) * n <= MaxInt
    PROVE  RoomFor(n) = 3 + (((Base + 1) * n) \div (Base - 2))
  <1> DEFINE p == (Base + 1) * n
             w == MaxInt + 1
  <1>1. p \in Nat /\ w \in Nat /\ p < w
    <2>1. Base + 1 \in Nat /\ MaxInt \in Nat
      BY BlobAssumption, Modulo
    <2>2. QED
      BY <2>1
  <1>2. Product(n) = ((p + MaxInt + 1) % (2 * w)) - w
    BY DEF Product
  <1>3. p + MaxInt + 1 = p + w
    BY <1>1, BlobAssumption
  <1> HIDE DEF p, w
  <1>4. (p + w) % (2 * w) = p + w
    BY <1>1
  <1>5. Product(n) = p
    BY <1>1, <1>2, <1>3, <1>4
  <1>6. Quot(p, Base - 2) = p \div (Base - 2)
    BY <1>1 DEF Quot
  <1>7. QED
    BY <1>5, <1>6 DEF RoomFor, p

\* The size is a number, if it is not below zero.
LEMMA RoomIs == ASSUME NEW n \in Nat, RoomFor(n) >= 0 PROVE RoomFor(n) \in Nat
  <1> DEFINE p == Product(n)
             b == Base - 2
  <1>1. b \in Nat /\ b > 0
    BY Modulo
  <1>2. p \in Int
    <2>1. (Base + 1) * n + MaxInt + 1 \in Int /\ 2 * (MaxInt + 1) \in Nat /\ 2 * (MaxInt + 1) > 0
      BY BlobAssumption, Modulo
    <2>2. QED
      BY <2>1, BlobAssumption DEF Product
  <1> HIDE DEF p, b
  <1>3. Quot(p, b) \in Int
    BY <1>1, <1>2 DEF Quot
  <1>4. QED
    BY <1>3 DEF RoomFor, p, b

\* An object without a buffer holds nothing.
LEMMA NoMemoryInv ==
    ASSUME BlobInv, ~broken, NoMemory
    PROVE  BlobInv'
  <1>1. ~overrun /\ buf' = Null /\ overrun' = overrun
    BY DEF BlobInv, NoMemory
  <1>2. QED
    BY <1>1 DEF BlobInv

\* setBinary makes room for both forms, while the product of the size is an int.
LEMMA SetBinaryInv == BlobInv /\ ~broken /\ SetBinary => BlobInv'
  <1> SUFFICES ASSUME BlobInv, ~broken, NEW d \in Blobs,
                      length' = Len(d), room' = RoomFor(Len(d)), quoted' = FALSE, failed' = FALSE,
                      RoomFor(Len(d)) >= 0,
                      buf' = d, data' = d, encoded' = FALSE,
                      Write(Len(d), RoomFor(Len(d)))
               PROVE  BlobInv'
    BY NoMemoryInv DEF SetBinary
  <1> DEFINE n == Len(d)
             r == RoomFor(n)
  <1>1. d \in Octets /\ n \in Nat
    BY BlobAssumption, LenProperties DEF Octets, Octet
  <1>2. r \in Nat /\ room' = r
    BY <1>1, RoomIs
  <1>3. (overrun' <=> n > r) /\ (broken' <=> n > r)
    BY WriteIs
  <1>4. (Base + 1) * n > MaxInt \/ (n <= r /\ Len(Encode(d)) <= r)
    <2>1. SUFFICES ASSUME ~((Base + 1) * n > MaxInt) PROVE n <= r /\ Len(Encode(d)) <= r
      OBVIOUS
    <2>2. (Base + 1) * n <= MaxInt
      BY <1>1, <2>1, BlobAssumption, Modulo
    <2> DEFINE most == ((Base + 1) * n) \div (Base - 2)
    <2>3. most \in Nat /\ n <= most /\ Len(Encode(d)) <= 2 + most
      BY <1>1, EncodedFits
    <2>4. Len(Encode(d)) \in Nat /\ r = 3 + most
      BY <1>1, <2>2, Shorter, ProductIs
    <2> HIDE DEF most, r, n
    <2>5. QED
      BY <1>1, <2>3, <2>4
  <1>5. SubSeq(d, 1, n) = d
    BY <1>1, SubSeqFull DEF Octets
  <1>6. length' = n /\ data' = d /\ buf' = d /\ encoded' = FALSE /\ quoted' = FALSE
    OBVIOUS
  <1> HIDE DEF n, r
  <1>7. ASSUME ~broken' PROVE Held(buf', room', length', encoded', data', quoted')
    <2>1. n <= r
      BY <1>1, <1>2, <1>3, <1>7
    <2>2. QED
      BY <1>1, <1>2, <1>4, <1>5, <1>6, <2>1, MarkIsNoBytes DEF Held, n
  <1>8. overrun' => broken' /\ (Base + 1) * Len(data') > MaxInt
    <2>1. n > r => ~(n <= r)
      BY <1>1, <1>2
    <2>2. QED
      BY <1>3, <1>4, <1>6, <2>1 DEF n
  <1>9. QED
    BY <1>7, <1>8 DEF BlobInv, Small

\* setEncoded makes room for the string, and so for its bytes, and for what they are encoded to
\* if the string has no quote.
LEMMA SetEncodedInv == BlobInv /\ ~broken /\ SetEncoded => BlobInv'
  <1> SUFFICES ASSUME BlobInv, ~broken, NEW s \in Strings, NEW t, t = Append(s, 0),
                      buf' = t, room' = Len(s) + 1, encoded' = TRUE,
                      quoted' = (\E k \in DOMAIN s : s[k] = Quote),
                      data' = IF s # <<>> /\ Decode(t).ok THEN Decode(t).out ELSE Malformed,
                      overrun' = overrun
               PROVE  BlobInv'
    BY NoMemoryInv DEF SetEncoded
  <1>1. /\ s \in ByteText /\ s \in Octets /\ Len(s) \in Nat /\ 0 \in Octet
        /\ quoted' \/ s \in CleanText
    <2>1. s \in ByteText
      BY BlobAssumption DEF ByteText
    <2>2. Len(s) \in Nat /\ DOMAIN s = 1 .. Len(s) /\ \A k \in 1 .. Len(s) : s[k] \in 1 .. Base - 1
      BY <2>1, LenProperties, ElementOfSeq DEF ByteText
    <2>3. ASSUME \A k \in DOMAIN s : s[k] # Quote PROVE s \in CleanText
      <3>1. \A k \in 1 .. Len(s) : s[k] \in Clean
        BY <2>2, <2>3 DEF Clean
      <3>2. s = [k \in 1 .. Len(s) |-> s[k]]
        BY <2>1, <2>2 DEF ByteText
      <3>3. [k \in 1 .. Len(s) |-> s[k]] \in Seq(Clean)
        BY <2>2, <3>1, SeqDef
      <3>4. QED
        BY <3>2, <3>3 DEF CleanText
    <2>4. quoted' \/ s \in CleanText
      BY <2>3, Zenon
    <2>5. QED
      BY <2>1, <2>2, <2>4, TextsOfBytes, CleanTexts
  <1>2. t \in Octets /\ Len(t) = Len(s) + 1
    BY <1>1, AppendProperties DEF Octets
  <1>3. Held(buf', room', length', encoded', data', quoted')
    <2>1. CASE s # <<>> /\ Decode(t).ok
      <3> DEFINE w == Decode(t).out
      <3>1. /\ Len(t) > 1 /\ w \in Octets /\ Decode(t) = [out |-> w, ok |-> TRUE]
            /\ Len(w) <= Len(t) /\ (s \in CleanText => Len(Encode(w)) <= Len(t))
        BY <1>1, <2>1, Reencoded
      <3>2. data' = w /\ encoded' = TRUE
        BY <2>1
      <3> HIDE DEF w
      <3>3. QED
        BY <1>1, <1>2, <3>1, <3>2, MarkIsNoBytes DEF Held
    <2>2. CASE ~(s # <<>> /\ Decode(t).ok)
      <3>1. Len(t) = 1 \/ ~Decode(t).ok
        BY <1>2, <2>2
      <3>2. QED
        BY <1>1, <1>2, <2>2, <3>1 DEF Held
    <2>3. QED
      BY <2>1, <2>2
  <1>4. ~overrun'
    BY DEF BlobInv
  <1>5. QED
    BY <1>3, <1>4 DEF BlobInv

\* getEncoded turns the bytes into the string that stands for them, and passes the end of the
\* buffer only in the named cases.
LEMMA GetEncodedInv == BlobInv /\ ~broken /\ GetEncoded => BlobInv'
  <1> SUFFICES ASSUME BlobInv, ~broken, GetEncoded PROVE BlobInv'
    OBVIOUS
  <1>1. ~encoded /\ encoded' = TRUE /\ UNCHANGED <<room, length, data, quoted, failed>> /\ ~overrun
    BY DEF GetEncoded, BlobInv
  <1>2. CASE broken' = TRUE /\ UNCHANGED <<buf, overrun>>
    BY <1>1, <1>2 DEF BlobInv
  <1>3. CASE buf # Null /\ buf' = Encode(SubSeq(buf, 1, length)) /\ Write(Len(buf'), room)
    <2>1. (overrun' <=> Len(buf') > room) /\ (broken' <=> Len(buf') > room)
      BY <1>3, WriteIs
    <2>2. CASE failed
      BY <1>1, <2>1, <2>2 DEF BlobInv, Small
    <2>3. CASE ~failed
      <3>1. Held(buf, room, length, encoded, data, quoted)
        BY <1>3, <2>3 DEF BlobInv
      <3>2. data # Malformed /\ buf' = Encode(data)
        BY <1>1, <1>3, <3>1 DEF Held
      <3>3. /\ data \in Octets /\ room \in Nat /\ Len(data) <= room
            /\ quoted \/ (Base + 1) * Len(data) > MaxInt \/ Len(Encode(data)) <= room
        BY <3>1, <3>2 DEF Held
      <3>4. /\ Encode(data) \in Octets /\ Len(Encode(data)) > 1 /\ Len(Encode(data)) \in Nat
            /\ Decode(Encode(data)) = [out |-> data, ok |-> TRUE]
        BY <3>3, EncodedDecodes, Shorter
      <3>5. ASSUME ~broken' PROVE Held(buf', room', length', encoded', data', quoted')
        <4>1. Len(Encode(data)) <= room
          BY <2>1, <3>2, <3>3, <3>4, <3>5
        <4>2. QED
          BY <1>1, <3>2, <3>3, <3>4, <4>1 DEF Held
      <3>6. overrun' => broken' /\ (quoted \/ (Base + 1) * Len(data) > MaxInt)
        <4>1. Len(Encode(data)) > room => ~(Len(Encode(data)) <= room)
          BY <3>3, <3>4
        <4>2. QED
          BY <2>1, <3>2, <3>3, <4>1
      <3>7. overrun' => broken' /\ Small'
        BY <1>1, <3>6 DEF Small
      <3>8. QED
        BY <3>5, <3>7 DEF BlobInv
    <2>4. QED
      BY <2>2, <2>3
  <1>4. QED
    BY <1>2, <1>3 DEF GetEncoded

\* getBinary turns the string into its bytes, in place.
LEMMA GetBinaryInv == BlobInv /\ ~broken /\ GetBinary => BlobInv'
  <1> SUFFICES ASSUME BlobInv, ~broken, GetBinary PROVE BlobInv'
    OBVIOUS
  <1>0. ~overrun'
    BY DEF BlobInv, GetBinary
  <1> SUFFICES ASSUME ~broken', buf' # Null, ~failed'
               PROVE  Held(buf', room', length', encoded', data', quoted')
    BY <1>0 DEF BlobInv
  <1> DEFINE r == Decode(buf)
  <1>1. /\ encoded /\ buf # Null /\ Len(buf) # 1 /\ UNCHANGED <<room, data, quoted>>
        /\ buf' = r.out \o SubSeq(buf, Len(r.out) + 1, Len(buf))
        /\ length' = IF r.ok THEN Len(r.out) ELSE -1
        /\ encoded' = ~r.ok
        /\ failed' = (failed \/ ~r.ok)
    BY DEF GetBinary
  <1>2. ~failed /\ r.ok
    BY <1>1
  <1>3. Held(buf, room, length, encoded, data, quoted)
    BY <1>1, <1>2 DEF BlobInv
  <1>4. data # Malformed
    BY <1>1, <1>2, <1>3 DEF Held
  <1>5. /\ buf \in Octets /\ room \in Nat /\ Len(buf) <= room /\ r = [out |-> data, ok |-> TRUE]
        /\ data \in Octets /\ Len(data) <= room
        /\ quoted \/ (Base + 1) * Len(data) > MaxInt \/ Len(Encode(data)) <= room
    BY <1>1, <1>3, <1>4 DEF Held
  <1> DEFINE n == Len(data)
             rest == SubSeq(buf, n + 1, Len(buf))
  <1>6. buf' = data \o rest /\ length' = n /\ ~encoded'
    <2>1. r.out = data
      BY <1>5
    <2>2. encoded' = FALSE
      BY <1>1, <1>2
    <2>3. QED
      BY <1>1, <1>2, <2>1, <2>2
  <1>7. n \in Nat /\ Len(buf) \in Nat
    BY <1>5, LenProperties DEF Octets
  <1>8. rest \in Octets /\ Len(rest) = IF n + 1 <= Len(buf) THEN Len(buf) - n ELSE 0
    <2>1. \A k \in n + 1 .. Len(buf) : buf[k] \in Octet
      <3> TAKE k \in n + 1 .. Len(buf)
      <3>1. k \in 1 .. Len(buf)
        BY <1>7
      <3>2. QED
        BY <1>5, <3>1, ElementOfSeq DEF Octets
    <2>2. n + 1 \in Int /\ Len(buf) \in Int
      BY <1>7
    <2> HIDE DEF n
    <2>3. /\ rest \in Seq(Octet)
          /\ Len(rest) = IF n + 1 <= Len(buf) THEN Len(buf) - (n + 1) + 1 ELSE 0
      BY <2>1, <2>2, SubSeqProperties
    <2>4. QED
      BY <1>7, <2>3 DEF Octets
  <1> HIDE DEF r, rest
  <1>9. data \o rest \in Octets /\ Len(data \o rest) = n + Len(rest)
    BY <1>5, <1>8, ConcatProperties DEF Octets
  <1>10. SubSeq(data \o rest, 1, n) = data
    <2>1. CASE n = 0
      <3>1. data = <<>>
        BY <1>5, <2>1, EmptySeq DEF Octets
      <3>2. 1 \in Int /\ n \in Int /\ n < 1
        BY <2>1
      <3>3. SubSeq(data \o rest, 1, n) = <<>>
        BY <3>2, SubSeqEmpty
      <3>4. QED
        BY <3>1, <3>3
    <2>2. CASE n # 0
      <3>1. 1 \in 1 .. Len(data) /\ n \in 1 .. Len(data)
        BY <1>7, <2>2
      <3>2. SubSeq(data \o rest, 1, n) = SubSeq(data, 1, n)
        BY <1>5, <1>8, <3>1, SubSeqOfConcat1 DEF Octets
      <3>3. QED
        BY <1>5, <3>2, SubSeqFull DEF Octets
    <2>3. QED
      BY <2>1, <2>2
  <1>11. Len(data \o rest) <= room
    BY <1>5, <1>7, <1>8, <1>9
  <1>12. UNCHANGED <<room, data, quoted>>
    BY <1>1
  <1>13. QED
    BY <1>4, <1>5, <1>6, <1>9, <1>10, <1>11, <1>12 DEF Held

\* The invariant is inductive.
LEMMA BlobInvInductive ==
    /\ BlobInit => BlobInv
    /\ BlobInv /\ [BlobNext]_blobVars => BlobInv'
  <1>1. BlobInit => BlobInv
    BY DEF BlobInit, BlobInv
  <1>2. ASSUME BlobInv, BlobNext PROVE BlobInv'
    <2>1. ~broken /\ (SetBinary \/ SetEncoded \/ GetEncoded \/ GetBinary \/ Clear)
      BY <1>2 DEF BlobNext
    <2>2. CASE SetBinary
      BY <1>2, <2>1, <2>2, SetBinaryInv
    <2>3. CASE SetEncoded
      BY <1>2, <2>1, <2>3, SetEncodedInv
    <2>4. CASE GetEncoded
      BY <1>2, <2>1, <2>4, GetEncodedInv
    <2>5. CASE GetBinary
      BY <1>2, <2>1, <2>5, GetBinaryInv
    <2>6. CASE Clear
      BY <1>2, <2>1, <2>6 DEF Clear, BlobInv
    <2>7. QED
      BY <2>1, <2>2, <2>3, <2>4, <2>5, <2>6
  <1>3. ASSUME BlobInv, UNCHANGED blobVars PROVE BlobInv'
    BY <1>3 DEF BlobInv, Small, blobVars
  <1>4. QED
    BY <1>1, <1>2, <1>3

\* The invariant says what the property asks for.
LEMMA BlobInvSuffices == BlobInv => BlobKeepsData
  <1> SUFFICES ASSUME ~broken, buf # Null, ~failed, Held(buf, room, length, encoded, data, quoted)
               PROVE  /\ Len(buf) <= room
                      /\ ~encoded => SubSeq(buf, 1, length) = data
                      /\ (encoded /\ data # Malformed) => Decode(buf) = [out |-> data, ok |-> TRUE]
                      /\ (encoded /\ data # Malformed /\ buf = Encode(data)) =>
                             \A k \in 1 .. Len(buf) - 1 : buf[k] \notin {0, Quote}
    BY DEF BlobInv, Small, BlobKeepsData
  <1>1. Len(buf) <= room /\ (~encoded => SubSeq(buf, 1, length) = data)
    BY DEF Held
  <1>2. (encoded /\ data # Malformed) => Decode(buf) = [out |-> data, ok |-> TRUE]
    BY DEF Held
  <1>3. ASSUME data # Malformed, buf = Encode(data), NEW k \in 1 .. Len(buf) - 1
        PROVE  buf[k] \notin {0, Quote}
    <2>1. data \in Octets
      BY <1>3 DEF Held
    <2>2. buf[k] \in Clean
      BY <1>3, <2>1, EncodedDecodes
    <2>3. QED
      BY <2>2, Modulo DEF Clean
  <1>4. QED
    BY <1>1, <1>2, <1>3

\* The bytes that are put into a CppSQLite3Binary come out again, whatever they are and however often they
\* are encoded and decoded (getEncoded, getBinary), and an encoded form can stand in SQL.  The buffer that
\* setBinary or setEncoded has made is large enough for either form, but if the product of its size was no
\* int, if the string had a quote, or if getBinary has thrown; and memory may run out at any time.
THEOREM BlobKeepsDataHolds == BlobSpec => []BlobKeepsData
  <1>1. BlobInit => BlobInv
    BY BlobInvInductive
  <1>2. BlobInv /\ [BlobNext]_blobVars => BlobInv'
    BY BlobInvInductive
  <1>3. BlobInv => BlobKeepsData
    BY BlobInvSuffices
  <1>4. QED
    BY <1>1, <1>2, <1>3, PTL DEF BlobSpec

-----------------------------------------------------------------------------
(* Codecs.                                                                 *)

Char == 0 .. 255
Chars == Seq(Char)

\* Where a text is cut: nowhere, or at the first of some places.
LEMMA BeforeIs ==
    ASSUME NEW s, Len(s) \in Nat, NEW P
    PROVE  /\ P = {} => Before(s, P) = s
           /\ \A n \in Nat : (n \in P /\ \A k \in P : k \in Nat /\ n <= k) => Before(s, P) = SubSeq(s, 1, n - 1)
  <1>1. ASSUME P = {} PROVE Before(s, P) = s
    BY <1>1 DEF Before
  <1>2. ASSUME NEW n \in Nat, n \in P, \A k \in P : k \in Nat /\ n <= k
        PROVE  Before(s, P) = SubSeq(s, 1, n - 1)
    <2>1. \E x \in P : \A y \in P : x <= y
      BY <1>2
    <2>2. Min(P) \in P /\ \A y \in P : Min(P) <= y
      BY <2>1 DEF Min
    <2> DEFINE m == Min(P)
    <2> HIDE DEF m
    <2>3. m \in P /\ m <= n
      BY <1>2, <2>2 DEF m
    <2>4. m = n
      BY <1>2, <2>3
    <2>5. QED
      BY <1>2, <2>4 DEF Before, m
  <1>3. QED
    BY <1>1, <1>2

\* Three bytes are four digits, and each of them needs only the digits up to the next.
LEMMA ThreeBytes ==
    ASSUME NEW a \in Char, NEW b \in Char, NEW c \in Char, NEW g, g = Group([k \in 1 .. 3 |-> IF k = 1 THEN a ELSE IF k = 2 THEN b ELSE c])
    PROVE  /\ \A j \in 1 .. 4 : g[j] \in 0 .. 63
           /\ (g[1] * 4 + ((g[2] \div 16) % 4)) % 256 = a
           /\ ((g[2] % 16) * 16 + ((g[3] \div 4) % 16)) % 256 = b
           /\ ((g[3] % 4) * 64 + g[4]) % 256 = c
  <1>1. /\ g[1] = a \div 4 /\ g[2] = (a % 4) * 16 + (b \div 16)
        /\ g[3] = (b % 16) * 4 + (c \div 64) /\ g[4] = c % 64
    BY DEF Group
  <1> HIDE DEF Char
  <1>2. /\ a \div 4 \in 0 .. 63 /\ a % 4 \in 0 .. 3 /\ a = 4 * (a \div 4) + (a % 4)
        /\ b \div 16 \in 0 .. 15 /\ b % 16 \in 0 .. 15 /\ b = 16 * (b \div 16) + (b % 16)
        /\ c \div 64 \in 0 .. 3 /\ c % 64 \in 0 .. 63 /\ c = 64 * (c \div 64) + (c % 64)
        /\ a \in 0 .. 255 /\ b \in 0 .. 255 /\ c \in 0 .. 255
    BY DEF Char
  <1>3. g[1] \in 0 .. 63 /\ g[2] \in 0 .. 63 /\ g[3] \in 0 .. 63 /\ g[4] \in 0 .. 63
    BY <1>1, <1>2
  <1>4. \A j \in 1 .. 4 : g[j] \in 0 .. 63
    BY <1>3
  <1>5. g[2] \div 16 = a % 4 /\ g[2] % 16 = b \div 16 /\ g[3] \div 4 = b % 16 /\ g[3] % 4 = c \div 64
    BY <1>1, <1>2
  <1>6. (a % 4) % 4 = a % 4 /\ (b % 16) % 16 = b % 16
    BY <1>2
  <1>7. (g[1] * 4 + ((g[2] \div 16) % 4)) % 256 = a
    <2>1. g[1] * 4 + ((g[2] \div 16) % 4) = a
      BY <1>1, <1>2, <1>5, <1>6
    <2>2. QED
      BY <1>2, <2>1
  <1>8. ((g[2] % 16) * 16 + ((g[3] \div 4) % 16)) % 256 = b
    <2>1. (g[2] % 16) * 16 + ((g[3] \div 4) % 16) = b
      BY <1>1, <1>2, <1>5, <1>6
    <2>2. QED
      BY <1>2, <2>1
  <1>9. ((g[3] % 4) * 64 + g[4]) % 256 = c
    <2>1. (g[3] % 4) * 64 + g[4] = c
      BY <1>1, <1>2, <1>5, <1>6
    <2>2. QED
      BY <1>2, <2>1
  <1>10. QED
    BY <1>4, <1>7, <1>8, <1>9

\* The places of the groups of a text of n bytes.
LEMMA GroupsOf ==
    ASSUME NEW n \in Nat
    PROVE  LET all  == 4 * ((n + 2) \div 3)
               used == (4 * n + 2) \div 3 IN
           /\ used \in Nat /\ all \in Nat /\ used <= all
           /\ 3 * (used \div 4) + (IF used % 4 = 0 THEN 0 ELSE (used % 4) - 1) = n
           /\ \A g \in Nat : /\ 3 * g + 1 <= n => 4 * g + 2 <= used
                             /\ 3 * g + 2 <= n => 4 * g + 3 <= used
                             /\ 3 * g + 3 <= n => 4 * g + 4 <= used
  <1> DEFINE q == n \div 3
             r == n % 3
  <1>1. q \in Nat /\ r \in 0 .. 2 /\ n = 3 * q + r
    OBVIOUS
  <1> HIDE DEF q, r
  <1>2. CASE r = 0
    BY <1>1, <1>2
  <1>3. CASE r = 1
    BY <1>1, <1>3
  <1>4. CASE r = 2
    BY <1>1, <1>4
  <1>5. QED
    BY <1>1, <1>2, <1>3, <1>4

\* Digits with nothing else between them, in front of the padding.
EncodedAs(s, t) ==
    LET all  == 4 * ((Len(s) + 2) \div 3)
        used == (4 * Len(s) + 2) \div 3 IN
    /\ t \in Seq(0 .. 64) /\ Len(t) = all
    /\ \A k \in 1 .. used : t[k] \in 0 .. 63
    /\ \A k \in used + 1 .. all : t[k] = 64

\* The four digits of the group g.
GroupAt(s, g) == Group([k \in 1 .. 3 |-> At(s, 3 * g + k)])

\* What base64_encode puts out.
LEMMA EncodedIs ==
    ASSUME NEW s \in Chars
    PROVE  /\ EncodedAs(s, Base64Encode(s))
           /\ \A g \in Nat, j \in 1 .. 4 : 4 * g + j <= (4 * Len(s) + 2) \div 3 =>
                  Base64Encode(s)[4 * g + j] = GroupAt(s, g)[j]
  <1> DEFINE n    == Len(s)
             all  == 4 * ((n + 2) \div 3)
             used == (4 * n + 2) \div 3
             t == Base64Encode(s)
  <1>1. n \in Nat /\ \A k \in 1 .. n : s[k] \in Char
    BY LenProperties, ElementOfSeq DEF Chars
  <1>2. all \in Nat /\ used \in Nat /\ used <= all
    BY <1>1, GroupsOf
  <1>3. \A k \in Nat \ {0} : At(s, k) \in Char
    BY <1>1 DEF At, Char
  <1>4. ASSUME NEW g \in Nat, NEW j \in 1 .. 4 PROVE GroupAt(s, g)[j] \in 0 .. 63
    <2> DEFINE b == [k \in 1 .. 3 |-> At(s, 3 * g + k)]
               c == [k \in 1 .. 3 |-> IF k = 1 THEN b[1] ELSE IF k = 2 THEN b[2] ELSE b[3]]
    <2>1. \A k \in 1 .. 3 : b[k] \in Char
      BY <1>3
    <2>2. b = c
      OBVIOUS
    <2>3. b[1] \in Char /\ b[2] \in Char /\ b[3] \in Char
      BY <2>1
    <2> HIDE DEF b
    <2>4. \A e \in 1 .. 4 : Group(c)[e] \in 0 .. 63
      BY <2>3, ThreeBytes
    <2>5. QED
      BY <2>2, <2>4 DEF GroupAt, b
  <1>5. t = [k \in 1 .. all |-> IF k > used THEN 64 ELSE GroupAt(s, (k - 1) \div 4)[((k - 1) % 4) + 1]]
    BY DEF Base64Encode, Pad, GroupAt
  <1> HIDE DEF t, n, all, used
  <1>6. ASSUME NEW k \in 1 .. used PROVE t[k] \in 0 .. 63
    <2>1. k \in 1 .. all /\ ~(k > used)
      BY <1>2
    <2>2. (k - 1) \div 4 \in Nat /\ ((k - 1) % 4) + 1 \in 1 .. 4
      BY <1>2
    <2>3. GroupAt(s, (k - 1) \div 4)[((k - 1) % 4) + 1] \in 0 .. 63
      BY <1>4, <2>2
    <2>4. QED
      BY <1>5, <2>1, <2>3
  <1>7. \A k \in used + 1 .. all : t[k] = 64
    BY <1>2, <1>5
  <1>8. ASSUME NEW g \in Nat, NEW j \in 1 .. 4, 4 * g + j <= used PROVE t[4 * g + j] = GroupAt(s, g)[j]
    <2> DEFINE k == 4 * g + j
    <2>1. k \in 1 .. all /\ ~(k > used) /\ (k - 1) \div 4 = g /\ ((k - 1) % 4) + 1 = j
      BY <1>2, <1>8
    <2> HIDE DEF k
    <2>2. t[k] = GroupAt(s, g)[j]
      BY <1>5, <2>1
    <2>3. QED
      BY <2>2 DEF k
  <1>9. t \in Seq(0 .. 64) /\ Len(t) = all
    <2>1. \A k \in 1 .. all : t[k] \in 0 .. 64
      <3> TAKE k \in 1 .. all
      <3>1. k \in 1 .. used \/ k \in used + 1 .. all
        BY <1>2
      <3>2. t[k] \in 0 .. 63 \/ t[k] = 64
        BY <1>6, <1>7, <3>1
      <3>3. QED
        BY <3>2
    <2>2. t \in [1 .. all -> 0 .. 64]
      BY <1>5, <2>1
    <2>3. QED
      BY <1>2, <2>2, SeqDef, LenProperties
  <1>10. QED
    BY <1>6, <1>7, <1>8, <1>9 DEF EncodedAs, t, n, all, used

\* The padding is not read, and without it nothing else changes.
LEMMA DigitsOf ==
    ASSUME NEW s \in Chars, NEW t, EncodedAs(s, t)
    PROVE  LET used == (4 * Len(s) + 2) \div 3
               d    == SubSeq(t, 1, used) IN
           /\ Base64Digits(t) = d /\ Base64Digits(d) = d
           /\ Len(d) = used /\ \A k \in 1 .. used : d[k] = t[k]
  <1> DEFINE n    == Len(s)
             all  == 4 * ((n + 2) \div 3)
             used == (4 * n + 2) \div 3
             d    == SubSeq(t, 1, used)
             more == {k \in DOMAIN t : t[k] > 63}
  <1>1. n \in Nat
    BY LenProperties DEF Chars
  <1>2. all \in Nat /\ used \in Nat /\ used <= all
    BY <1>1, GroupsOf
  <1>3. /\ t \in Seq(0 .. 64) /\ Len(t) = all
        /\ \A k \in 1 .. used : t[k] \in 0 .. 63
        /\ \A k \in used + 1 .. all : t[k] = 64
    BY DEF EncodedAs
  <1> HIDE DEF n, all, used
  <1>4. /\ d \in Seq(0 .. 64) /\ Len(d) = used
        /\ \A k \in 1 .. used : d[k] = t[k]
    BY <1>2, <1>3, SubSeqProperties
  <1>5. DOMAIN t = 1 .. all /\ DOMAIN d = 1 .. used
    BY <1>3, <1>4, LenProperties
  <1>6. more = used + 1 .. all
    <2>1. \A k \in 1 .. all : t[k] > 63 <=> k \in used + 1 .. all
      <3> TAKE k \in 1 .. all
      <3>1. k \in 1 .. used \/ k \in used + 1 .. all
        BY <1>2
      <3>2. CASE k \in 1 .. used
        <4>1. t[k] \in 0 .. 63
          BY <1>3, <3>2
        <4>2. QED
          BY <1>2, <3>2, <4>1
      <3>3. CASE k \in used + 1 .. all
        BY <1>3, <3>3
      <3>4. QED
        BY <3>1, <3>2, <3>3
    <2>2. used + 1 .. all \subseteq 1 .. all
      BY <1>2
    <2>3. QED
      BY <1>5, <2>1, <2>2
  <1> HIDE DEF more, d
  <1>7. Base64Digits(t) = d
    <2>1. Base64Digits(t) = Before(t, more)
      BY DEF Base64Digits, more
    <2>2. CASE used = all
      <3>1. more = {}
        BY <1>2, <1>6, <2>2
      <3>2. Before(t, more) = t
        BY <1>2, <1>3, <3>1, BeforeIs
      <3>3. t = d
        <4>1. \A k \in 1 .. all : t[k] = d[k]
          BY <1>4, <2>2
        <4>2. QED
          BY <1>3, <1>4, <2>2, <4>1, SeqEqual
      <3>4. QED
        BY <2>1, <3>2, <3>3
    <2>3. CASE used # all
      <3>1. /\ used + 1 \in Nat /\ used + 1 \in more /\ (used + 1) - 1 = used
            /\ \A k \in more : k \in Nat /\ used + 1 <= k
        BY <1>2, <1>6, <2>3
      <3>2. Before(t, more) = SubSeq(t, 1, (used + 1) - 1)
        BY <1>2, <1>3, <3>1, BeforeIs
      <3>3. QED
        BY <2>1, <3>1, <3>2 DEF d
    <2>4. QED
      BY <2>2, <2>3
  <1>8. Base64Digits(d) = d
    <2> DEFINE none == {k \in DOMAIN d : d[k] > 63}
    <2>1. \A k \in DOMAIN d : d[k] \in 0 .. 63
      BY <1>3, <1>4, <1>5
    <2>2. none = {}
      BY <2>1
    <2>3. Before(d, none) = d
      BY <1>2, <1>4, <2>2, BeforeIs
    <2>4. QED
      BY <2>3 DEF Base64Digits
  <1>9. QED
    BY <1>4, <1>7, <1>8 DEF d, used, n

\* What is decoded from the digits of s is s.
LEMMA DigitsDecode ==
    ASSUME NEW s \in Chars, NEW x,
           Base64Digits(x) = SubSeq(Base64Encode(s), 1, (4 * Len(s) + 2) \div 3)
    PROVE  Base64Decode(x) = s
  <1> DEFINE n    == Len(s)
             used == (4 * n + 2) \div 3
             t == Base64Encode(s)
             d == Base64Digits(x)
             size == 3 * (used \div 4) + (IF used % 4 = 0 THEN 0 ELSE (used % 4) - 1)
             octets(g) == Ungroup([j \in 1 .. 4 |-> IF 4 * g + j <= used THEN d[4 * g + j] ELSE NotFound])
  <1>1. n \in Nat /\ \A k \in 1 .. n : s[k] \in Char
    BY LenProperties, ElementOfSeq DEF Chars
  <1>2. /\ used \in Nat /\ size = n
        /\ \A g \in Nat : /\ 3 * g + 1 <= n => 4 * g + 2 <= used
                          /\ 3 * g + 2 <= n => 4 * g + 3 <= used
                          /\ 3 * g + 3 <= n => 4 * g + 4 <= used
    BY <1>1, GroupsOf
  <1>3. Len(d) = used /\ \A k \in 1 .. used : d[k] = t[k]
    BY EncodedIs, DigitsOf
  <1>4. \A g \in Nat, j \in 1 .. 4 : 4 * g + j <= used => t[4 * g + j] = GroupAt(s, g)[j]
    BY EncodedIs
  <1>5. Base64Decode(x) = [k \in 1 .. size |-> octets((k - 1) \div 3)[((k - 1) % 3) + 1]]
    <2> HIDE DEF used, d
    <2>1. QED
      BY <1>3 DEF Base64Decode, d
  <1> HIDE DEF n, used, t, d, size
  <1>6. ASSUME NEW g \in Nat, NEW j \in 1 .. 3, 3 * g + j <= n
        PROVE  octets(g)[j] = s[3 * g + j]
    <2> DEFINE w == GroupAt(s, g)
               b == [k \in 1 .. 3 |-> At(s, 3 * g + k)]
               v == [e \in 1 .. 4 |-> IF 4 * g + e <= used THEN d[4 * g + e] ELSE NotFound]
    <2>1. \A k \in 1 .. 3 : b[k] \in Char /\ (3 * g + k <= n => b[k] = s[3 * g + k])
      <3> TAKE k \in 1 .. 3
      <3>1. b[k] = IF 3 * g + k <= n THEN s[3 * g + k] ELSE 0
        BY DEF At, n
      <3>2. 3 * g + k <= n => 3 * g + k \in 1 .. n
        OBVIOUS
      <3> HIDE DEF b
      <3>3. 0 \in Char
        BY DEF Char
      <3>4. QED
        BY <1>1, <3>1, <3>2, <3>3
    <2>2. b = [k \in 1 .. 3 |-> IF k = 1 THEN b[1] ELSE IF k = 2 THEN b[2] ELSE b[3]]
      OBVIOUS
    <2>3. w = Group(b)
      BY DEF GroupAt
    <2>4. octets(g) = Ungroup(v)
      OBVIOUS
    <2>5. \A e \in 1 .. 4 : 4 * g + e <= used => v[e] = w[e]
      <3> TAKE e \in 1 .. 4
      <3> HAVE 4 * g + e <= used
      <3>1. 4 * g + e \in 1 .. used
        BY <1>2
      <3>2. v[e] = d[4 * g + e] /\ d[4 * g + e] = t[4 * g + e]
        BY <1>3, <3>1
      <3>3. QED
        BY <1>4, <3>2
    <2> HIDE DEF b, w, v
    <2>6. /\ b[1] \in Char /\ b[2] \in Char /\ b[3] \in Char
          /\ 3 * g + j <= n => b[j] = s[3 * g + j]
      BY <2>1
    <2>7. /\ (w[1] * 4 + ((w[2] \div 16) % 4)) % 256 = b[1]
          /\ ((w[2] % 16) * 16 + ((w[3] \div 4) % 16)) % 256 = b[2]
          /\ ((w[3] % 4) * 64 + w[4]) % 256 = b[3]
      <3> DEFINE c == [k \in 1 .. 3 |-> IF k = 1 THEN b[1] ELSE IF k = 2 THEN b[2] ELSE b[3]]
      <3>1. w = Group(c)
        BY <2>2, <2>3
      <3> HIDE DEF c
      <3>2. QED
        BY <2>6, <3>1, ThreeBytes DEF c
    <2>8. Ungroup(v)[j] = b[j]
      <3>1. /\ Ungroup(v)[1] = (v[1] * 4 + ((v[2] \div 16) % 4)) % 256
            /\ Ungroup(v)[2] = ((v[2] % 16) * 16 + ((v[3] \div 4) % 16)) % 256
            /\ Ungroup(v)[3] = ((v[3] % 4) * 64 + v[4]) % 256
        BY DEF Ungroup
      <3>2. CASE j = 1
        <4>1. 4 * g + 1 <= used /\ 4 * g + 2 <= used
          BY <1>2, <1>6, <3>2
        <4>2. v[1] = w[1] /\ v[2] = w[2]
          BY <2>5, <4>1
        <4>3. QED
          BY <2>7, <3>1, <3>2, <4>2
      <3>3. CASE j = 2
        <4>1. 4 * g + 2 <= used /\ 4 * g + 3 <= used
          BY <1>2, <1>6, <3>3
        <4>2. v[2] = w[2] /\ v[3] = w[3]
          BY <2>5, <4>1
        <4>3. QED
          BY <2>7, <3>1, <3>3, <4>2
      <3>4. CASE j = 3
        <4>1. 4 * g + 3 <= used /\ 4 * g + 4 <= used
          BY <1>2, <1>6, <3>4
        <4>2. v[3] = w[3] /\ v[4] = w[4]
          BY <2>5, <4>1
        <4>3. QED
          BY <2>7, <3>1, <3>4, <4>2
      <3>5. QED
        BY <3>2, <3>3, <3>4
    <2>9. QED
      BY <1>6, <2>4, <2>6, <2>8
  <1> DEFINE r == Base64Decode(x)
  <1>7. ASSUME NEW k \in 1 .. n PROVE octets((k - 1) \div 3)[((k - 1) % 3) + 1] = s[k]
    <2> DEFINE g == (k - 1) \div 3
               j == ((k - 1) % 3) + 1
    <2>1. g \in Nat /\ j \in 1 .. 3 /\ 3 * g + j = k /\ 3 * g + j <= n
      BY <1>1
    <2> HIDE DEF g, j, octets
    <2>2. octets(g)[j] = s[3 * g + j]
      BY <1>6, <2>1
    <2>3. QED
      BY <2>1, <2>2 DEF g, j
  <1> HIDE DEF octets
  <1>8. r = [k \in 1 .. n |-> s[k]]
    BY <1>2, <1>5, <1>7
  <1>9. s = [k \in 1 .. n |-> s[k]]
    BY LenProperties DEF Chars, n
  <1>10. QED
    BY <1>8, <1>9

\* Base64 of any bytes is decoded as these bytes, with its padding and without it.
LEMMA Base64Written ==
    ASSUME NEW s \in Chars
    PROVE  Base64Inverts(s, Base64Encode(s))
  <1> DEFINE used == (4 * Len(s) + 2) \div 3
             t == Base64Encode(s)
             d == SubSeq(t, 1, used)
  <1>1. EncodedAs(s, t)
    BY EncodedIs
  <1>2. Base64Digits(t) = d /\ Base64Digits(d) = d
    <2> HIDE DEF t
    <2>1. QED
      BY <1>1, DigitsOf
  <1>3. Base64Decode(t) = s /\ Base64Decode(d) = s
    BY <1>2, DigitsDecode
  <1> HIDE DEF t, d
  <1>4. CryptDecode(t) = Before(s, {k \in DOMAIN s : s[k] = 0})
    BY <1>3 DEF CryptDecode
  <1>5. QED
    BY <1>2, <1>3, <1>4 DEF Base64Inverts, t

\* What a decoder takes from a place, and what it has put out when it comes to one.
Taken == [byte : Char, size : {1, 3}]
Done == [out : Chars, at : Nat \ {0}]
NothingDone == [out |-> <<>>, at |-> 1]

\* A byte is taken where the decoder has come to.
LEMMA TakeIs ==
    ASSUME NEW d \in Done, NEW k \in Nat, NEW r \in Taken
    PROVE  /\ Take(d, k, r) \in Done
           /\ d.at > k => Take(d, k, r) = d
           /\ ~(d.at > k) => Take(d, k, r) = [out |-> Append(d.out, r.byte), at |-> k + r.size]
  <1>1. d.out \in Chars /\ d.at \in Nat \ {0} /\ r.byte \in Char /\ r.size \in {1, 3}
    BY DEF Done, Taken
  <1>2. Append(d.out, r.byte) \in Chars
    BY <1>1, AppendProperties DEF Chars
  <1>3. [out |-> Append(d.out, r.byte), at |-> k + r.size] \in Done
    BY <1>1, <1>2 DEF Done
  <1>4. QED
    BY <1>1, <1>3 DEF Take

\* Scan is what comes from taking byte after byte.
LEMMA ScanIs ==
    ASSUME NEW reads \in Seq(Taken)
    PROVE  \E f \in [0 .. Len(reads) -> Done] :
               /\ Scan(reads) = f[Len(reads)] /\ f[0] = NothingDone
               /\ \A k \in 1 .. Len(reads) : f[k] = Take(f[k - 1], k, reads[k])
  <1> DEFINE n == Len(reads)
             Is(f) == f = [k \in 0 .. n |-> IF k = 0 THEN [out |-> <<>>, at |-> 1] ELSE Take(f[k - 1], k, reads[k])]
             G == [k \in 1 .. n |-> [v \in Done |-> Take(v, k, reads[k])]]
  <1>1. n \in Nat /\ \A k \in 1 .. n : reads[k] \in Taken
    BY LenProperties, ElementOfSeq
  <1>2. NothingDone \in Done
    BY EmptySeq DEF NothingDone, Done, Chars
  <1>3. G \in [1 .. n -> [Done -> Done]]
    <2>1. \A k \in 1 .. n, v \in Done : Take(v, k, reads[k]) \in Done
      BY <1>1, TakeIs
    <2>2. QED
      BY <2>1
  <1>4. PICK f \in [0 .. n -> Done] :
            f[0] = NothingDone /\ \A k \in 1 .. n : f[k] = G[k][f[k - 1]]
    <2> HIDE DEF G, n
    <2> DEFINE V == Done
               a == NothingDone
    <2>1. n \in Nat /\ a \in V /\ G \in [1 .. n -> [V -> V]]
      BY <1>1, <1>2, <1>3
    <2> HIDE DEF V, a
    <2>2. \E f \in [0 .. n -> V] : f[0] = a /\ \A k \in 1 .. n : f[k] = G[k][f[k - 1]]
      BY <2>1, Recursion
    <2>3. QED
      BY <2>2 DEF V, a
  <1>5. \A k \in 1 .. n : f[k] = Take(f[k - 1], k, reads[k])
    <2> TAKE k \in 1 .. n
    <2>1. k - 1 \in 0 .. n /\ f[k - 1] \in Done
      BY <1>1, <1>4
    <2>2. QED
      BY <1>4, <2>1
  <1>6. Is(f)
    <2> DEFINE h == [k \in 0 .. n |-> IF k = 0 THEN [out |-> <<>>, at |-> 1] ELSE Take(f[k - 1], k, reads[k])]
    <2>1. \A k \in 0 .. n : f[k] = h[k]
      <3> TAKE k \in 0 .. n
      <3>1. k = 0 \/ k \in 1 .. n
        BY <1>1
      <3>2. QED
        BY <1>4, <1>5, <3>1 DEF NothingDone
    <2>2. f = h
      BY <1>4, <2>1
    <2>3. QED
      BY <2>2
  <1> DEFINE g == CHOOSE h : Is(h)
  <1>7. Scan(reads) = g[n]
    BY DEF Scan
  <1>8. Is(g)
    <2> HIDE DEF Is
    <2>1. QED
      BY <1>6
  <1> HIDE DEF g
  <1>9. g[0] = NothingDone /\ \A k \in 1 .. n : g[k] = Take(g[k - 1], k, reads[k])
    <2> HIDE DEF n
    <2>1. \A k \in 0 .. n : g[k] = IF k = 0 THEN [out |-> <<>>, at |-> 1] ELSE Take(g[k - 1], k, reads[k])
      BY <1>8
    <2>2. 0 \in 0 .. n /\ \A k \in 1 .. n : k \in 0 .. n /\ k # 0
      BY <1>1
    <2>3. QED
      BY <2>1, <2>2 DEF NothingDone
  <1>10. f[n] = g[n]
    <2> HIDE DEF n
    <2>1. ASSUME NEW k \in 1 .. n, f[k - 1] = g[k - 1] PROVE f[k] = g[k]
      BY <1>5, <1>9, <2>1
    <2>2. n \in Nat /\ f[0] = g[0]
      BY <1>1, <1>4, <1>9
    <2>3. QED
      BY <2>1, <2>2, SameRecursion
  <1>11. QED
    BY <1>4, <1>5, <1>7, <1>10

\* The value of two hexadecimal digits, and the characters that are digits.
LEMMA HexIs ==
    /\ \A c \in Nat : HexValue(c) \in -1 .. 15 /\ (Hex(c) => HexValue(c) \in 0 .. 15 /\ c # Percent)
    /\ \A h \in 0 .. 15 : HexValue(HexChar(h)) = h /\ Hex(HexChar(h)) /\ HexChar(h) \in Char /\ HexChar(h) # Percent
    /\ Percent \in Char
  BY DEF HexValue, Hex, HexChar, Percent, Digit, Char

\* What either decoder reads at a place.
LEMMA ReadsAre ==
    ASSUME NEW s \in Chars, NEW k \in DOMAIN s
    PROVE  /\ UriRead(s, k) \in Taken /\ UrlRead(s, k) \in Taken
           /\ IsEscape(s, k) => /\ UrlRead(s, k) = UriRead(s, k)
                                /\ UriRead(s, k) = [byte |-> HexValue(s[k + 1]) * 16 + HexValue(s[k + 2]), size |-> 3]
           /\ s[k] # Percent => /\ UrlRead(s, k) = UriRead(s, k)
                                /\ UriRead(s, k) = [byte |-> s[k], size |-> 1]
  <1>1. /\ Len(s) \in Nat /\ k \in 1 .. Len(s) /\ s[k] \in Char
        /\ \A j \in 1 .. Len(s) : s[j] \in Char
    BY LenProperties, ElementOfSeq DEF Chars
  <1>2. ASSUME NEW j \in 1 .. 2 PROVE At(s, k + j) \in Nat
    <2> DEFINE e == k + j
    <2>1. e \in Nat /\ (e <= Len(s) => e \in 1 .. Len(s))
      BY <1>1
    <2> HIDE DEF e
    <2>2. e <= Len(s) => s[e] \in Char
      BY <1>1, <2>1
    <2>3. At(s, e) \in Char
      <3>1. 0 \in Char
        BY DEF Char
      <3>2. QED
        BY <2>2, <3>1 DEF At
    <2>4. QED
      BY <2>3 DEF e, Char
  <1>3. At(s, k + 1) \in Nat /\ At(s, k + 2) \in Nat
    BY <1>2
  <1>4. HexValue(At(s, k + 1)) \in -1 .. 15 /\ HexValue(At(s, k + 2)) \in -1 .. 15
    BY <1>3, HexIs
  <1>5. OfHex(s, k) \in Char
    BY <1>4 DEF OfHex, Char
  <1>6. UriRead(s, k) \in Taken /\ UrlRead(s, k) \in Taken
    BY <1>1, <1>5 DEF UriRead, UrlRead, Taken
  <1>7. ASSUME IsEscape(s, k)
        PROVE  /\ UrlRead(s, k) = UriRead(s, k)
               /\ UriRead(s, k) = [byte |-> HexValue(s[k + 1]) * 16 + HexValue(s[k + 2]), size |-> 3]
    <2>1. s[k] = Percent /\ k + 2 <= Len(s) /\ Hex(s[k + 1]) /\ Hex(s[k + 2])
      BY <1>7 DEF IsEscape
    <2>2. At(s, k + 1) = s[k + 1] /\ At(s, k + 2) = s[k + 2]
      BY <1>1, <2>1 DEF At
    <2>3. HexValue(s[k + 1]) \in 0 .. 15 /\ HexValue(s[k + 2]) \in 0 .. 15
      BY <1>3, <2>1, <2>2, HexIs
    <2>4. OfHex(s, k) = HexValue(s[k + 1]) * 16 + HexValue(s[k + 2])
      BY <2>2, <2>3 DEF OfHex
    <2>5. QED
      BY <1>7, <2>1, <2>4 DEF UriRead, UrlRead
  <1>8. s[k] # Percent => UrlRead(s, k) = UriRead(s, k) /\ UriRead(s, k) = [byte |-> s[k], size |-> 1]
    BY DEF UriRead, UrlRead, IsEscape
  <1>9. QED
    BY <1>6, <1>7, <1>8

\* So they put out texts.
LEMMA Decoding ==
    ASSUME NEW s \in Chars
    PROVE  /\ [k \in DOMAIN s |-> UriRead(s, k)] \in Seq(Taken) /\ Len([k \in DOMAIN s |-> UriRead(s, k)]) = Len(s)
           /\ [k \in DOMAIN s |-> UrlRead(s, k)] \in Seq(Taken) /\ Len([k \in DOMAIN s |-> UrlRead(s, k)]) = Len(s)
  <1>1. Len(s) \in Nat /\ DOMAIN s = 1 .. Len(s)
    BY LenProperties DEF Chars
  <1>2. /\ [k \in DOMAIN s |-> UriRead(s, k)] \in [1 .. Len(s) -> Taken]
        /\ [k \in DOMAIN s |-> UrlRead(s, k)] \in [1 .. Len(s) -> Taken]
    BY <1>1, ReadsAre
  <1> DEFINE f == [k \in DOMAIN s |-> UriRead(s, k)]
             g == [k \in DOMAIN s |-> UrlRead(s, k)]
  <1> HIDE DEF f, g
  <1>3. f \in [1 .. Len(s) -> Taken] /\ g \in [1 .. Len(s) -> Taken]
    BY <1>2 DEF f, g
  <1>4. f \in Seq(Taken) /\ Len(f) = Len(s) /\ g \in Seq(Taken) /\ Len(g) = Len(s)
    BY <1>1, <1>3, SeqDef, LenProperties
  <1>5. QED
    BY <1>4 DEF f, g

\* How uri_decode goes on: not beyond the end, and passing over nothing but hexadecimal digits.
LEMMA UriScan ==
    ASSUME NEW s \in Chars
    PROVE  \E g \in [0 .. Len(s) -> Done] :
               /\ Scan([k \in DOMAIN s |-> UriRead(s, k)]) = g[Len(s)] /\ g[0] = NothingDone
               /\ \A k \in 1 .. Len(s) : g[k] = Take(g[k - 1], k, UriRead(s, k))
               /\ \A k \in 0 .. Len(s) : /\ k < g[k].at /\ g[k].at <= Len(s) + 1
                                         /\ \A j \in Nat : k < j /\ j < g[k].at => Hex(s[j])
  <1> DEFINE n == Len(s)
             reads == [k \in DOMAIN s |-> UriRead(s, k)]
  <1>1. n \in Nat /\ DOMAIN s = 1 .. n
    BY LenProperties DEF Chars
  <1>2. reads \in Seq(Taken) /\ Len(reads) = n /\ \A k \in 1 .. n : reads[k] = UriRead(s, k)
    BY <1>1, Decoding
  <1> HIDE DEF n, reads
  <1>3. PICK g \in [0 .. n -> Done] :
            /\ Scan(reads) = g[n] /\ g[0] = NothingDone
            /\ \A k \in 1 .. n : g[k] = Take(g[k - 1], k, reads[k])
    BY <1>2, ScanIs
  <1>4. \A k \in 1 .. n : g[k] = Take(g[k - 1], k, UriRead(s, k))
    BY <1>2, <1>3
  <1> DEFINE Good(k) == /\ k < g[k].at /\ g[k].at <= n + 1
                        /\ \A j \in Nat : k < j /\ j < g[k].at => Hex(s[j])
             T == {k \in Nat : k <= n => Good(k)}
  <1>5. 0 \in T
    <2>1. g[0].at = 1
      BY <1>3 DEF NothingDone
    <2>2. QED
      BY <1>1, <2>1
  <1>6. ASSUME NEW m \in Nat, m \in T PROVE m + 1 \in T
    <2> SUFFICES ASSUME m + 1 <= n PROVE Good(m + 1)
      OBVIOUS
    <2> DEFINE k == m + 1
               r == UriRead(s, k)
    <2>1. k \in 1 .. n /\ m \in 0 .. n /\ k - 1 = m /\ k \in Nat
      BY <1>1
    <2>2. Good(m)
      BY <1>6, <2>1
    <2>3. g[k] = Take(g[m], k, r)
      BY <1>4, <2>1
    <2>4. g[m] \in Done /\ g[m].at \in Nat
      BY <1>3, <2>1 DEF Done
    <2>5. r \in Taken
      BY <1>1, <2>1, ReadsAre
    <2> HIDE DEF k
    <2>6. CASE g[m].at > k
      <3>1. g[k] = g[m]
        <4> HIDE DEF r
        <4>1. QED
          BY <2>1, <2>3, <2>4, <2>5, <2>6, TakeIs
      <3>2. QED
        BY <2>1, <2>2, <2>4, <2>6, <3>1 DEF k
    <2>7. CASE ~(g[m].at > k)
      <3>1. g[k].at = k + r.size
        <4> HIDE DEF r
        <4>1. g[k] = [out |-> Append(g[m].out, r.byte), at |-> k + r.size]
          BY <2>1, <2>3, <2>4, <2>5, <2>7, TakeIs
        <4>2. QED
          BY <4>1
      <3>2. CASE IsEscape(s, k)
        <4>1. r.size = 3 /\ k + 2 <= n /\ Hex(s[k + 1]) /\ Hex(s[k + 2])
          BY <3>2 DEF UriRead, IsEscape, n
        <4> HIDE DEF r
        <4>2. \A j \in Nat : k < j /\ j < k + 3 => j = k + 1 \/ j = k + 2
          BY <2>1
        <4>3. \A j \in Nat : k < j /\ j < k + 3 => Hex(s[j])
          BY <4>1, <4>2
        <4>4. g[k].at = k + 3
          BY <3>1, <4>1
        <4>5. QED
          BY <1>1, <2>1, <4>1, <4>3, <4>4 DEF k
      <3>3. CASE ~IsEscape(s, k)
        <4>1. r.size = 1
          BY <3>3 DEF UriRead
        <4> HIDE DEF r
        <4>2. g[k].at = k + 1 /\ \A j \in Nat : ~(k < j /\ j < k + 1)
          BY <2>1, <3>1, <4>1
        <4>3. QED
          BY <1>1, <2>1, <4>2 DEF k
      <3>4. QED
        BY <3>2, <3>3
    <2>8. QED
      BY <2>6, <2>7
  <1> HIDE DEF T
  <1>7. Nat \subseteq T
    BY <1>5, <1>6, EveryNumber
  <1>8. \A k \in 0 .. n : Good(k)
    BY <1>1, <1>7 DEF T
  <1>9. QED
    BY <1>3, <1>4, <1>8 DEF n, reads

\* With every escape complete, both decoders put out the same.
LEMMA CompleteAgree ==
    ASSUME NEW s \in Chars, EscapesComplete(s)
    PROVE  UrlDecodeGbk(s) = UriDecode(s)
  <1> DEFINE f == [k \in DOMAIN s |-> UriRead(s, k)]
             h == [k \in DOMAIN s |-> UrlRead(s, k)]
  <1>1. \A k \in DOMAIN s : UriRead(s, k) = UrlRead(s, k)
    BY ReadsAre DEF EscapesComplete
  <1>2. f = h
    BY <1>1
  <1>3. Len(s) \in Nat
    BY LenProperties DEF Chars
  <1>4. Scan(f).at \in Nat /\ Scan(f).at <= Len(s) + 1
    <2>1. PICK g \in [0 .. Len(s) -> Done] :
              Scan(f) = g[Len(s)] /\ \A k \in 0 .. Len(s) : g[k].at <= Len(s) + 1
      BY UriScan
    <2>2. Len(s) \in 0 .. Len(s)
      BY <1>3
    <2>3. QED
      BY <2>1, <2>2 DEF Done
  <1> HIDE DEF f, h
  <1>5. ~(Scan(h).at > Len(s) + 2)
    BY <1>2, <1>3, <1>4
  <1>6. UriDecode(s) = Scan(f).out
    BY DEF UriDecode, f
  <1>7. UrlDecodeGbk(s) = Scan(h).out
    BY <1>5 DEF UrlDecodeGbk, h
  <1>8. QED
    BY <1>2, <1>6, <1>7

\* Only a '%' at the end makes url_decode_gbk read what is not there, and uri_decode keeps it.
LEMMA UndefinedAtEnd ==
    ASSUME NEW s \in Chars, UrlDecodeGbk(s) = Undefined
    PROVE  Last(s) = Percent /\ Last(UriDecode(s)) = Percent
  <1> DEFINE n == Len(s)
             reads == [k \in DOMAIN s |-> UrlRead(s, k)]
  <1>1. n \in Nat /\ DOMAIN s = 1 .. n
    BY LenProperties DEF Chars
  <1>2. reads \in Seq(Taken) /\ Len(reads) = n /\ \A k \in 1 .. n : reads[k] = UrlRead(s, k)
    BY <1>1, Decoding
  <1>3. UrlDecodeGbk(s) = IF Scan(reads).at > n + 2 THEN Undefined ELSE Scan(reads).out
    BY DEF UrlDecodeGbk
  <1> HIDE DEF n, reads
  <1>4. PICK f \in [0 .. n -> Done] :
            /\ Scan(reads) = f[n] /\ f[0] = NothingDone
            /\ \A k \in 1 .. n : f[k] = Take(f[k - 1], k, reads[k])
    BY <1>2, ScanIs
  <1>5. \A k \in 0 .. n : f[k] \in Done /\ f[k].at \in Nat /\ f[k].out \in Chars
    BY <1>4 DEF Done
  <1>6. f[n].at > n + 2
    <2>1. Undefined \notin Chars
      <3>1. ASSUME Undefined \in Chars PROVE FALSE
        <4>1. Undefined[1] = -1 /\ 1 \in 1 .. Len(Undefined)
          BY DEF Undefined
        <4>2. Undefined[1] \in Char
          BY <3>1, <4>1, ElementOfSeq DEF Chars
        <4>3. QED
          BY <4>1, <4>2 DEF Char
      <3>2. QED
        BY <3>1
    <2>2. n \in 0 .. n
      BY <1>1
    <2>3. QED
      BY <1>3, <1>4, <1>5, <2>1, <2>2
  <1>7. \A k \in 1 .. n : /\ f[k - 1].at > k => f[k] = f[k - 1]
                          /\ ~(f[k - 1].at > k) => f[k].at = k + reads[k].size
    <2> TAKE k \in 1 .. n
    <2>1. k - 1 \in 0 .. n /\ k \in Nat /\ f[k - 1] \in Done /\ reads[k] \in Taken
      BY <1>1, <1>2, <1>5, ElementOfSeq
    <2>2. ~(f[k - 1].at > k) => f[k] = [out |-> Append(f[k - 1].out, reads[k].byte), at |-> k + reads[k].size]
      BY <1>4, <2>1, TakeIs
    <2>3. f[k - 1].at > k => f[k] = f[k - 1]
      BY <1>4, <2>1, TakeIs
    <2>4. QED
      BY <2>2, <2>3
  <1>8. \A k \in 1 .. n : reads[k].size \in {1, 3} /\ (s[k] # Percent => reads[k].size = 1)
    <2> TAKE k \in 1 .. n
    <2>1. reads[k] \in Taken /\ (s[k] # Percent => reads[k] = [byte |-> s[k], size |-> 1])
      BY <1>1, <1>2, ReadsAre
    <2>2. QED
      BY <2>1 DEF Taken
  <1> DEFINE T == {k \in Nat : k <= n => f[k].at <= k + 3}
  <1>9. 0 \in T
    BY <1>4 DEF NothingDone
  <1>10. ASSUME NEW k \in Nat, k \in T PROVE k + 1 \in T
    <2> SUFFICES ASSUME k + 1 <= n PROVE f[k + 1].at <= (k + 1) + 3
      OBVIOUS
    <2>1. k + 1 \in 1 .. n /\ (k + 1) - 1 = k /\ k \in 0 .. n /\ k + 1 \in 0 .. n
      BY <1>1
    <2>2. f[k].at \in Nat /\ f[k + 1].at \in Nat /\ f[k].at <= k + 3
      BY <1>5, <1>10, <2>1
    <2>3. reads[k + 1].size \in {1, 3}
      BY <1>8, <2>1
    <2>4. f[k + 1] = f[k] \/ f[k + 1].at = (k + 1) + reads[k + 1].size
      BY <1>7, <2>1
    <2>5. QED
      BY <2>2, <2>3, <2>4
  <1> HIDE DEF T
  <1>11. Nat \subseteq T
    BY <1>9, <1>10, EveryNumber
  <1>12. n # 0
    <2>1. n = 0 => f[n].at = 1
      BY <1>4 DEF NothingDone
    <2>2. QED
      BY <1>6, <2>1
  <1>13. n \in 1 .. n /\ n - 1 \in 0 .. n /\ n - 1 \in Nat
    BY <1>1, <1>12
  <1>14. f[n - 1].at <= (n - 1) + 3 /\ f[n - 1].at \in Nat
    BY <1>5, <1>11, <1>13 DEF T
  <1>15. f[n - 1].at <= n + 2
    BY <1>1, <1>14
  <1>16. f[n] # f[n - 1]
    BY <1>1, <1>6, <1>14, <1>15
  <1>17. f[n].at = n + reads[n].size
    BY <1>7, <1>13, <1>16
  <1>18. s[n] = Percent
    BY <1>1, <1>6, <1>8, <1>13, <1>17
  <1>19. PICK g \in [0 .. n -> Done] :
             /\ UriDecode(s) = g[n].out
             /\ \A k \in 1 .. n : g[k] = Take(g[k - 1], k, UriRead(s, k))
             /\ \A k \in 0 .. n : \A j \in Nat : k < j /\ j < g[k].at => Hex(s[j])
    BY UriScan DEF UriDecode, n
  <1>20. ~Hex(s[n])
    BY <1>18, HexIs DEF Percent
  <1>21. g[n - 1] \in Done /\ g[n - 1].at \in Nat /\ g[n - 1].out \in Chars
    BY <1>13, <1>19 DEF Done
  <1>22. ~(g[n - 1].at > n)
    BY <1>1, <1>13, <1>19, <1>20, <1>21
  <1>23. UriRead(s, n) = [byte |-> s[n], size |-> 1]
    <2>1. ~IsEscape(s, n)
      BY <1>1 DEF IsEscape, n
    <2>2. QED
      BY <2>1 DEF UriRead
  <1>24. g[n].out = Append(g[n - 1].out, Percent)
    <2> DEFINE r == UriRead(s, n)
    <2>1. r \in Taken /\ n \in Nat
      BY <1>1, <1>13, ReadsAre
    <2>2. g[n] = Take(g[n - 1], n, r)
      BY <1>13, <1>19
    <2> HIDE DEF r
    <2>3. g[n] = [out |-> Append(g[n - 1].out, r.byte), at |-> n + r.size]
      BY <1>21, <1>22, <2>1, <2>2, TakeIs
    <2>4. QED
      BY <1>18, <1>23, <2>3 DEF r
  <1>25. Last(g[n].out) = Percent
    <2>1. /\ Len(g[n].out) = Len(g[n - 1].out) + 1
          /\ g[n].out[Len(g[n - 1].out) + 1] = Percent
      BY <1>21, <1>24, HexIs, AppendProperties DEF Chars
    <2>2. QED
      BY <2>1 DEF Last
  <1>26. QED
    BY <1>18, <1>19, <1>25 DEF Last, n

\* The characters that a percent code leaves as they are.
Safe == {Digit \cup Upper \cup Lower, Digit \cup Upper \cup Lower \cup {46, 47}}

\* What stands for a character.
LEMMA CodeIs ==
    ASSUME NEW c \in Char, NEW safe \in Safe
    PROVE  /\ Code(c, safe) \in Chars /\ Len(Code(c, safe)) \in {1, 3}
           /\ Len(Code(c, safe)) = 1 => Code(c, safe)[1] = c /\ c # Percent
           /\ Len(Code(c, safe)) = 3 =>
                  /\ Code(c, safe)[1] = Percent /\ Hex(Code(c, safe)[2]) /\ Hex(Code(c, safe)[3])
                  /\ HexValue(Code(c, safe)[2]) * 16 + HexValue(Code(c, safe)[3]) = c
  <1> DEFINE e == Code(c, safe)
  <1>1. Percent \notin safe
    BY DEF Safe, Digit, Upper, Lower, Percent
  <1>2. CASE c \in safe
    <2>1. e = <<c>>
      BY <1>2 DEF Code
    <2>2. e \in Chars /\ Len(e) = 1 /\ e[1] = c
      BY <2>1 DEF Chars
    <2>3. QED
      BY <1>1, <1>2, <2>2
  <1>3. CASE c \notin safe
    <2> DEFINE h == HexChar(c \div 16)
               l == HexChar(c % 16)
    <2>1. c \div 16 \in 0 .. 15 /\ c % 16 \in 0 .. 15 /\ c = 16 * (c \div 16) + (c % 16)
      BY DEF Char
    <2>2. h \in Char /\ l \in Char /\ Hex(h) /\ Hex(l) /\ HexValue(h) = c \div 16 /\ HexValue(l) = c % 16
      BY <2>1, HexIs
    <2>3. e = <<Percent, h, l>>
      BY <1>3 DEF Code
    <2> HIDE DEF h, l
    <2>4. Percent \in Char
      BY HexIs
    <2>5. e \in Chars /\ Len(e) = 3 /\ e[1] = Percent /\ e[2] = h /\ e[3] = l
      BY <2>2, <2>3, <2>4 DEF Chars
    <2>6. QED
      BY <2>1, <2>2, <2>5
  <1>4. QED
    BY <1>2, <1>3

\* f[k] is the code of the first k characters of s.
CodesOf(f, s, safe) ==
    /\ f \in [0 .. Len(s) -> Chars] /\ f[0] = <<>>
    /\ \A k \in 1 .. Len(s) : f[k] = f[k - 1] \o Code(s[k], safe)

\* There is such an f, and its last is the code of s.
LEMMA EncodeIs ==
    ASSUME NEW s \in Chars, NEW safe \in Safe
    PROVE  \E f : CodesOf(f, s, safe) /\ PercentEncode(s, safe) = f[Len(s)]
  <1> DEFINE n == Len(s)
             codes == [k \in DOMAIN s |-> Code(s[k], safe)]
  <1>1. n \in Nat /\ DOMAIN s = 1 .. n /\ \A k \in 1 .. n : s[k] \in Char
    BY LenProperties, ElementOfSeq DEF Chars
  <1>2. \A k \in 1 .. n : codes[k] = Code(s[k], safe) /\ codes[k] \in Chars
    BY <1>1, CodeIs
  <1>3. codes \in Seq(Chars) /\ Len(codes) = n
    <2>1. codes \in [1 .. n -> Chars]
      BY <1>1, <1>2
    <2> HIDE DEF codes, n
    <2>2. QED
      BY <1>1, <2>1, SeqDef, LenProperties
  <1>4. PercentEncode(s, safe) = FlattenSeq(codes)
    BY DEF PercentEncode
  <1> HIDE DEF n, codes
  <1>5. CASE n = 0
    <2> DEFINE f == [k \in 0 .. 0 |-> <<>>]
    <2>1. codes = <<>>
      BY <1>3, <1>5, EmptySeq
    <2>2. FlattenSeq(codes) = <<>>
      <3>1. FlattenSeq(codes) = codes
        BY <1>3, <1>5 DEF FlattenSeq
      <3>2. QED
        BY <2>1, <3>1
    <2>3. <<>> \in Chars
      BY EmptySeq DEF Chars
    <2>4. f \in [0 .. n -> Chars] /\ f[0] = <<>> /\ f[n] = <<>> /\ \A k \in 1 .. n : FALSE
      BY <1>5, <2>3
    <2> HIDE DEF f
    <2>5. CodesOf(f, s, safe)
      BY <2>4 DEF CodesOf, n
    <2>6. QED
      BY <1>4, <2>2, <2>4, <2>5 DEF n
  <1>6. CASE n # 0
    <2>1. PICK g : /\ FlattenSeq(codes) = g[n]
                   /\ \A k \in 1 .. n : g[k] = IF k = 1 THEN codes[k] ELSE g[k - 1] \o codes[k]
      <3>1. Len(codes) \in Nat /\ Len(codes) # 0
        BY <1>1, <1>3, <1>6
      <3>2. QED
        BY <1>3, <3>1, FlattenJoins
    <2> DEFINE f == [k \in 0 .. n |-> IF k = 0 THEN <<>> ELSE g[k]]
               T == {k \in Nat : k <= n => f[k] \in Chars}
    <2>2. f[0] = <<>> /\ \A k \in 1 .. n : f[k] = g[k]
      BY <1>1
    <2>3. <<>> \in Chars
      BY EmptySeq DEF Chars
    <2>4. ASSUME NEW k \in 1 .. n PROVE f[k] = IF k = 1 THEN codes[k] ELSE f[k - 1] \o codes[k]
      <3>1. k = 1 \/ k - 1 \in 1 .. n
        BY <1>1
      <3> HIDE DEF f
      <3>2. QED
        BY <2>1, <2>2, <3>1
    <2>5. DOMAIN f = 0 .. n
      OBVIOUS
    <2>6. f = [k \in 0 .. n |-> f[k]]
      OBVIOUS
    <2> HIDE DEF f
    <2>7. 0 \in T
      BY <2>2, <2>3
    <2>8. ASSUME NEW k \in Nat, k \in T PROVE k + 1 \in T
      <3> SUFFICES ASSUME k + 1 <= n PROVE f[k + 1] \in Chars
        OBVIOUS
      <3>1. k + 1 \in 1 .. n /\ (k + 1) - 1 = k /\ k <= n
        BY <1>1
      <3>2. f[k] \in Chars /\ codes[k + 1] \in Chars
        BY <1>2, <2>8, <3>1
      <3>3. f[k + 1] = IF k + 1 = 1 THEN codes[k + 1] ELSE f[k] \o codes[k + 1]
        BY <2>4, <3>1
      <3>4. f[k] \o codes[k + 1] \in Chars
        BY <3>2, ConcatProperties DEF Chars
      <3>5. QED
        BY <3>2, <3>3, <3>4
    <2> HIDE DEF T
    <2>9. Nat \subseteq T
      BY <2>7, <2>8, EveryNumber
    <2>10. \A k \in 0 .. n : f[k] \in Chars
      BY <1>1, <2>9 DEF T
    <2>11. ASSUME NEW k \in 1 .. n PROVE f[k] = f[k - 1] \o Code(s[k], safe)
      <3>1. codes[k] = Code(s[k], safe) /\ codes[k] \in Chars
        BY <1>2
      <3>2. CASE k = 1
        <4>1. k - 1 = 0
          BY <3>2
        <4>2. <<>> \o codes[k] = codes[k]
          BY <3>1, ConcatEmptySeq DEF Chars
        <4>3. QED
          BY <2>2, <2>4, <3>1, <3>2, <4>1, <4>2
      <3>3. CASE k # 1
        BY <2>4, <3>1, <3>3
      <3>4. QED
        BY <3>2, <3>3
    <2>12. f \in [0 .. n -> Chars]
      BY <2>6, <2>10
    <2>13. CodesOf(f, s, safe)
      BY <2>2, <2>11, <2>12 DEF CodesOf, n
    <2>14. FlattenSeq(codes) = f[n]
      BY <1>1, <1>6, <2>1, <2>2
    <2>15. QED
      BY <1>4, <2>13, <2>14 DEF n
  <1>7. QED
    BY <1>5, <1>6

\* What has been encoded stays at its place when more is.
LEMMA CodesStay ==
    ASSUME NEW s \in Chars, NEW safe \in Safe, NEW f, CodesOf(f, s, safe), NEW k \in 0 .. Len(s)
    PROVE  /\ Len(f[k]) \in Nat /\ Len(f[k]) <= Len(f[Len(s)])
           /\ \A j \in 1 .. Len(f[k]) : f[Len(s)][j] = f[k][j]
  <1> DEFINE n == Len(s)
  <1>1. n \in Nat /\ \A j \in 1 .. n : s[j] \in Char
    BY LenProperties, ElementOfSeq DEF Chars
  <1>2. /\ f \in [0 .. n -> Chars]
        /\ \A j \in 1 .. n : f[j] = f[j - 1] \o Code(s[j], safe)
    BY DEF CodesOf
  <1> HIDE DEF n
  <1>3. \A j \in 0 .. n : f[j] \in Chars /\ Len(f[j]) \in Nat
    BY <1>2, LenProperties DEF Chars
  <1> DEFINE T == {m \in Nat : k + m <= n => /\ Len(f[k]) <= Len(f[k + m])
                                             /\ \A j \in 1 .. Len(f[k]) : f[k + m][j] = f[k][j]}
  <1>4. k \in 0 .. n /\ k \in Nat /\ Len(f[k]) \in Nat
    BY <1>1, <1>3 DEF n
  <1>5. 0 \in T
    <2>1. k + 0 = k
      BY <1>4
    <2>2. QED
      BY <1>4, <2>1
  <1>6. ASSUME NEW m \in Nat, m \in T PROVE m + 1 \in T
    <2> SUFFICES ASSUME k + (m + 1) <= n
                 PROVE  /\ Len(f[k]) <= Len(f[k + (m + 1)])
                        /\ \A j \in 1 .. Len(f[k]) : f[k + (m + 1)][j] = f[k][j]
      OBVIOUS
    <2> DEFINE e == k + m
    <2>1. k + (m + 1) = e + 1 /\ e \in 0 .. n /\ e + 1 \in 1 .. n /\ (e + 1) - 1 = e
      BY <1>1, <1>4
    <2>2. Len(f[k]) <= Len(f[e]) /\ \A j \in 1 .. Len(f[k]) : f[e][j] = f[k][j]
      BY <1>6, <2>1
    <2> HIDE DEF e
    <2> DEFINE c == Code(s[e + 1], safe)
    <2>3. f[e + 1] = f[e] \o c
      BY <1>2, <2>1
    <2>4. c \in Chars /\ f[e] \in Chars /\ Len(f[e]) \in Nat
      BY <1>1, <1>3, <2>1, CodeIs
    <2> HIDE DEF c
    <2>5. Len(c) \in Nat /\ Len(f[e + 1]) = Len(f[e]) + Len(c) /\ \A j \in 1 .. Len(f[e]) : f[e + 1][j] = f[e][j]
      BY <2>3, <2>4, ConcatProperties, LenProperties DEF Chars
    <2>6. \A j \in 1 .. Len(f[k]) : f[e + 1][j] = f[k][j]
      <3> TAKE j \in 1 .. Len(f[k])
      <3>1. j \in 1 .. Len(f[e])
        BY <1>4, <2>2, <2>4
      <3>2. QED
        BY <2>2, <2>5, <3>1
    <2>7. Len(f[k]) <= Len(f[e + 1])
      BY <1>4, <2>2, <2>4, <2>5
    <2>8. QED
      BY <2>1, <2>6, <2>7
  <1> HIDE DEF T
  <1>7. Nat \subseteq T
    BY <1>5, <1>6, EveryNumber
  <1>8. n - k \in Nat /\ k + (n - k) = n
    BY <1>1, <1>4
  <1>9. QED
    BY <1>4, <1>7, <1>8 DEF T, n

\* In t, from behind p to q, stands the code c of x, and is read as x.
PutAt(t, p, q, c, x) ==
    /\ p \in Nat /\ q = p + Len(c) /\ q <= Len(t)
    /\ \A j \in 1 .. Len(c) : t[p + j] = c[j]
    /\ Len(c) = 1 => t[p + 1] # Percent
    /\ Len(c) = 3 => IsEscape(t, p + 1)
    /\ UriRead(t, p + 1) = [byte |-> x, size |-> Len(c)]

\* A code is read as its character, at its place.
LEMMA CodeAt ==
    ASSUME NEW s \in Chars, NEW safe \in Safe, NEW f, CodesOf(f, s, safe), NEW k \in 1 .. Len(s)
    PROVE  PutAt(f[Len(s)], Len(f[k - 1]), Len(f[k]), Code(s[k], safe), s[k])
  <1> DEFINE t == f[Len(s)]
             a == f[k - 1]
             p == Len(a)
             c == Code(s[k], safe)
  <1>1. /\ Len(s) \in Nat /\ k \in 1 .. Len(s) /\ k - 1 \in 0 .. Len(s) /\ k \in 0 .. Len(s) /\ Len(s) \in 0 .. Len(s)
        /\ s[k] \in Char
    BY LenProperties, ElementOfSeq DEF Chars
  <1>2. /\ a \in Chars /\ f[k] \in Chars /\ t \in Chars
        /\ f[k] = a \o c
    BY <1>1 DEF CodesOf
  <1>3. c \in Chars /\ Len(c) \in {1, 3}
    BY <1>1, CodeIs
  <1> HIDE DEF a, c
  <1>4. p \in Nat /\ Len(t) \in Nat
    BY <1>2, LenProperties DEF Chars
  <1>5. /\ Len(f[k]) = p + Len(c)
        /\ \A j \in 1 .. p + Len(c) : f[k][j] = IF j <= p THEN a[j] ELSE c[j - p]
    BY <1>2, <1>3, ConcatProperties DEF Chars
  <1>6. Len(f[k]) <= Len(t) /\ \A j \in 1 .. Len(f[k]) : t[j] = f[k][j]
    BY <1>1, CodesStay
  <1> HIDE DEF t, p
  <1>7. ASSUME NEW j \in 1 .. Len(c) PROVE t[p + j] = c[j]
    <2> DEFINE e == p + j
               m == Len(c)
    <2>1. e \in 1 .. p + m /\ ~(e <= p) /\ e - p = j
      <3> HIDE DEF m
      <3>1. m \in {1, 3} /\ j \in 1 .. m
        BY <1>3 DEF m
      <3>2. QED
        BY <1>4, <3>1
    <2> HIDE DEF e
    <2>2. f[k][e] = c[j] /\ t[e] = f[k][e]
      BY <1>5, <1>6, <2>1
    <2>3. QED
      BY <2>2 DEF e
  <1>8. CASE Len(c) = 1
    <2>1. t[p + 1] = c[1] /\ c[1] = s[k] /\ s[k] # Percent
      BY <1>1, <1>7, <1>8, CodeIs DEF c
    <2>2. ~IsEscape(t, p + 1)
      BY <2>1 DEF IsEscape
    <2>3. UriRead(t, p + 1) = [byte |-> s[k], size |-> Len(c)]
      BY <1>8, <2>1, <2>2 DEF UriRead
    <2>4. PutAt(t, p, Len(f[k]), c, s[k])
      BY <1>4, <1>5, <1>6, <1>7, <1>8, <2>1, <2>3 DEF PutAt
    <2>5. QED
      BY <2>4 DEF t, p, a, c
  <1>9. CASE Len(c) = 3
    <2>1. /\ c[1] = Percent /\ Hex(c[2]) /\ Hex(c[3])
          /\ HexValue(c[2]) * 16 + HexValue(c[3]) = s[k]
      BY <1>1, <1>9, CodeIs DEF c
    <2>2. t[p + 1] = c[1] /\ t[p + 2] = c[2] /\ t[p + 3] = c[3]
      BY <1>7, <1>9
    <2>3. (p + 1) + 1 = p + 2 /\ (p + 1) + 2 = p + 3 /\ p + 1 \in 1 .. Len(t)
      BY <1>4, <1>5, <1>6, <1>9
    <2>4. IsEscape(t, p + 1)
      BY <1>5, <1>6, <1>9, <2>1, <2>2, <2>3 DEF IsEscape
    <2>5. DOMAIN t = 1 .. Len(t)
      BY <1>2, LenProperties DEF Chars
    <2>6. UriRead(t, p + 1) = [byte |-> HexValue(t[(p + 1) + 1]) * 16 + HexValue(t[(p + 1) + 2]), size |-> 3]
      BY <1>2, <2>3, <2>4, <2>5, ReadsAre
    <2>7. UriRead(t, p + 1) = [byte |-> s[k], size |-> Len(c)]
      BY <1>9, <2>1, <2>2, <2>3, <2>6
    <2>8. PutAt(t, p, Len(f[k]), c, s[k])
      BY <1>4, <1>5, <1>6, <1>7, <1>9, <2>4, <2>7 DEF PutAt
    <2>9. QED
      BY <2>8 DEF t, p, a, c
  <1>10. QED
    BY <1>3, <1>8, <1>9

\* No escape in a code is incomplete.
LEMMA CodesComplete ==
    ASSUME NEW s \in Chars, NEW safe \in Safe
    PROVE  PercentEncode(s, safe) \in Chars /\ EscapesComplete(PercentEncode(s, safe))
  <1> DEFINE n == Len(s)
             t == PercentEncode(s, safe)
  <1>1. PICK f : CodesOf(f, s, safe) /\ t = f[n]
    BY EncodeIs
  <1>2. n \in Nat /\ n \in 0 .. n
    BY LenProperties DEF Chars
  <1>3. f[0] = <<>> /\ \A k \in 0 .. n : f[k] \in Chars
    BY <1>1 DEF CodesOf
  <1>4. t \in Chars /\ DOMAIN t = 1 .. Len(t)
    BY <1>1, <1>2, <1>3, LenProperties DEF Chars
  <1> HIDE DEF n, t
  <1> DEFINE T == {k \in Nat : k <= n => \A x \in 1 .. Len(f[k]) : t[x] = Percent => IsEscape(t, x)}
  <1>5. 0 \in T
    <2>1. Len(f[0]) = 0
      BY <1>3
    <2>2. QED
      BY <2>1
  <1>6. ASSUME NEW m \in Nat, m \in T PROVE m + 1 \in T
    <2> SUFFICES ASSUME m + 1 <= n PROVE \A x \in 1 .. Len(f[m + 1]) : t[x] = Percent => IsEscape(t, x)
      OBVIOUS
    <2> DEFINE p == Len(f[m])
               c == Code(s[m + 1], safe)
    <2>1. m + 1 \in 1 .. n /\ (m + 1) - 1 = m /\ s[m + 1] \in Char
      BY <1>2, ElementOfSeq DEF Chars, n
    <2>2. /\ p \in Nat /\ Len(f[m + 1]) = p + Len(c)
          /\ \A j \in 1 .. Len(c) : t[p + j] = c[j]
          /\ Len(c) = 1 => t[p + 1] # Percent
          /\ Len(c) = 3 => IsEscape(t, p + 1)
      <3>1. PutAt(t, Len(f[(m + 1) - 1]), Len(f[m + 1]), c, s[m + 1])
        BY <1>1, <2>1, CodeAt DEF n
      <3>2. PutAt(t, p, Len(f[m + 1]), c, s[m + 1])
        BY <2>1, <3>1
      <3> HIDE DEF p, c
      <3>3. QED
        BY <3>2 DEF PutAt
    <2>3. Len(c) \in {1, 3} /\ (Len(c) = 3 => Hex(c[2]) /\ Hex(c[3])) /\ c \in Chars
      BY <2>1, CodeIs
    <2>4. Len(c) = 3 => c[2] \in Nat /\ c[3] \in Nat
      <3>1. Len(c) = 3 => c[2] \in Char /\ c[3] \in Char
        BY <2>3, ElementOfSeq DEF Chars
      <3>2. QED
        BY <3>1 DEF Char
    <2> HIDE DEF p, c
    <2>5. Len(c) = 3 => c[2] # Percent /\ c[3] # Percent
      BY <2>3, <2>4, HexIs
    <2> SUFFICES ASSUME NEW x \in 1 .. Len(f[m + 1]), t[x] = Percent PROVE IsEscape(t, x)
      OBVIOUS
    <2>6. CASE x <= p
      <3>1. x \in 1 .. Len(f[m]) /\ m <= n
        BY <1>2, <2>2, <2>3, <2>6 DEF p
      <3>2. QED
        BY <1>6, <3>1
    <2>7. CASE x > p
      <3> DEFINE j == x - p
      <3>1. j \in 1 .. Len(c) /\ x = p + j
        BY <2>2, <2>3, <2>7
      <3>2. t[p + j] = c[j]
        BY <2>2, <3>1
      <3> HIDE DEF j
      <3>3. Len(c) = 1 => j = 1
        BY <3>1
      <3>4. Len(c) = 3 => j = 1 \/ j = 2 \/ j = 3
        BY <3>1
      <3>5. Len(c) = 3 /\ j = 1
        BY <2>2, <2>3, <2>5, <3>1, <3>2, <3>3, <3>4
      <3>6. QED
        BY <2>2, <3>1, <3>5
    <2>8. QED
      BY <2>2, <2>6, <2>7
  <1> HIDE DEF T
  <1>7. Nat \subseteq T
    BY <1>5, <1>6, EveryNumber
  <1>8. \A x \in 1 .. Len(t) : t[x] = Percent => IsEscape(t, x)
    BY <1>1, <1>2, <1>7 DEF T
  <1>9. QED
    BY <1>4, <1>8 DEF EscapesComplete, t

\* A text and one character more of it.
LEMMA OneMore ==
    ASSUME NEW s \in Chars, NEW k \in 1 .. Len(s)
    PROVE  Append(SubSeq(s, 1, k - 1), s[k]) = SubSeq(s, 1, k)
  <1>1. /\ Len(s) \in Nat /\ 1 \in 1 .. Len(s) /\ k \in 1 .. Len(s) /\ k - 1 \in Int
        /\ s[k] \in Char /\ \A j \in 1 .. k - 1 : s[j] \in Char
    BY LenProperties, ElementOfSeq DEF Chars
  <1>2. SubSeq(s, 1, k - 1) \in Chars
    BY <1>1, SubSeqProperties DEF Chars
  <1>3. SubSeq(s, 1, k) = SubSeq(s, 1, k - 1) \o <<s[k]>>
    BY <1>1, SubSeqRecursiveSecond DEF Chars
  <1>4. QED
    BY <1>1, <1>2, <1>3, AppendIsConcat DEF Chars

\* uri_decode undoes a percent code.
LEMMA CodesDecode ==
    ASSUME NEW s \in Chars, NEW safe \in Safe
    PROVE  UriDecode(PercentEncode(s, safe)) = s
  <1> DEFINE n == Len(s)
             t == PercentEncode(s, safe)
  <1>1. PICK f : CodesOf(f, s, safe) /\ t = f[n]
    BY EncodeIs
  <1>2. n \in Nat /\ n \in 0 .. n /\ 0 \in 0 .. n
    BY LenProperties DEF Chars
  <1>3. t \in Chars
    BY CodesComplete
  <1>4. f[0] = <<>> /\ Len(f[0]) = 0
    BY <1>1 DEF CodesOf
  <1> HIDE DEF n, t
  <1>5. PICK g \in [0 .. Len(t) -> Done] :
            /\ UriDecode(t) = g[Len(t)].out /\ g[0] = NothingDone
            /\ \A x \in 1 .. Len(t) : g[x] = Take(g[x - 1], x, UriRead(t, x))
    BY <1>3, UriScan DEF UriDecode
  <1>6. Len(t) \in Nat /\ DOMAIN t = 1 .. Len(t)
    BY <1>3, LenProperties DEF Chars
  <1>7. ASSUME NEW x \in Nat, x + 1 <= Len(t)
        PROVE  /\ g[x].at > x + 1 => g[x + 1] = g[x]
               /\ g[x].at = x + 1 => g[x + 1] = [out |-> Append(g[x].out, UriRead(t, x + 1).byte),
                                                 at |-> (x + 1) + UriRead(t, x + 1).size]
    <2> DEFINE y == x + 1
               r == UriRead(t, y)
    <2>1. y \in 1 .. Len(t) /\ y \in Nat /\ y - 1 = x /\ x \in 0 .. Len(t)
      BY <1>6, <1>7
    <2>2. g[x] \in Done /\ r \in Taken /\ g[y] = Take(g[x], y, r)
      BY <1>3, <1>5, <1>6, <2>1, ReadsAre
    <2> HIDE DEF y, r
    <2>3. /\ g[x].at > y => g[y] = g[x]
          /\ ~(g[x].at > y) => g[y] = [out |-> Append(g[x].out, r.byte), at |-> y + r.size]
      BY <2>1, <2>2, TakeIs
    <2>4. g[x].at = y => ~(g[x].at > y)
      BY <2>1
    <2>5. QED
      BY <2>3, <2>4 DEF y, r
  <1> DEFINE Good(k) == g[Len(f[k])] = [out |-> SubSeq(s, 1, k), at |-> Len(f[k]) + 1]
             T == {k \in Nat : k <= n => Good(k)}
  <1>8. 0 \in T
    <2>1. SubSeq(s, 1, 0) = <<>>
      BY SubSeqEmpty DEF Chars
    <2>2. QED
      BY <1>4, <1>5, <2>1 DEF NothingDone
  <1>9. ASSUME NEW m \in Nat, m \in T PROVE m + 1 \in T
    <2> SUFFICES ASSUME m + 1 <= n PROVE Good(m + 1)
      OBVIOUS
    <2> DEFINE k == m + 1
               p == Len(f[m])
               c == Code(s[k], safe)
    <2>1. k \in 1 .. Len(s) /\ k - 1 = m /\ m <= n /\ t = f[Len(s)] /\ s[k] \in Char
      BY <1>1, <1>2, ElementOfSeq DEF n, Chars
    <2>2. g[p] = [out |-> SubSeq(s, 1, m), at |-> p + 1]
      BY <1>9, <2>1
    <2> HIDE DEF k
    <2>3. p = Len(f[k - 1]) /\ Len(c) \in {1, 3}
      BY <2>1, CodeIs
    <2> HIDE DEF p, c
    <2>4. /\ p \in Nat /\ Len(f[k]) = p + Len(c) /\ Len(f[k]) <= Len(t)
          /\ UriRead(t, p + 1) = [byte |-> s[k], size |-> Len(c)]
      <3>1. PutAt(t, p, Len(f[k]), c, s[k])
        BY <1>1, <2>1, <2>3, CodeAt DEF c
      <3>2. QED
        BY <3>1 DEF PutAt
    <2>5. Append(SubSeq(s, 1, m), s[k]) = SubSeq(s, 1, k)
      BY <2>1, OneMore
    <2>6. p + 1 <= Len(t) /\ p + Len(c) <= Len(t)
      <3> DEFINE l == Len(c)
                 q == Len(f[k])
                 z == Len(t)
      <3>1. z \in Nat /\ l \in {1, 3} /\ p \in Nat /\ q = p + l /\ q <= z
        BY <1>6, <2>3, <2>4
      <3> HIDE DEF l, q, z
      <3>2. p + 1 <= z /\ p + l <= z
        BY <3>1
      <3>3. QED
        BY <3>2 DEF l, z
    <2>7. g[p + 1] = [out |-> SubSeq(s, 1, k), at |-> (p + 1) + Len(c)]
      <3>1. g[p].at = p + 1 /\ g[p].out = SubSeq(s, 1, m)
        BY <2>2
      <3>2. g[p + 1] = [out |-> Append(SubSeq(s, 1, m), s[k]), at |-> (p + 1) + Len(c)]
        <4>1. UriRead(t, p + 1).byte = s[k] /\ UriRead(t, p + 1).size = Len(c)
          BY <2>4
        <4>2. g[p + 1] = [out |-> Append(g[p].out, UriRead(t, p + 1).byte),
                          at |-> (p + 1) + UriRead(t, p + 1).size]
          BY <1>7, <2>4, <2>6, <3>1
        <4>3. QED
          BY <3>1, <4>1, <4>2
      <3>3. QED
        BY <2>5, <3>2
    <2>8. CASE Len(c) = 1
      <3>1. Len(f[k]) = p + 1 /\ (p + 1) + Len(c) = Len(f[k]) + 1
        BY <2>4, <2>8
      <3>2. QED
        BY <2>7, <3>1 DEF k
    <2>9. CASE Len(c) = 3
      <3>1. Len(f[k]) = p + 3 /\ (p + 1) + Len(c) = p + 4 /\ Len(f[k]) + 1 = p + 4
        BY <2>4, <2>9
      <3>2. g[p + 1].at = p + 4
        BY <2>7, <3>1
      <3>3. g[p + 2] = g[p + 1]
        <4> DEFINE x == p + 1
        <4>1. x \in Nat /\ x + 1 = p + 2 /\ x + 1 <= Len(t) /\ g[x].at > x + 1
          BY <2>4, <2>6, <2>9, <3>2
        <4> HIDE DEF x
        <4>2. g[x + 1] = g[x]
          BY <1>7, <4>1
        <4>3. QED
          BY <4>1, <4>2 DEF x
      <3>4. g[p + 3] = g[p + 2]
        <4> DEFINE x == p + 2
        <4>1. x \in Nat /\ x + 1 = p + 3 /\ x + 1 <= Len(t) /\ g[x].at > x + 1
          BY <2>4, <2>6, <2>9, <3>2, <3>3
        <4> HIDE DEF x
        <4>2. g[x + 1] = g[x]
          BY <1>7, <4>1
        <4>3. QED
          BY <4>1, <4>2 DEF x
      <3>5. QED
        BY <2>7, <3>1, <3>3, <3>4 DEF k
    <2>10. QED
      BY <2>3, <2>8, <2>9
  <1> HIDE DEF T
  <1>10. Nat \subseteq T
    BY <1>8, <1>9, EveryNumber
  <1>11. g[Len(t)] = [out |-> SubSeq(s, 1, n), at |-> Len(t) + 1]
    BY <1>1, <1>2, <1>10 DEF T
  <1>12. SubSeq(s, 1, n) = s
    BY SubSeqFull DEF Chars, n
  <1>13. QED
    BY <1>5, <1>11, <1>12 DEF t

\* Both decoders undo both percent codes.
LEMMA PercentWritten ==
    ASSUME NEW s \in Chars
    PROVE  PercentInverts(s, UriEncode(s)) /\ PercentInverts(s, UrlEncodeGbk(s))
  <1>1. ASSUME NEW safe \in Safe PROVE PercentInverts(s, PercentEncode(s, safe))
    <2> DEFINE t == PercentEncode(s, safe)
    <2>1. t \in Chars /\ EscapesComplete(t) /\ UriDecode(t) = s
      BY CodesComplete, CodesDecode
    <2>2. UrlDecodeGbk(t) = UriDecode(t)
      BY <2>1, CompleteAgree
    <2>3. QED
      BY <2>1, <2>2 DEF PercentInverts
  <1> DEFINE alnum == Digit \cup Upper \cup Lower
  <1>2. alnum \in Safe /\ alnum \cup {46, 47} \in Safe
    BY DEF Safe
  <1>3. QED
    BY <1>1, <1>2 DEF UriEncode, UrlEncodeGbk

\* The keys that RC4 goes through.
Rc4Keyed == [state : [Rc4Byte -> Rc4Byte], x : Rc4Byte, y : Rc4Byte]

\* A sum is a byte again.
LEMMA ByteSums ==
    /\ Rc4Bytes \in Nat \ {0}
    /\ \A a \in Int : a % Rc4Bytes \in Rc4Byte
    /\ \A b \in Rc4Byte : b \in Int
    /\ 0 \in Rc4Byte
  <1>1. Rc4Bytes \in Nat \ {0}
    BY CodecsAssumption
  <1>2. QED
    BY <1>1 DEF Rc4Byte

\* The next key is one.
LEMMA NextKeyType ==
    ASSUME NEW key \in Rc4Keyed
    PROVE  NextKey(key) \in Rc4Keyed /\ KeyByte(key) \in Rc4Byte
  <1> DEFINE B == Rc4Byte
             x == (key.x + 1) % Rc4Bytes
             y == (key.state[x] + key.y) % Rc4Bytes
             z == (key.state[key.x] + key.state[key.y]) % Rc4Bytes
  <1>1. key.state \in [B -> B] /\ key.x \in B /\ key.y \in B
    BY DEF Rc4Keyed
  <1>2. x \in B
    BY <1>1, ByteSums
  <1> HIDE DEF x
  <1>3. key.state[x] \in B /\ key.state[key.x] \in B /\ key.state[key.y] \in B
    BY <1>1, <1>2
  <1>4. y \in B /\ z \in B
    <2>1. key.state[x] + key.y \in Int /\ key.state[key.x] + key.state[key.y] \in Int
      BY <1>1, <1>3, ByteSums
    <2>2. QED
      BY <2>1, ByteSums
  <1> HIDE DEF y, z, B
  <1>5. Swap(key.state, x, y) \in [B -> B]
    BY <1>1, <1>2, <1>4 DEF Swap
  <1>6. NextKey(key) = [state |-> Swap(key.state, x, y), x |-> x, y |-> y]
    BY DEF NextKey, x, y
  <1>7. KeyByte(key) = key.state[z]
    BY DEF KeyByte, z
  <1>8. QED
    BY <1>1, <1>2, <1>4, <1>5, <1>6, <1>7 DEF Rc4Keyed, B

\* The keys as a recursion.
LEMMA KeysAre ==
    ASSUME NEW key \in Rc4Keyed, NEW n \in Nat
    PROVE  \E f \in [0 .. n -> Rc4Keyed] :
               /\ KeyAfter(key, n) = f[n] /\ f[0] = key
               /\ \A k \in 1 .. n : f[k] = NextKey(f[k - 1])
  <1> DEFINE Is(f) == f = [k \in 0 .. n |-> IF k = 0 THEN key ELSE NextKey(f[k - 1])]
             G == [k \in 1 .. n |-> [v \in Rc4Keyed |-> NextKey(v)]]
  <1>1. G \in [1 .. n -> [Rc4Keyed -> Rc4Keyed]]
    BY NextKeyType
  <1>2. PICK f \in [0 .. n -> Rc4Keyed] :
            f[0] = key /\ \A k \in 1 .. n : f[k] = G[k][f[k - 1]]
    <2> HIDE DEF G
    <2> DEFINE V == Rc4Keyed
    <2>1. key \in V /\ G \in [1 .. n -> [V -> V]]
      BY <1>1
    <2> HIDE DEF V
    <2>2. \E f \in [0 .. n -> V] : f[0] = key /\ \A k \in 1 .. n : f[k] = G[k][f[k - 1]]
      BY <2>1, Recursion
    <2>3. QED
      BY <2>2 DEF V
  <1>3. \A k \in 1 .. n : f[k] = NextKey(f[k - 1])
    <2> TAKE k \in 1 .. n
    <2>1. k - 1 \in 0 .. n /\ f[k - 1] \in Rc4Keyed
      BY <1>2
    <2>2. QED
      BY <1>2, <2>1
  <1>4. Is(f)
    <2> DEFINE h == [k \in 0 .. n |-> IF k = 0 THEN key ELSE NextKey(f[k - 1])]
    <2>1. \A k \in 0 .. n : f[k] = h[k]
      <3> TAKE k \in 0 .. n
      <3>1. k = 0 \/ k \in 1 .. n
        OBVIOUS
      <3>2. QED
        BY <1>2, <1>3, <3>1
    <2>2. f = h
      BY <1>2, <2>1
    <2>3. QED
      BY <2>2
  <1> DEFINE g == CHOOSE h : Is(h)
  <1>5. KeyAfter(key, n) = g[n]
    BY DEF KeyAfter
  <1>6. Is(g)
    <2> HIDE DEF Is
    <2>1. QED
      BY <1>4
  <1> HIDE DEF g
  <1>7. g[0] = key /\ \A k \in 1 .. n : g[k] = NextKey(g[k - 1])
    <2>1. \A k \in 0 .. n : g[k] = IF k = 0 THEN key ELSE NextKey(g[k - 1])
      BY <1>6
    <2>2. 0 \in 0 .. n /\ \A k \in 1 .. n : k \in 0 .. n /\ k # 0
      OBVIOUS
    <2>3. QED
      BY <2>1, <2>2
  <1>8. f[n] = g[n]
    <2>1. ASSUME NEW k \in 1 .. n, f[k - 1] = g[k - 1] PROVE f[k] = g[k]
      BY <1>3, <1>7, <2>1
    <2>2. f[0] = g[0]
      BY <1>2, <1>7
    <2>3. QED
      BY <2>1, <2>2, SameRecursion
  <1>9. QED
    BY <1>2, <1>3, <1>5, <1>8

\* One turn more.
LEMMA KeyAfterNext ==
    ASSUME NEW key \in Rc4Keyed, NEW n \in Nat
    PROVE  /\ KeyAfter(key, n) \in Rc4Keyed /\ KeyAfter(key, 0) = key
           /\ KeyAfter(key, n + 1) = NextKey(KeyAfter(key, n))
  <1>1. PICK f \in [0 .. n -> Rc4Keyed] :
            /\ KeyAfter(key, n) = f[n] /\ f[0] = key
            /\ \A k \in 1 .. n : f[k] = NextKey(f[k - 1])
    BY KeysAre
  <1>2. PICK g \in [0 .. n + 1 -> Rc4Keyed] :
            /\ KeyAfter(key, n + 1) = g[n + 1] /\ g[0] = key
            /\ \A k \in 1 .. n + 1 : g[k] = NextKey(g[k - 1])
    <2>1. n + 1 \in Nat
      OBVIOUS
    <2>2. QED
      BY <2>1, KeysAre
  <1>3. f[n] = g[n]
    <2>1. ASSUME NEW k \in 1 .. n, f[k - 1] = g[k - 1] PROVE f[k] = g[k]
      <3>1. k \in 1 .. n + 1
        OBVIOUS
      <3>2. QED
        BY <1>1, <1>2, <2>1, <3>1
    <2>2. f[0] = g[0]
      BY <1>1, <1>2
    <2>3. QED
      BY <2>1, <2>2, SameRecursion
  <1>4. n + 1 \in 1 .. n + 1 /\ (n + 1) - 1 = n /\ n \in 0 .. n
    OBVIOUS
  <1>5. g[n + 1] = NextKey(g[n])
    BY <1>2, <1>4
  <1>6. KeyAfter(key, 0) = key
    <2>1. \E h \in [0 .. 0 -> Rc4Keyed] : KeyAfter(key, 0) = h[0] /\ h[0] = key
      BY KeysAre
    <2>2. QED
      BY <2>1
  <1>7. QED
    BY <1>1, <1>2, <1>3, <1>4, <1>5, <1>6

\* Turns after turns.
LEMMA KeyAfterTurns ==
    ASSUME NEW key \in Rc4Keyed, NEW m \in Nat, NEW n \in Nat
    PROVE  KeyAfter(KeyAfter(key, m), n) = KeyAfter(key, m + n)
  <1> DEFINE first == KeyAfter(key, m)
             T == {k \in Nat : KeyAfter(first, k) = KeyAfter(key, m + k)}
  <1>1. first \in Rc4Keyed
    BY KeyAfterNext
  <1> HIDE DEF first
  <1>2. 0 \in T
    <2>1. KeyAfter(first, 0) = first /\ m + 0 = m
      BY <1>1, KeyAfterNext
    <2>2. QED
      BY <2>1 DEF first
  <1>3. ASSUME NEW k \in Nat, k \in T PROVE k + 1 \in T
    <2>1. KeyAfter(first, k + 1) = NextKey(KeyAfter(first, k))
      BY <1>1, KeyAfterNext
    <2>2. KeyAfter(key, (m + k) + 1) = NextKey(KeyAfter(key, m + k))
      BY KeyAfterNext
    <2>3. (m + k) + 1 = m + (k + 1)
      OBVIOUS
    <2>4. QED
      BY <1>3, <2>1, <2>2, <2>3
  <1> HIDE DEF T
  <1>4. Nat \subseteq T
    BY <1>2, <1>3, EveryNumber
  <1>5. QED
    BY <1>4 DEF T, first

\* The states that _rc4Init goes through.
Mixed == [state : [Rc4Byte -> Rc4Byte], y : Rc4Byte]

\* It makes a key.
LEMMA InitKey ==
    ASSUME NEW key \in Seq(Rc4Byte), key # <<>>
    PROVE  Rc4Init(key) \in Rc4Keyed
  <1> DEFINE n == Rc4Bytes
             start == [state |-> [j \in Rc4Byte |-> j], y |-> 0]
             Is(f) == f = [k \in 0 .. n |-> IF k = 0 THEN start ELSE MixIn(key, k, f[k - 1])]
             G == [k \in 1 .. n |-> [v \in Mixed |-> MixIn(key, k, v)]]
  <1>1. n \in Nat /\ \A k \in 1 .. n : k - 1 \in Rc4Byte /\ k - 1 \in Nat
    BY ByteSums DEF Rc4Byte
  <1>2. start \in Mixed
    BY ByteSums DEF Mixed
  <1>3. Len(key) \in Nat \ {0} /\ \A j \in 1 .. Len(key) : key[j] \in Rc4Byte
    BY EmptySeq, LenProperties, ElementOfSeq
  <1> HIDE DEF n, start
  <1>4. ASSUME NEW k \in 1 .. n, NEW v \in Mixed PROVE MixIn(key, k, v) \in Mixed
    <2> DEFINE e == ((k - 1) % Len(key)) + 1
               y == (key[e] + v.state[k - 1] + v.y) % Rc4Bytes
    <2>1. v.state \in [Rc4Byte -> Rc4Byte] /\ v.y \in Rc4Byte
      BY DEF Mixed
    <2>2. e \in 1 .. Len(key)
      BY <1>1, <1>3
    <2> HIDE DEF e
    <2>3. key[e] \in Rc4Byte /\ v.state[k - 1] \in Rc4Byte
      BY <1>1, <1>3, <2>1, <2>2
    <2>4. y \in Rc4Byte
      <3>1. key[e] \in Int /\ v.state[k - 1] \in Int /\ v.y \in Int
        BY <2>1, <2>3, ByteSums
      <3>2. key[e] + v.state[k - 1] + v.y \in Int
        BY <3>1
      <3>3. QED
        BY <3>2, ByteSums
    <2> HIDE DEF y
    <2>5. Swap(v.state, k - 1, y) \in [Rc4Byte -> Rc4Byte]
      BY <1>1, <2>1, <2>4 DEF Swap
    <2>6. MixIn(key, k, v) = [state |-> Swap(v.state, k - 1, y), y |-> y]
      BY DEF MixIn, e, y
    <2>7. QED
      BY <2>4, <2>5, <2>6 DEF Mixed
  <1>5. PICK f \in [0 .. n -> Mixed] :
            f[0] = start /\ \A k \in 1 .. n : f[k] = G[k][f[k - 1]]
    <2>1. G \in [1 .. n -> [Mixed -> Mixed]]
      BY <1>4
    <2> DEFINE V == Mixed
               a == start
    <2> HIDE DEF G
    <2>2. n \in Nat
      BY <1>1
    <2>3. a \in V /\ G \in [1 .. n -> [V -> V]]
      BY <1>2, <2>1
    <2> HIDE DEF V, a, Is
    <2>4. \E f \in [0 .. n -> V] : f[0] = a /\ \A k \in 1 .. n : f[k] = G[k][f[k - 1]]
      BY ONLY <2>2, <2>3, Recursion
    <2>5. QED
      BY <2>4 DEF V, a
  <1>6. Is(f)
    <2> DEFINE h == [k \in 0 .. n |-> IF k = 0 THEN start ELSE MixIn(key, k, f[k - 1])]
    <2>1. \A k \in 0 .. n : f[k] = h[k]
      <3> TAKE k \in 0 .. n
      <3>1. k = 0 \/ (k \in 1 .. n /\ k - 1 \in 0 .. n)
        BY <1>1
      <3>2. k \in 1 .. n => f[k - 1] \in Mixed
        BY <1>5, <3>1
      <3>3. QED
        BY <1>5, <3>1, <3>2
    <2>2. f = h
      BY <1>5, <2>1
    <2>3. QED
      BY <2>2
  <1> DEFINE g == CHOOSE h : Is(h)
  <1>7. Rc4Init(key) = [state |-> g[n].state, x |-> 0, y |-> 0]
    BY DEF Rc4Init, n, start
  <1>8. Is(g)
    <2> HIDE DEF Is
    <2>1. QED
      BY <1>6
  <1> HIDE DEF g
  <1>9. g[0] = start /\ \A k \in 1 .. n : g[k] = MixIn(key, k, g[k - 1])
    <2>1. \A k \in 0 .. n : g[k] = IF k = 0 THEN start ELSE MixIn(key, k, g[k - 1])
      BY <1>8
    <2>2. 0 \in 0 .. n /\ \A k \in 1 .. n : k \in 0 .. n /\ k # 0
      BY <1>1
    <2>3. QED
      BY <2>1, <2>2
  <1> DEFINE T == {k \in Nat : k <= n => g[k] \in Mixed}
  <1>10. 0 \in T
    BY <1>2, <1>9
  <1>11. ASSUME NEW k \in Nat, k \in T PROVE k + 1 \in T
    <2> SUFFICES ASSUME k + 1 <= n PROVE g[k + 1] \in Mixed
      OBVIOUS
    <2>1. k + 1 \in 1 .. n /\ (k + 1) - 1 = k /\ k <= n
      BY <1>1
    <2>2. QED
      BY <1>4, <1>9, <1>11, <2>1
  <1> HIDE DEF T
  <1>12. Nat \subseteq T
    BY <1>10, <1>11, EveryNumber
  <1>13. g[n] \in Mixed
    BY <1>1, <1>12 DEF T
  <1>14. g[n].state \in [Rc4Byte -> Rc4Byte]
    BY <1>13 DEF Mixed
  <1>15. 0 \in Rc4Byte
    BY ByteSums
  <1>16. QED
    BY <1>7, <1>14, <1>15 DEF Rc4Keyed

\* What RC4 makes of a text, byte by byte, is a text of the same length.
LEMMA Rc4Is ==
    ASSUME NEW key \in Rc4Keyed, NEW s \in Seq(Rc4Byte)
    PROVE  /\ Rc4(key, s).key = KeyAfter(key, Len(s))
           /\ Rc4(key, s).out \in Seq(Rc4Byte) /\ Len(Rc4(key, s).out) = Len(s)
           /\ \A k \in 1 .. Len(s) : Rc4(key, s).out[k] = Xor[s[k]][KeyByte(KeyAfter(key, k))]
  <1> DEFINE n == Len(s)
             out == [k \in DOMAIN s |-> Xor[s[k]][KeyByte(KeyAfter(key, k))]]
  <1>1. n \in Nat /\ DOMAIN s = 1 .. n /\ \A k \in 1 .. n : s[k] \in Rc4Byte
    BY LenProperties, ElementOfSeq
  <1>2. \A k \in 1 .. n : KeyByte(KeyAfter(key, k)) \in Rc4Byte
    <2> TAKE k \in 1 .. n
    <2>1. k \in Nat
      BY <1>1
    <2>2. KeyAfter(key, k) \in Rc4Keyed
      BY <2>1, KeyAfterNext
    <2>3. QED
      BY <2>2, NextKeyType
  <1>3. \A k \in 1 .. n : Xor[s[k]][KeyByte(KeyAfter(key, k))] \in Rc4Byte
    BY <1>1, <1>2, CodecsAssumption
  <1>4. out \in [1 .. n -> Rc4Byte]
    BY <1>1, <1>3
  <1>5. \A k \in 1 .. n : out[k] = Xor[s[k]][KeyByte(KeyAfter(key, k))]
    BY <1>1
  <1>6. Rc4(key, s).key = KeyAfter(key, n) /\ Rc4(key, s).out = out
    BY DEF Rc4
  <1> HIDE DEF out, n
  <1>7. out \in Seq(Rc4Byte) /\ Len(out) = n
    BY <1>1, <1>4, SeqDef, LenProperties
  <1>8. QED
    BY <1>5, <1>6, <1>7 DEF n

\* RC4 undoes itself, and may be done in two parts.
LEMMA Rc4Written ==
    ASSUME NEW key \in Seq(Rc4Byte), key # <<>>, NEW s \in Seq(Rc4Byte)
    PROVE  Rc4Inverts(key, s, Rc4Full(key, s))
  <1> DEFINE begin == Rc4Init(key)
             n == Len(s)
             secret == Rc4Full(key, s)
             At0(k) == KeyByte(KeyAfter(begin, k))
  <1>1. begin \in Rc4Keyed
    BY InitKey
  <1>2. n \in Nat /\ \A k \in 1 .. n : s[k] \in Rc4Byte
    BY LenProperties, ElementOfSeq
  <1>3. secret = Rc4(begin, s).out /\ Rc4Full(key, secret) = Rc4(begin, secret).out
    BY DEF Rc4Full
  <1> HIDE DEF begin, secret, n
  <1>4. /\ secret \in Seq(Rc4Byte) /\ Len(secret) = n
        /\ \A k \in 1 .. n : secret[k] = Xor[s[k]][At0(k)]
    BY <1>1, <1>3, Rc4Is DEF n
  <1>5. \A k \in Nat : At0(k) \in Rc4Byte /\ KeyAfter(begin, k) \in Rc4Keyed
    BY <1>1, KeyAfterNext, NextKeyType
  <1>6. Rc4Full(key, secret) = s
    <2> DEFINE back == Rc4(begin, secret).out
    <2>1. /\ back \in Seq(Rc4Byte) /\ Len(back) = n
          /\ \A k \in 1 .. n : back[k] = Xor[secret[k]][At0(k)]
      BY <1>1, <1>4, Rc4Is
    <2> HIDE DEF back
    <2>2. \A k \in 1 .. n : back[k] = s[k]
      <3> TAKE k \in 1 .. n
      <3>1. k \in Nat /\ s[k] \in Rc4Byte
        BY <1>2
      <3> HIDE DEF At0
      <3>2. At0(k) \in Rc4Byte
        BY <1>5, <3>1
      <3>3. Xor[Xor[s[k]][At0(k)]][At0(k)] = s[k]
        BY <3>1, <3>2, CodecsAssumption
      <3>4. QED
        BY <1>4, <2>1, <3>3
    <2>3. back = s
      BY <1>2, <2>1, <2>2, SeqEqual DEF n
    <2>4. QED
      BY <1>3, <2>3 DEF back
  <1>7. ASSUME NEW k \in 0 .. n
        PROVE  secret = Rc4(begin, SubSeq(s, 1, k)).out \o Rc4(Rc4(begin, SubSeq(s, 1, k)).key, SubSeq(s, k + 1, n)).out
    <2> DEFINE a == SubSeq(s, 1, k)
               b == SubSeq(s, k + 1, n)
               mid == Rc4(begin, a).key
               o == Rc4(begin, a).out
               p == Rc4(mid, b).out
    <2>1. k \in Nat /\ k <= n /\ k + 1 \in Int /\ k \in Int
      BY <1>2
    <2>2. a \in Seq(Rc4Byte) /\ Len(a) = k /\ \A j \in 1 .. k : a[j] = s[j]
      <3>1. \A j \in 1 .. k : s[j] \in Rc4Byte
        BY <1>2, <2>1
      <3>2. QED
        BY <2>1, <3>1, SubSeqProperties
    <2>3. b \in Seq(Rc4Byte) /\ Len(b) = n - k /\ \A j \in 1 .. n - k : b[j] = s[k + j]
      <3>1. \A j \in k + 1 .. n : s[j] \in Rc4Byte
        BY <1>2, <2>1
      <3>2. /\ b \in Seq(Rc4Byte) /\ Len(b) = IF k + 1 <= n THEN n - (k + 1) + 1 ELSE 0
            /\ \A j \in 1 .. n - (k + 1) + 1 : b[j] = s[(k + 1) + j - 1]
        BY <1>2, <2>1, <3>1, SubSeqProperties
      <3> HIDE DEF b
      <3>3. n - (k + 1) + 1 = n - k /\ \A j \in 1 .. n - k : (k + 1) + j - 1 = k + j
        BY <1>2, <2>1
      <3>4. \A j \in 1 .. n - k : b[j] = s[k + j]
        BY <3>2, <3>3
      <3>5. QED
        BY <1>2, <2>1, <3>2, <3>3, <3>4
    <2> HIDE DEF a, b
    <2>4. /\ mid = KeyAfter(begin, k) /\ o \in Seq(Rc4Byte) /\ Len(o) = k
          /\ \A j \in 1 .. k : o[j] = Xor[a[j]][At0(j)]
      BY <1>1, <2>2, Rc4Is
    <2>5. mid \in Rc4Keyed
      BY <1>5, <2>1, <2>4
    <2> HIDE DEF mid, o
    <2>6. /\ p \in Seq(Rc4Byte) /\ Len(p) = n - k
          /\ \A j \in 1 .. n - k : p[j] = Xor[b[j]][KeyByte(KeyAfter(mid, j))]
      BY <2>3, <2>5, Rc4Is
    <2> HIDE DEF p
    <2>7. \A j \in 1 .. n - k : KeyByte(KeyAfter(mid, j)) = At0(k + j)
      <3> TAKE j \in 1 .. n - k
      <3>1. j \in Nat
        BY <1>2, <2>1
      <3>2. KeyAfter(mid, j) = KeyAfter(begin, k + j)
        BY <1>1, <2>1, <2>4, <3>1, KeyAfterTurns
      <3>3. QED
        BY <3>2
    <2> DEFINE q == o \o p
    <2>8. /\ q \in Seq(Rc4Byte) /\ Len(q) = k + (n - k)
          /\ \A j \in 1 .. k + (n - k) : q[j] = IF j <= k THEN o[j] ELSE p[j - k]
      <3>1. /\ q \in Seq(Rc4Byte) /\ Len(q) = Len(o) + Len(p)
            /\ \A j \in 1 .. Len(o) + Len(p) : q[j] = IF j <= Len(o) THEN o[j] ELSE p[j - Len(o)]
        <4>1. o \in Seq(Rc4Byte) /\ p \in Seq(Rc4Byte)
          BY <2>4, <2>6
        <4>2. QED
          BY ONLY <4>1, ConcatProperties
      <3>2. Len(o) = k /\ Len(p) = n - k
        BY <2>4, <2>6
      <3> HIDE DEF q
      <3>3. QED
        BY <3>1, <3>2
    <2>9. k + (n - k) = n
      BY <1>2, <2>1
    <2> HIDE DEF q, At0
    <2>10. \A j \in 1 .. n : q[j] = secret[j]
      <3> TAKE j \in 1 .. n
      <3>1. q[j] = IF j <= k THEN o[j] ELSE p[j - k]
        BY <2>8, <2>9
      <3>2. CASE j <= k
        <4>1. j \in 1 .. k
          BY <1>2, <2>1, <3>2
        <4>2. QED
          BY <1>4, <2>2, <2>4, <3>1, <3>2, <4>1
      <3>3. CASE ~(j <= k)
        <4> DEFINE e == j - k
        <4>1. e \in 1 .. n - k /\ k + e = j
          BY <1>2, <2>1, <3>3
        <4> HIDE DEF e
        <4>2. p[e] = Xor[s[k + e]][At0(k + e)]
          BY <2>3, <2>6, <2>7, <4>1
        <4>3. q[j] = p[e]
          BY <3>1, <3>3 DEF e
        <4>4. QED
          BY <1>4, <4>1, <4>2, <4>3
      <3>4. QED
        BY <3>2, <3>3
    <2>11. q = secret
      BY <1>2, <1>4, <2>8, <2>9, <2>10, SeqEqual
    <2>12. QED
      BY <2>11 DEF q, o, p, mid, a, b
  <1>8. QED
    BY <1>6, <1>7 DEF Rc4Inverts, begin, secret, n

-----------------------------------------------------------------------------
\* What a call of a codec was given and what it gives.
CodecInv ==
    /\ fn = "base64" => arg \in Chars /\ res = Base64Encode(arg)
    /\ fn = "uri encode" => arg \in Chars /\ res = UriEncode(arg)
    /\ fn = "url encode" => arg \in Chars /\ res = UrlEncodeGbk(arg)
    /\ fn = "uri decode" => arg \in Chars /\ res = UriDecode(arg)
    /\ fn = "rc4" => /\ arg.key \in Seq(Rc4Byte) /\ arg.key # <<>> /\ arg.text \in Seq(Rc4Byte)
                     /\ res = Rc4Full(arg.key, arg.text)

\* It stays so.
LEMMA CodecInvInductive == WrittenSpec => []CodecInv
  <1>1. CallInit => CodecInv
    BY DEF CallInit, CodecInv
  <1>2. CodecInv /\ [WrittenNext]_callVars => CodecInv'
    <2> SUFFICES ASSUME CodecInv, [WrittenNext]_callVars PROVE CodecInv'
      OBVIOUS
    <2>1. \A s \in ByteTexts \cup UrlTexts : s \in Chars
      BY CodecsAssumption DEF Chars, Char
    <2>2. CASE Base64
      BY <2>1, <2>2 DEF Base64, Called, CodecInv
    <2>3. CASE EncodeUri
      BY <2>1, <2>3 DEF EncodeUri, Called, CodecInv
    <2>4. CASE EncodeUrl
      BY <2>1, <2>4 DEF EncodeUrl, Called, CodecInv
    <2>5. CASE DecodeUri
      BY <2>1, <2>5 DEF DecodeUri, Called, CodecInv
    <2>6. CASE EncryptRc4
      <3>1. PICK key \in Rc4Keys, s \in Rc4Texts : Called("rc4", [key |-> key, text |-> s], Rc4Full(key, s))
        BY <2>6 DEF EncryptRc4
      <3>2. key \in Seq(Rc4Byte) /\ key # <<>> /\ s \in Seq(Rc4Byte)
        BY CodecsAssumption
      <3>3. arg'.key = key /\ arg'.text = s /\ res' = Rc4Full(key, s) /\ fn' = "rc4"
        BY <3>1 DEF Called
      <3>4. QED
        BY <3>2, <3>3 DEF CodecInv
    <2>7. CASE WriteTime
      BY <2>7 DEF WriteTime, Called, CodecInv
    <2>8. CASE ReadTime
      BY <2>8 DEF ReadTime, Called, CodecInv
    <2>9. CASE UNCHANGED callVars
      BY <2>9 DEF callVars, CodecInv
    <2>10. QED
      BY <2>2, <2>3, <2>4, <2>5, <2>6, <2>7, <2>8, <2>9 DEF WrittenNext
  <1>3. QED
    BY <1>1, <1>2, PTL DEF WrittenSpec

\* Decoders undo encoders, whatever the texts are: base64 of any length and with any bytes, both
\* percent codes with both decoders (url_utils.cpp:26-184), and RC4 in one piece or in two.
THEOREM CodecsInvertHolds == WrittenSpec => []CodecsInvert
  <1>1. CodecInv => CodecsInvert
    <2> SUFFICES ASSUME CodecInv PROVE CodecsInvert
      OBVIOUS
    <2>1. fn = "base64" => Base64Inverts(arg, res)
      BY Base64Written DEF CodecInv
    <2>2. fn \in {"uri encode", "url encode"} => PercentInverts(arg, res)
      BY PercentWritten DEF CodecInv
    <2>3. fn = "uri decode" => DecodersAgree(arg, res)
      <3> SUFFICES ASSUME fn = "uri decode" PROVE DecodersAgree(arg, res)
        OBVIOUS
      <3>1. arg \in Chars /\ res = UriDecode(arg)
        BY DEF CodecInv
      <3>2. QED
        BY <3>1, CompleteAgree, UndefinedAtEnd DEF DecodersAgree
    <2>4. fn = "rc4" => Rc4Inverts(arg.key, arg.text, res)
      BY Rc4Written DEF CodecInv
    <2>5. QED
      BY <2>1, <2>2, <2>3, <2>4 DEF CodecsInvert
  <1>2. QED
    BY <1>1, CodecInvInductive, PTL

-----------------------------------------------------------------------------
(* Times as text.                                                          *)

\* A year ends where the next one begins, and starts after all that come before it.
LEMMA YearLength ==
    ASSUME NEW y \in Year
    PROVE  /\ YearStart(y) \in Int /\ YearStart(y + 1) \in Int
           /\ YearStart(y + 1) = YearStart(y) + (IF Leap(y) THEN 366 ELSE 365)
           /\ \A z \in Year : y < z => YearStart(y + 1) <= YearStart(z)
  BY DEF YearStart, Leap, Year

\* The first day of each month, for a year that starts with day s and has l days in February.
MonthTable(s, l) ==
    <<s, s + 31, s + 31 + l, s + 62 + l, s + 92 + l, s + 123 + l, s + 153 + l, s + 184 + l,
      s + 215 + l, s + 245 + l, s + 276 + l, s + 306 + l>>

\* A month starts where the one before it ends.
LEMMA MonthStartIs ==
    ASSUME NEW y \in Year, NEW m \in Month
    PROVE  MonthStart(y, m) = MonthTable(YearStart(y), IF Leap(y) THEN 29 ELSE 28)[m]
  <1> DEFINE s == YearStart(y)
             l == IF Leap(y) THEN 29 ELSE 28
             Is(f) == f = [k \in Month |-> IF k = 1 THEN s ELSE f[k - 1] + DaysIn(y, k - 1)]
             t == [k \in Month |-> MonthTable(s, l)[k]]
  <1>1. s \in Int /\ l \in Int
    BY YearLength
  <1>2. DaysIn(y, 1) = 31 /\ DaysIn(y, 2) = l /\ DaysIn(y, 3) = 31 /\ DaysIn(y, 4) = 30
        /\ DaysIn(y, 5) = 31 /\ DaysIn(y, 6) = 30 /\ DaysIn(y, 7) = 31 /\ DaysIn(y, 8) = 31
        /\ DaysIn(y, 9) = 30 /\ DaysIn(y, 10) = 31 /\ DaysIn(y, 11) = 30
    BY DEF DaysIn
  <1> DEFINE g == CHOOSE f : Is(f)
  <1>3. MonthStart(y, m) = g[m]
    BY DEF MonthStart
  <1> HIDE DEF s, l
  <1>0. m \in 1 .. 12
    BY DEF Month
  <1>4. \A k \in 1 .. 12 : k = 1 \/ k = 2 \/ k = 3 \/ k = 4 \/ k = 5 \/ k = 6 \/ k = 7 \/ k = 8
                           \/ k = 9 \/ k = 10 \/ k = 11 \/ k = 12
    OBVIOUS
  <1>5. /\ t[1] = s /\ t[2] = s + 31 /\ t[3] = s + 31 + l /\ t[4] = s + 62 + l
        /\ t[5] = s + 92 + l /\ t[6] = s + 123 + l /\ t[7] = s + 153 + l /\ t[8] = s + 184 + l
        /\ t[9] = s + 215 + l /\ t[10] = s + 245 + l /\ t[11] = s + 276 + l /\ t[12] = s + 306 + l
    BY DEF MonthTable, Month
  <1>6. ASSUME NEW k \in Month PROVE t[k] = IF k = 1 THEN s ELSE t[k - 1] + DaysIn(y, k - 1)
    <2> HIDE DEF t
    <2>1. QED
      BY <1>1, <1>2, <1>4, <1>5 DEF Month
  <1>7. Is(t)
    <2> DEFINE h == [k \in Month |-> IF k = 1 THEN s ELSE t[k - 1] + DaysIn(y, k - 1)]
    <2>1. \A k \in Month : t[k] = h[k]
      <3> HIDE DEF t
      <3>1. QED
        BY <1>6
    <2>2. t = h
      BY <2>1
    <2>3. QED
      BY <2>2
  <1>8. Is(g)
    <2> HIDE DEF Is, t
    <2>1. QED
      BY <1>7
  <1> HIDE DEF g
  <1>9. \A k \in Month : g[k] = IF k = 1 THEN s ELSE g[k - 1] + DaysIn(y, k - 1)
    BY <1>8
  <1>10. g[1] = t[1]
    BY <1>5, <1>9 DEF Month
  <1>11. ASSUME NEW k \in 2 .. 12, g[k - 1] = t[k - 1] PROVE g[k] = t[k]
    <2>1. k \in Month /\ k # 1
      BY DEF Month
    <2> HIDE DEF t
    <2>2. QED
      BY <1>6, <1>9, <1>11, <2>1
  <1>12. g[2] = t[2] /\ g[3] = t[3] /\ g[4] = t[4] /\ g[5] = t[5] /\ g[6] = t[6]
         /\ g[7] = t[7] /\ g[8] = t[8] /\ g[9] = t[9] /\ g[10] = t[10] /\ g[11] = t[11] /\ g[12] = t[12]
    <2> DEFINE P(k) == g[k] = t[k]
    <2>1. \A k \in 2 .. 12 : P(k - 1) => P(k)
      BY <1>11
    <2>2. P(1)
      BY <1>10
    <2> HIDE DEF P
    <2>3. P(1) /\ P(2) /\ P(3) /\ P(4) /\ P(5) /\ P(6) /\ P(7) /\ P(8) /\ P(9) /\ P(10) /\ P(11) /\ P(12)
      <3>1. P(2) /\ P(3) /\ P(4) /\ P(5)
        BY <2>1, <2>2
      <3>2. P(6) /\ P(7) /\ P(8) /\ P(9)
        BY <2>1, <3>1
      <3>3. P(10) /\ P(11) /\ P(12)
        BY <2>1, <3>2
      <3>4. QED
        BY <2>2, <3>1, <3>2, <3>3
    <2>4. QED
      BY <2>3 DEF P
  <1>13. g[m] = t[m]
    BY <1>0, <1>4, <1>10, <1>12
  <1>14. t[m] = MonthTable(s, l)[m]
    BY <1>0
  <1>15. QED
    BY <1>3, <1>13, <1>14 DEF s, l

\* Where the months of a year start, one after the other, and where the year ends.
LEMMA MonthStarts ==
    ASSUME NEW y \in Year
    PROVE  /\ MonthStart(y, 1) = YearStart(y)
           /\ \A m \in Month : MonthStart(y, m) \in Int /\ DaysIn(y, m) \in Int
                              /\ 28 <= DaysIn(y, m) /\ DaysIn(y, m) <= 31
           /\ \A m \in Month : m < 12 => MonthStart(y, m + 1) = MonthStart(y, m) + DaysIn(y, m)
           /\ MonthStart(y, 12) + 31 = YearStart(y + 1) /\ DaysIn(y, 12) = 31
           /\ \A m, n \in Month : m < n => MonthStart(y, m) + DaysIn(y, m) <= MonthStart(y, n)
  <1> DEFINE s == YearStart(y)
             l == IF Leap(y) THEN 29 ELSE 28
  <1>2. s \in Int /\ l \in {28, 29} /\ YearStart(y + 1) = s + 337 + l
    BY YearLength
  <1>3. \A m \in 1 .. 12 : MonthStart(y, m) = MonthTable(s, l)[m]
    BY MonthStartIs DEF Month
  <1>4. DaysIn(y, 1) = 31 /\ DaysIn(y, 2) = l /\ DaysIn(y, 3) = 31 /\ DaysIn(y, 4) = 30
        /\ DaysIn(y, 5) = 31 /\ DaysIn(y, 6) = 30 /\ DaysIn(y, 7) = 31 /\ DaysIn(y, 8) = 31
        /\ DaysIn(y, 9) = 30 /\ DaysIn(y, 10) = 31 /\ DaysIn(y, 11) = 30 /\ DaysIn(y, 12) = 31
    BY DEF DaysIn
  <1> HIDE DEF s, l
  <1>5. /\ MonthStart(y, 1) = s /\ MonthStart(y, 2) = s + 31 /\ MonthStart(y, 3) = s + 31 + l
        /\ MonthStart(y, 4) = s + 62 + l /\ MonthStart(y, 5) = s + 92 + l /\ MonthStart(y, 6) = s + 123 + l
        /\ MonthStart(y, 7) = s + 153 + l /\ MonthStart(y, 8) = s + 184 + l /\ MonthStart(y, 9) = s + 215 + l
        /\ MonthStart(y, 10) = s + 245 + l /\ MonthStart(y, 11) = s + 276 + l /\ MonthStart(y, 12) = s + 306 + l
    BY <1>3 DEF MonthTable
  <1>6. \A k \in 1 .. 12 : k = 1 \/ k = 2 \/ k = 3 \/ k = 4 \/ k = 5 \/ k = 6 \/ k = 7 \/ k = 8
                           \/ k = 9 \/ k = 10 \/ k = 11 \/ k = 12
    OBVIOUS
  <1>7. \A m \in Month : MonthStart(y, m) \in Int /\ DaysIn(y, m) \in Int
                          /\ 28 <= DaysIn(y, m) /\ DaysIn(y, m) <= 31
    BY <1>2, <1>4, <1>5, <1>6 DEF Month
  <1>8. ASSUME NEW m \in Month, m < 12 PROVE MonthStart(y, m + 1) = MonthStart(y, m) + DaysIn(y, m)
    <2>1. m = 1 \/ m = 2 \/ m = 3 \/ m = 4 \/ m = 5 \/ m = 6 \/ m = 7 \/ m = 8 \/ m = 9 \/ m = 10 \/ m = 11
      BY <1>8 DEF Month
    <2>2. QED
      BY <1>2, <1>4, <1>5, <2>1
  <1>9. ASSUME NEW m \in Month, NEW n \in Month, m < n
        PROVE  MonthStart(y, m) + DaysIn(y, m) <= MonthStart(y, n)
    <2> DEFINE T == {k \in Nat : \A n1 \in Month : n1 = m + 1 + k =>
                                     MonthStart(y, m) + DaysIn(y, m) <= MonthStart(y, n1)}
    <2>1. 0 \in T
      <3> SUFFICES ASSUME m + 1 \in Month PROVE MonthStart(y, m) + DaysIn(y, m) <= MonthStart(y, m + 1)
        BY DEF Month
      <3>1. m < 12
        BY DEF Month
      <3>2. QED
        BY <1>7, <1>8, <3>1
    <2>2. ASSUME NEW k \in Nat, k \in T PROVE k + 1 \in T
      <3> SUFFICES ASSUME NEW n1 \in Month, n1 = m + 1 + (k + 1)
                   PROVE  MonthStart(y, m) + DaysIn(y, m) <= MonthStart(y, n1)
        OBVIOUS
      <3>1. n1 - 1 \in Month /\ n1 - 1 < 12 /\ n1 - 1 = m + 1 + k /\ (n1 - 1) + 1 = n1
        BY DEF Month
      <3>2. MonthStart(y, m) + DaysIn(y, m) <= MonthStart(y, n1 - 1)
        BY <2>2, <3>1
      <3>3. MonthStart(y, n1) = MonthStart(y, n1 - 1) + DaysIn(y, n1 - 1)
        BY <1>8, <3>1
      <3>4. QED
        BY <1>7, <3>1, <3>2, <3>3
    <2> HIDE DEF T
    <2>3. Nat \subseteq T
      BY <2>1, <2>2, EveryNumber
    <2>4. n - m - 1 \in Nat /\ n = m + 1 + (n - m - 1)
      BY <1>9 DEF Month
    <2>5. QED
      BY <2>3, <2>4 DEF T
  <1>10. MonthStart(y, 12) + 31 = YearStart(y + 1)
    BY <1>2, <1>5
  <1>11. MonthStart(y, 1) = YearStart(y)
    BY <1>5 DEF s
  <1>12. QED
    BY <1>4, <1>7, <1>8, <1>9, <1>10, <1>11

\* A day number within the years that are modelled.
IsDay(n) == n \in 0 .. YearStart(2100) - 1

\* Each of these days has a year, a month and a day of it.
LEMMA SomeDate ==
    ASSUME NEW n, IsDay(n)
    PROVE  \E y \in Year, m \in Month : n \in MonthStart(y, m) .. MonthStart(y, m) + DaysIn(y, m) - 1
  <1>1. YearStart(1970) = 0 /\ YearStart(2100) = 47482 /\ n \in Int
    BY DEF YearStart, IsDay
  <1> DEFINE T == {y \in Year : n < YearStart(y + 1)}
  <1>2. PICK y \in T : \A z \in T : y <= z
    <2>1. 2099 \in T
      BY <1>1 DEF IsDay, Year
    <2>2. T \subseteq Nat /\ T # {}
      <3>1. Year \subseteq Nat
        BY DEF Year
      <3>2. T \subseteq Year
        OBVIOUS
      <3> HIDE DEF T
      <3>3. QED
        BY <2>1, <3>1, <3>2
    <2> HIDE DEF T
    <2>3. QED
      BY <2>2, LeastNumber
  <1>3. y \in Year /\ n < YearStart(y + 1)
    OBVIOUS
  <1>4. YearStart(y) <= n
    <2>1. CASE y = 1970
      BY <1>1, <2>1 DEF IsDay
    <2>2. CASE y # 1970
      <3>1. y - 1 \in Year /\ ~(y <= y - 1) /\ (y - 1) + 1 = y
        BY <1>3, <2>2 DEF Year
      <3>2. ~(n < YearStart(y))
        BY <1>2, <3>1
      <3>3. YearStart(y) \in Int
        BY <1>3 DEF YearStart, Year
      <3>4. QED
        BY <1>1, <3>2, <3>3
    <2>3. QED
      BY <2>1, <2>2
  <1> HIDE DEF T
  <1> DEFINE U == {m \in Month : n < MonthStart(y, m) + DaysIn(y, m)}
  <1>5. PICK m \in U : \A z \in U : m <= z
    <2>1. 12 \in U
      BY <1>3, MonthStarts DEF Month
    <2>2. U \subseteq Nat /\ U # {}
      BY <2>1 DEF Month
    <2> HIDE DEF U
    <2>3. QED
      BY <2>2, LeastNumber
  <1>6. m \in Month /\ n < MonthStart(y, m) + DaysIn(y, m)
    OBVIOUS
  <1>7. MonthStart(y, m) <= n
    <2>1. CASE m = 1
      BY <1>3, <1>4, <2>1, MonthStarts
    <2>2. CASE m # 1
      <3>1. m - 1 \in Month /\ m - 1 < 12 /\ ~(m <= m - 1) /\ (m - 1) + 1 = m
        BY <1>6, <2>2 DEF Month
      <3>2. ~(n < MonthStart(y, m - 1) + DaysIn(y, m - 1))
        BY <1>5, <3>1
      <3>3. MonthStart(y, m) = MonthStart(y, m - 1) + DaysIn(y, m - 1) /\ MonthStart(y, m) \in Int
        BY <1>3, <1>6, <3>1, MonthStarts
      <3>4. QED
        BY <1>1, <3>2, <3>3
    <2>3. QED
      BY <2>1, <2>2
  <1> HIDE DEF U
  <1>8. MonthStart(y, m) \in Int /\ DaysIn(y, m) \in Int
    BY <1>3, <1>6, MonthStarts
  <1>9. QED
    BY <1>1, <1>3, <1>6, <1>7, <1>8

\* A date has a day number, and this day no other date.
LEMMA DateIs ==
    ASSUME NEW y \in Year, NEW m \in Month, NEW n \in MonthStart(y, m) .. MonthStart(y, m) + DaysIn(y, m) - 1
    PROVE  IsDay(n) /\ DateOf(n) = <<y, m, n - MonthStart(y, m) + 1>>
  <1>1. ASSUME NEW z \in Year, NEW k \in Month
        PROVE  /\ MonthStart(z, k) \in Int /\ DaysIn(z, k) \in Int /\ 28 <= DaysIn(z, k) /\ YearStart(z) \in Int /\ YearStart(z + 1) \in Int
               /\ YearStart(z) <= MonthStart(z, k) /\ MonthStart(z, k) + DaysIn(z, k) <= YearStart(z + 1)
    <2>1. \A a, b \in Month : a < b => MonthStart(z, a) + DaysIn(z, a) <= MonthStart(z, b)
      BY MonthStarts
    <2>2. /\ MonthStart(z, 1) = YearStart(z) /\ MonthStart(z, 12) + 31 = YearStart(z + 1) /\ DaysIn(z, 12) = 31
          /\ \A a \in Month : MonthStart(z, a) \in Int /\ DaysIn(z, a) \in Int /\ 28 <= DaysIn(z, a)
      BY MonthStarts
    <2>0. 1 \in Month /\ 12 \in Month /\ (k # 1 => 1 < k) /\ (k # 12 => k < 12)
      BY DEF Month
    <2>3. MonthStart(z, 1) <= MonthStart(z, k)
      <3>1. CASE k = 1
        BY <2>0, <2>2, <3>1
      <3>2. CASE k # 1
        <4>1. MonthStart(z, 1) + DaysIn(z, 1) <= MonthStart(z, k)
          BY <2>0, <2>1, <3>2
        <4>2. QED
          BY <2>0, <2>2, <4>1
      <3>3. QED
        BY <3>1, <3>2
    <2>4. MonthStart(z, k) + DaysIn(z, k) <= MonthStart(z, 12) + 31
      <3>1. CASE k = 12
        BY <2>0, <2>2, <3>1
      <3>2. CASE k # 12
        <4>1. MonthStart(z, k) + DaysIn(z, k) <= MonthStart(z, 12)
          BY <2>0, <2>1, <3>2
        <4>2. QED
          BY <2>0, <2>2, <4>1
      <3>3. QED
        BY <3>1, <3>2
    <2>5. YearStart(z) \in Int /\ YearStart(z + 1) \in Int
      BY YearLength
    <2>6. QED
      BY <2>0, <2>2, <2>3, <2>4, <2>5
  <1>2. n \in Int
    BY <1>1
  <1>3. n \in YearStart(y) .. YearStart(y + 1) - 1
    BY <1>1, <1>2
  <1>4. ASSUME NEW z \in Year, n \in YearStart(z) .. YearStart(z + 1) - 1 PROVE z = y
    <2>2. ~(y < z)
      <3>1. y < z => YearStart(y + 1) <= YearStart(z)
        BY YearLength
      <3>2. YearStart(z) \in Int /\ YearStart(y + 1) \in Int
        BY <1>1
      <3>3. QED
        BY <1>3, <1>4, <3>1, <3>2
    <2>3. ~(z < y)
      <3>1. z < y => YearStart(z + 1) <= YearStart(y)
        BY YearLength
      <3>2. YearStart(y) \in Int /\ YearStart(z + 1) \in Int
        BY <1>1
      <3>3. QED
        BY <1>3, <1>4, <3>1, <3>2
    <2>4. QED
      BY <2>2, <2>3 DEF Year
  <1>5. ASSUME NEW k \in Month, n \in MonthStart(y, k) .. MonthStart(y, k) + DaysIn(y, k) - 1 PROVE k = m
    <2>1. /\ k < m => MonthStart(y, k) + DaysIn(y, k) <= MonthStart(y, m)
          /\ m < k => MonthStart(y, m) + DaysIn(y, m) <= MonthStart(y, k)
      BY MonthStarts
    <2>2. MonthStart(y, k) \in Int /\ DaysIn(y, k) \in Int /\ MonthStart(y, m) \in Int /\ DaysIn(y, m) \in Int
      BY <1>1
    <2>3. QED
      BY <1>2, <1>5, <2>1, <2>2 DEF Month
  <1>6. (CHOOSE z \in Year : n \in YearStart(z) .. YearStart(z + 1) - 1) = y
    BY <1>3, <1>4
  <1>7. (CHOOSE k \in Month : n \in MonthStart(y, k) .. MonthStart(y, k) + DaysIn(y, k) - 1) = m
    BY <1>5
  <1>8. DateOf(n) = <<y, m, n - MonthStart(y, m) + 1>>
    <2> DEFINE year == CHOOSE z \in Year : n \in YearStart(z) .. YearStart(z + 1) - 1
               month == CHOOSE k \in Month : n \in MonthStart(year, k) .. MonthStart(year, k) + DaysIn(year, k) - 1
    <2>1. DateOf(n) = <<year, month, n - MonthStart(year, month) + 1>>
      BY DEF DateOf
    <2>2. year = y
      BY <1>6
    <2>3. month = m
      BY <1>7, <2>2
    <2> HIDE DEF year, month
    <2>4. QED
      BY <2>1, <2>2, <2>3
  <1>9. 0 <= YearStart(y) /\ YearStart(y + 1) <= YearStart(2100)
    BY DEF YearStart, Year
  <1>10. YearStart(2100) \in Int /\ YearStart(y) \in Int /\ YearStart(y + 1) \in Int
    BY DEF YearStart, Year
  <1>11. IsDay(n)
    BY <1>2, <1>3, <1>9, <1>10 DEF IsDay
  <1>12. QED
    BY <1>8, <1>11

\* Hours, minutes and seconds of a time of day make it up.
LEMMA ClockIs ==
    ASSUME NEW c \in Int, 0 <= c, c < 86400
    PROVE  /\ c \div 3600 \in 0 .. 23 /\ (c % 3600) \div 60 \in 0 .. 59 /\ c % 60 \in 0 .. 59
           /\ (c \div 3600) * 3600 + ((c % 3600) \div 60) * 60 + (c % 60) = c
  OBVIOUS

\* A number of seconds that is made of days, hours, minutes and seconds has just those.
LEMMA ClockOf ==
    ASSUME NEW d \in Int, NEW h \in Int, NEW m \in Int, NEW s \in Int,
           0 <= h, h < 24, 0 <= m, m < 60, 0 <= s, s < 60
    PROVE  LET l == d * 86400 + h * 3600 + m * 60 + s
               c == l % 86400
           IN  /\ l \div 86400 = d
               /\ c \div 3600 = h /\ (c % 3600) \div 60 = m /\ c % 60 = s
  <1> DEFINE c == h * 3600 + m * 60 + s
             l == d * 86400 + h * 3600 + m * 60 + s
  <1>1. c \in Int /\ 0 <= c /\ c < 86400 /\ l = d * 86400 + c
    OBVIOUS
  <1>2. c \div 3600 = h /\ (c % 3600) \div 60 = m /\ c % 60 = s
    OBVIOUS
  <1> HIDE DEF c
  <1>3. (d * 86400 + c) \div 86400 = d /\ (d * 86400 + c) % 86400 = c
    BY <1>1
  <1> HIDE DEF l
  <1>4. l \div 86400 = d /\ l % 86400 = c
    BY <1>1, <1>3
  <1>5. QED
    BY <1>2, <1>4 DEF l

\* The fields of a time that is a date with a time of day.
Fielded(y, m, d, h, mi, s) ==
    /\ y \in Year /\ m \in Month /\ d \in 1 .. DaysIn(y, m)
    /\ h \in 0 .. 23 /\ mi \in 0 .. 59 /\ s \in 0 .. 59

\* Local time is such a date, and mktime gives the local time back.
LEMMA WrittenTime ==
    ASSUME NEW t \in Int, NEW z, IsZone(z), Local(t, z) \in Int, IsDay(Local(t, z) \div Day)
    PROVE  \E y, m, d, h, mi, s :
               /\ Fielded(y, m, d, h, mi, s) /\ LocalTime(t, z) = <<y, m, d, h, mi, s>>
               /\ MkTime(<<y, m, d, h, mi, s>>, z) = Local(t, z) - z.offset
  <1> DEFINE l == Local(t, z)
             n == l \div Day
             c == l % Day
  <1>1. l \in Int /\ n \in Int /\ c \in Int /\ 0 <= c /\ c < 86400 /\ l = n * 86400 + c
    <2> HIDE DEF l
    <2>1. l \in Int
      BY DEF l
    <2>2. QED
      BY <2>1 DEF Day
  <1>2. PICK y \in Year, m \in Month : n \in MonthStart(y, m) .. MonthStart(y, m) + DaysIn(y, m) - 1
    BY SomeDate
  <1> DEFINE d == n - MonthStart(y, m) + 1
             h == c \div 3600
             mi == (c % 3600) \div 60
             s == c % 60
  <1>3. DateOf(n) = <<y, m, d>>
    <2> HIDE DEF n
    <2>1. QED
      BY <1>2, DateIs DEF d
  <1>4. MonthStart(y, m) \in Int /\ DaysIn(y, m) \in Int
    BY MonthStarts
  <1>5. d \in 1 .. DaysIn(y, m) /\ MonthStart(y, m) + d - 1 = n
    <2> HIDE DEF n
    <2>1. QED
      BY <1>1, <1>2, <1>4
  <1>6. h \in 0 .. 23 /\ mi \in 0 .. 59 /\ s \in 0 .. 59 /\ h * 3600 + mi * 60 + s = c
    <2> HIDE DEF c
    <2>1. QED
      BY <1>1, ClockIs
  <1>7. LocalTime(t, z) = <<y, m, d, h, mi, s>>
    BY <1>3 DEF LocalTime, Hour
  <1>8. Fielded(y, m, d, h, mi, s)
    BY <1>5, <1>6 DEF Fielded
  <1>9. MkTime(<<y, m, d, h, mi, s>>, z) = l - z.offset
    <2> DEFINE f == <<y, m, d, h, mi, s>>
    <2>1. f[1] = y /\ f[2] = m /\ f[3] = d /\ f[4] = h /\ f[5] = mi /\ f[6] = s
      OBVIOUS
    <2>2. MkTime(f, z) = (MonthStart(y, m) + d - 1) * 86400 + h * 3600 + mi * 60 + s - z.offset
      <3> HIDE DEF f, d, h, mi, s
      <3>1. QED
        BY <2>1 DEF MkTime, DayNumber, Day, Hour
    <2> HIDE DEF h, mi, s, d, n, c, l
    <2>0. z.offset \in Int
      BY DEF IsZone
    <2>3. (MonthStart(y, m) + d - 1) * 86400 + h * 3600 + mi * 60 + s - z.offset = l - z.offset
      BY <1>1, <1>4, <1>5, <1>6, <2>0
    <2>4. QED
      BY <2>2, <2>3
  <1> HIDE DEF d, h, mi, s
  <1>10. QED
    BY <1>7, <1>8, <1>9

\* The local time with these fields is written with them.
LEMMA ReadTimeIs ==
    ASSUME NEW y, NEW m, NEW d, NEW h, NEW mi, NEW s, Fielded(y, m, d, h, mi, s), NEW t, NEW z,
           Local(t, z) = (MonthStart(y, m) + d - 1) * Day + h * Hour + mi * 60 + s
    PROVE  LocalTime(t, z) = <<y, m, d, h, mi, s>>
  <1> DEFINE n == MonthStart(y, m) + d - 1
  <1>1. y \in Year /\ m \in Month /\ d \in 1 .. DaysIn(y, m)
        /\ h \in 0 .. 23 /\ mi \in 0 .. 59 /\ s \in 0 .. 59
    BY DEF Fielded
  <1>2. MonthStart(y, m) \in Int /\ DaysIn(y, m) \in Int
    BY <1>1, MonthStarts
  <1>3. n \in Int /\ n \in MonthStart(y, m) .. MonthStart(y, m) + DaysIn(y, m) - 1 /\ n - MonthStart(y, m) + 1 = d
    BY <1>1, <1>2
  <1>4. DateOf(n) = <<y, m, d>>
    <2> HIDE DEF n
    <2>1. DateOf(n) = <<y, m, n - MonthStart(y, m) + 1>>
      BY <1>1, <1>3, DateIs
    <2>2. QED
      BY <1>3, <2>1
  <1>5. Local(t, z) = n * 86400 + h * 3600 + mi * 60 + s
    BY DEF Day, Hour
  <1> HIDE DEF n
  <1> DEFINE l == n * 86400 + h * 3600 + mi * 60 + s
             c == l % 86400
  <1>6. l \div 86400 = n /\ c \div 3600 = h /\ (c % 3600) \div 60 = mi /\ c % 60 = s
    <2>1. h \in Int /\ mi \in Int /\ s \in Int /\ 0 <= h /\ h < 24 /\ 0 <= mi /\ mi < 60 /\ 0 <= s /\ s < 60
      BY <1>1
    <2>2. QED
      BY <1>3, <2>1, ClockOf
  <1>7. LocalTime(t, z) = <<y, m, d, c \div 3600, (c % 3600) \div 60, c % 60>>
    <2> HIDE DEF l
    <2>1. Local(t, z) = l
      BY <1>5 DEF l
    <2>2. QED
      BY <1>4, <1>6, <2>1 DEF LocalTime, Day, Hour
  <1> HIDE DEF l, c
  <1>8. QED
    BY <1>6, <1>7

\* Clearing fields.
LEMMA Cleared ==
    ASSUME NEW y, NEW m, NEW d, NEW h, NEW mi, NEW s
    PROVE  /\ MidnightOf(<<y, m, d, h, mi, s>>) = <<y, m, d, 0, 0, 0>>
           /\ FullHourOf(<<y, m, d, h, mi, s>>) = <<y, m, d, h, 0, 0>>
  BY DEF MidnightOf, FullHourOf

\* The instant at which a zone has these fields in winter.
Winter(y, m, d, h, mi, s, z) == (MonthStart(y, m) + d - 1) * Day + h * Hour + mi * 60 + s - z.offset

\* What is parsed if it is a date.
LEMMA ParseIs ==
    ASSUME NEW y, NEW m, NEW d, NEW h, NEW mi, NEW s, Fielded(y, m, d, h, mi, s), NEW z, IsZone(z)
    PROVE  /\ MkTime(<<y, m, d, h, mi, s>>, z) = Winter(y, m, d, h, mi, s, z)
           /\ ParseTime(<<y, m, d, h, mi, s>>, z) = Unsigned(Winter(y, m, d, h, mi, s, z))
           /\ ParseDayShortTime(<<y, m, d, h, mi, s>>, z) = Unsigned(Winter(y, m, d, 0, 0, 0, z))
  <1>1. y \in Year /\ m \in Month /\ d \in 1 .. DaysIn(y, m)
        /\ h \in 0 .. 23 /\ mi \in 0 .. 59 /\ s \in 0 .. 59
    BY DEF Fielded
  <1>2. MonthStart(y, m) \in Int /\ DaysIn(y, m) \in Int /\ DaysIn(y, m) <= 31
    BY <1>1, MonthStarts
  <1>3. d \in 1 .. 31 /\ d \in Int
    BY <1>1, <1>2
  <1> DEFINE f == <<y, m, d, h, mi, s>>
             e == <<y, m, d, 0, 0, 0>>
  <1>4. /\ f[1] = y /\ f[2] = m /\ f[3] = d /\ f[4] = h /\ f[5] = mi /\ f[6] = s
        /\ e[1] = y /\ e[2] = m /\ e[3] = d /\ e[4] = 0 /\ e[5] = 0 /\ e[6] = 0
    OBVIOUS
  <1>5. InRange(f) /\ InRange(e)
    <2> HIDE DEF f, e
    <2>1. QED
      BY <1>1, <1>3, <1>4 DEF InRange
  <1>6. MkTime(f, z) = Winter(y, m, d, h, mi, s, z)
    <2> HIDE DEF f
    <2>1. QED
      BY <1>4 DEF MkTime, DayNumber, Winter
  <1>7. ParseTime(f, z) = Unsigned(MkTime(f, z))
    <2> HIDE DEF f
    <2>1. QED
      BY <1>5 DEF ParseTime
  <1>8. ParseDayShortTime(f, z) = Unsigned(MkTime(e, z))
    <2>1. MkTime(<<f[1], f[2], f[3], 0, 0, 0>>, z) = MkTime(e, z)
      BY <1>4
    <2> HIDE DEF f, e
    <2>2. QED
      BY <1>1, <1>3, <1>4, <2>1 DEF ParseDayShortTime
  <1>9. MkTime(e, z) = Winter(y, m, d, 0, 0, 0, z)
    <2> HIDE DEF e
    <2>1. QED
      BY <1>4 DEF MkTime, DayNumber, Winter
  <1>10. QED
    BY <1>6, <1>7, <1>8, <1>9

\* Nothing is lost of a time that a uint32_t has room for.
LEMMA UnsignedIs == ASSUME NEW t \in Int, t >= 0, t < Wrap PROVE Unsigned(t) = t
  <1>1. Wrap \in Nat
    BY WrapAssumption
  <1>2. QED
    BY <1>1 DEF Unsigned

\* Where there is no summer time.
LEMMA WinterTime ==
    ASSUME NEW t \in Int, NEW z, IsZone(z)
    PROVE  /\ Local(t, z) \in Int
           /\ Local(t, z) = t + z.offset + (IF IsSummer(t, z) THEN Hour ELSE 0)
           /\ NoSummer(z) => ~IsSummer(t, z) /\ Local(t, z) = t + z.offset
  BY DEF Local, IsSummer, NoSummer, Hour, IsZone

\* What is written is parsed as it was, with the exceptions named.
LEMMA WrittenTimes ==
    ASSUME NEW t \in Int, t < Wrap, NEW z, IsZone(z), IsDay(Local(t, z) \div Day)
    PROVE  WrittenIsParsed(t, TimeToStr(t, z), z)
  <1>0. z.offset \in Int
    BY DEF IsZone
  <1>1. Local(t, z) \in Int
    BY WinterTime
  <1>2. PICK y, m, d, h, mi, s :
            /\ Fielded(y, m, d, h, mi, s) /\ LocalTime(t, z) = <<y, m, d, h, mi, s>>
            /\ MkTime(<<y, m, d, h, mi, s>>, z) = Local(t, z) - z.offset
    BY <1>1, WrittenTime
  <1>3. Fielded(y, m, d, 0, 0, 0) /\ Fielded(y, m, d, h, 0, 0)
    BY <1>2 DEF Fielded
  <1> DEFINE b == (MonthStart(y, m) + d - 1) * Day
             day == b - z.offset
             hour == b + h * Hour - z.offset
  <1>4. b \in Int /\ h \in 0 .. 23 /\ mi \in 0 .. 59 /\ s \in 0 .. 59
    <2>1. y \in Year /\ m \in Month /\ d \in 1 .. DaysIn(y, m) /\ h \in 0 .. 23 /\ mi \in 0 .. 59 /\ s \in 0 .. 59
      BY <1>2 DEF Fielded
    <2>2. MonthStart(y, m) \in Int /\ DaysIn(y, m) \in Int
      BY <2>1, MonthStarts
    <2>3. QED
      BY <2>1, <2>2 DEF Day
  <1>5. /\ MkTime(<<y, m, d, h, mi, s>>, z) = b + h * Hour + mi * 60 + s - z.offset
        /\ ParseTime(<<y, m, d, h, mi, s>>, z) = Unsigned(b + h * Hour + mi * 60 + s - z.offset)
    <2>1. /\ MkTime(<<y, m, d, h, mi, s>>, z) = Winter(y, m, d, h, mi, s, z)
          /\ ParseTime(<<y, m, d, h, mi, s>>, z) = Unsigned(Winter(y, m, d, h, mi, s, z))
      BY <1>2, ParseIs
    <2>2. QED
      BY <2>1 DEF Winter
  <1>6. TimestampToDay(t, z) = ParseTime(<<y, m, d, 0, 0, 0>>, z)
    BY <1>2, Cleared DEF TimestampToDay, MidnightOf
  <1>7. TimestampToHour(t, z) = ParseTime(<<y, m, d, h, 0, 0>>, z)
    BY <1>2, Cleared DEF TimestampToHour, FullHourOf
  <1>8. /\ MkTime(<<y, m, d, 0, 0, 0>>, z) = day
        /\ ParseTime(<<y, m, d, 0, 0, 0>>, z) = Unsigned(day)
        /\ ParseDayShortTime(<<y, m, d, h, mi, s>>, z) = Unsigned(day)
    <2>1. Winter(y, m, d, 0, 0, 0, z) = day
      <3>1. Winter(y, m, d, 0, 0, 0, z) = b + 0 * Hour + 0 * 60 + 0 - z.offset
        BY DEF Winter
      <3> HIDE DEF b
      <3>2. QED
        BY <1>0, <1>4, <3>1 DEF Hour
    <2> HIDE DEF b, day
    <2>2. QED
      BY <1>2, <1>3, <2>1, ParseIs
  <1>9. ParseTime(<<y, m, d, h, 0, 0>>, z) = Unsigned(hour)
    <2>1. Winter(y, m, d, h, 0, 0, z) = hour
      <3>1. Winter(y, m, d, h, 0, 0, z) = b + h * Hour + 0 * 60 + 0 - z.offset
        BY DEF Winter
      <3> HIDE DEF b
      <3>2. QED
        BY <1>0, <1>4, <3>1 DEF Hour
    <2> HIDE DEF b, hour
    <2>2. QED
      BY <1>3, <2>1, ParseIs
  <1>10. day \in Int /\ hour \in Int
    <2> HIDE DEF b
    <2>1. QED
      BY <1>0, <1>4 DEF Hour
  <1>11. Local(t, z) = b + h * Hour + mi * 60 + s
    <2> HIDE DEF b
    <2>1. b + h * Hour + mi * 60 + s - z.offset = Local(t, z) - z.offset
      BY <1>2, <1>5
    <2>2. QED
      BY <1>0, <1>1, <1>4, <2>1 DEF Hour
  <1>12. ParseTime(TimeToStr(t, z), z) = Unsigned(t + (IF IsSummer(t, z) THEN Hour ELSE 0))
    <2>1. TimeToStr(t, z) = <<y, m, d, h, mi, s>>
      BY <1>2 DEF TimeToStr
    <2> HIDE DEF b
    <2>2. b + h * Hour + mi * 60 + s - z.offset = t + (IF IsSummer(t, z) THEN Hour ELSE 0)
      BY <1>0, <1>1, <1>4, <1>11, WinterTime DEF Hour
    <2>3. QED
      BY <1>5, <2>1, <2>2
  <1>13. ASSUME NoSummer(z), MkTime(MidnightOf(TimeToStr(t, z)), z) >= 0
         PROVE  /\ Unsigned(day) = day /\ Unsigned(hour) = hour
                /\ LocalTime(day, z) = MidnightOf(TimeToStr(t, z))
                /\ LocalTime(hour, z) = FullHourOf(TimeToStr(t, z))
                /\ day <= hour /\ hour <= t /\ t < hour + Hour /\ t < day + Day
    <2>1. TimeToStr(t, z) = <<y, m, d, h, mi, s>>
      BY <1>2 DEF TimeToStr
    <2>2. Local(day, z) = b + 0 * Hour + 0 * 60 + 0 /\ Local(hour, z) = b + h * Hour + 0 * 60 + 0
      <3>1. Local(day, z) = day + z.offset /\ Local(hour, z) = hour + z.offset
        <4> HIDE DEF day, hour
        <4>1. QED
          BY <1>10, <1>13, WinterTime
      <3> HIDE DEF b
      <3>2. QED
        BY <1>0, <1>4, <3>1 DEF Hour
    <2>3. LocalTime(day, z) = <<y, m, d, 0, 0, 0>>
      <3> HIDE DEF day
      <3>1. QED
        BY <1>3, <2>2, ReadTimeIs
    <2>4. LocalTime(hour, z) = <<y, m, d, h, 0, 0>>
      <3> HIDE DEF hour
      <3>1. QED
        BY <1>3, <2>2, ReadTimeIs
    <2>5. day >= 0
      <3> HIDE DEF day
      <3>1. QED
        BY <1>8, <1>13, <2>1, Cleared
    <2>6. day <= hour /\ hour <= t /\ t < hour + Hour /\ t < day + Day
      <3>1. t = b + h * Hour + mi * 60 + s - z.offset
        <4> HIDE DEF b
        <4>1. t + z.offset = b + h * Hour + mi * 60 + s
          BY <1>11, <1>13, WinterTime
        <4>2. QED
          BY <1>0, <1>4, <4>1 DEF Hour
      <3> HIDE DEF b
      <3>2. QED
        BY <1>0, <1>4, <3>1 DEF Hour, Day
    <2> HIDE DEF day, hour
    <2>7. day < Wrap /\ hour < Wrap /\ hour >= 0
      BY <1>10, <2>5, <2>6, WrapAssumption
    <2>8. Unsigned(day) = day /\ Unsigned(hour) = hour
      BY <1>10, <2>5, <2>7, UnsignedIs
    <2>9. QED
      BY <2>1, <2>3, <2>4, <2>6, <2>8, Cleared
  <1> HIDE DEF day, hour, b
  <1>14. TimestampToDay(t, z) = Unsigned(day) /\ TimestampToHour(t, z) = Unsigned(hour)
    BY <1>6, <1>7, <1>8, <1>9
  <1>15. ParseDayShortTime(TimeToStr(t, z), z) = Unsigned(day)
    BY <1>2, <1>8 DEF TimeToStr
  <1>16. QED
    BY <1>12, <1>13, <1>14, <1>15 DEF WrittenIsParsed

\* What strptime accepts leaves room for a day more.
LEMMA RoomBehind ==
    ASSUME NEW f \in [1 .. 6 -> Int], f[1] \in 1970 .. 2098, InRange(f)
    PROVE  /\ f[1] \in Year /\ f[1] + 1 \in Year /\ f[2] \in Month
           /\ DayNumber(f) \in Int /\ IsDay(DayNumber(f)) /\ IsDay(DayNumber(f) + 1)
           /\ ~IsDate(f) => f[2] < 12
  <1> DEFINE y == f[1]
             m == f[2]
             d == f[3]
  <1>1. y \in Year /\ y + 1 \in Year /\ m \in Month /\ d \in 1 .. 31
    BY DEF InRange, Year
  <1>2. DayNumber(f) = MonthStart(y, m) + d - 1
    BY DEF DayNumber
  <1> HIDE DEF y, m, d
  <1>3. /\ MonthStart(y, m) \in Int /\ DaysIn(y, m) \in Int /\ 28 <= DaysIn(y, m)
        /\ DaysIn(y, 12) = 31 /\ MonthStart(y, 12) + 31 = YearStart(y + 1) /\ 1 \in Month /\ 12 \in Month
    BY <1>1, MonthStarts DEF Month
  <1>4. MonthStart(y, m) + 28 <= YearStart(y + 1) /\ YearStart(y) <= MonthStart(y, m)
    <2>1. CASE m = 12
      <3>1. MonthStart(y, 1) + DaysIn(y, 1) <= MonthStart(y, 12) /\ MonthStart(y, 1) = YearStart(y)
            /\ 28 <= DaysIn(y, 1) /\ DaysIn(y, 1) \in Int /\ MonthStart(y, 1) \in Int
        BY <1>1, <1>3, MonthStarts
      <3>2. QED
        BY <1>3, <2>1, <3>1
    <2>2. CASE m # 12
      <3>1. m < 12
        BY <1>1, <2>2 DEF Month
      <3>2. MonthStart(y, m) + DaysIn(y, m) <= MonthStart(y, 12) /\ MonthStart(y, 12) \in Int
        BY <1>1, <1>3, <3>1, MonthStarts
      <3>3. YearStart(y) <= MonthStart(y, m)
        <4>1. CASE m = 1
          BY <1>1, <1>3, <4>1, MonthStarts
        <4>2. CASE m # 1
          <5>1. 1 < m
            BY <1>1, <4>2 DEF Month
          <5>2. MonthStart(y, 1) + DaysIn(y, 1) <= MonthStart(y, m) /\ MonthStart(y, 1) = YearStart(y)
                /\ 28 <= DaysIn(y, 1) /\ DaysIn(y, 1) \in Int /\ MonthStart(y, 1) \in Int
            BY <1>1, <1>3, <5>1, MonthStarts
          <5>3. QED
            BY <1>3, <5>2
        <4>3. QED
          BY <4>1, <4>2
      <3>4. QED
        BY <1>3, <3>2, <3>3
    <2>3. QED
      BY <2>1, <2>2
  <1>5. /\ YearStart(y) \in Int /\ YearStart(y + 1) \in Int /\ 0 <= YearStart(y)
        /\ YearStart(y + 1) + 365 <= YearStart(2100) /\ YearStart(2100) \in Int
    BY <1>1 DEF YearStart, Year
  <1>6. DayNumber(f) \in Int /\ IsDay(DayNumber(f)) /\ IsDay(DayNumber(f) + 1)
    BY <1>1, <1>2, <1>3, <1>4, <1>5 DEF IsDay
  <1>7. ASSUME ~IsDate(f) PROVE m < 12
    <2>1. m # 12
      BY <1>1, <1>3, <1>7 DEF IsDate, y, m, d
    <2>2. QED
      BY <1>1, <2>1 DEF Month
  <1>8. QED
    BY <1>1, <1>6, <1>7 DEF y, m

\* Fields of a date with a time of day.
IsTime(f) == \E y, m, d, h, mi, s : Fielded(y, m, d, h, mi, s) /\ f = <<y, m, d, h, mi, s>>

\* What is written is a date with a time of day.
LEMMA WrittenIsTime ==
    ASSUME NEW t \in Int, NEW z, IsZone(z), IsDay(Local(t, z) \div Day)
    PROVE  IsTime(LocalTime(t, z))
  <1>1. Local(t, z) \in Int
    BY WinterTime
  <1>2. PICK y, m, d, h, mi, s :
            /\ Fielded(y, m, d, h, mi, s) /\ LocalTime(t, z) = <<y, m, d, h, mi, s>>
            /\ MkTime(<<y, m, d, h, mi, s>>, z) = Local(t, z) - z.offset
    BY <1>1, WrittenTime
  <1>3. QED
    BY <1>2 DEF IsTime

\* What is parsed is written as it was just if it is a date and no leap second.
LEMMA ParsedTimes ==
    ASSUME NEW f \in [1 .. 6 -> Int], f[1] \in 1970 .. 2098, NEW z, IsZone(z),
           NoSummer(z), ParseTime(f, z) # Rejected, InRange(f) => MkTime(f, z) < Wrap
    PROVE  ParsedIsWritten(f, ParseTime(f, z), z)
  <1>1. InRange(f) /\ ParseTime(f, z) = Unsigned(MkTime(f, z)) /\ MkTime(f, z) < Wrap
    BY DEF ParseTime
  <1>2. /\ f[1] \in Year /\ f[1] + 1 \in Year /\ f[2] \in Month
        /\ DayNumber(f) \in Int /\ IsDay(DayNumber(f)) /\ IsDay(DayNumber(f) + 1)
        /\ ~IsDate(f) => f[2] < 12
    BY <1>1, RoomBehind
  <1>3. f[3] \in 1 .. 31 /\ f[4] \in 0 .. 23 /\ f[5] \in 0 .. 59 /\ f[6] \in 0 .. 61
    BY <1>1 DEF InRange
  <1> DEFINE t == MkTime(f, z)
             clock == f[4] * Hour + f[5] * 60 + f[6]
  <1>4. t = DayNumber(f) * Day + f[4] * Hour + f[5] * 60 + f[6] - z.offset /\ t \in Int
    <2>1. t = DayNumber(f) * Day + f[4] * Hour + f[5] * 60 + f[6] - z.offset
      BY DEF MkTime
    <2> HIDE DEF t
    <2>3. z.offset \in Int
      BY DEF IsZone
    <2>2. QED
      BY <1>2, <1>3, <2>1, <2>3 DEF Day, Hour
  <1> HIDE DEF t
  <1>5. Local(t, z) = DayNumber(f) * Day + f[4] * Hour + f[5] * 60 + f[6] /\ Local(t, z) \in Int
    <2>1. Local(t, z) = t + z.offset
      BY <1>4, WinterTime
    <2>2. z.offset \in Int
      BY DEF IsZone
    <2>3. QED
      BY <1>2, <1>3, <1>4, <2>1, <2>2 DEF Day, Hour
  <1>6. IsDay(Local(t, z) \div Day)
    <2>1. clock \in Int /\ 0 <= clock /\ clock < 2 * 86400
      BY <1>3 DEF Hour
    <2>2. Local(t, z) = DayNumber(f) * 86400 + clock
      BY <1>2, <1>3, <1>5 DEF Day, Hour
    <2> HIDE DEF clock
    <2>3. Local(t, z) \div 86400 = DayNumber(f) \/ Local(t, z) \div 86400 = DayNumber(f) + 1
      BY <1>2, <2>1, <2>2
    <2>4. QED
      BY <1>2, <2>3 DEF Day
  <1>7. PICK y, m, d, h, mi, s : Fielded(y, m, d, h, mi, s) /\ LocalTime(t, z) = <<y, m, d, h, mi, s>>
    <2>1. t \in Int
      BY <1>4
    <2>2. IsTime(LocalTime(t, z))
      BY <1>6, <2>1, WrittenIsTime
    <2>3. QED
      BY <2>2 DEF IsTime
  <1>8. f = <<f[1], f[2], f[3], f[4], f[5], f[6]>>
    OBVIOUS
  <1>9. ASSUME IsDate(f), f[6] < 60 PROVE LocalTime(t, z) = f
    <2>1. Fielded(f[1], f[2], f[3], f[4], f[5], f[6])
      BY <1>2, <1>3, <1>9 DEF Fielded, IsDate
    <2>2. Local(t, z) = (MonthStart(f[1], f[2]) + f[3] - 1) * Day + f[4] * Hour + f[5] * 60 + f[6]
      BY <1>5 DEF DayNumber
    <2>3. LocalTime(t, z) = <<f[1], f[2], f[3], f[4], f[5], f[6]>>
      BY <2>1, <2>2, ReadTimeIs
    <2>4. QED
      BY <1>8, <2>3
  <1>10. ASSUME LocalTime(t, z) = f PROVE IsDate(f) /\ f[6] < 60
    <2>1. f[1] = y /\ f[2] = m /\ f[3] = d /\ f[6] = s
      BY <1>7, <1>10
    <2>2. QED
      BY <1>7, <2>1 DEF Fielded, IsDate
  <1>11. ASSUME ~IsDate(f)
         PROVE  ParseTime(f, z) = ParseTime([f EXCEPT ![2] = @ + 1, ![3] = @ - DaysIn(f[1], f[2])], z)
    <2> DEFINE g == [f EXCEPT ![2] = @ + 1, ![3] = @ - DaysIn(f[1], f[2])]
               k == f[2]
               l == DaysIn(f[1], k)
    <2>1. /\ g[1] = f[1] /\ g[2] = k + 1 /\ g[3] = f[3] - l
          /\ g[4] = f[4] /\ g[5] = f[5] /\ g[6] = f[6]
      OBVIOUS
    <2> HIDE DEF g
    <2>2. k \in Month /\ k < 12 /\ k + 1 \in Month
      BY <1>2, <1>11 DEF Month
    <2>3. l \in Int /\ 28 <= l /\ MonthStart(f[1], k + 1) = MonthStart(f[1], k) + l /\ MonthStart(f[1], k) \in Int
      BY <1>2, <2>2, MonthStarts
    <2>4. ~(f[3] \in 1 .. l)
      BY <1>2, <1>11 DEF IsDate
    <2> HIDE DEF k, l
    <2>5. f[3] - l \in 1 .. 31
      BY <1>3, <2>3, <2>4
    <2>6. InRange(g)
      BY <1>3, <2>1, <2>2, <2>5 DEF InRange
    <2>7. DayNumber(g) = DayNumber(f)
      <3>1. DayNumber(g) = MonthStart(f[1], k + 1) + (f[3] - l) - 1
        BY <2>1 DEF DayNumber
      <3>2. DayNumber(f) = MonthStart(f[1], k) + f[3] - 1
        BY DEF DayNumber, k
      <3>3. QED
        BY <1>3, <2>3, <3>1, <3>2
    <2>8. MkTime(g, z) = DayNumber(f) * Day + f[4] * Hour + f[5] * 60 + f[6] - z.offset
      BY <2>1, <2>7 DEF MkTime
    <2>9. ParseTime(g, z) = Unsigned(t)
      BY <1>4, <2>6, <2>8 DEF ParseTime
    <2>10. QED
      BY <1>1, <2>9 DEF g, k, l, t
  <1>12. ASSUME MkTime(f, z) >= 0 PROVE ParseTime(f, z) = t
    BY <1>1, <1>4, <1>12, UnsignedIs DEF t
  <1>13. QED
    BY <1>9, <1>10, <1>11, <1>12 DEF ParsedIsWritten, TimeToStr

\* What a call of these functions was given and what it gives.
TimesInv ==
    /\ fn = "time" => \E z \in Zones, t \in Instants : arg = [at |-> t, zone |-> z] /\ res = TimeToStr(t, z)
    /\ fn = "parse" => \E z \in Zones, f \in Fields : arg = [fields |-> f, zone |-> z] /\ res = ParseTime(f, z)

\* TimesKept follows from what the functions give: a time of any of the years modelled, in any
\* zone, is parsed as it was written, and any fields are written as they were parsed, but where the
\* property names it: in summer, before 1970 in Greenwich (a uint32_t wraps), and for a day that the
\* month does not have, which is taken for one of the next month and not rejected.
THEOREM TimesKeptHolds == WrittenSpec => []TimesKept
  <1>1. CallInit => TimesInv
    BY DEF CallInit, TimesInv
  <1>2. TimesInv /\ [WrittenNext]_callVars => TimesInv'
    <2> SUFFICES ASSUME TimesInv, [WrittenNext]_callVars PROVE TimesInv'
      OBVIOUS
    <2>1. CASE WriteTime
      BY <2>1 DEF WriteTime, Called, TimesInv
    <2>2. CASE ReadTime
      BY <2>2 DEF ReadTime, Called, TimesInv
    <2>3. CASE Base64
      BY <2>3 DEF Base64, Called, TimesInv
    <2>4. CASE EncodeUri
      BY <2>4 DEF EncodeUri, Called, TimesInv
    <2>5. CASE EncodeUrl
      BY <2>5 DEF EncodeUrl, Called, TimesInv
    <2>6. CASE DecodeUri
      BY <2>6 DEF DecodeUri, Called, TimesInv
    <2>7. CASE EncryptRc4
      BY <2>7 DEF EncryptRc4, Called, TimesInv
    <2>8. CASE UNCHANGED callVars
      BY <2>8 DEF callVars, TimesInv
    <2>9. QED
      BY <2>1, <2>2, <2>3, <2>4, <2>5, <2>6, <2>7, <2>8 DEF WrittenNext
  <1>3. TimesInv => TimesKept
    <2> SUFFICES ASSUME TimesInv PROVE TimesKept
      OBVIOUS
    <2>1. ASSUME fn = "time" PROVE WrittenIsParsed(arg.at, res, arg.zone)
      <3>1. PICK z \in Zones, t \in Instants : arg = [at |-> t, zone |-> z] /\ res = TimeToStr(t, z)
        BY <2>1 DEF TimesInv
      <3>2. t \in Int /\ t < Wrap /\ IsZone(z) /\ IsDay(Local(t, z) \div Day)
        BY TimesAssumption DEF IsDay
      <3>3. WrittenIsParsed(t, TimeToStr(t, z), z)
        BY <3>2, WrittenTimes
      <3>4. arg.at = t /\ arg.zone = z
        BY <3>1
      <3>5. QED
        BY <3>1, <3>3, <3>4
    <2>2. ASSUME fn = "parse", res # Rejected, NoSummer(arg.zone) PROVE ParsedIsWritten(arg.fields, res, arg.zone)
      <3>1. PICK z \in Zones, f \in Fields : arg = [fields |-> f, zone |-> z] /\ res = ParseTime(f, z)
        BY <2>2 DEF TimesInv
      <3>2. /\ f \in [1 .. 6 -> Int] /\ f[1] \in 1970 .. 2098 /\ IsZone(z)
            /\ InRange(f) => MkTime(f, z) < Wrap
        BY TimesAssumption
      <3>3. arg.fields = f /\ arg.zone = z
        BY <3>1
      <3>4. ParsedIsWritten(f, ParseTime(f, z), z)
        BY <2>2, <3>1, <3>2, <3>3, ParsedTimes
      <3>5. QED
        BY <3>1, <3>3, <3>4
    <2>3. QED
      BY <2>1, <2>2 DEF TimesKept
  <1>4. QED
    BY <1>1, <1>2, <1>3, PTL DEF WrittenSpec

\* What is written is read back, codes and times.
THEOREM WrittenIsReadHolds == WrittenSpec => []WrittenIsRead
  BY CodecsInvertHolds, TimesKeptHolds, PTL DEF WrittenIsRead
=============================================================================
