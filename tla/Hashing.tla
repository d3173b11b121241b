------------------------------ MODULE Hashing ------------------------------
(***************************************************************************)
(* The incremental hash, CMurmurHash2A of common/murmurhash2.cc, to which  *)
(* an input is added chunk by chunk, and what it and the other hash        *)
(* functions must have in common with the one that they stand for.         *)
(***************************************************************************)
EXTENDS WordHashes

CONSTANT Inputs

ASSUME InputsAssumption == \A s \in Inputs : s \in Seq(Nat \ {0})

VARIABLES input,   \* what is to be hashed
          at,      \* how much of it was added
          hash     \* the CMurmurHash2A

hashVars == <<input, at, hash>>

\* An object is used from its first Begin on.
HashInit == input = <<>> /\ at = 0 /\ hash = Begin

BeginHash == /\ input' \in Inputs
             /\ at' = 0
             /\ hash' = Begin

AddChunk == \E n \in 0 .. Len(input) - at :
                /\ hash' = Add(hash, SubSeq(input, at + 1, at + n))
                /\ at' = at + n
                /\ UNCHANGED input

HashNext == BeginHash \/ AddChunk

HashSpec == HashInit /\ [][HashNext]_hashVars

-----------------------------------------------------------------------------
\* However its input is cut into chunks, CMurmurHash2A mixes the words that MurmurHash2A does.
Incremental ==
    LET whole == OneShot(SubSeq(input, 1, at), 4)
    IN  hash = [words |-> whole.words, tail |-> whole.tail, size |-> at]

\* The two lanes of MurmurHash2_64B take each word once, in turn.
TakenInTurn(s) ==
    LET whole == OneShot(s, 4)
        lanes == Lanes(s)
    IN  /\ lanes.tail = whole.tail
        /\ whole.words = [k \in 1 .. Len(whole.words) |->
                              IF k % 2 = 1 THEN lanes.h1[(k + 1) \div 2] ELSE lanes.h2[k \div 2]]
        /\ Len(lanes.h1) + Len(lanes.h2) = Len(whole.words)

\* CMurmurHash2A is "designed to work incrementally" (murmurhash2.cc:248), MurmurHashAligned2
\* is "same algorithm as MurmurHash2" (386) wherever its input lies, and MurmurHash2_64B
\* mixes each word once.
HashesAgree ==
    /\ Incremental
    /\ \A align \in 0 .. 3 : Aligned(input, align) = OneShot(input, 4)
    /\ TakenInTurn(input)
=============================================================================
