----------------------------- MODULE MCCoreBPE -----------------------------
(* A CoreBPE: its vocabulary is read and it is made; while it is there, threads *)
(* match with it; it is deleted when they are done.                             *)
(*                                                                              *)
(* Three bytes, of which 0 is not printable and is written as character 3;      *)
(* character 9 stands for no byte.                                              *)
EXTENDS Vocabulary

CONSTANTS Threads, Hashes, MaxMatches

VARIABLES hash, block, matchPc, kind, done, got

slotVars == <<hash, block, matchPc, kind, done, got>>

Slots == INSTANCE MatchSlots WITH pc <- matchPc, NumSlots <- MaxNumThreads

ASSUME SlotsAssumption == Slots!SlotsAssumption

MCEndOfText == <<1, 2, 2, 1>>
MCStartOfText == <<2, 1, 1, 2>>

CharOf(byte) == IF byte = 0 THEN 3 ELSE byte

MergeFields == {<<<<1>>, <<2>>>>, <<<<3>>, <<1>>>>, <<<<1, 2>>, <<2>>>>,
                <<<<>>, <<1>>>>, <<<<9>>, <<1>>>>, <<<<1>>>>}

\* Bound: up to three lines after the first.
GymLines == {<<<<<<1>>>>>> \o ls : ls \in BoundedSeq(MergeFields, 3)}

Words(lines) == LET merges == SelectSeq(Tail(lines), LAMBDA f : Len(f) = 2)
                IN  [k \in DOMAIN merges |-> merges[k][1] \o merges[k][2]]

\* encoder.json as a careful tool writes it: each word once, numbered without a gap,
\* and the marks at the end of text among them.
Numbered(words) ==
    LET distinct == SelectSeq([k \in DOMAIN words |-> <<k, words[k]>>],
                              LAMBDA p : \A j \in 1 .. p[1] - 1 : words[j] # p[2])
    IN  [b \in 1 .. 3 |-> <<<<CharOf(<<1, 2, 0>>[b])>>, b - 1>>]
        \o [k \in DOMAIN distinct |-> <<distinct[k][2], k + 2>>]
        \o <<<<MCEndOfText, 50>>, <<MCStartOfText, 51>>>>

\* ... and as one that numbers lines and leaves the gaps of the repeated ones.
WithGaps(words) ==
    [b \in 1 .. 3 |-> <<<<CharOf(<<1, 2, 0>>[b])>>, b - 1>>]
    \o [k \in DOMAIN words |-> <<words[k], k + 2>>]

Swapped(words) == IF Len(words) < 2 THEN words ELSE <<words[2], words[1]>> \o SubSeq(words, 3, Len(words))

MCSources ==
    UNION {{[kind |-> "gym", lines |-> ls, json |-> json, parses |-> ok] :
               ok \in BOOLEAN,
               json \in {Numbered(Words(ls)), WithGaps(Words(ls)), Numbered(Swapped(Words(ls)))}}
           : ls \in GymLines}
    \cup {[kind |-> "tiktoken", lines |-> ls] :
             ls \in BoundedSeq({<<>>} \cup ({<<0>>, <<1>>, <<1, 1>>} \X (0 .. 2)), 3)}
\* No definition tells the threads apart.
ThreadSymmetry == Permutations(Threads)

\* The vocabulary that threads encode with.
Shared == [kind |-> "tiktoken", lines |-> <<<<<<0>>, 0>>>>]

CoreInit ==
    /\ Init /\ Slots!Init
    /\ source # Shared \/ names # <<"endoftext">> => hash = [t \in Threads |-> 0]

\* No thread has begun, or all are done and have been joined.
Quiet == \/ \A t \in Threads : matchPc[t] = "ready" /\ done[t] = 0
         \/ \A t \in Threads : matchPc[t] = "ready" /\ done[t] = MaxMatches

CoreNext ==
    \/ Quiet /\ Next /\ UNCHANGED slotVars
    \/ source = Shared /\ names = <<"endoftext">> /\ pc = "ready" /\ Slots!Next /\ UNCHANGED vars

CoreSpec == CoreInit /\ [][CoreNext]_<<vars, slotVars>>

AloneReadsOwn == Slots!AloneReadsOwn
=============================================================================
