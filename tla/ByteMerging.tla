---------------------------- MODULE ByteMerging ----------------------------
(***************************************************************************)
(* What byte pair encoding promises (the abstract specification): a piece  *)
(* is cut into segments, at first one per byte; every step joins the two   *)
(* neighbours whose concatenation has the lowest rank, the leftmost of     *)
(* equals, and the merging ends when no two neighbours join to a ranked    *)
(* word.  No rank is remembered from one step to the next.                 *)
(***************************************************************************)
EXTENDS Integers, Sequences

VARIABLES piece,       \* the byte string being encoded
          ranks,       \* the vocabulary: a function from byte strings to ranks
          segs,        \* the segments of the piece, in order
          ended        \* has the merging ended?

vars == <<piece, ranks, segs, ended>>

Joined(i) == segs[i] \o segs[i + 1]

Joinable == {i \in 1 .. Len(segs) - 1 : Joined(i) \in DOMAIN ranks}

\* The pair at i comes before the pair at j in the merge order.
Before(i, j) ==
    \/ ranks[Joined(i)] < ranks[Joined(j)]
    \/ ranks[Joined(i)] = ranks[Joined(j)] /\ i <= j

Init == ~ended /\ segs = [i \in 1 .. Len(piece) |-> <<piece[i]>>]

Join == /\ ~ended
        /\ \E i \in Joinable :
              /\ \A j \in Joinable : Before(i, j)
              /\ segs' = [k \in 1 .. Len(segs) - 1 |->
                             IF k < i THEN segs[k]
                             ELSE IF k = i THEN Joined(i) ELSE segs[k + 1]]
        /\ UNCHANGED <<piece, ranks, ended>>

\* Not as long as any two neighbours join.
End == ~ended /\ Joinable = {} /\ ended' = TRUE /\ UNCHANGED <<piece, ranks, segs>>

Next == Join \/ End

Spec == Init /\ [][Next]_vars
=============================================================================
