----------------------------- MODULE MatchSlots -----------------------------
(***************************************************************************)
(* The match data of CoreBPE (search/core_bpe.cpp, _get_tl_match_data and  *)
(* its three sisters): an array of MAX_NUM_THREADS blocks for the regex of *)
(* each kind; a thread uses the one at the hash of its id.  pcre2_match    *)
(* writes the block and the caller reads the offsets from it afterwards.   *)
(* Two threads whose hashes meet share the block, and nothing locks it.    *)
(***************************************************************************)
EXTENDS Integers

CONSTANTS Threads,     \* threads that encode with one CoreBPE
          Hashes,      \* values of std::hash<std::thread::id>
          NumSlots,    \* MAX_NUM_THREADS
          MaxMatches   \* bound: matches a thread makes

SlotsAssumption == Hashes \subseteq Nat /\ NumSlots \in Nat \ {0} /\ MaxMatches \in Nat

VARIABLES hash,    \* the hash of each thread's id
          block,   \* what each block holds: whose n-th match, or Torn
          pc,      \* where each thread is
          kind,    \* the regex it is matching with
          done,    \* matches it has made
          got      \* what it read from the block: whose match

vars == <<hash, block, pc, kind, done, got>>

Kinds == {"special", "normal"}

Torn == [thread |-> "none", match |-> 0]

Result(t) == [thread |-> t, match |-> done[t]]

SlotOneLess(t) == hash[t] % (NumSlots - 1)

\* hash_current_thread
Slot(t) == hash[t] % NumSlots

Init ==
    /\ hash \in [Threads -> Hashes]
    /\ block = [k \in Kinds |-> [i \in 0 .. NumSlots - 1 |-> Torn]]
    /\ pc = [t \in Threads |-> "ready"]
    /\ kind = [t \in Threads |-> "special"]
    /\ done = [t \in Threads |-> 0]
    /\ got = [t \in Threads |-> Torn]

\* Another thread is inside pcre2_match on the block that t uses.
Contended(t) == \E u \in Threads \ {t} :
                   pc[u] = "matching" /\ kind[u] = kind[t] /\ Slot(u) = Slot(t)

\* pcre2_match starts to write the block.
BeginMatch(t) ==
    /\ pc[t] = "ready" /\ done[t] < MaxMatches
    /\ \E k \in Kinds :
          /\ kind' = [kind EXCEPT ![t] = k]
          /\ block' = [block EXCEPT ![k][Slot(t)] = Torn]
    /\ pc' = [pc EXCEPT ![t] = "matching"]
    /\ done' = [done EXCEPT ![t] = @ + 1]
    /\ UNCHANGED <<hash, got>>

\* It returns with the offsets in the block; what two matches at once leave is undefined.
EndMatch(t) ==
    /\ pc[t] = "matching"
    /\ \E r \in IF Contended(t) THEN {Result(t), Torn} ELSE {Result(t)} :
          block' = [block EXCEPT ![kind[t]][Slot(t)] = r]
    /\ pc' = [pc EXCEPT ![t] = "matched"]
    /\ UNCHANGED <<hash, kind, done, got>>

\* pcre2_get_ovector_pointer and the reads of ovector[0] and ovector[1].
ReadOffsets(t) ==
    /\ pc[t] = "matched"
    /\ got' = [got EXCEPT ![t] = block[kind[t]][Slot(t)]]
    /\ pc' = [pc EXCEPT ![t] = "ready"]
    /\ UNCHANGED <<hash, block, kind, done>>

Finished == (\A t \in Threads : pc[t] = "ready" /\ done[t] = MaxMatches) /\ UNCHANGED vars

Next == (\E t \in Threads : BeginMatch(t) \/ EndMatch(t) \/ ReadOffsets(t)) \/ Finished

Spec == Init /\ [][Next]_vars

-----------------------------------------------------------------------------
Blocks == [thread : Threads \cup {"none"}, match : Nat]

TypeOK ==
    /\ hash \in [Threads -> Hashes]
    /\ block \in [Kinds -> [0 .. NumSlots - 1 -> Blocks]]
    /\ pc \in [Threads -> {"ready", "matching", "matched"}]
    /\ kind \in [Threads -> Kinds]
    /\ done \in [Threads -> Nat]
    /\ got \in [Threads -> Blocks]

\* The threads whose hashes are apart modulo NumSlots.
Alone(t) == \A u \in Threads \ {t} : hash[u] % NumSlots # hash[t] % NumSlots

\* A thread whose slot no other thread has reads the offsets of its own last match.
AloneReadsOwn == \A t \in Threads :
                    pc[t] = "ready" /\ done[t] > 0 /\ Alone(t) => got[t] = Result(t)

\* "Match data of each thread": every thread reads the offsets of its own last match.
MatchDataPerThread == \A t \in Threads :
                         pc[t] = "ready" /\ done[t] > 0 => got[t] = Result(t)
=============================================================================
