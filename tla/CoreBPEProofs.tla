---------------------------- MODULE CoreBPEProofs ----------------------------
(***************************************************************************)
(* A CoreBPE, for any vocabularies, special tokens, threads and hashes: it *)
(* decodes what it encodes, loses nothing of the regex library, and gives  *)
(* a thread whose slot no other shares the offsets of its own match.       *)
(***************************************************************************)
EXTENDS MCCoreBPE, FiniteSetTheorems, SequenceTheorems, TLAPS

(* The blocks of the match data.                                           *)
\* What a thread alone in its slot finds there between the match and the reads, ...
Undisturbed == \A t \in Threads :
                  matchPc[t] = "matched" /\ Slots!Alone(t) =>
                      block[kind[t]][Slots!Slot(t)] = Slots!Result(t)

\* ... with which AloneReadsOwn is inductive.
SlotsInv == Slots!TypeOK /\ Undisturbed /\ Slots!AloneReadsOwn

\* Slots index the array.
LEMMA SlotType ==
    ASSUME Slots!TypeOK, NEW t \in Threads
    PROVE  Slots!Slot(t) \in 0 .. MaxNumThreads - 1
  <1>1. hash[t] \in Nat
    BY SlotsAssumption DEF Slots!SlotsAssumption, Slots!TypeOK
  <1>2. QED
    BY <1>1, SlotsAssumption DEF Slots!SlotsAssumption, Slots!Slot

\* Results of matches may stand in a block.
LEMMA ResultType ==
    ASSUME Slots!TypeOK, NEW t \in Threads
    PROVE  Slots!Result(t) \in Slots!Blocks /\ Slots!Torn \in Slots!Blocks
  <1>1. done[t] \in Nat
    BY DEF Slots!TypeOK
  <1>2. QED
    BY <1>1 DEF Slots!Result, Slots!Blocks, Slots!Torn

\* The start of a match keeps the invariant: it tears only its own slot.
LEMMA BeginSlotsInv == ASSUME SlotsInv, NEW u \in Threads, Slots!BeginMatch(u) PROVE SlotsInv'
  <1>1. PICK k \in Slots!Kinds : /\ kind' = [kind EXCEPT ![u] = k]
                           /\ block' = [block EXCEPT ![k][Slots!Slot(u)] = Slots!Torn]
    BY DEF Slots!BeginMatch
  <1>2. /\ matchPc' = [matchPc EXCEPT ![u] = "matching"] /\ done' = [done EXCEPT ![u] = @ + 1]
        /\ hash' = hash /\ got' = got
    BY DEF Slots!BeginMatch
  <1>3. Slots!TypeOK'
    <2>1. block' \in [Slots!Kinds -> [0 .. MaxNumThreads - 1 -> Slots!Blocks]]
      BY <1>1, SlotType, ResultType DEF SlotsInv, Slots!TypeOK
    <2>2. QED
      BY <1>1, <1>2, <2>1 DEF SlotsInv, Slots!TypeOK
  <1>4. Undisturbed'
    <2> SUFFICES ASSUME NEW t \in Threads, matchPc'[t] = "matched", Slots!Alone(t)'
                 PROVE  block'[kind'[t]][Slots!Slot(t)'] = Slots!Result(t)'
      BY DEF Undisturbed
    <2>1. t # u
      BY <1>2 DEF SlotsInv, Slots!TypeOK
    <2>2. Slots!Slot(t)' = Slots!Slot(t) /\ Slots!Slot(u) # Slots!Slot(t) /\ Slots!Alone(t)
      BY <1>2, <2>1 DEF Slots!Alone, Slots!Slot
    <2>3. kind'[t] = kind[t] /\ matchPc[t] = "matched" /\ Slots!Result(t)' = Slots!Result(t)
      BY <1>1, <1>2, <2>1 DEF SlotsInv, Slots!TypeOK, Slots!Result
    <2>4. block'[kind[t]][Slots!Slot(t)] = block[kind[t]][Slots!Slot(t)]
      BY <1>1, <2>2, SlotType DEF SlotsInv, Slots!TypeOK
    <2>5. QED
      BY <2>2, <2>3, <2>4 DEF SlotsInv, Undisturbed
  <1>5. Slots!AloneReadsOwn'
    BY <1>2 DEF SlotsInv, Slots!TypeOK, Slots!AloneReadsOwn, Slots!Alone, Slots!Result
  <1>6. QED
    BY <1>3, <1>4, <1>5 DEF SlotsInv

\* The end of a match keeps it: alone, a thread is not contended.
LEMMA EndSlotsInv == ASSUME SlotsInv, NEW u \in Threads, Slots!EndMatch(u) PROVE SlotsInv'
  <1>1. PICK r \in IF Slots!Contended(u) THEN {Slots!Result(u), Slots!Torn}
                                         ELSE {Slots!Result(u)} :
          block' = [block EXCEPT ![kind[u]][Slots!Slot(u)] = r]
    BY DEF Slots!EndMatch
  <1>2. /\ matchPc' = [matchPc EXCEPT ![u] = "matched"]
        /\ hash' = hash /\ got' = got /\ kind' = kind /\ done' = done
    BY DEF Slots!EndMatch
  <1>3. Slots!TypeOK'
    <2>1. r \in Slots!Blocks
      BY ResultType DEF SlotsInv
    <2>2. block' \in [Slots!Kinds -> [0 .. MaxNumThreads - 1 -> Slots!Blocks]]
      BY <1>1, <2>1, SlotType DEF SlotsInv, Slots!TypeOK
    <2>3. QED
      BY <1>2, <2>2 DEF SlotsInv, Slots!TypeOK
  <1>4. Undisturbed'
    <2> SUFFICES ASSUME NEW t \in Threads, matchPc'[t] = "matched", Slots!Alone(t)'
                 PROVE  block'[kind[t]][Slots!Slot(t)] = Slots!Result(t)
      BY <1>2 DEF Undisturbed, Slots!Slot, Slots!Result
    <2>1. Slots!Alone(t)
      BY <1>2 DEF Slots!Alone
    <2>2. CASE t = u
      <3>1. ~Slots!Contended(u)
        BY <2>1, <2>2 DEF Slots!Alone, Slots!Contended, Slots!Slot
      <3>2. r = Slots!Result(u)
        BY <3>1
      <3>3. kind[u] \in Slots!Kinds /\ Slots!Slot(u) \in 0 .. MaxNumThreads - 1
        BY SlotType DEF SlotsInv, Slots!TypeOK
      <3>4. QED
        BY <1>1, <2>2, <3>2, <3>3 DEF SlotsInv, Slots!TypeOK
    <2>3. CASE t # u
      <3>1. Slots!Slot(u) # Slots!Slot(t) /\ matchPc[t] = "matched"
        BY <1>2, <2>1, <2>3 DEF Slots!Alone, Slots!Slot, SlotsInv, Slots!TypeOK
      <3>2. block'[kind[t]][Slots!Slot(t)] = block[kind[t]][Slots!Slot(t)]
        BY <1>1, <3>1, SlotType DEF SlotsInv, Slots!TypeOK
      <3>3. QED
        BY <2>1, <3>1, <3>2 DEF SlotsInv, Undisturbed
    <2>4. QED
      BY <2>2, <2>3
  <1>5. Slots!AloneReadsOwn'
    BY <1>2 DEF SlotsInv, Slots!TypeOK, Slots!AloneReadsOwn, Slots!Alone, Slots!Result
  <1>6. QED
    BY <1>3, <1>4, <1>5 DEF SlotsInv

\* The reads keep it: they find what Undisturbed promises.
LEMMA ReadSlotsInv == ASSUME SlotsInv, NEW u \in Threads, Slots!ReadOffsets(u) PROVE SlotsInv'
  <1>1. /\ got' = [got EXCEPT ![u] = block[kind[u]][Slots!Slot(u)]]
        /\ matchPc[u] = "matched" /\ matchPc' = [matchPc EXCEPT ![u] = "ready"]
        /\ hash' = hash /\ block' = block /\ kind' = kind /\ done' = done
    BY DEF Slots!ReadOffsets
  <1>2. Slots!TypeOK'
    <2>1. block[kind[u]][Slots!Slot(u)] \in Slots!Blocks
      BY SlotType DEF SlotsInv, Slots!TypeOK
    <2>2. QED
      BY <1>1, <2>1 DEF SlotsInv, Slots!TypeOK
  <1>3. Undisturbed'
    BY <1>1 DEF SlotsInv, Slots!TypeOK, Undisturbed, Slots!Alone, Slots!Slot, Slots!Result
  <1>4. Slots!AloneReadsOwn'
    <2> SUFFICES ASSUME NEW t \in Threads, matchPc'[t] = "ready", done[t] > 0, Slots!Alone(t)
                 PROVE  got'[t] = Slots!Result(t)
      BY <1>1 DEF Slots!AloneReadsOwn, Slots!Alone, Slots!Result
    <2>1. CASE t = u
      BY <1>1, <2>1 DEF SlotsInv, Slots!TypeOK, Undisturbed
    <2>2. CASE t # u
      BY <1>1, <2>2 DEF SlotsInv, Slots!TypeOK, Slots!AloneReadsOwn
    <2>3. QED
      BY <2>1, <2>2
  <1>5. QED
    BY <1>2, <1>3, <1>4 DEF SlotsInv

\* A thread alone in its slot reads the offsets of its own last match.
THEOREM AloneReadsOwnHolds == Slots!Spec => []AloneReadsOwn
  <1>1. Slots!Init => SlotsInv
    BY SlotsAssumption DEF Slots!SlotsAssumption, Slots!Init, SlotsInv, Slots!TypeOK,
       Undisturbed, Slots!AloneReadsOwn, Slots!Blocks, Slots!Torn, Slots!Kinds
  <1>2. SlotsInv /\ [Slots!Next]_(Slots!vars) => SlotsInv'
    <2>1. ASSUME SlotsInv, UNCHANGED Slots!vars PROVE SlotsInv'
      BY <2>1 DEF SlotsInv, Slots!TypeOK, Undisturbed, Slots!AloneReadsOwn,
         Slots!Alone, Slots!Slot, Slots!Result, Slots!vars
    <2>2. QED
      BY <2>1, BeginSlotsInv, EndSlotsInv, ReadSlotsInv DEF Slots!Next, Slots!Finished
  <1>3. SlotsInv => AloneReadsOwn
    BY DEF SlotsInv, AloneReadsOwn
  <1>4. QED
    BY <1>1, <1>2, <1>3, PTL DEF Slots!Spec

-----------------------------------------------------------------------------
\* Types of the four vectors: how many pointers each has.
TablesType ==
    tables \in [regex : Nat, data : Nat, specialRegex : Nat, specialData : Nat]

\* Types of what the object holds.
HeldType == held \in [context : Nat, code : Nat, data : Nat] /\ thrown \in Nat

\* Which vectors are filled when.
Filled ==
    /\ pc \notin {"special", "decoder", "ready"} => tables = NoTables
    /\ pc \in {"special", "decoder", "ready"} =>
           tables.regex = MaxNumThreads /\ tables.data = MaxNumThreads
    /\ pc = "special" => tables.specialRegex = 0 /\ tables.specialData = 0
    /\ (pc \in {"decoder", "ready"} /\ specials # <<>>) =>
           tables.specialRegex = MaxNumThreads /\ tables.specialData = MaxNumThreads

\* No name is lost when they are numbered.
NumberedAll ==
    /\ names \in SpecialNames
    /\ (pc \in {"new", "regex", "special", "decoder", "ready", "gone"} /\ names # <<>>) =>
           specials # <<>>

\* What is on the heap is what the four vectors point to.
Counted ==
    /\ held.code = tables.regex + tables.specialRegex + thrown * MaxNumThreads
    /\ held.data = tables.data + tables.specialData + thrown * MaxNumThreads

\* The inductive invariant.
TablesInv == TablesType /\ HeldType /\ Filled /\ NumberedAll /\ Counted

-----------------------------------------------------------------------------
(* A list of names that is not empty begins with a name.                   *)
LEMMA NamesBegin ==
    ASSUME NEW ns \in SpecialNames, ns # <<>>
    PROVE  1 \in DOMAIN ns
  <1>1. CASE ns = <<"endoftext">>
    BY <1>1
  <1>2. CASE \E l \in SetToSeqs({"en", "zh"}) : ns = <<"endoftext">> \o l \o <<"notimestamps">>
    <2>1. PICK l \in SetToSeqs({"en", "zh"}) : ns = <<"endoftext">> \o l \o <<"notimestamps">>
      BY <1>2
    <2>2. Cardinality({"en", "zh"}) \in Nat
      <3>1. IsFiniteSet({"en"} \cup {"zh"})
        BY FS_AddElement, FS_Singleton
      <3>2. {"en"} \cup {"zh"} = {"en", "zh"}
        OBVIOUS
      <3>3. QED
        BY <3>1, <3>2, FS_CardinalityType
    <2>3. l \in Seq({"en", "zh"})
      BY <2>2 DEF SetToSeqs
    <2>4. QED
      BY <2>1, <2>3
  <1>3. QED
    BY <1>1, <1>2 DEF SpecialNames

(* Numbering names leaves a table that is not empty.                       *)
LEMMA NumberedNotEmpty ==
    ASSUME NEW first, names \in SpecialNames, names # <<>>
    PROVE  NumberFrom(first) # <<>>
  <1>1. 1 \in DOMAIN names
    BY NamesBegin
  <1>2. names[1] \in DOMAIN NumberFrom(first)
    BY <1>1 DEF NumberFrom, Range
  <1>3. DOMAIN <<>> = {}
    OBVIOUS
  <1>4. QED
    BY <1>2, <1>3

(* TablesInv holds at the start.                                           *)
LEMMA InitTablesInv ==
    Init => TablesInv
  BY VocabularyAssumption DEF Init, TablesInv, TablesType, HeldType, Filled,
     NumberedAll, Counted, NoTables, Nothing

(* Reading and numbering touch no table.                                   *)
LEMMA LoadingStep ==
    ASSUME TablesInv, UNCHANGED <<names, object>>,
           \/ UNCHANGED <<pc, specials>>
           \/ /\ pc \in {"load", "json"} /\ pc' \in {"load", "json", "number", "failed"}
              /\ UNCHANGED specials
           \/ Number
    PROVE  TablesInv'
  <1>1. UNCHANGED <<names, tables, held, thrown>>
    BY DEF object
  <1>2. TablesType' /\ HeldType' /\ Counted'
    BY <1>1 DEF TablesInv, TablesType, HeldType, Counted
  <1>3. Filled' /\ NumberedAll'
    <2>1. CASE UNCHANGED <<pc, specials>>
      BY <1>1, <2>1 DEF TablesInv, Filled, NumberedAll
    <2>2. CASE /\ pc \in {"load", "json"} /\ pc' \in {"load", "json", "number", "failed"}
               /\ UNCHANGED specials
      BY <1>1, <2>2 DEF TablesInv, Filled, NumberedAll
    <2>3. CASE Number
      <3>1. pc = "number" /\ pc' = "new" /\ specials' = NumberFrom(Cardinality(DOMAIN ranks))
        BY <2>3 DEF Number, NumberSpecials
      <3>2. names # <<>> => specials' # <<>>
        BY <3>1, NumberedNotEmpty DEF TablesInv, NumberedAll
      <3>3. QED
        BY <1>1, <3>1, <3>2 DEF TablesInv, Filled, NumberedAll
    <2>4. QED
      BY <2>1, <2>2, <2>3
  <1>4. QED
    BY <1>2, <1>3 DEF TablesInv

(* A new object has four empty vectors.                                    *)
LEMMA NewStep ==
    ASSUME TablesInv, New PROVE TablesInv'
  <1>1. /\ pc \in {"new", "gone"} /\ pc' = "regex"
        /\ held' = [held EXCEPT !.context = @ + 1]
        /\ UNCHANGED <<names, specials, tables, thrown>>
    BY DEF New, Add
  <1>2. HeldType' /\ held'.code = held.code /\ held'.data = held.data
    BY <1>1 DEF TablesInv, HeldType
  <1>3. TablesType' /\ Filled' /\ NumberedAll'
    BY <1>1 DEF TablesInv, TablesType, Filled, NumberedAll
  <1>4. Counted'
    BY <1>1, <1>2 DEF TablesInv, Counted
  <1>5. QED
    BY <1>2, <1>3, <1>4 DEF TablesInv

(* A regex that compiles fills two vectors.                                *)
LEMMA RegexStep ==
    ASSUME TablesInv, Regex PROVE TablesInv'
  <1>1. MaxNumThreads \in Nat
    BY VocabularyAssumption
  <1>2. pc = "regex" /\ tables = NoTables /\ UNCHANGED <<names, specials, thrown>>
    BY DEF Regex, TablesInv, Filled
  <1>3. CASE pc' = "gone" /\ UNCHANGED <<tables, held>>
    BY <1>2, <1>3 DEF TablesInv, TablesType, HeldType, Filled, NumberedAll, Counted
  <1>4. CASE /\ tables' = [tables EXCEPT !.regex = MaxNumThreads, !.data = MaxNumThreads]
             /\ held' = [held EXCEPT !.code = @ + MaxNumThreads, !.data = @ + MaxNumThreads]
             /\ pc' = "special"
    <2>1. TablesType' /\ HeldType'
      <3>1. TablesType'
        BY <1>1, <1>4 DEF TablesInv, TablesType
      <3>2. PICK c \in Nat, n1 \in Nat, n2 \in Nat :
              held = [context |-> c, code |-> n1, data |-> n2]
        BY DEF TablesInv, HeldType
      <3>3. held' = [context |-> c, code |-> n1 + MaxNumThreads, data |-> n2 + MaxNumThreads]
        BY <1>4, <3>2
      <3>4. QED
        BY <1>1, <1>2, <3>1, <3>3 DEF TablesInv, HeldType
    <2>2. /\ tables'.regex = MaxNumThreads /\ tables'.data = MaxNumThreads
          /\ tables'.specialRegex = 0 /\ tables'.specialData = 0
          /\ tables.regex = 0 /\ tables.data = 0
          /\ tables.specialRegex = 0 /\ tables.specialData = 0
      BY <1>2, <1>4 DEF NoTables
    <2>3. held'.code = held.code + MaxNumThreads /\ held'.data = held.data + MaxNumThreads
      BY <1>4 DEF TablesInv, HeldType
    <2>4. Filled' /\ NumberedAll'
      BY <1>2, <1>4, <2>2 DEF TablesInv, Filled, NumberedAll
    <2>5. thrown * MaxNumThreads \in Nat
      BY <1>1 DEF TablesInv, HeldType
    <2>6. Counted'
      BY <1>1, <1>2, <2>2, <2>3, <2>5 DEF TablesInv, Counted
    <2>7. QED
      BY <2>1, <2>4, <2>6 DEF TablesInv
  <1>5. QED
    BY <1>3, <1>4 DEF Regex

(* The second regex fills the others, or the throw leaves the first behind. *)
LEMMA SpecialRegexStep ==
    ASSUME TablesInv, SpecialRegex PROVE TablesInv'
  <1>1. MaxNumThreads \in Nat
    BY VocabularyAssumption
  <1>2. /\ pc = "special" /\ specials # <<>> /\ UNCHANGED <<names, specials>>
        /\ tables.regex = MaxNumThreads /\ tables.data = MaxNumThreads
        /\ tables.specialRegex = 0 /\ tables.specialData = 0
    BY DEF SpecialRegex, TablesInv, Filled
  <1>3. /\ thrown * MaxNumThreads \in Nat
        /\ (thrown + 1) * MaxNumThreads = thrown * MaxNumThreads + MaxNumThreads
    BY <1>1 DEF TablesInv, HeldType
  <1>4. CASE tables' = NoTables /\ pc' = "gone" /\ thrown' = thrown + 1 /\ UNCHANGED held
    <2>1. TablesType' /\ HeldType' /\ Filled' /\ NumberedAll'
      BY <1>2, <1>4 DEF TablesInv, TablesType, HeldType, Filled, NumberedAll, NoTables
    <2>2. Counted'
      BY <1>1, <1>2, <1>3, <1>4 DEF TablesInv, Counted, NoTables
    <2>3. QED
      BY <2>1, <2>2 DEF TablesInv
  <1>5. CASE /\ tables' = [tables EXCEPT !.specialRegex = MaxNumThreads,
                                         !.specialData = MaxNumThreads]
             /\ held' = [held EXCEPT !.code = @ + MaxNumThreads, !.data = @ + MaxNumThreads]
             /\ pc' = "decoder" /\ UNCHANGED thrown
    <2>1. TablesType' /\ HeldType'
      <3>1. TablesType'
        BY <1>1, <1>5 DEF TablesInv, TablesType
      <3>2. PICK c \in Nat, n1 \in Nat, n2 \in Nat :
              held = [context |-> c, code |-> n1, data |-> n2]
        BY DEF TablesInv, HeldType
      <3>3. held' = [context |-> c, code |-> n1 + MaxNumThreads, data |-> n2 + MaxNumThreads]
        BY <1>5, <3>2
      <3>4. QED
        BY <1>1, <1>5, <3>1, <3>3 DEF TablesInv, HeldType
    <2>2. /\ tables'.regex = MaxNumThreads /\ tables'.data = MaxNumThreads
          /\ tables'.specialRegex = MaxNumThreads /\ tables'.specialData = MaxNumThreads
      BY <1>2, <1>5 DEF TablesInv, TablesType
    <2>3. held'.code = held.code + MaxNumThreads /\ held'.data = held.data + MaxNumThreads
      BY <1>5 DEF TablesInv, HeldType
    <2>4. Filled' /\ NumberedAll'
      BY <1>2, <1>5, <2>2 DEF TablesInv, Filled, NumberedAll
    <2>5. Counted'
      BY <1>1, <1>2, <1>3, <1>5, <2>2, <2>3 DEF TablesInv, Counted
    <2>6. QED
      BY <2>1, <2>4, <2>5 DEF TablesInv
  <1>6. QED
    BY <1>4, <1>5 DEF SpecialRegex

(* Without special tokens there is no second regex to fill.                *)
LEMMA NoSpecialRegexStep ==
    ASSUME TablesInv, NoSpecialRegex PROVE TablesInv'
  <1>1. /\ pc = "special" /\ pc' = "decoder" /\ specials = <<>>
        /\ UNCHANGED <<names, specials, tables, held, thrown>>
    BY DEF NoSpecialRegex, object
  <1>2. QED
    BY <1>1 DEF TablesInv, TablesType, HeldType, Filled, NumberedAll, Counted

(* Filling the decoders allocates nothing.                                 *)
LEMMA FillDecoderStep ==
    ASSUME TablesInv, FillDecoder PROVE TablesInv'
  <1>1. /\ pc = "decoder" /\ pc' = "ready"
        /\ UNCHANGED <<names, specials, tables, held, thrown>>
    BY DEF FillDecoder
  <1>2. QED
    BY <1>1 DEF TablesInv, TablesType, HeldType, Filled, NumberedAll, Counted

(* The destructor frees what the four vectors hold.                        *)
LEMMA DeleteStep ==
    ASSUME TablesInv, Delete PROVE TablesInv'
  <1>1. /\ pc = "ready" /\ pc' = "gone" /\ tables' = NoTables
        /\ held' = [held EXCEPT !.code = @ - (tables.regex + tables.specialRegex),
                                !.data = @ - (tables.data + tables.specialData)]
        /\ UNCHANGED <<names, specials, thrown>>
    BY DEF Delete, FreeTables
  <1>2. thrown * MaxNumThreads \in Nat
    BY VocabularyAssumption DEF TablesInv, HeldType
  <1>3. held'.code = thrown * MaxNumThreads /\ held'.data = thrown * MaxNumThreads
    BY <1>1, <1>2 DEF TablesInv, HeldType, TablesType, Counted
  <1>4. held' \in [context : Nat, code : Nat, data : Nat]
    <2>1. PICK c \in Nat, n1 \in Nat, n2 \in Nat :
            held = [context |-> c, code |-> n1, data |-> n2]
      BY DEF TablesInv, HeldType
    <2>2. held' = [context |-> c, code |-> held'.code, data |-> held'.data]
      BY <1>1, <2>1
    <2>3. QED
      BY <1>2, <1>3, <2>2
  <1>5. TablesType' /\ HeldType' /\ Filled' /\ NumberedAll'
    BY <1>1, <1>4 DEF TablesInv, TablesType, HeldType, Filled, NumberedAll, NoTables
  <1>6. Counted'
    BY <1>1, <1>2, <1>3 DEF Counted, NoTables
  <1>7. QED
    BY <1>5, <1>6 DEF TablesInv

(* Every step keeps TablesInv.                                             *)
LEMMA NextTablesInv ==
    TablesInv /\ [Next]_vars => TablesInv'
  <1> SUFFICES ASSUME TablesInv, [Next]_vars PROVE TablesInv'
    OBVIOUS
  <1>1. CASE UNCHANGED vars
    BY <1>1, LoadingStep DEF vars, object
  <1>2. CASE ReadMerge \/ ReadEntry \/ ReadTiktokenLine
    BY <1>2, LoadingStep DEF ReadMerge, ReadEntry, ReadTiktokenLine
  <1>3. CASE ParseEncoder \/ CompareWithEncoder \/ EndTiktoken
    <2>1. /\ pc \in {"load", "json"} /\ pc' \in {"load", "json", "number", "failed"}
          /\ UNCHANGED <<names, specials, object>>
      BY <1>3 DEF ParseEncoder, CompareWithEncoder, EndTiktoken
    <2>2. QED
      BY <2>1, LoadingStep
  <1>4. CASE Number
    BY <1>4, LoadingStep DEF Number
  <1>5. CASE New
    BY <1>5, NewStep
  <1>6. CASE Regex
    BY <1>6, RegexStep
  <1>7. CASE SpecialRegex
    BY <1>7, SpecialRegexStep
  <1>8. CASE NoSpecialRegex
    BY <1>8, NoSpecialRegexStep
  <1>9. CASE FillDecoder
    BY <1>9, FillDecoderStep
  <1>10. CASE Delete
    BY <1>10, DeleteStep
  <1>11. CASE Stopped
    BY <1>11, LoadingStep DEF Stopped, vars, object
  <1>12. QED
    BY <1>1, <1>2, <1>3, <1>4, <1>5, <1>6, <1>7, <1>8, <1>9, <1>10, <1>11 DEF Next

(* TablesInv implies what the property says of the vectors.                *)
LEMMA TablesInvHeld ==
    TablesInv => HeldIsReachable
  <1> SUFFICES ASSUME TablesInv PROVE HeldIsReachable
    OBVIOUS
  <1>1. ASSUME pc = "ready", names # <<>>, NEW v \in DOMAIN tables
        PROVE  tables[v] = MaxNumThreads
    <2>1. v \in {"regex", "data", "specialRegex", "specialData"}
      BY DEF TablesInv, TablesType
    <2>2. specials # <<>>
      BY <1>1 DEF TablesInv, NumberedAll
    <2>3. /\ tables.regex = MaxNumThreads /\ tables.data = MaxNumThreads
          /\ tables.specialRegex = MaxNumThreads /\ tables.specialData = MaxNumThreads
      BY <1>1, <2>2 DEF TablesInv, Filled
    <2>4. QED
      BY <2>1, <2>3
  <1>2. QED
    BY <1>1 DEF TablesInv, Counted, HeldIsReachable

(* Nothing that the regex library has made for a CoreBPE is lost but what  *)
(* the throw at its second regex leaves behind, and a complete object has  *)
(* a regex and match data of each kind for every thread.                   *)
THEOREM HeldIsReachableHolds == Spec => []HeldIsReachable
  <1>1. Init => TablesInv
    BY InitTablesInv
  <1>2. TablesInv /\ [Next]_vars => TablesInv'
    BY NextTablesInv
  <1>3. TablesInv => HeldIsReachable
    BY TablesInvHeld
  <1>4. QED
    BY <1>1, <1>2, <1>3, PTL DEF Spec

-----------------------------------------------------------------------------
(* The ranks of the single bytes.                                          *)
LEMMA BytesFinite == IsFiniteSet(Bytes) /\ Cardinality(Bytes) = ByteCount
  BY VocabularyAssumption, FS_Interval DEF Bytes

(* Fewer elements in a part, fewer still in a proper one.                  *)
LEMMA ProperPart == ASSUME NEW T, IsFiniteSet(T), NEW S \in SUBSET T, NEW x \in T, x \notin S
    PROVE IsFiniteSet(S) /\ Cardinality(S) \in Nat /\ Cardinality(S) < Cardinality(T)
  <1>1. IsFiniteSet(S) /\ Cardinality(S) <= Cardinality(T) /\ Cardinality(S) # Cardinality(T)
    BY FS_Subset
  <1>2. Cardinality(S) \in Nat /\ Cardinality(T) \in Nat
    BY <1>1, FS_CardinalityType
  <1>3. QED
    BY <1>1, <1>2

\* The bytes before one.
Before(b) == {c \in Bytes : Earlier(c, b)}

\* Ranks of bytes are the first ones.
LEMMA RankOfByteType ==
    ASSUME NEW b \in Bytes
    PROVE  RankOfByte(b) \in 0 .. ByteCount - 1
  <1>1. b \in Int /\ b \notin Before(b) /\ Before(b) \in SUBSET Bytes
    BY DEF Before, Earlier, Bytes
  <1>2. Cardinality(Before(b)) \in Nat /\ Cardinality(Before(b)) < ByteCount
    BY <1>1, BytesFinite, ProperPart
  <1>3. QED
    BY <1>2, VocabularyAssumption DEF RankOfByte, Before

\* The byte named earlier has the lower rank.
LEMMA EarlierIsLower ==
    ASSUME NEW b \in Bytes, NEW c \in Bytes, Earlier(c, b)
    PROVE  RankOfByte(c) < RankOfByte(b)
  <1>1. Bytes \subseteq Int
    BY DEF Bytes
  <1>2. c \in Before(b) /\ c \notin Before(c)
    BY <1>1 DEF Before, Earlier
  <1>3. Before(c) \in SUBSET Before(b)
    <2> SUFFICES ASSUME NEW d \in Bytes, Earlier(d, c) PROVE Earlier(d, b)
      BY DEF Before
    <2>1. b \in Int /\ c \in Int /\ d \in Int
      BY <1>1
    <2>2. QED
      BY <2>1 DEF Earlier
  <1>4. IsFiniteSet(Before(b))
    BY BytesFinite, FS_Subset DEF Before
  <1>5. QED
    BY <1>2, <1>3, <1>4, ProperPart DEF RankOfByte, Before

\* No two bytes have one rank.
LEMMA RankOfByteInjective ==
    ASSUME NEW b \in Bytes, NEW c \in Bytes, RankOfByte(b) = RankOfByte(c)
    PROVE  b = c
  <1>1. b = c \/ Earlier(b, c) \/ Earlier(c, b)
    BY DEF Bytes, Earlier
  <1>2. RankOfByte(b) \in Int
    BY RankOfByteType
  <1>3. QED
    BY <1>1, <1>2, EarlierIsLower

(* Every rank below ByteCount is some byte's.                              *)
LEMMA RankOfByteOnto ==
    ASSUME NEW r \in 0 .. ByteCount - 1
    PROVE  \E b \in Bytes : RankOfByte(b) = r
  <1> DEFINE f == [b \in Bytes |-> RankOfByte(b)]
  <1>1. f \in Injection(Bytes, Bytes)
    BY RankOfByteType, RankOfByteInjective DEF Injection, IsInjective, Bytes
  <1>2. f \in Surjection(Bytes, Bytes)
    BY <1>1, BytesFinite, FS_Injection
  <1>3. QED
    BY <1>2 DEF Surjection, Bytes

-----------------------------------------------------------------------------
\* The merges of vocab.bpe that have been read, and their ranks.
ReadMerges == IF pc = "load" THEN {k \in MergeLines : k < i} ELSE MergeLines

MergesBefore(k) == {j \in MergeLines : j < k}

RankOf(k) == ByteCount + Cardinality(MergesBefore(k))

\* A word has the rank of its byte or of a merge that makes it.
Ranked(w) ==
    \/ \E b \in Bytes : w = <<b>> /\ ranks[w] = RankOfByte(b)
    \/ \E k \in ReadMerges : w = MergedWord(k) /\ ranks[w] = RankOf(k)

\* The ranks of vocab.bpe: each byte and each merge read has a rank, a later one where
\* a word repeats; and the last rank given has not been overwritten.
GymRanks == source.kind = "gym" =>
    /\ i \in Nat /\ (pc = "load" => i >= 2) /\ n = ByteCount + Cardinality(ReadMerges)
    /\ \A w \in DOMAIN ranks : Ranked(w)
    /\ \A b \in Bytes : <<b>> \in DOMAIN ranks
    /\ \A k \in ReadMerges : MergedWord(k) \in DOMAIN ranks
    /\ n - 1 \in Range(ranks)

Places == {"load", "json", "number", "failed", "new", "regex", "special", "decoder",
           "ready", "gone"}

VocabularyType == source \in Sources /\ pc \in Places /\ IsFiniteSet(DOMAIN ranks)

\* Only the vocabulary that encoder.json repeats is numbered.
Compared == pc = "number" /\ source.kind = "gym" => encoder = ranks

\* The special tokens are numbered once, and the decoder is made of the ranks.
NumberedBehind == pc \notin {"load", "json", "number", "failed"} =>
    specials = NumberFrom(Cardinality(DOMAIN ranks))

Decodes == pc = "ready" =>
    /\ DOMAIN decoder = Range(ranks)
    /\ \A r \in Range(ranks) : decoder[r] \in DOMAIN ranks /\ ranks[decoder[r]] = r

\* The inductive invariant of the tables that are read.
VocabularyInv == VocabularyType /\ GymRanks /\ Compared /\ NumberedBehind /\ Decodes

\* There are finitely many lines with merges.
LEMMA MergeLinesFinite == ASSUME VocabularyType PROVE
    source.kind = "gym" => MergeLines \in SUBSET Nat /\ IsFiniteSet(MergeLines)
  <1> SUFFICES ASSUME source.kind = "gym"
               PROVE  MergeLines \in SUBSET Nat /\ IsFiniteSet(MergeLines)
    OBVIOUS
  <1>1. Len(source.lines) \in Nat
    BY VocabularyAssumption DEF VocabularyType, IsSource
  <1>2. IsFiniteSet(2 .. Len(source.lines)) /\ MergeLines \in SUBSET (2 .. Len(source.lines))
    BY <1>1, FS_Interval DEF MergeLines
  <1>3. 2 .. Len(source.lines) \subseteq Nat
    BY <1>1
  <1>4. QED
    BY <1>2, <1>3, FS_Subset

(* An earlier merge has a lower rank, and all of them lie between the      *)
(* ranks of the bytes and the next one.                                    *)
LEMMA RankOfType == ASSUME VocabularyType, source.kind = "gym", NEW k \in MergeLines PROVE
    RankOf(k) \in Nat /\ RankOf(k) >= ByteCount
  <1>1. IsFiniteSet(MergesBefore(k))
    BY MergeLinesFinite, FS_Subset DEF MergesBefore
  <1>2. Cardinality(MergesBefore(k)) \in Nat
    BY <1>1, FS_CardinalityType
  <1>3. QED
    BY <1>2, VocabularyAssumption DEF RankOf

\* Ranks grow with the place in the file.
LEMMA RankOfGrows == ASSUME VocabularyType, source.kind = "gym",
    NEW j \in MergeLines, NEW k \in MergeLines, j < k PROVE RankOf(j) < RankOf(k)
  <1>1. MergeLines \in SUBSET Nat
    BY MergeLinesFinite
  <1>2. j \in MergesBefore(k) /\ j \notin MergesBefore(j)
    BY <1>1 DEF MergesBefore
  <1>3. MergesBefore(j) \in SUBSET MergesBefore(k)
    <2> SUFFICES ASSUME NEW l \in MergeLines, l < j PROVE l < k
      BY DEF MergesBefore
    <2>1. l \in Nat /\ j \in Nat /\ k \in Nat
      BY <1>1
    <2>2. QED
      BY <2>1
  <1>4. IsFiniteSet(MergesBefore(k))
    BY MergeLinesFinite, FS_Subset DEF MergesBefore
  <1>5. Cardinality(MergesBefore(j)) \in Nat
        /\ Cardinality(MergesBefore(j)) < Cardinality(MergesBefore(k))
    BY <1>2, <1>3, <1>4, ProperPart
  <1>6. Cardinality(MergesBefore(k)) \in Nat
    BY <1>4, FS_CardinalityType
  <1>7. QED
    BY <1>5, <1>6, VocabularyAssumption DEF RankOf

\* No two merges have one rank.
LEMMA RankOfInjective == ASSUME VocabularyType, source.kind = "gym",
    NEW j \in MergeLines, NEW k \in MergeLines, RankOf(j) = RankOf(k) PROVE j = k
  <1>1. j \in Nat /\ k \in Nat
    BY MergeLinesFinite
  <1>2. RankOf(j) \in Nat
    BY RankOfType
  <1>3. j = k \/ j < k \/ k < j
    BY <1>1
  <1>4. QED
    BY <1>2, <1>3, RankOfGrows

\* The next rank is above those given.
LEMMA RankOfBelowN == ASSUME VocabularyType, GymRanks, source.kind = "gym",
    NEW k \in ReadMerges
    PROVE RankOf(k) < n /\ n \in Nat
  <1>1. /\ MergeLines \in SUBSET Nat /\ IsFiniteSet(MergeLines)
        /\ ReadMerges \in SUBSET MergeLines
    BY MergeLinesFinite DEF ReadMerges
  <1>2. IsFiniteSet(ReadMerges)
    BY <1>1, FS_Subset
  <1>7. k \in Nat /\ k \notin MergesBefore(k)
    <2>1. k \in Nat
      BY <1>1
    <2>2. QED
      BY <2>1 DEF MergesBefore
  <1>3. MergesBefore(k) \in SUBSET ReadMerges
    <2> SUFFICES ASSUME NEW l \in MergeLines, l < k PROVE l \in ReadMerges
      BY DEF MergesBefore
    <2>1. l \in Nat /\ i \in Nat
      BY <1>1 DEF GymRanks
    <2>2. QED
      BY <1>7, <2>1 DEF ReadMerges
  <1>4. /\ Cardinality(MergesBefore(k)) \in Nat
        /\ Cardinality(MergesBefore(k)) < Cardinality(ReadMerges)
    BY <1>2, <1>3, <1>7, ProperPart
  <1>5. Cardinality(ReadMerges) \in Nat
    BY <1>2, FS_CardinalityType
  <1>6. QED
    BY <1>4, <1>5, VocabularyAssumption DEF RankOf, GymRanks

-----------------------------------------------------------------------------
(* Words of one byte.                                                      *)
LEMMA SingleBytesType ==
    /\ IsFiniteSet(DOMAIN SingleBytes)
    /\ \A b \in Bytes : <<b>> \in DOMAIN SingleBytes /\ SingleBytes[<<b>>] = RankOfByte(b)
    /\ \A w \in DOMAIN SingleBytes : \E b \in Bytes : w = <<b>>
  <1> DEFINE f == [b \in Bytes |-> <<b>>]
  <1>1. f \in Surjection(Bytes, DOMAIN SingleBytes)
    BY DEF Surjection, SingleBytes
  <1>2. QED
    BY <1>1, BytesFinite, FS_Surjection DEF SingleBytes

(* The bytes have their ranks before a line is read.                       *)
LEMMA InitVocabulary == Init => VocabularyInv
  <1> SUFFICES ASSUME Init PROVE VocabularyInv
    OBVIOUS
  <1> USE DEF Init
  <1>1. VocabularyType
    <2>1. IsFiniteSet(DOMAIN <<>>)
      BY FS_EmptySet
    <2>2. QED
      BY <2>1, SingleBytesType DEF VocabularyType, Places
  <1>2. GymRanks
    <2> SUFFICES ASSUME source.kind = "gym" PROVE GymRanks
      BY DEF GymRanks
    <2>1. pc = "load" /\ i = 2 /\ n = ByteCount /\ ranks = SingleBytes
      OBVIOUS
    <2>2. ReadMerges = {}
      <3>1. MergeLines \subseteq 2 .. Len(source.lines) /\ Len(source.lines) \in Nat
        BY VocabularyAssumption DEF MergeLines, IsSource
      <3>2. \A k \in MergeLines : ~(k < 2)
        BY <3>1
      <3>3. QED
        BY <2>1, <3>2 DEF ReadMerges
    <2>3. Cardinality(ReadMerges) = 0
      BY <2>2, FS_EmptySet
    <2>4. \A w \in DOMAIN ranks : Ranked(w)
      BY <2>1, SingleBytesType DEF Ranked
    <2>5. n - 1 \in 0 .. ByteCount - 1
      BY <2>1, VocabularyAssumption
    <2>6. PICK b \in Bytes : RankOfByte(b) = n - 1
      BY <2>5, RankOfByteOnto
    <2>7. n - 1 \in Range(ranks)
      BY <2>1, <2>6, SingleBytesType DEF Range
    <2>8. QED
      BY <2>1, <2>2, <2>3, <2>4, <2>7, SingleBytesType, VocabularyAssumption DEF GymRanks
  <1>3. Compared /\ NumberedBehind /\ Decodes
    BY DEF Compared, NumberedBehind, Decodes
  <1>4. QED
    BY <1>1, <1>2, <1>3 DEF VocabularyInv

(* A step that reads no merge keeps the ranks of the merges.               *)
LEMMA RanksKept == ASSUME GymRanks, source' = source, ranks' = ranks, n' = n,
    source.kind = "gym" => i' \in Nat /\ (pc' = "load" => i' >= 2) /\ ReadMerges' = ReadMerges
    PROVE GymRanks'
  <1> SUFFICES ASSUME source.kind = "gym" PROVE GymRanks'
    BY DEF GymRanks
  <1>1. \A k : MergedWord(k)' = MergedWord(k)
    BY DEF MergedWord
  <1>2. \A k : RankOf(k)' = RankOf(k)
    BY DEF RankOf, MergesBefore, MergeLines
  <1>3. \A w : Ranked(w)' <=> Ranked(w)
    BY <1>1, <1>2 DEF Ranked
  <1>4. QED
    BY <1>1, <1>3 DEF GymRanks

(* A merge gets the next rank; the word that it makes may lose an old one. *)
LEMMA MergeRanked == ASSUME VocabularyInv, source.kind = "gym", pc = "load", i \in MergeLines,
    UNCHANGED <<source, pc>>, i' = i + 1, n' = n + 1, ranks' = Assign(ranks, MergedWord(i), n)
    PROVE GymRanks'
  <1> USE DEF VocabularyInv
  <1>1. /\ i \in Nat /\ MergeLines' = MergeLines
        /\ MergeLines \in SUBSET Nat /\ IsFiniteSet(MergeLines)
    BY MergeLinesFinite DEF MergeLines
  <1>2. ReadMerges' = ReadMerges \cup {i} /\ i \notin ReadMerges
    <2>1. \A k \in MergeLines : k < i + 1 <=> k < i \/ k = i
      BY <1>1
    <2>2. ~(i < i)
      BY <1>1
    <2>3. QED
      BY <1>1, <2>1, <2>2 DEF ReadMerges
  <1>3. IsFiniteSet(ReadMerges)
    BY <1>1, FS_Subset DEF ReadMerges
  <1>4. /\ Cardinality(ReadMerges) \in Nat
        /\ Cardinality(ReadMerges') = Cardinality(ReadMerges) + 1
    BY <1>2, <1>3, FS_AddElement, FS_CardinalityType
  <1>5. n = ByteCount + Cardinality(ReadMerges)
    BY DEF GymRanks
  <1>6. n' = ByteCount + Cardinality(ReadMerges')
    BY <1>4, <1>5, VocabularyAssumption
  <1>7. \A k : RankOf(k)' = RankOf(k) /\ MergedWord(k)' = MergedWord(k)
    BY <1>1 DEF RankOf, MergesBefore, MergedWord
  <1>8. RankOf(i) = n
    BY <1>5 DEF RankOf, MergesBefore, ReadMerges
  <1>9. /\ DOMAIN ranks' = DOMAIN ranks \cup {MergedWord(i)}
        /\ ranks'[MergedWord(i)] = n
        /\ \A w \in DOMAIN ranks \ {MergedWord(i)} : ranks'[w] = ranks[w]
    BY DEF Assign
  <1>10. ASSUME NEW w \in DOMAIN ranks' PROVE Ranked(w)'
    <2>1. CASE w = MergedWord(i)
      BY <1>2, <1>7, <1>8, <1>9, <2>1 DEF Ranked
    <2>2. CASE w # MergedWord(i)
      <3>1. Ranked(w) /\ ranks'[w] = ranks[w]
        BY <1>9, <2>2 DEF GymRanks
      <3>2. QED
        BY <1>2, <1>7, <3>1 DEF Ranked
    <2>3. QED
      BY <2>1, <2>2
  <1>11. n' - 1 = n /\ n \in Range(ranks)'
    BY <1>4, <1>5, <1>9, VocabularyAssumption DEF Range
  <1>12. \A b \in Bytes : <<b>> \in DOMAIN ranks'
    BY <1>9 DEF GymRanks
  <1>13. \A k \in ReadMerges' : MergedWord(k)' \in DOMAIN ranks'
    BY <1>2, <1>7, <1>9 DEF GymRanks
  <1>14. QED
    BY <1>1, <1>6, <1>10, <1>11, <1>12, <1>13 DEF GymRanks

\* A merge that is read takes the next rank, as the invariant says.
LEMMA ReadMergeStep == ASSUME VocabularyInv, ReadMerge PROVE VocabularyInv'
  <1>1. /\ pc = "load" /\ source.kind = "gym" /\ i <= Len(source.lines) /\ i' = i + 1
        /\ UNCHANGED <<source, names, pc, encoder, specials>> /\ decoder' = decoder
    BY DEF ReadMerge, object
  <1>2. i \in Nat /\ i >= 2 /\ Len(source.lines) \in Nat
    BY <1>1, VocabularyAssumption DEF VocabularyInv, GymRanks, VocabularyType, IsSource
  <1>3. CASE Len(source.lines[i]) = 2
    <2>1. ranks' = Assign(ranks, MergedWord(i), n) /\ n' = n + 1
      BY <1>3 DEF ReadMerge, MergedWord
    <2>2. DOMAIN ranks' = DOMAIN ranks \cup {MergedWord(i)}
      BY <2>1 DEF Assign
    <2>3. IsFiniteSet(DOMAIN ranks')
      BY <2>2, FS_AddElement DEF VocabularyInv, VocabularyType
    <2>4. i \in MergeLines
      BY <1>1, <1>2, <1>3 DEF MergeLines
    <2>5. GymRanks'
      BY <1>1, <2>1, <2>4, MergeRanked
    <2>6. VocabularyType' /\ Compared' /\ NumberedBehind' /\ Decodes'
      BY <1>1, <2>3 DEF VocabularyInv, VocabularyType, Compared, NumberedBehind, Decodes
    <2>7. QED
      BY <2>5, <2>6 DEF VocabularyInv
  <1>4. CASE Len(source.lines[i]) # 2
    <2>1. ranks' = ranks /\ n' = n
      BY <1>4 DEF ReadMerge
    <2>2. ReadMerges' = ReadMerges
      <3>1. MergeLines' = MergeLines /\ i \notin MergeLines /\ MergeLines \in SUBSET Nat
        BY <1>1, <1>4, MergeLinesFinite DEF MergeLines, VocabularyInv
      <3>2. \A k \in MergeLines : k < i + 1 <=> k < i
        BY <1>2, <3>1
      <3>3. QED
        BY <1>1, <3>1, <3>2 DEF ReadMerges
    <2>3. GymRanks'
      BY <1>1, <1>2, <2>1, <2>2, RanksKept DEF VocabularyInv
    <2>4. VocabularyType' /\ Compared' /\ NumberedBehind' /\ Decodes'
      BY <1>1, <2>1 DEF VocabularyInv, VocabularyType, Compared, NumberedBehind, Decodes
    <2>5. QED
      BY <2>3, <2>4 DEF VocabularyInv
  <1>5. QED
    BY <1>3, <1>4

\* A tiktoken line leaves the file kind alone.
LEMMA TiktokenLineStep == ASSUME VocabularyInv, ReadTiktokenLine PROVE VocabularyInv'
  <1>1. /\ pc = "load" /\ source.kind = "tiktoken"
        /\ UNCHANGED <<source, pc, n, encoder, specials>> /\ decoder' = decoder
    BY DEF ReadTiktokenLine, object
  <1>2. IsFiniteSet(DOMAIN ranks')
    <2>1. CASE Len(source.lines[i]) = 2
      <3>1. DOMAIN ranks' = DOMAIN ranks \cup {source.lines[i][1]}
        BY <2>1 DEF ReadTiktokenLine, Assign
      <3>2. QED
        BY <3>1, FS_AddElement DEF VocabularyInv, VocabularyType
    <2>2. CASE Len(source.lines[i]) # 2
      BY <2>2 DEF ReadTiktokenLine, VocabularyInv, VocabularyType
    <2>3. QED
      BY <2>1, <2>2
  <1>3. QED
    BY <1>1, <1>2 DEF VocabularyInv, VocabularyType, GymRanks, Compared,
       NumberedBehind, Decodes

(* All lines are read: the merges read are those of the file.              *)
LEMMA ParseEncoderStep == ASSUME VocabularyInv, ParseEncoder PROVE VocabularyInv'
  <1>1. /\ pc = "load" /\ source.kind = "gym" /\ i > Len(source.lines) /\ i' = 1
        /\ pc' \in {"json", "failed"}
        /\ UNCHANGED <<source, ranks, n, encoder, specials>> /\ decoder' = decoder
    BY DEF ParseEncoder, loading, object
  <1>2. ReadMerges' = ReadMerges
    <2>1. MergeLines' = MergeLines /\ MergeLines \subseteq 2 .. Len(source.lines)
      BY <1>1 DEF MergeLines
    <2>2. i \in Nat /\ Len(source.lines) \in Nat
      BY <1>1, VocabularyAssumption DEF VocabularyInv, GymRanks, VocabularyType, IsSource
    <2>3. \A k \in MergeLines : k < i
      BY <1>1, <2>1, <2>2
    <2>4. QED
      BY <1>1, <2>1, <2>3 DEF ReadMerges
  <1>3. GymRanks'
    BY <1>1, <1>2, RanksKept DEF VocabularyInv
  <1>4. VocabularyType' /\ Compared' /\ NumberedBehind' /\ Decodes'
    BY <1>1 DEF VocabularyInv, VocabularyType, Places, Compared, NumberedBehind, Decodes
  <1>5. QED
    BY <1>3, <1>4 DEF VocabularyInv

(* A step that reads or compares encoder.json, or ends a tiktoken file.    *)
LEMMA ReadStep == ASSUME VocabularyInv, ReadEntry \/ CompareWithEncoder \/ EndTiktoken
    PROVE VocabularyInv'
  <1>1. /\ UNCHANGED <<source, ranks, n, specials>> /\ decoder' = decoder
        /\ pc \in {"load", "json"} /\ pc' \in {"json", "number", "failed"}
        /\ source.kind = "gym" => pc = "json" /\ i' \in {i, i + 1}
    BY DEF ReadEntry, CompareWithEncoder, EndTiktoken, loading, object
  <1>2. source.kind = "gym" => i' \in Nat
    BY <1>1 DEF VocabularyInv, GymRanks
  <1>3. source.kind = "gym" => ReadMerges' = ReadMerges
    BY <1>1 DEF ReadMerges, MergeLines
  <1>4. GymRanks'
    BY <1>1, <1>2, <1>3, RanksKept DEF VocabularyInv
  <1>5. Compared'
    BY <1>1 DEF ReadEntry, CompareWithEncoder, EndTiktoken, Matches, Compared
  <1>6. VocabularyType' /\ NumberedBehind' /\ Decodes'
    BY <1>1 DEF VocabularyInv, VocabularyType, Places, NumberedBehind, Decodes
  <1>7. QED
    BY <1>4, <1>5, <1>6 DEF VocabularyInv

(* The steps of numbering and of an object, which read nothing.            *)
LEMMA NothingRead == ASSUME VocabularyInv, UNCHANGED <<source, ranks, n, i>>,
    pc \notin {"load", "json"}, pc' \in Places \ {"load", "json", "number"}
    PROVE VocabularyType' /\ GymRanks' /\ Compared'
  <1>1. ReadMerges' = ReadMerges
    BY DEF ReadMerges, MergeLines
  <1>2. GymRanks'
    BY <1>1, RanksKept DEF VocabularyInv, GymRanks
  <1>3. QED
    BY <1>2 DEF VocabularyInv, VocabularyType, Compared

\* The numbers are counted from the ranks read.
LEMMA NumberStep == ASSUME VocabularyInv, Number PROVE VocabularyInv'
  <1>1. /\ pc = "number" /\ pc' = "new" /\ UNCHANGED <<source, ranks, n, i>>
        /\ specials' = NumberFrom(Cardinality(DOMAIN ranks)) /\ names' = names
    BY DEF Number, NumberSpecials, loading
  <1>2. NumberedBehind'
    BY <1>1 DEF NumberedBehind, NumberFrom
  <1>3. Decodes'
    BY <1>1 DEF Decodes
  <1>4. QED
    BY <1>1, <1>2, <1>3, NothingRead DEF VocabularyInv, Places

\* Objects are made without touching the vocabulary.
LEMMA ObjectStep ==
    ASSUME VocabularyInv, New \/ Regex \/ SpecialRegex \/ NoSpecialRegex \/ Delete
    PROVE VocabularyInv'
  <1>1. /\ UNCHANGED <<source, names, ranks, n, i, specials>>
        /\ pc \in {"new", "regex", "special", "ready", "gone"}
        /\ pc' \in {"regex", "special", "decoder", "gone"}
    BY DEF New, Regex, SpecialRegex, NoSpecialRegex, Delete, loading
  <1>2. NumberedBehind'
    BY <1>1 DEF VocabularyInv, NumberedBehind, NumberFrom
  <1>3. Decodes'
    BY <1>1 DEF Decodes
  <1>4. QED
    BY <1>1, <1>2, <1>3, NothingRead DEF VocabularyInv, Places

\* The decoder inverts the ranks it is made of.
LEMMA DecoderStep == ASSUME VocabularyInv, FillDecoder PROVE VocabularyInv'
  <1>1. /\ UNCHANGED <<source, names, ranks, n, i, specials>>
        /\ pc = "decoder" /\ pc' = "ready"
    BY DEF FillDecoder, loading
  <1>2. NumberedBehind'
    BY <1>1 DEF VocabularyInv, NumberedBehind, NumberFrom
  <1>3. /\ decoder' \in [Range(ranks) -> DOMAIN ranks]
        /\ \A r \in DOMAIN decoder' : ranks[decoder'[r]] = r
    BY DEF FillDecoder, DecoderByRank
  <1>4. Decodes'
    BY <1>1, <1>3 DEF Decodes
  <1>5. QED
    BY <1>1, <1>2, <1>4, NothingRead DEF VocabularyInv, Places

\* Every step keeps VocabularyInv.
LEMMA VocabularyStep == ASSUME VocabularyInv, [Next]_vars PROVE VocabularyInv'
  <1>1. CASE UNCHANGED vars
    <2>1. UNCHANGED <<source, names, pc, i, ranks, n, encoder, specials, decoder>>
      BY <1>1 DEF vars, loading, object
    <2>2. source.kind = "gym" =>
              i' \in Nat /\ (pc' = "load" => i' >= 2) /\ ReadMerges' = ReadMerges
      BY <2>1 DEF VocabularyInv, GymRanks, ReadMerges, MergeLines
    <2>3. GymRanks'
      BY <2>1, <2>2, RanksKept DEF VocabularyInv
    <2>4. QED
      BY <2>1, <2>3 DEF VocabularyInv, VocabularyType, Compared, NumberedBehind,
         NumberFrom, Decodes
  <1>2. QED
    BY <1>1, ReadMergeStep, TiktokenLineStep, ParseEncoderStep, ReadStep, NumberStep,
       ObjectStep,
        DecoderStep DEF Next, Stopped

(* Bytes and merges have the ranks of their order until a word repeats, an *)
(* object is made of compared ranks only, and its tables are those ranks'. *)
THEOREM VocabularyInvHolds == Spec => []VocabularyInv
  BY InitVocabulary, VocabularyStep, PTL DEF Spec

-----------------------------------------------------------------------------
(* No two words of a gym vocabulary have one rank, whatever repeats.       *)
LEMMA GymInjective == ASSUME VocabularyInv, source.kind = "gym" PROVE IsInjective(ranks)
  <1> SUFFICES ASSUME NEW v \in DOMAIN ranks, NEW w \in DOMAIN ranks, ranks[v] = ranks[w]
               PROVE v = w
    BY DEF IsInjective
  <1>1. Ranked(v) /\ Ranked(w) /\ ReadMerges \subseteq MergeLines
    BY DEF VocabularyInv, GymRanks, ReadMerges
  <1>2. \A b \in Bytes : RankOfByte(b) \in Int /\ RankOfByte(b) < ByteCount
    BY RankOfByteType, VocabularyAssumption
  <1>3. \A k \in MergeLines : RankOf(k) \in Nat /\ RankOf(k) >= ByteCount
    BY RankOfType DEF VocabularyInv
  <1>4. \A b \in Bytes, k \in MergeLines : RankOfByte(b) # RankOf(k)
    BY <1>2, <1>3, VocabularyAssumption
  <1>5. \A j, k \in MergeLines : RankOf(j) = RankOf(k) => j = k
    BY RankOfInjective DEF VocabularyInv
  <1>6. CASE \E b \in Bytes : v = <<b>> /\ ranks[v] = RankOfByte(b)
    BY <1>1, <1>4, <1>6, RankOfByteInjective DEF Ranked
  <1>7. CASE \E k \in ReadMerges : v = MergedWord(k) /\ ranks[v] = RankOf(k)
    BY <1>1, <1>4, <1>5, <1>7 DEF Ranked
  <1>8. QED
    BY <1>1, <1>6, <1>7 DEF Ranked

(* When the ranks fill an interval none has been overwritten.              *)
LEMMA NoneLost == ASSUME VocabularyInv, source.kind = "gym", pc = "number",
    Range(ranks) = 0 .. Cardinality(DOMAIN ranks) - 1 PROVE
    /\ \A b \in Bytes : ranks[<<b>>] = RankOfByte(b)
    /\ \A k \in MergeLines : ranks[MergedWord(k)] = RankOf(k)
  <1>1. n - 1 \in 0 .. Cardinality(DOMAIN ranks) - 1 /\ ReadMerges = MergeLines
    BY DEF VocabularyInv, GymRanks, ReadMerges
  <1>2. Cardinality(DOMAIN ranks) \in Nat
    BY FS_CardinalityType DEF VocabularyInv, VocabularyType
  <1>3. n \in Nat /\ n >= ByteCount
    <2>1. IsFiniteSet(MergeLines)
      BY MergeLinesFinite DEF VocabularyInv
    <2>2. Cardinality(MergeLines) \in Nat
      BY <2>1, FS_CardinalityType
    <2>3. n = ByteCount + Cardinality(MergeLines)
      BY <1>1 DEF VocabularyInv, GymRanks
    <2>4. QED
      BY <2>2, <2>3, VocabularyAssumption
  <1>4. ASSUME NEW r \in Nat, r < n PROVE \E w \in DOMAIN ranks : ranks[w] = r
    <2>1. r \in 0 .. Cardinality(DOMAIN ranks) - 1
      BY <1>1, <1>2, <1>3, <1>4
    <2>2. QED
      BY <2>1 DEF Range
  <1>5. \A b \in Bytes : RankOfByte(b) \in Nat /\ RankOfByte(b) < ByteCount
    BY RankOfByteType, VocabularyAssumption
  <1>6. \A k \in MergeLines : RankOf(k) \in Nat /\ RankOf(k) >= ByteCount /\ RankOf(k) < n
    BY <1>1, RankOfType, RankOfBelowN DEF VocabularyInv
  <1>7. \A b \in Bytes, k \in MergeLines : RankOfByte(b) # RankOf(k)
    BY <1>5, <1>6, VocabularyAssumption
  <1>8. ASSUME NEW b \in Bytes PROVE ranks[<<b>>] = RankOfByte(b)
    <2>1. PICK w \in DOMAIN ranks : ranks[w] = RankOfByte(b)
      BY <1>3, <1>4, <1>5, VocabularyAssumption
    <2>2. Ranked(w)
      BY DEF VocabularyInv, GymRanks
    <2>3. \E c \in Bytes : w = <<c>> /\ ranks[w] = RankOfByte(c)
      BY <1>1, <1>7, <2>1, <2>2 DEF Ranked
    <2>4. QED
      BY <2>1, <2>3, RankOfByteInjective
  <1>9. ASSUME NEW k \in MergeLines PROVE ranks[MergedWord(k)] = RankOf(k)
    <2>1. PICK w \in DOMAIN ranks : ranks[w] = RankOf(k)
      BY <1>4, <1>6
    <2>2. Ranked(w)
      BY DEF VocabularyInv, GymRanks
    <2>3. \E j \in MergeLines : w = MergedWord(j) /\ ranks[w] = RankOf(j)
      BY <1>1, <1>7, <2>1, <2>2 DEF Ranked
    <2>4. QED
      BY <2>1, <2>3, RankOfInjective DEF VocabularyInv
  <1>10. QED
    BY <1>8, <1>9

(* The check against encoder.json lets no repeated merge through, and the  *)
(* ranks that pass it are ordered as the merges are.                       *)
THEOREM RanksFollowMergesHolds == Spec => []RanksFollowMerges
  <1>1. VocabularyInv => RanksFollowMerges
    <2> SUFFICES ASSUME VocabularyInv, pc = "number", source.kind = "gym",
                        Range(encoder) = 0 .. Cardinality(DOMAIN encoder) - 1
                 PROVE  RanksFollowMerges
      BY DEF RanksFollowMerges
    <2>1. /\ \A b \in Bytes : ranks[<<b>>] = RankOfByte(b)
          /\ \A k \in MergeLines : ranks[MergedWord(k)] = RankOf(k)
      BY NoneLost DEF VocabularyInv, Compared
    <2>2. \A j, k \in MergeLines : j < k => RankOf(j) < RankOf(k)
      BY RankOfGrows DEF VocabularyInv
    <2>3. ASSUME NEW k \in MergeLines, NEW b \in Bytes PROVE RankOfByte(b) < RankOf(k)
      <3>1. RankOf(k) \in Nat /\ RankOf(k) >= ByteCount
        BY RankOfType DEF VocabularyInv
      <3>2. QED
        BY <3>1, RankOfByteType, VocabularyAssumption
    <2>4. QED
      BY <2>1, <2>2, <2>3 DEF RanksFollowMerges
  <1>2. QED
    BY <1>1, VocabularyInvHolds, PTL

(* A vocabulary of the gym format has every byte and decodes each rank to  *)
(* its one word; one of the tiktoken format does if its ranks are apart.   *)
THEOREM DecodesBackHolds == Spec => []DecodesBack
  <1>1. VocabularyInv => DecodesBack
    <2> SUFFICES ASSUME VocabularyInv, pc = "ready" PROVE DecodesBack
      BY DEF DecodesBack
    <2>1. source.kind = "gym" => \A b \in Bytes : <<b>> \in DOMAIN ranks
      BY DEF VocabularyInv, GymRanks
    <2>2. ASSUME source.kind = "gym" \/ IsInjective(ranks), NEW w \in DOMAIN ranks
          PROVE  <<ranks[w], w>> \in {<<r, decoder[r]>> : r \in DOMAIN decoder}
      <3>1. IsInjective(ranks)
        BY <2>2, GymInjective
      <3>2. ranks[w] \in DOMAIN decoder /\ decoder[ranks[w]] \in DOMAIN ranks
            /\ ranks[decoder[ranks[w]]] = ranks[w]
        BY DEF VocabularyInv, Decodes, Range
      <3>3. decoder[ranks[w]] = w
        BY <3>1, <3>2 DEF IsInjective
      <3>4. QED
        BY <3>2, <3>3
    <2>3. QED
      BY <2>1, <2>2 DEF DecodesBack
  <1>2. QED
    BY <1>1, VocabularyInvHolds, PTL

(* The names of the special tokens, each once.                             *)
LEMMA NamesDistinct == ASSUME NEW ns \in SpecialNames PROVE
    /\ Len(ns) \in Nat /\ DOMAIN ns = 1 .. Len(ns)
    /\ \A j, k \in DOMAIN ns : ns[j] = ns[k] => j = k
  <1>1. CASE ns = <<>>
    BY <1>1
  <1>2. CASE ns = <<"endoftext">>
    BY <1>2
  <1>3. CASE \E l \in SetToSeqs({"en", "zh"}) : ns = <<"endoftext">> \o l \o <<"notimestamps">>
    <2>1. PICK l \in SetToSeqs({"en", "zh"}) : ns = <<"endoftext">> \o l \o <<"notimestamps">>
      BY <1>3
    <2>2. Cardinality({"en", "zh"}) = 2
      <3>1. IsFiniteSet({"en"}) /\ Cardinality({"en"}) = 1 /\ "zh" \notin {"en"}
        BY FS_Singleton
      <3>2. Cardinality({"en"} \cup {"zh"}) = 1 + 1
        BY <3>1, FS_AddElement
      <3>3. {"en"} \cup {"zh"} = {"en", "zh"}
        OBVIOUS
      <3>4. QED
        BY <3>2, <3>3
    <2>3. l \in [1 .. 2 -> {"en", "zh"}] /\ l[1] # l[2]
      BY <2>2 DEF SetToSeqs
    <2> DEFINE S == {"endoftext", "en", "zh", "notimestamps"}
               a == <<"endoftext">>
               c == <<"notimestamps">>
    <2>4. l \in Seq(S) /\ Len(l) = 2
      <3>1. l \in Seq({"en", "zh"})
        <4>1. Cardinality({"en", "zh"}) \in Nat
          BY <2>2
        <4>2. QED
          BY <4>1 DEF SetToSeqs
      <3>2. Len(l) = 2
        BY <2>3, <3>1
      <3>3. QED
        BY <3>1, <3>2, SeqMonotonic
    <2>5. /\ a \in Seq(S) /\ Len(a) = 1 /\ a[1] = "endoftext"
          /\ c \in Seq(S) /\ Len(c) = 1 /\ c[1] = "notimestamps"
      OBVIOUS
    <2>6. /\ a \o l \in Seq(S) /\ Len(a \o l) = 3
          /\ (a \o l)[1] = "endoftext" /\ (a \o l)[2] = l[1] /\ (a \o l)[3] = l[2]
      <3>1. /\ a \o l \in Seq(S) /\ Len(a \o l) = Len(a) + Len(l)
            /\ \A k \in 1 .. Len(a) + Len(l) :
                   (a \o l)[k] = IF k <= Len(a) THEN a[k] ELSE l[k - Len(a)]
        BY <2>4, <2>5, ConcatProperties
      <3>2. QED
        BY <2>4, <2>5, <3>1
    <2>7. /\ ns \in Seq(S) /\ Len(ns) = 4
          /\ ns[1] = "endoftext" /\ ns[2] = l[1] /\ ns[3] = l[2] /\ ns[4] = "notimestamps"
      <3>1. /\ ns \in Seq(S) /\ Len(ns) = Len(a \o l) + Len(c)
            /\ \A k \in 1 .. Len(a \o l) + Len(c) :
                   ns[k] = IF k <= Len(a \o l) THEN (a \o l)[k] ELSE c[k - Len(a \o l)]
        BY <2>1, <2>5, <2>6, ConcatProperties
      <3>2. QED
        BY <2>5, <2>6, <3>1
    <2>8. l[1] \in {"en", "zh"} /\ l[2] \in {"en", "zh"}
      BY <2>3
    <2>9. ASSUME NEW j \in 1 .. 4, NEW k \in 1 .. 4, ns[j] = ns[k] PROVE j = k
      <3>1. (j = 1 \/ j = 2 \/ j = 3 \/ j = 4) /\ (k = 1 \/ k = 2 \/ k = 3 \/ k = 4)
        OBVIOUS
      <3>2. QED
        BY <2>3, <2>7, <2>8, <2>9, <3>1
    <2>10. QED
      BY <2>7, <2>9, LenProperties
  <1>4. QED
    BY <1>1, <1>2, <1>3 DEF SpecialNames

(* Numbering from a number gives the following ones, each once.            *)
LEMMA NumbersFollow == ASSUME names \in SpecialNames, NEW first \in Nat PROVE
    /\ IsInjective(NumberFrom(first))
    /\ Cardinality(DOMAIN NumberFrom(first)) = Len(names) /\ Len(names) \in Nat
    /\ Range(NumberFrom(first)) = first .. first + Len(names) - 1
  <1>1. /\ Len(names) \in Nat /\ DOMAIN names = 1 .. Len(names)
        /\ \A j, k \in DOMAIN names : names[j] = names[k] => j = k
    BY NamesDistinct
  <1>2. \A k \in DOMAIN names : IndexIn(names, names[k]) = k
    BY <1>1 DEF IndexIn
  <1>3. /\ DOMAIN NumberFrom(first) = Range(names)
        /\ \A k \in DOMAIN names : names[k] \in Range(names)
                                   /\ NumberFrom(first)[names[k]] = first + k - 1
    BY <1>2 DEF NumberFrom, Range
  <1>4. \A t \in Range(names) : \E k \in DOMAIN names : t = names[k]
    BY DEF Range
  <1>5. IsInjective(NumberFrom(first))
    <2> SUFFICES ASSUME NEW t \in Range(names), NEW u \in Range(names),
                        NumberFrom(first)[t] = NumberFrom(first)[u] PROVE t = u
      BY <1>3 DEF IsInjective
    <2>1. PICK j \in DOMAIN names, k \in DOMAIN names : t = names[j] /\ u = names[k]
      BY <1>4
    <2>2. first + j - 1 = first + k - 1
      BY <1>3, <2>1
    <2>3. QED
      BY <1>1, <2>1, <2>2
  <1>6. Cardinality(DOMAIN NumberFrom(first)) = Len(names)
    <2> DEFINE f == [k \in 1 .. Len(names) |-> names[k]]
    <2>1. f \in Bijection(1 .. Len(names), Range(names))
      BY <1>1, <1>3, <1>4 DEF Bijection, Injection, Surjection, IsInjective
    <2>2. IsFiniteSet(1 .. Len(names)) /\ Cardinality(1 .. Len(names)) = Len(names)
      BY <1>1, FS_Interval
    <2>3. QED
      BY <1>3, <2>1, <2>2, FS_Bijection DEF ExistsBijection
  <1>7. Range(NumberFrom(first)) = first .. first + Len(names) - 1
    <2>1. Range(NumberFrom(first)) = {first + k - 1 : k \in 1 .. Len(names)}
      <3>1. Range(NumberFrom(first)) = {NumberFrom(first)[t] : t \in Range(names)}
        BY <1>3 DEF Range
      <3>2. \A t \in Range(names) :
                NumberFrom(first)[t] \in {first + k - 1 : k \in 1 .. Len(names)}
        BY <1>1, <1>3, <1>4
      <3>3. \A k \in 1 .. Len(names) :
                first + k - 1 \in {NumberFrom(first)[t] : t \in Range(names)}
        BY <1>1, <1>3
      <3>4. QED
        BY <3>1, <3>2, <3>3
    <2>2. ASSUME NEW r \in first .. first + Len(names) - 1
          PROVE  r \in {first + k - 1 : k \in 1 .. Len(names)}
      <3>1. r - first + 1 \in 1 .. Len(names) /\ r = first + (r - first + 1) - 1
        BY <1>1
      <3>2. QED
        BY <3>1
    <2>3. \A k \in 1 .. Len(names) : first + k - 1 \in first .. first + Len(names) - 1
      BY <1>1
    <2>4. QED
      BY <2>1, <2>2, <2>3
  <1>8. QED
    BY <1>1, <1>5, <1>6, <1>7

(* The special tokens follow the ranks of a file that numbers its words in *)
(* order without a gap, and share no number with one.                      *)
THEOREM SpecialsBehindRanksHolds == Spec => []SpecialsBehindRanks
  <1>1. VocabularyInv /\ TablesInv => SpecialsBehindRanks
    <2> DEFINE d == Cardinality(DOMAIN ranks)
    <2> SUFFICES ASSUME VocabularyInv, TablesInv, pc = "ready", Range(ranks) = 0 .. d - 1
                 PROVE  SpecialsBehindRanks
      BY DEF SpecialsBehindRanks
    <2>1. d \in Nat
      BY FS_CardinalityType DEF VocabularyInv, VocabularyType
    <2>2. specials = NumberFrom(d) /\ names \in SpecialNames
      BY DEF VocabularyInv, NumberedBehind, TablesInv, NumberedAll
    <2>3. /\ IsInjective(specials) /\ Cardinality(DOMAIN specials) = Len(names)
          /\ Len(names) \in Nat /\ Range(specials) = d .. d + Len(names) - 1
      BY <2>1, <2>2, NumbersFollow
    <2>4. Range(ranks) \cup Range(specials) = 0 .. d + Len(names) - 1
      BY <2>1, <2>3
    <2>5. d + Len(names) - 1 = (d + Cardinality(DOMAIN specials)) - 1
      BY <2>1, <2>3
    <2>6. QED
      BY <2>3, <2>4, <2>5 DEF SpecialsBehindRanks
  <1>2. Spec => []TablesInv
    BY InitTablesInv, NextTablesInv, PTL DEF Spec
  <1>3. QED
    BY <1>1, <1>2, VocabularyInvHolds, PTL

(* A run of the two together is a run of each.                             *)
LEMMA CoreRuns == CoreSpec => Spec /\ Slots!Spec
  <1>1. CoreInit => Init /\ Slots!Init
    BY DEF CoreInit
  <1>2. [CoreNext]_<<vars, slotVars>> => [Next]_vars /\ [Slots!Next]_(Slots!vars)
    BY DEF CoreNext, slotVars, Slots!vars
  <1>3. QED
    BY <1>1, <1>2, PTL DEF CoreSpec, Spec, Slots!Spec
=============================================================================
