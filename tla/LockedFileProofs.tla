-------------------------- MODULE LockedFileProofs --------------------------
(***************************************************************************)
(* lock_file keeps reads and writes whole, for any processes and contents. *)
(***************************************************************************)
EXTENDS LockedFile, SequenceTheorems, TLAPS

USE ParametersAssumption

LEMMA InitIInv == Init => IInv
BY DEF Init, IInv, TypeOK, Alone, Idle, Whole, InFunc

\* A part of a content with its next block is a longer part of it.
LEMMA NextBlock ==
    ASSUME NEW c \in Seq(Blocks), NEW f \in Seq(Blocks),
           Len(f) < Len(c), f = SubSeq(c, 1, Len(f))
    PROVE  /\ Append(f, c[Len(f) + 1]) \in Seq(Blocks)
           /\ Len(Append(f, c[Len(f) + 1])) = Len(f) + 1
           /\ Append(f, c[Len(f) + 1]) = SubSeq(c, 1, Len(f) + 1)
<1> DEFINE g == Append(f, c[Len(f) + 1])
<1>1. Len(f) \in Nat /\ Len(c) \in Nat
  OBVIOUS
<1>2. c[Len(f) + 1] \in Blocks
  BY <1>1, ElementOfSeq
<1>3. /\ g \in Seq(Blocks) /\ Len(g) = Len(f) + 1
      /\ \A k \in 1 .. Len(f) : g[k] = f[k]
      /\ g[Len(f) + 1] = c[Len(f) + 1]
  BY <1>2, AppendProperties
<1>4. /\ SubSeq(c, 1, Len(f) + 1) \in Seq(Blocks)
      /\ Len(SubSeq(c, 1, Len(f) + 1)) = Len(f) + 1
      /\ \A k \in 1 .. Len(f) + 1 : SubSeq(c, 1, Len(f) + 1)[k] = c[k]
  BY <1>1, SubSeqProperties
<1>5. \A k \in 1 .. Len(f) : f[k] = c[k]
  BY <1>1, SubSeqProperties
<1>6. \A k \in 1 .. Len(g) : g[k] = SubSeq(c, 1, Len(f) + 1)[k]
  BY <1>1, <1>3, <1>4, <1>5
<1>7. g = SubSeq(c, 1, Len(f) + 1)
  BY <1>3, <1>4, <1>6, SeqEqual
<1> QED BY <1>3, <1>7

\* The whole part of a content is the content.
LEMMA WholeContent ==
    ASSUME NEW c \in Seq(Blocks) PROVE SubSeq(c, 1, Len(c)) = c
<1>1. /\ SubSeq(c, 1, Len(c)) \in Seq(Blocks) /\ Len(SubSeq(c, 1, Len(c))) = Len(c)
      /\ \A k \in 1 .. Len(c) : SubSeq(c, 1, Len(c))[k] = c[k]
  BY SubSeqProperties
<1> QED BY <1>1, SeqEqual

-----------------------------------------------------------------------------
\* What the writer of a file knows: the next block, and that the last one completes it.
LEMMA WriteStep ==
    ASSUME IInv, NEW p \in Procs, FWrite(p)
    PROVE  /\ content[p] \in Contents /\ content[p] \in Seq(Blocks)
           /\ file' \in Seq(Blocks) /\ Len(file') = Len(file) + 1
           /\ file' = SubSeq(content[p], 1, Len(file'))
           /\ Len(file') = Len(content[p]) => file' = content[p]
<1>1. /\ content[p] \in Contents /\ content[p] \in Seq(Blocks) /\ file \in Seq(Blocks)
      /\ Len(file) < Len(content[p]) /\ file = SubSeq(content[p], 1, Len(file))
      /\ file' = Append(file, content[p][Len(file) + 1])
  BY ContentsAssumption DEF IInv, TypeOK, Whole, FWrite
<1>2. /\ file' \in Seq(Blocks) /\ Len(file') = Len(file) + 1
      /\ file' = SubSeq(content[p], 1, Len(file'))
  BY <1>1, NextBlock
<1>3. Len(file') = Len(content[p]) => file' = content[p]
  BY <1>1, <1>2, WholeContent
<1> QED BY <1>1, <1>2, <1>3

\* A reader finds the file as long as it was when it asked for its size.
LEMMA ReadStep ==
    ASSUME IInv, NEW p \in Procs, FRead(p)
    PROVE  \/ result' = result
           \/ result' = [result EXCEPT ![p] = Text!CString(stored)]
<1>1. /\ pc[p] = "read" /\ size[p] = Len(file) /\ file \in Seq(Blocks)
      /\ \/ result' = result
         \/ result' = [result EXCEPT ![p] = Text!CString(SubSeq(file, 1, Len(file)))]
  BY DEF IInv, TypeOK, Whole, FRead
<1>2. \A q \in Procs : pc[q] # "write"
  BY <1>1 DEF IInv, Alone, InFunc
<1> QED BY <1>1, <1>2, WholeContent DEF IInv, Whole

LEMMA TypeStep == ASSUME IInv, [Next]_vars PROVE TypeOK'
<1> USE DEF TypeOK, Goto, Over, func
<1> TypeOK
  BY DEF IInv
<1>1. ASSUME NEW p \in Procs, Open(p) PROVE TypeOK'
  BY <1>1 DEF Open
<1>2. ASSUME NEW p \in Procs, Flock(p) PROVE TypeOK'
  BY <1>2 DEF Flock
<1>3. ASSUME NEW p \in Procs, FOpen(p) PROVE TypeOK'
  <2>1. Len(file) \in Nat /\ <<>> \in Seq(Blocks)
    BY EmptySeq
  <2> QED BY <1>3, <2>1 DEF FOpen
<1>4. ASSUME NEW p \in Procs, FWrite(p) PROVE TypeOK'
  <2>1. file' \in Seq(Blocks)
    BY <1>4, WriteStep
  <2> QED BY <1>4, <2>1 DEF FWrite
<1>5. ASSUME NEW p \in Procs, FRead(p) PROVE TypeOK'
  <2>1. DOMAIN result' = Procs
    BY <1>5 DEF FRead
  <2> QED BY <1>5, <2>1 DEF FRead
<1>6. ASSUME NEW p \in Procs, Leave(p) PROVE TypeOK'
  BY <1>6 DEF Leave
<1>7. ASSUME NEW p \in Procs, Throw(p) PROVE TypeOK'
  BY <1>7 DEF Throw
<1>8. ASSUME NEW p \in Procs, Crash(p) PROVE TypeOK'
  <2>1. <<>> \in Seq(Blocks)
    BY EmptySeq
  <2> QED BY <1>8, <2>1 DEF Crash
<1>9. ASSUME NEW p \in Procs, Restart(p) PROVE TypeOK'
  BY <1>9 DEF Restart
<1>10. ASSUME NEW p \in Procs, FlockFails(p) PROVE TypeOK'
  BY <1>10 DEF FlockFails
<1>11. ASSUME NEW p \in Procs, FWriteFails(p) PROVE TypeOK'
  BY <1>11 DEF FWriteFails
<1>12. CASE UNCHANGED vars
  BY <1>12 DEF vars
<1> QED BY <1>1, <1>2, <1>3, <1>4, <1>5, <1>6, <1>7, <1>8, <1>9, <1>10, <1>11, <1>12
  DEF Next, Call, Fail, Finished

LEMMA AloneStep == ASSUME IInv, [Next]_vars PROVE Alone'
<1> USE DEF IInv, TypeOK, Alone, InFunc, Goto, Over
<1>1. ASSUME NEW p \in Procs, Open(p) PROVE Alone'
  BY <1>1 DEF Open
<1>2. ASSUME NEW p \in Procs, Flock(p) PROVE Alone'
  BY <1>2 DEF Flock
<1>3. ASSUME NEW p \in Procs, FOpen(p) PROVE Alone'
  BY <1>3 DEF FOpen
<1>4. ASSUME NEW p \in Procs, FWrite(p) PROVE Alone'
  BY <1>4 DEF FWrite
<1>5. ASSUME NEW p \in Procs, FRead(p) PROVE Alone'
  BY <1>5 DEF FRead
<1>6. ASSUME NEW p \in Procs, Leave(p) PROVE Alone'
  BY <1>6 DEF Leave
<1>7. ASSUME NEW p \in Procs, Throw(p) PROVE Alone'
  BY <1>7 DEF Throw
<1>8. ASSUME NEW p \in Procs, Crash(p) PROVE Alone'
  BY <1>8 DEF Crash
<1>9. ASSUME NEW p \in Procs, Restart(p) PROVE Alone'
  BY <1>9 DEF Restart
<1>10. ASSUME NEW p \in Procs, FlockFails(p) PROVE Alone'
  BY <1>10 DEF FlockFails
<1>11. ASSUME NEW p \in Procs, FWriteFails(p) PROVE Alone'
  BY <1>11 DEF FWriteFails
<1>12. CASE UNCHANGED vars
  BY <1>12 DEF vars
<1> QED BY <1>1, <1>2, <1>3, <1>4, <1>5, <1>6, <1>7, <1>8, <1>9, <1>10, <1>11, <1>12
  DEF Next, Call, Fail, Finished

LEMMA IdleStep == ASSUME IInv, [Next]_vars PROVE Idle'
<1> USE DEF IInv, TypeOK, Alone, Idle, InFunc, Goto, Over
<1>1. ASSUME NEW p \in Procs, Open(p) PROVE Idle'
  BY <1>1 DEF Open
<1>2. ASSUME NEW p \in Procs, Flock(p) PROVE Idle'
  BY <1>2 DEF Flock
<1>3. ASSUME NEW p \in Procs, FOpen(p) PROVE Idle'
  BY <1>3 DEF FOpen
<1>4. ASSUME NEW p \in Procs, FWrite(p) PROVE Idle'
  BY <1>4 DEF FWrite
<1>5. ASSUME NEW p \in Procs, FRead(p) PROVE Idle'
  BY <1>5 DEF FRead
<1>6. ASSUME NEW p \in Procs, Leave(p) PROVE Idle'
  BY <1>6 DEF Leave
<1>7. ASSUME NEW p \in Procs, Throw(p) PROVE Idle'
  BY <1>7 DEF Throw
<1>8. ASSUME NEW p \in Procs, Crash(p) PROVE Idle'
  BY <1>8 DEF Crash
<1>9. ASSUME NEW p \in Procs, Restart(p) PROVE Idle'
  BY <1>9 DEF Restart
<1>10. ASSUME NEW p \in Procs, FlockFails(p) PROVE Idle'
  BY <1>10 DEF FlockFails
<1>11. ASSUME NEW p \in Procs, FWriteFails(p) PROVE Idle'
  BY <1>11 DEF FWriteFails
<1>12. CASE UNCHANGED vars
  BY <1>12 DEF vars
<1> QED BY <1>1, <1>2, <1>3, <1>4, <1>5, <1>6, <1>7, <1>8, <1>9, <1>10, <1>11, <1>12
  DEF Next, Call, Fail, Finished

LEMMA WholeStep == ASSUME IInv, [Next]_vars PROVE Whole'
<1> USE DEF IInv, TypeOK, Alone, InFunc, Whole, Goto, Over, func
<1>1. ASSUME NEW p \in Procs, Open(p) PROVE Whole'
  BY <1>1 DEF Open
<1>2. ASSUME NEW p \in Procs, Flock(p) PROVE Whole'
  BY <1>2 DEF Flock
<1>3. ASSUME NEW p \in Procs, FOpen(p) PROVE Whole'
  <2>1. \A q \in Procs : q # p => pc[q] \notin {"read", "write"}
    BY <1>3 DEF FOpen
  <2>2. CASE UNCHANGED file
    BY <1>3, <2>1, <2>2 DEF FOpen
  <2>3. CASE content[p] # <<>> /\ file' = <<>> /\ pc' = [pc EXCEPT ![p] = "write"]
    <3>1. content[p] \in Contents /\ content[p] \in Seq(Blocks)
      BY <2>3, ContentsAssumption
    <3>2. Len(content[p]) > 0 /\ Len(<<>>) = 0
      BY <2>3, <3>1, EmptySeq
    <3>3. <<>> = SubSeq(content[p], 1, 0)
      BY SubSeqEmpty
    <3> QED BY <1>3, <2>1, <2>3, <3>1, <3>2, <3>3 DEF FOpen
  <2> QED BY <1>3, <2>2, <2>3 DEF FOpen
<1>4. ASSUME NEW p \in Procs, FWrite(p) PROVE Whole'
  BY <1>4, WriteStep DEF FWrite
<1>5. ASSUME NEW p \in Procs, FRead(p) PROVE Whole'
  BY <1>5 DEF FRead
<1>6. ASSUME NEW p \in Procs, Leave(p) PROVE Whole'
  BY <1>6 DEF Leave
<1>7. ASSUME NEW p \in Procs, Throw(p) PROVE Whole'
  BY <1>7 DEF Throw
<1>8. ASSUME NEW p \in Procs, Crash(p) PROVE Whole'
  BY <1>8 DEF Crash
<1>9. ASSUME NEW p \in Procs, Restart(p) PROVE Whole'
  BY <1>9 DEF Restart
<1>10. ASSUME NEW p \in Procs, FlockFails(p) PROVE Whole'
  BY <1>10 DEF FlockFails
<1>11. ASSUME NEW p \in Procs, FWriteFails(p) PROVE Whole'
  BY <1>11 DEF FWriteFails
<1>12. CASE UNCHANGED vars
  BY <1>12 DEF vars
<1> QED BY <1>1, <1>2, <1>3, <1>4, <1>5, <1>6, <1>7, <1>8, <1>9, <1>10, <1>11, <1>12
  DEF Next, Call, Fail, Finished

\* lock_file lets one process at a time run its func, and the file is then either what
\* was stored last or the beginning of what that process writes.
THEOREM IInvHolds == Spec => []IInv
<1>1. IInv /\ [Next]_vars => IInv'
  BY TypeStep, AloneStep, IdleStep, WholeStep DEF IInv
<1> QED BY <1>1, InitIInv, PTL DEF Spec

-----------------------------------------------------------------------------
LEMMA InitRefines == Init => SF!Init
BY DEF Init, SF!Init, Up

\* A write that ends early leaves the beginning of its content.
LEMMA TornStep ==
    ASSUME IInv, NEW p \in Procs, pc[p] = "write", stored' = file
    PROVE  SF!Torn
<1>1. /\ content[p] \in Contents /\ file = SubSeq(content[p], 1, Len(file))
      /\ Len(file) \in 0 .. Len(content[p])
  BY ContentsAssumption DEF IInv, Whole, TypeOK
<1> QED BY <1>1 DEF SF!Torn

\* Every step of LockedFile is a step of StoredFile or changes nothing it shows.
LEMMA StepRefines == ASSUME IInv, [Next]_vars PROVE [SF!Next]_(SF!vars)
<1> USE DEF Up, Goto, Over, func
<1> TypeOK
  BY DEF IInv
<1>1. ASSUME NEW p \in Procs, Open(p) PROVE UNCHANGED SF!vars
  BY <1>1 DEF Open, SF!vars, TypeOK
<1>2. ASSUME NEW p \in Procs, Flock(p) PROVE UNCHANGED SF!vars
  BY <1>2 DEF Flock, SF!vars, TypeOK
<1>3. ASSUME NEW p \in Procs, FOpen(p) PROVE UNCHANGED SF!vars
  BY <1>3 DEF FOpen, SF!vars, TypeOK
<1>4. ASSUME NEW p \in Procs, FWrite(p) PROVE SF!Write(p) \/ UNCHANGED SF!vars
  <2>1. p \in Up /\ UNCHANGED <<result, Up, failures>>
    BY <1>4 DEF FWrite, TypeOK
  <2>2. stored' \in Contents \/ stored' = stored
    BY <1>4, WriteStep DEF FWrite
  <2> QED BY <2>1, <2>2 DEF SF!Write, SF!vars
<1>5. ASSUME NEW p \in Procs, FRead(p) PROVE SF!Read(p) \/ UNCHANGED SF!vars
  <2>1. p \in Up /\ UNCHANGED <<stored, Up, failures>>
    BY <1>5 DEF FRead, TypeOK
  <2>2. Text!CString(stored) = SF!Text!CString(stored)
    BY DEF Text!CString, Text!Nul, Text!SelectInSeq, Text!Min,
           SF!Text!CString, SF!Text!Nul, SF!Text!SelectInSeq, SF!Text!Min
  <2> QED BY <1>5, <2>1, <2>2, ReadStep DEF SF!Read, SF!vars
<1>6. ASSUME NEW p \in Procs, Leave(p) PROVE UNCHANGED SF!vars
  BY <1>6 DEF Leave, SF!vars, TypeOK
<1>7. ASSUME NEW p \in Procs, Throw(p) PROVE UNCHANGED SF!vars
  BY <1>7 DEF Throw, SF!vars, TypeOK
<1>8. ASSUME NEW p \in Procs, Crash(p) PROVE SF!Crash(p)
  <2>1. /\ p \in Up /\ Up' = Up \ {p} /\ result' = [result EXCEPT ![p] = <<>>]
        /\ failures' = failures + 1
    BY <1>8 DEF Crash, TypeOK
  <2>2. CASE pc[p] # "write"
    BY <1>8, <2>1, <2>2 DEF Crash, SF!Crash
  <2>3. CASE pc[p] = "write"
    <3>1. stored' = file
      BY <1>8, <2>3 DEF Crash
    <3> QED BY <2>1, <2>3, <3>1, TornStep DEF SF!Crash
  <2> QED BY <2>2, <2>3
<1>9. ASSUME NEW p \in Procs, Restart(p) PROVE SF!Restart(p)
  BY <1>9 DEF Restart, SF!Restart, TypeOK
<1>10. ASSUME NEW p \in Procs, FlockFails(p) PROVE UNCHANGED SF!vars
  BY <1>10 DEF FlockFails, SF!vars, TypeOK
<1>11. ASSUME NEW p \in Procs, FWriteFails(p) PROVE SF!WriteFails(p)
  <2>1. p \in Up /\ pc[p] = "write" /\ UNCHANGED <<result, Up>>
        /\ failures' = failures + 1 /\ stored' = file
    BY <1>11 DEF FWriteFails, TypeOK
  <2> QED BY <2>1, TornStep DEF SF!WriteFails
<1>12. CASE UNCHANGED vars
  BY <1>12 DEF vars, SF!vars
<1> QED
  BY <1>1, <1>2, <1>3, <1>4, <1>5, <1>6, <1>7, <1>8, <1>9, <1>10, <1>11, <1>12
  DEF Next, Call, Fail, Finished, SF!Next

\* Reads, up to the first zero byte, and writes under lock_file are whole, and only a
\* write that fails or the crash of a writer tears one, for any number of processes and
\* of failures and contents of any length.
THEOREM ReadsWholeHolds == Spec => ReadsWhole
<1>1. IInv /\ [Next]_vars => [SF!Next]_(SF!vars)
  BY StepRefines
<1> QED BY <1>1, InitRefines, IInvHolds, PTL DEF Spec, ReadsWhole, SF!Spec

-----------------------------------------------------------------------------
\* A step that finds a process whose func has thrown leaves it the lock, unless that
\* process dies.
LEMMA ShutOutStep ==
    ASSUME IInv, Next, NEW p \in thrown, pc'[p] # "down"
    PROVE  lock' = p /\ \A q \in Procs : ~InFunc(q)'
<1> USE DEF IInv, TypeOK, Alone, Idle, InFunc, Goto, Over, func
<1>1. p \in Procs /\ lock = p /\ \A q \in Procs : ~InFunc(q)
  OBVIOUS
<1>2. ASSUME NEW q \in Procs, Open(q) \/ Restart(q) \/ Crash(q) \/ FlockFails(q)
      PROVE  lock' = p /\ \A r \in Procs : ~InFunc(r)'
  BY <1>1, <1>2 DEF Open, Restart, Crash, FlockFails
<1>3. ASSUME NEW q \in Procs, Call(q) \/ Throw(q) \/ FWriteFails(q) PROVE FALSE
  BY <1>1, <1>3 DEF Call, Flock, FOpen, FWrite, FRead, Leave, Throw, FWriteFails
<1>4. CASE Finished
  BY <1>1, <1>4 DEF Finished, vars
<1> QED BY <1>2, <1>3, <1>4 DEF Next, Fail

\* After a throw the lock stays until the process that threw is gone, and no func runs.
THEOREM ThrowShutsOutHolds == Spec => ThrowShutsOut
<1>1. ASSUME IInv, [Next]_vars
      PROVE  [\A p \in thrown : pc'[p] # "down" =>
                 lock' = p /\ \A q \in Procs : ~InFunc(q)']_vars
  BY <1>1, ShutOutStep
<1> QED BY <1>1, IInvHolds, PTL DEF Spec, ThrowShutsOut
=============================================================================
