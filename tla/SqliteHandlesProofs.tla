------------------------ MODULE SqliteHandlesProofs ------------------------
(***************************************************************************)
(* Through copies, assignments, borrowing and failures in any order every  *)
(* handle of sqlite3 that is open has one owner, for any objects, classes  *)
(* and numbers of handles; and the fetches of SqliteUtils, clients of      *)
(* these classes, leave nothing open and report all they read, for any     *)
(* statements and rows.                                                    *)
(***************************************************************************)
EXTENDS SqliteFetch, FiniteSetTheorems, SequenceTheorems, TLAPS

\* Types; only handles that were made are open or lost.
TypeOK ==
    /\ kind \in [Objects -> {"query", "table", "statement"}]
    /\ alive \in [Objects -> BOOLEAN] /\ owns \in [Objects -> BOOLEAN]
    /\ handle \in [Objects -> Nat]
    /\ made \in Nat /\ open \subseteq 1 .. made /\ lost \subseteq 1 .. made
    /\ borrowed \in BOOLEAN

\* No object holds a handle that was never made.
Made == \A o \in Objects : handle[o] <= made

\* An object that is gone counts as holding nothing.
DeadHoldNothing == \A o \in Objects : ~alive[o] => handle[o] = 0

\* An open handle that may be freed has one object that frees it.
NoTwoOwners == \A o, p \in Objects : Owns(o) /\ Owns(p) /\ handle[o] = handle[p] => o = p

\* What is open has an owner, unless an assignment dropped it.
OwnedOrLost == \A h \in open \ lost : \E o \in Objects : Owns(o) /\ handle[o] = h

\* A handle that an assignment dropped stays without an owner.
LostIsNobodys == \A o \in Objects : Owns(o) => handle[o] \notin lost

\* An object whose handle a query has borrowed is a statement.
OnlyStatementsLend ==
    \A o, q \in Objects : Owns(o) /\ Borrows(q) /\ handle[o] = handle[q] => kind[o] = "statement"

\* Until a borrowed handle is freed, whatever is held is open.
HeldIsOpen == ~borrowed => \A o \in Objects : handle[o] # 0 => handle[o] \in open

\* Only borrowing leads to a second free or to a use after the free.
WrongIsBorrowed == wrong \in {"freed twice", "used after free"} => borrowed

\* What the objects hold, in the parts that one step changes together.
Held == NoTwoOwners /\ OwnedOrLost /\ LostIsNobodys /\ OnlyStatementsLend /\ HeldIsOpen

\* The inductive invariant.
IInv == TypeOK /\ Made /\ DeadHoldNothing /\ Held /\ WrongIsBorrowed

-----------------------------------------------------------------------------
(* Whose handle is what, once dead objects hold nothing.                   *)
LEMMA OwnsIff ==
    ASSUME TypeOK, DeadHoldNothing, NEW x \in Objects
    PROVE  /\ Owns(x) <=> handle[x] # 0 /\ (kind[x] = "query" => owns[x])
           /\ Borrows(x) <=> handle[x] # 0 /\ kind[x] = "query" /\ ~owns[x]
  BY DEF Owns, Borrows, DeadHoldNothing, TypeOK

(* A step that moves no handle.                                            *)
LEMMA NothingMoves ==
    ASSUME IInv, UNCHANGED <<kind, alive, handle, owns, made, open, lost, borrowed>>, WrongIsBorrowed'
    PROVE  IInv'
  <1>1. \A x \in Objects : (Owns(x)' <=> Owns(x)) /\ (Borrows(x)' <=> Borrows(x))
    BY DEF Owns, Borrows
  <1>2. TypeOK' /\ Made' /\ DeadHoldNothing'
    BY DEF IInv, TypeOK, Made, DeadHoldNothing
  <1>3. NoTwoOwners' /\ OwnedOrLost' /\ LostIsNobodys'
    BY <1>1 DEF IInv, Held, NoTwoOwners, OwnedOrLost, LostIsNobodys
  <1>4. OnlyStatementsLend' /\ HeldIsOpen'
    BY <1>1 DEF IInv, Held, OnlyStatementsLend, HeldIsOpen
  <1>5. QED
    BY <1>2, <1>3, <1>4 DEF IInv, Held

(* An owner holds a handle that is open, unless a borrowed one is gone.    *)
LEMMA OwnHandle ==
    ASSUME IInv, NEW o \in Objects, Owns(o)
    PROVE  /\ handle[o] \in 1 .. made /\ handle[o] # 0
           /\ handle[o] \notin open => borrowed
  BY DEF IInv, Held, HeldIsOpen, TypeOK, Made, Owns

(* A step after which every object that holds a handle holds that of an    *)
(* object before, source[x], in the same way: a copy, a move or a loss.     *)
Moves(source, x) ==
    /\ handle'[x] = handle[source[x]] /\ kind'[x] = kind[source[x]]
    /\ (Owns(x)' <=> Owns(source[x])) /\ (Borrows(x)' <=> Borrows(source[x]))

(* A step after which every object holds what its source held keeps Held.   *)
LEMMA HeldAfterMoves ==
    ASSUME IInv, NEW source \in [Objects -> Objects],
           \A x \in Objects : handle'[x] # 0 => Moves(source, x),
           \A x, y \in Objects : handle'[x] # 0 /\ handle'[y] # 0 /\ source[x] = source[y] => x = y,
           \A x \in Objects : Owns(x)' \/ Borrows(x)' => handle'[x] # 0,
           open' \subseteq open, lost \subseteq lost', borrowed => borrowed',
           \A y \in Objects : Owns(y) /\ handle[y] \in open' \ lost' =>
               \E x \in Objects : handle'[x] # 0 /\ source[x] = y,
           \A x \in Objects : Owns(x)' => handle'[x] \notin lost' \ lost,
           \A x \in Objects : handle'[x] # 0 /\ handle'[x] \in open \ open' => borrowed'
    PROVE  Held'
  <1>1. NoTwoOwners'
    BY DEF Moves, IInv, Held, NoTwoOwners
  <1>2. OwnedOrLost'
    <2> SUFFICES ASSUME NEW h \in open' \ lost' PROVE \E x \in Objects : Owns(x)' /\ handle'[x] = h
      BY DEF OwnedOrLost
    <2>1. PICK y \in Objects : Owns(y) /\ handle[y] = h
      BY DEF IInv, Held, OwnedOrLost
    <2>2. PICK x \in Objects : handle'[x] # 0 /\ source[x] = y
      BY <2>1
    <2>3. QED
      BY <2>1, <2>2 DEF Moves
  <1>3. LostIsNobodys'
    BY DEF Moves, IInv, Held, LostIsNobodys
  <1>4. OnlyStatementsLend'
    BY DEF Moves, IInv, Held, OnlyStatementsLend
  <1>5. HeldIsOpen'
    BY DEF Moves, IInv, Held, HeldIsOpen
  <1>6. QED
    BY <1>1, <1>2, <1>3, <1>4, <1>5 DEF Held

-----------------------------------------------------------------------------
(* A new object holds nothing.                                             *)
LEMMA ConstructStep ==
    ASSUME IInv, NEW o \in Objects, Construct(o)
    PROVE  IInv'
  <1>1. /\ ~alive[o] /\ handle[o] = 0 /\ wrong = "nothing"
        /\ alive' = [alive EXCEPT ![o] = TRUE]
        /\ handle' = [handle EXCEPT ![o] = 0]
        /\ owns' = [owns EXCEPT ![o] = FALSE]
        /\ UNCHANGED <<kind, made, open, wrong, lost, borrowed>>
    BY DEF Construct, Starts, Set, IInv, DeadHoldNothing
  <1>2. TypeOK' /\ Made' /\ DeadHoldNothing'
    BY <1>1 DEF IInv, TypeOK, Made, DeadHoldNothing
  <1>3. \A x \in Objects : handle'[x] = handle[x]
    BY <1>1 DEF IInv, TypeOK
  <1>4. \A x \in Objects : (Owns(x)' <=> Owns(x)) /\ (Borrows(x)' <=> Borrows(x))
    BY <1>1, <1>3 DEF Owns, Borrows, IInv, TypeOK
  <1>5. NoTwoOwners' /\ OwnedOrLost' /\ LostIsNobodys'
    BY <1>1, <1>3, <1>4 DEF IInv, Held, NoTwoOwners, OwnedOrLost, LostIsNobodys
  <1>6. OnlyStatementsLend' /\ HeldIsOpen' /\ WrongIsBorrowed'
    BY <1>1, <1>3, <1>4 DEF IInv, Held, OnlyStatementsLend, HeldIsOpen, WrongIsBorrowed
  <1>7. QED
    BY <1>2, <1>5, <1>6 DEF IInv, Held

(* What is compiled or fetched is new, and its one owner is the object.    *)
LEMMA ReturnedStep ==
    ASSUME IInv, NEW o \in Objects, NEW db, NEW end, Returned(o, db, end)
    PROVE  IInv'
  <1>1. /\ ~alive[o] /\ handle[o] = 0 /\ wrong = "nothing"
        /\ made' = made + 1 /\ open' = open \cup {made + 1}
        /\ alive' = [alive EXCEPT ![o] = TRUE]
        /\ handle' = [handle EXCEPT ![o] = made + 1]
        /\ owns' = [owns EXCEPT ![o] = TRUE]
        /\ UNCHANGED <<kind, wrong, lost, borrowed>>
    BY DEF Returned, Starts, Set, IInv, DeadHoldNothing
  <1>2. TypeOK' /\ Made' /\ DeadHoldNothing'
    BY <1>1 DEF IInv, TypeOK, Made, DeadHoldNothing
  <1>3. /\ handle'[o] = made + 1 /\ Owns(o)' /\ ~Borrows(o)' /\ ~Owns(o)
        /\ \A x \in Objects \ {o} : handle'[x] = handle[x] /\ handle[x] # made + 1
    BY <1>1 DEF IInv, TypeOK, Made, Owns, Borrows
  <1>4. \A x \in Objects \ {o} : (Owns(x)' <=> Owns(x)) /\ (Borrows(x)' <=> Borrows(x))
    BY <1>1, <1>3 DEF Owns, Borrows, IInv, TypeOK
  <1>5. made + 1 \notin lost /\ made + 1 \notin open
    BY DEF IInv, TypeOK
  <1>6. NoTwoOwners'
    BY <1>3, <1>4 DEF IInv, Held, NoTwoOwners
  <1>7. OwnedOrLost' /\ LostIsNobodys'
    <2>1. ASSUME NEW h \in open' \ lost' PROVE \E x \in Objects : Owns(x)' /\ handle'[x] = h
      BY <1>1, <1>3, <1>4, <2>1 DEF IInv, Held, OwnedOrLost
    <2>2. ASSUME NEW x \in Objects, Owns(x)' PROVE handle'[x] \notin lost'
      BY <1>1, <1>3, <1>4, <1>5, <2>2 DEF IInv, Held, LostIsNobodys
    <2>3. QED
      BY <2>1, <2>2 DEF OwnedOrLost, LostIsNobodys
  <1>8. OnlyStatementsLend' /\ HeldIsOpen' /\ WrongIsBorrowed'
    BY <1>1, <1>3, <1>4 DEF IInv, Held, OnlyStatementsLend, HeldIsOpen, WrongIsBorrowed
  <1>9. QED
    BY <1>2, <1>6, <1>7, <1>8 DEF IInv, Held

(* The query of a statement borrows.                                       *)
LEMMA QueryOfStep ==
    ASSUME IInv, NEW o \in Objects, NEW s \in Objects, QueryOf(o, s)
    PROVE  IInv'
  <1>1. /\ ~alive[o] /\ handle[o] = 0 /\ wrong = "nothing" /\ kind[o] = "query" /\ o # s
        /\ Owns(s) /\ kind[s] = "statement"
        /\ alive' = [alive EXCEPT ![o] = TRUE]
        /\ UNCHANGED <<kind, made, open, lost, borrowed>>
    BY DEF QueryOf, Starts, IInv, DeadHoldNothing, Owns
  <1>2. CASE handle[s] \in open
    <2>1. /\ handle' = [handle EXCEPT ![o] = handle[s]]
          /\ owns' = [owns EXCEPT ![o] = FALSE]
          /\ wrong' = wrong
      BY <1>2 DEF QueryOf, Set
    <2>2. TypeOK' /\ Made' /\ DeadHoldNothing'
      BY <1>1, <2>1 DEF IInv, TypeOK, Made, DeadHoldNothing
    <2>3. /\ handle'[o] = handle[s] /\ ~Owns(o)' /\ ~Owns(o)
          /\ \A x \in Objects \ {o} : handle'[x] = handle[x]
      BY <1>1, <2>1 DEF IInv, TypeOK, Owns
    <2>4. \A x \in Objects \ {o} : (Owns(x)' <=> Owns(x)) /\ (Borrows(x)' <=> Borrows(x))
      BY <1>1, <2>1, <2>3 DEF Owns, Borrows, IInv, TypeOK
    <2>5. NoTwoOwners'
      BY <2>3, <2>4 DEF IInv, Held, NoTwoOwners
    <2>6. OwnedOrLost' /\ LostIsNobodys'
      BY <1>1, <2>3, <2>4 DEF IInv, Held, OwnedOrLost, LostIsNobodys
    <2>7. OnlyStatementsLend'
      <3> SUFFICES ASSUME NEW x \in Objects, NEW q \in Objects,
                          Owns(x)', Borrows(q)', handle'[x] = handle'[q]
                   PROVE  kind[x] = "statement"
        BY <1>1 DEF OnlyStatementsLend
      <3>1. CASE q = o
        BY <1>1, <2>3, <2>4, <3>1 DEF IInv, Held, NoTwoOwners
      <3>2. CASE q # o
        BY <2>3, <2>4, <3>2 DEF IInv, Held, OnlyStatementsLend
      <3>3. QED
        BY <3>1, <3>2
    <2>8. HeldIsOpen' /\ WrongIsBorrowed'
      BY <1>1, <1>2, <2>1, <2>3 DEF IInv, Held, HeldIsOpen, WrongIsBorrowed
    <2>9. QED
      BY <2>2, <2>5, <2>6, <2>7, <2>8 DEF IInv, Held
  <1>3. CASE handle[s] \notin open
    <2>1. borrowed /\ UNCHANGED <<handle, owns>>
      BY <1>1, <1>3, OwnHandle DEF QueryOf
    <2>2. \A x \in Objects : (Owns(x)' <=> Owns(x)) /\ (Borrows(x)' <=> Borrows(x))
      BY <1>1, <2>1 DEF Owns, Borrows, IInv, TypeOK
    <2>3. TypeOK' /\ Made' /\ DeadHoldNothing'
      BY <1>1, <2>1 DEF IInv, TypeOK, Made, DeadHoldNothing
    <2>4. NoTwoOwners' /\ OwnedOrLost' /\ LostIsNobodys'
      BY <1>1, <2>1, <2>2 DEF IInv, Held, NoTwoOwners, OwnedOrLost, LostIsNobodys
    <2>5. OnlyStatementsLend' /\ HeldIsOpen' /\ WrongIsBorrowed'
      BY <1>1, <2>1, <2>2 DEF IInv, Held, OnlyStatementsLend, HeldIsOpen, WrongIsBorrowed
    <2>6. QED
      BY <2>3, <2>4, <2>5 DEF IInv, Held
  <1>4. QED
    BY <1>2, <1>3

(* A copy is the owner that its source was.                                *)
LEMMA CopyStep ==
    ASSUME IInv, NEW o \in Objects, NEW p \in Objects, Copy(o, p)
    PROVE  IInv'
  <1> DEFINE source == [x \in Objects |-> IF x = o THEN p ELSE x]
  <1>1. /\ ~alive[o] /\ alive[p] /\ handle[o] = 0 /\ wrong = "nothing" /\ kind[o] = kind[p] /\ o # p
        /\ alive' = [alive EXCEPT ![o] = TRUE]
        /\ handle' = [handle EXCEPT ![p] = 0, ![o] = handle[p]]
        /\ owns' = [owns EXCEPT ![o] = owns[p]]
        /\ UNCHANGED <<kind, made, open, wrong, lost, borrowed>>
    BY DEF Copy, Take, Starts, IInv, DeadHoldNothing
  <1>2. TypeOK' /\ Made' /\ DeadHoldNothing'
    BY <1>1 DEF IInv, TypeOK, Made, DeadHoldNothing
  <1>3. /\ handle'[o] = handle[p] /\ handle'[p] = 0
        /\ \A x \in Objects \ {o, p} : handle'[x] = handle[x]
    BY <1>1 DEF IInv, TypeOK
  <1>4. /\ ~Owns(o) /\ (Owns(o)' <=> Owns(p)) /\ (Borrows(o)' <=> Borrows(p))
        /\ \A x \in Objects \ {o, p} : (Owns(x)' <=> Owns(x)) /\ (Borrows(x)' <=> Borrows(x))
    BY <1>1, <1>3 DEF Owns, Borrows, IInv, TypeOK
  <1>5. \A x \in Objects : handle'[x] # 0 => Moves(source, x)
    BY <1>1, <1>3, <1>4 DEF Moves
  <1>6. \A x \in Objects : Owns(x)' \/ Borrows(x)' => handle'[x] # 0
    BY DEF Owns, Borrows
  <1>7. \A y \in Objects : Owns(y) => \E x \in Objects : handle'[x] # 0 /\ source[x] = y
    BY <1>1, <1>3, <1>4 DEF Owns
  <1>8. Held'
    <2> HIDE DEF source
    <2>1. source \in [Objects -> Objects]
      BY DEF source
    <2>2. \A x, y \in Objects : handle'[x] # 0 /\ handle'[y] # 0 /\ source[x] = source[y] => x = y
      BY <1>3 DEF source
    <2>3. QED
      BY <1>1, <1>5, <1>6, <1>7, <2>1, <2>2, HeldAfterMoves
  <1>9. QED
    BY <1>1, <1>2, <1>8 DEF IInv, WrongIsBorrowed

(* What an owner frees is what it held, which then nobody owns; if it      *)
(* was gone before, or another object borrows it, that is on record.       *)
LEMMA FreeOwnFacts ==
    ASSUME IInv, NEW o \in Objects, FreeOwn(o), wrong = "nothing"
    PROVE  /\ open' = IF Owns(o) THEN open \ {handle[o]} ELSE open
           /\ borrowed' \in BOOLEAN /\ (borrowed => borrowed')
           /\ \A x \in Objects : Owns(o) /\ Borrows(x) /\ handle[x] = handle[o] => borrowed'
           /\ wrong' # "nothing" => borrowed'
  <1>1. CASE Owns(o)
    <2>1. /\ open' = open \ {handle[o]}
          /\ wrong' = IF handle[o] \in open THEN wrong ELSE "freed twice"
          /\ borrowed' = (borrowed \/ \E x \in Objects : handle[x] = handle[o] /\ Borrows(x))
      BY <1>1 DEF FreeOwn, Free
    <2>2. handle[o] \notin open => borrowed
      BY <1>1, OwnHandle
    <2>3. borrowed' \in BOOLEAN
      BY <2>1 DEF IInv, TypeOK
    <2>4. QED
      BY <1>1, <2>1, <2>2, <2>3
  <1>2. CASE ~Owns(o)
    BY <1>2 DEF FreeOwn, IInv, TypeOK
  <1>3. QED
    BY <1>1, <1>2

(* What an owner gives up with FreeOwn leaves no owner behind.             *)
LEMMA AloneOwns ==
    ASSUME IInv, NEW o \in Objects, NEW x \in Objects, Owns(o), x # o,
           handle[x] = handle[o], handle[x] # 0
    PROVE  Borrows(x)
  BY DEF IInv, Held, NoTwoOwners, Borrows, Owns, DeadHoldNothing, TypeOK

(* operator= of a query or a table.                                        *)
LEMMA AssignStep ==
    ASSUME IInv, NEW o \in Objects, NEW p \in Objects, Assign(o, p)
    PROVE  IInv'
  <1> DEFINE source == [x \in Objects |-> IF x = o THEN p ELSE x]
  <1>1. /\ alive[o] /\ alive[p] /\ wrong = "nothing" /\ kind[o] = kind[p]
        /\ handle' = [handle EXCEPT ![p] = 0, ![o] = IF o = p THEN 0 ELSE handle[p]]
        /\ owns' = [owns EXCEPT ![o] = owns[p]]
        /\ UNCHANGED <<kind, alive, made, lost>>
    BY DEF Assign, Take, Runs
  <1>2. /\ open' = IF Owns(o) THEN open \ {handle[o]} ELSE open
        /\ borrowed' \in BOOLEAN /\ (borrowed => borrowed')
        /\ \A x \in Objects : Owns(o) /\ Borrows(x) /\ handle[x] = handle[o] => borrowed'
        /\ wrong' # "nothing" => borrowed'
    BY <1>1, FreeOwnFacts DEF Assign
  <1>3. /\ handle'[o] = (IF o = p THEN 0 ELSE handle[p]) /\ handle'[p] = 0
        /\ \A x \in Objects \ {o, p} : handle'[x] = handle[x]
    BY <1>1 DEF IInv, TypeOK
  <1>4. TypeOK' /\ Made' /\ DeadHoldNothing'
    <2>1. handle' \in [Objects -> Nat] /\ owns' \in [Objects -> BOOLEAN]
      BY <1>1 DEF IInv, TypeOK
    <2>2. TypeOK'
      BY <1>1, <1>2, <2>1 DEF IInv, TypeOK
    <2>3. Made'
      BY <1>1, <1>2, <1>3 DEF IInv, Made, TypeOK
    <2>4. DeadHoldNothing'
      BY <1>1, <1>3 DEF IInv, DeadHoldNothing
    <2>5. QED
      BY <2>2, <2>3, <2>4
  <1>5. /\ o # p => (Owns(o)' <=> Owns(p)) /\ (Borrows(o)' <=> Borrows(p))
        /\ \A x \in Objects \ {o, p} : (Owns(x)' <=> Owns(x)) /\ (Borrows(x)' <=> Borrows(x))
    BY <1>1, <1>3 DEF Owns, Borrows, IInv, TypeOK
  <1>6. \A x \in Objects : handle'[x] # 0 => Moves(source, x)
    BY <1>1, <1>3, <1>5 DEF Moves
  <1>7. \A x \in Objects : Owns(x)' \/ Borrows(x)' => handle'[x] # 0
    BY DEF Owns, Borrows
  <1>8. \A y \in Objects : Owns(y) /\ handle[y] \in open' => \E x \in Objects : handle'[x] # 0 /\ source[x] = y
    <2> SUFFICES ASSUME NEW y \in Objects, Owns(y), handle[y] \in open'
                 PROVE  \E x \in Objects : handle'[x] # 0 /\ source[x] = y
      OBVIOUS
    <2>1. y # o
      BY <1>2
    <2>2. handle[y] # 0
      BY DEF Owns
    <2>3. CASE y = p
      BY <1>3, <2>1, <2>2, <2>3
    <2>4. CASE y # p
      BY <1>3, <2>1, <2>2, <2>4
    <2>5. QED
      BY <2>3, <2>4
  <1>9. \A x \in Objects : handle'[x] # 0 /\ handle'[x] \in open \ open' => borrowed'
    <2> SUFFICES ASSUME NEW x \in Objects, handle'[x] # 0, handle'[x] \in open \ open'
                 PROVE  borrowed'
      OBVIOUS
    <2>1. Owns(o) /\ handle'[x] = handle[o]
      BY <1>2
    <2>2. PICK y \in Objects : y # o /\ handle[y] = handle'[x]
      BY <1>3
    <2>3. QED
      BY <1>2, <2>1, <2>2, AloneOwns
  <1>10. Held'
    <2> HIDE DEF source
    <2>1. source \in [Objects -> Objects]
      BY DEF source
    <2>2. \A x, y \in Objects : handle'[x] # 0 /\ handle'[y] # 0 /\ source[x] = source[y] => x = y
      BY <1>3 DEF source
    <2>3. QED
      BY <1>1, <1>2, <1>6, <1>7, <1>8, <1>9, <2>1, <2>2, HeldAfterMoves
  <1>11. QED
    BY <1>2, <1>4, <1>10 DEF IInv, WrongIsBorrowed

(* operator= of a statement: what the object had is lost.                  *)
LEMMA AssignStatementStep ==
    ASSUME IInv, NEW o \in Objects, NEW p \in Objects, AssignStatement(o, p)
    PROVE  IInv'
  <1> DEFINE source == [x \in Objects |-> IF x = o THEN p ELSE x]
  <1>1. /\ alive[o] /\ alive[p] /\ kind[o] = "statement" /\ kind[p] = "statement"
        /\ handle' = [handle EXCEPT ![p] = 0, ![o] = IF o = p THEN 0 ELSE handle[p]]
        /\ owns' = [owns EXCEPT ![o] = owns[p]]
        /\ lost' = lost \cup ({handle[o]} \cap open)
        /\ UNCHANGED <<kind, alive, made, open, wrong, borrowed>>
    BY DEF AssignStatement, Take, Runs
  <1>2. /\ handle'[o] = (IF o = p THEN 0 ELSE handle[p]) /\ handle'[p] = 0
        /\ \A x \in Objects \ {o, p} : handle'[x] = handle[x]
    BY <1>1 DEF IInv, TypeOK
  <1>3. TypeOK' /\ Made' /\ DeadHoldNothing'
    <2>1. handle' \in [Objects -> Nat] /\ owns' \in [Objects -> BOOLEAN]
      BY <1>1 DEF IInv, TypeOK
    <2>2. TypeOK'
      BY <1>1, <2>1 DEF IInv, TypeOK
    <2>3. Made'
      BY <1>1, <1>2 DEF IInv, Made, TypeOK
    <2>4. DeadHoldNothing'
      BY <1>1, <1>2 DEF IInv, DeadHoldNothing
    <2>5. QED
      BY <2>2, <2>3, <2>4
  <1>4. /\ o # p => (Owns(o)' <=> Owns(p)) /\ (Borrows(o)' <=> Borrows(p))
        /\ \A x \in Objects \ {o, p} : (Owns(x)' <=> Owns(x)) /\ (Borrows(x)' <=> Borrows(x))
    BY <1>1, <1>2 DEF Owns, Borrows, IInv, TypeOK
  <1>5. \A x \in Objects : handle'[x] # 0 => Moves(source, x)
    BY <1>1, <1>2, <1>4 DEF Moves
  <1>6. \A x \in Objects : Owns(x)' \/ Borrows(x)' => handle'[x] # 0
    BY DEF Owns, Borrows
  <1>7. \A y \in Objects : Owns(y) /\ handle[y] \in open' \ lost' =>
            \E x \in Objects : handle'[x] # 0 /\ source[x] = y
    <2> SUFFICES ASSUME NEW y \in Objects, Owns(y), handle[y] \in open' \ lost'
                 PROVE  \E x \in Objects : handle'[x] # 0 /\ source[x] = y
      OBVIOUS
    <2>1. y # o /\ handle[y] # 0
      BY <1>1 DEF Owns
    <2>2. CASE y = p
      BY <1>2, <2>1, <2>2
    <2>3. CASE y # p
      BY <1>2, <2>1, <2>3
    <2>4. QED
      BY <2>2, <2>3
  <1>8. \A x \in Objects : Owns(x)' => handle'[x] \notin lost' \ lost
    <2> SUFFICES ASSUME NEW x \in Objects, Owns(x)', handle'[x] \in lost' \ lost PROVE FALSE
      OBVIOUS
    <2>1. handle'[x] = handle[o] /\ handle'[x] # 0
      <3>1. handle'[x] # 0
        BY <1>6
      <3>2. handle'[x] \in {handle[o]}
        BY <1>1
      <3>3. QED
        BY <3>1, <3>2
    <2>2. Owns(o)
      BY <1>1, <2>1 DEF Owns
    <2>3. PICK y \in Objects : y # o /\ Owns(y) /\ handle[y] = handle'[x]
      BY <1>2, <1>4, <2>1
    <2>4. QED
      BY <2>1, <2>2, <2>3 DEF IInv, Held, NoTwoOwners
  <1>9. Held'
    <2> HIDE DEF source
    <2>1. source \in [Objects -> Objects]
      BY DEF source
    <2>2. \A x, y \in Objects : handle'[x] # 0 /\ handle'[y] # 0 /\ source[x] = source[y] => x = y
      BY <1>2 DEF source
    <2>3. QED
      BY <1>1, <1>5, <1>6, <1>7, <1>8, <2>1, <2>2, HeldAfterMoves
  <1>10. QED
    BY <1>1, <1>3, <1>9 DEF IInv, WrongIsBorrowed

(* nextRow that fails.  It finalizes a query's own handle, which nobody    *)
(* borrows, or one that the query has borrowed.                            *)
LEMMA NextRowFailsStep ==
    ASSUME IInv, NEW o \in Objects, NextRowFails(o)
    PROVE  IInv'
  <1> DEFINE source == [x \in Objects |-> x]
  <1>1. /\ alive[o] /\ wrong = "nothing" /\ kind[o] = "query" /\ handle[o] \in open
        /\ handle' = [handle EXCEPT ![o] = 0]
        /\ open' = open \ {handle[o]} /\ borrowed' = (borrowed \/ Borrows(o))
        /\ wrong' \notin {"freed twice", "used after free"}
        /\ UNCHANGED <<kind, alive, owns, made, lost>>
    BY DEF NextRowFails, Runs
  <1>2. handle'[o] = 0 /\ \A x \in Objects \ {o} : handle'[x] = handle[x]
    BY <1>1 DEF IInv, TypeOK
  <1>3. TypeOK' /\ Made' /\ DeadHoldNothing'
    <2>1. handle' \in [Objects -> Nat] /\ borrowed' \in BOOLEAN
      BY <1>1 DEF IInv, TypeOK
    <2>2. TypeOK'
      BY <1>1, <2>1 DEF IInv, TypeOK
    <2>3. \A x \in Objects : handle'[x] = handle[x] \/ handle'[x] = 0
      BY <1>2
    <2>4. Made'
      <3>1. made \in Nat /\ made' = made
        BY <1>1 DEF IInv, TypeOK
      <3>2. \A x \in Objects : handle[x] <= made
        BY DEF IInv, Made
      <3>3. QED
        BY <2>3, <3>1, <3>2 DEF Made
    <2>5. DeadHoldNothing'
      BY <1>1, <2>3 DEF IInv, DeadHoldNothing
    <2>6. QED
      BY <2>2, <2>4, <2>5
  <1>4. \A x \in Objects \ {o} : (Owns(x)' <=> Owns(x)) /\ (Borrows(x)' <=> Borrows(x))
    BY <1>1, <1>2 DEF Owns, Borrows
  <1>5. \A x \in Objects : handle'[x] # 0 => Moves(source, x)
    BY <1>1, <1>2, <1>4 DEF Moves
  <1>6. \A x \in Objects : Owns(x)' \/ Borrows(x)' => handle'[x] # 0
    BY DEF Owns, Borrows
  <1>7. \A y \in Objects : Owns(y) /\ handle[y] \in open' => \E x \in Objects : handle'[x] # 0 /\ source[x] = y
    <2> SUFFICES ASSUME NEW y \in Objects, Owns(y), handle[y] \in open'
                 PROVE  handle'[y] # 0 /\ source[y] = y
      OBVIOUS
    <2>1. y # o /\ handle[y] # 0
      BY <1>1 DEF Owns
    <2>2. QED
      BY <1>2, <2>1
  <1>8. \A x \in Objects : handle'[x] # 0 /\ handle'[x] \in open \ open' => borrowed'
    <2> SUFFICES ASSUME NEW x \in Objects, handle'[x] # 0, handle'[x] \in open \ open'
                 PROVE  borrowed'
      OBVIOUS
    <2>1. x # o /\ handle[x] = handle[o] /\ handle[o] # 0
      <3>1. x # o
        BY <1>2
      <3>2. handle'[x] \in {handle[o]}
        BY <1>1
      <3>3. QED
        BY <1>2, <3>1, <3>2
    <2>2. Owns(o) \/ Borrows(o)
      BY <1>1, <2>1 DEF Borrows
    <2>3. CASE Owns(o)
      <3>1. Borrows(x)
        BY <2>1, <2>3, AloneOwns
      <3>2. QED
        BY <1>1, <2>1, <2>3, <3>1 DEF IInv, Held, OnlyStatementsLend
    <2>4. QED
      BY <1>1, <2>2, <2>3
  <1>9. Held'
    <2> HIDE DEF source
    <2>1. source \in [Objects -> Objects]
      BY DEF source
    <2>2. \A x, y \in Objects : source[x] = source[y] => x = y
      BY DEF source
    <2>3. QED
      BY <1>1, <1>5, <1>6, <1>7, <1>8, <2>1, <2>2, HeldAfterMoves
  <1>10. QED
    BY <1>1, <1>3, <1>9 DEF IInv, WrongIsBorrowed

(* finalize and the destructor: the object has no handle of its own left.  *)
LEMMA GivesUp ==
    ASSUME IInv, NEW o \in Objects, FreeOwn(o), wrong = "nothing",
           UNCHANGED <<kind, made, lost>>,
           \A x \in Objects \ {o} : /\ handle'[x] = handle[x] /\ alive'[x] = alive[x]
                                    /\ owns'[x] = owns[x],
           \/ handle'[o] = 0
           \/ ~Owns(o) /\ handle'[o] = handle[o] /\ alive'[o] = alive[o] /\ owns'[o] = owns[o]
    PROVE  Held' /\ WrongIsBorrowed' /\ open' \subseteq open /\ borrowed' \in BOOLEAN
  <1> DEFINE source == [x \in Objects |-> x]
  <1>1. /\ open' = IF Owns(o) THEN open \ {handle[o]} ELSE open
        /\ borrowed' \in BOOLEAN /\ (borrowed => borrowed')
        /\ \A x \in Objects : Owns(o) /\ Borrows(x) /\ handle[x] = handle[o] => borrowed'
        /\ wrong' # "nothing" => borrowed'
    BY FreeOwnFacts
  <1>2. \A x \in Objects \ {o} : (Owns(x)' <=> Owns(x)) /\ (Borrows(x)' <=> Borrows(x))
    BY DEF Owns, Borrows
  <1>3. handle'[o] # 0 => ~Owns(o) /\ handle'[o] = handle[o] /\ ~Owns(o)' /\ (Borrows(o)' <=> Borrows(o))
    BY DEF Owns, Borrows
  <1>4. \A x \in Objects : handle'[x] # 0 => Moves(source, x)
    BY <1>2, <1>3 DEF Moves
  <1>5. \A x \in Objects : Owns(x)' \/ Borrows(x)' => handle'[x] # 0
    BY DEF Owns, Borrows
  <1>6. \A y \in Objects : Owns(y) /\ handle[y] \in open' => \E x \in Objects : handle'[x] # 0 /\ source[x] = y
    <2> SUFFICES ASSUME NEW y \in Objects, Owns(y), handle[y] \in open'
                 PROVE  handle'[y] # 0 /\ source[y] = y
      OBVIOUS
    <2>1. y # o /\ handle[y] # 0
      BY <1>1 DEF Owns
    <2>2. QED
      BY <2>1
  <1>7. \A x \in Objects : handle'[x] # 0 /\ handle'[x] \in open \ open' => borrowed'
    <2> SUFFICES ASSUME NEW x \in Objects, handle'[x] # 0, handle'[x] \in open \ open'
                 PROVE  borrowed'
      OBVIOUS
    <2>1. Owns(o) /\ handle'[x] = handle[o]
      BY <1>1
    <2>2. x # o /\ handle[x] = handle[o] /\ handle[x] # 0
      BY <1>3, <2>1
    <2>3. QED
      BY <1>1, <2>1, <2>2, AloneOwns
  <1>8. Held'
    <2> HIDE DEF source
    <2>1. source \in [Objects -> Objects]
      BY DEF source
    <2>2. \A x, y \in Objects : source[x] = source[y] => x = y
      BY DEF source
    <2>3. open' \subseteq open /\ lost' = lost
      BY <1>1
    <2>4. QED
      BY <1>1, <1>4, <1>5, <1>6, <1>7, <2>1, <2>2, <2>3, HeldAfterMoves
  <1>9. QED
    BY <1>1, <1>8 DEF WrongIsBorrowed

(* finalize frees what the object owns and forgets what it borrows.        *)
LEMMA FinalizeStep ==
    ASSUME IInv, NEW o \in Objects, Finalize(o)
    PROVE  IInv'
  <1>1. /\ wrong = "nothing" /\ FreeOwn(o)
        /\ handle' = [handle EXCEPT ![o] = IF Owns(o) THEN 0 ELSE handle[o]]
        /\ UNCHANGED <<kind, alive, owns, made, lost>>
    BY DEF Finalize, Runs
  <1>2. /\ handle'[o] = (IF Owns(o) THEN 0 ELSE handle[o])
        /\ \A x \in Objects \ {o} : handle'[x] = handle[x]
        /\ handle' \in [Objects -> Nat]
    BY <1>1 DEF IInv, TypeOK
  <1>3. Held' /\ WrongIsBorrowed' /\ open' \subseteq open /\ borrowed' \in BOOLEAN
    BY <1>1, <1>2, GivesUp
  <1>4. TypeOK'
    BY <1>1, <1>2, <1>3 DEF IInv, TypeOK
  <1>5. Made' /\ DeadHoldNothing'
    BY <1>1, <1>2 DEF IInv, Made, DeadHoldNothing, TypeOK
  <1>6. QED
    BY <1>3, <1>4, <1>5 DEF IInv

(* So does the destructor, and the object is gone.                         *)
LEMMA DestroyStep ==
    ASSUME IInv, NEW o \in Objects, Destroy(o)
    PROVE  IInv'
  <1>1. /\ wrong = "nothing" /\ FreeOwn(o)
        /\ handle' = [handle EXCEPT ![o] = 0]
        /\ alive' = [alive EXCEPT ![o] = FALSE]
        /\ owns' = [owns EXCEPT ![o] = FALSE]
        /\ UNCHANGED <<kind, made, lost>>
    BY DEF Destroy, Runs, Set
  <1>2. /\ handle'[o] = 0
        /\ \A x \in Objects \ {o} : handle'[x] = handle[x] /\ alive'[x] = alive[x] /\ owns'[x] = owns[x]
        /\ handle' \in [Objects -> Nat] /\ alive' \in [Objects -> BOOLEAN] /\ owns' \in [Objects -> BOOLEAN]
    BY <1>1 DEF IInv, TypeOK
  <1>3. Held' /\ WrongIsBorrowed' /\ open' \subseteq open /\ borrowed' \in BOOLEAN
    BY <1>1, <1>2, GivesUp
  <1>4. TypeOK'
    BY <1>1, <1>2, <1>3 DEF IInv, TypeOK
  <1>5. Made' /\ DeadHoldNothing'
    BY <1>1, <1>2 DEF IInv, Made, DeadHoldNothing, TypeOK
  <1>6. QED
    BY <1>3, <1>4, <1>5 DEF IInv

(* Calls that go through a handle find it open, unless a borrowed one is gone. *)
LEMMA ThroughStep ==
    ASSUME IInv, NEW o \in Objects, Through(o)
    PROVE  IInv'
  <1>1. /\ handle[o] # 0 /\ wrong = "nothing"
        /\ wrong' = IF handle[o] \in open THEN wrong ELSE "used after free"
        /\ UNCHANGED <<kind, alive, handle, owns, made, open, lost, borrowed>>
    BY DEF Through, Runs, fields
  <1>2. handle[o] \notin open => borrowed
    BY <1>1 DEF IInv, Held, HeldIsOpen
  <1>3. WrongIsBorrowed'
    BY <1>1, <1>2 DEF WrongIsBorrowed
  <1>4. QED
    BY <1>1, <1>3, NothingMoves

-----------------------------------------------------------------------------
(* IInv is inductive.                                                      *)
LEMMA InitIInv == Init => IInv
  <1> SUFFICES ASSUME Init PROVE IInv
    OBVIOUS
  <1>1. kind \in [Objects -> {"query", "table", "statement"}]
    BY HandlesAssumption DEF Init
  <1>2. TypeOK /\ Made /\ DeadHoldNothing
    <2>1. TypeOK
      BY <1>1 DEF Init, TypeOK
    <2>2. Made
      BY DEF Init, Made
    <2>3. DeadHoldNothing
      BY DEF Init, DeadHoldNothing
    <2>4. QED
      BY <2>1, <2>2, <2>3
  <1>3. Held
    BY DEF Init, Held, NoTwoOwners, OwnedOrLost, LostIsNobodys, OnlyStatementsLend,
       HeldIsOpen, Owns
  <1>4. QED
    BY <1>2, <1>3 DEF Init, IInv, WrongIsBorrowed

(* Every step of a client keeps IInv.                                      *)
LEMMA NextIInv == IInv /\ [ClientStep]_vars => IInv'
  <1> SUFFICES ASSUME IInv, [ClientStep]_vars PROVE IInv'
    OBVIOUS
  <1>1. CASE UNCHANGED vars
    <2>1. UNCHANGED <<kind, alive, handle, owns, made, open, lost, borrowed, wrong>>
      BY <1>1 DEF vars, fields
    <2>2. WrongIsBorrowed'
      BY <2>1 DEF IInv, WrongIsBorrowed
    <2>3. QED
      BY <2>1, <2>2, NothingMoves
  <1>2. ASSUME NEW o \in Objects, Construct(o) PROVE IInv'
    BY <1>2, ConstructStep
  <1>3. ASSUME NEW o \in Objects, CompileStatement(o) \/ Execute(o) \/ GetTable(o) PROVE IInv'
    <2>1. PICK db, end : Returned(o, db, end)
      BY <1>3 DEF CompileStatement, Execute, GetTable
    <2>2. QED
      BY <2>1, ReturnedStep
  <1>4. ASSUME NEW o \in Objects, Field(o) \/ Cell(o) \/ ExecDML(o) \/ Bind(o) PROVE IInv'
    <2>1. Through(o)
      BY <1>4 DEF Field, Cell, ExecDML, Bind
    <2>2. QED
      BY <2>1, ThroughStep
  <1>5. ASSUME NEW o \in Objects, NextRow(o) PROVE IInv'
    <2>1. UNCHANGED <<kind, alive, handle, owns, made, open, lost, borrowed, wrong>>
      BY <1>5 DEF NextRow
    <2>2. WrongIsBorrowed'
      BY <2>1 DEF IInv, WrongIsBorrowed
    <2>3. QED
      BY <2>1, <2>2, NothingMoves
  <1>6. ASSUME NEW o \in Objects, NextRowFails(o) PROVE IInv'
    BY <1>6, NextRowFailsStep
  <1>7. ASSUME NEW o \in Objects, Finalize(o) PROVE IInv'
    BY <1>7, FinalizeStep
  <1>8. ASSUME NEW o \in Objects, Destroy(o) PROVE IInv'
    BY <1>8, DestroyStep
  <1>9. ASSUME NEW o \in Objects, NEW p \in Objects,
               QueryOf(o, p) \/ Copy(o, p) \/ Assign(o, p) \/ AssignStatement(o, p)
        PROVE  IInv'
    BY <1>9, QueryOfStep, CopyStep, AssignStep, AssignStatementStep
  <1>10. CASE Close
    <2>1. UNCHANGED <<kind, alive, handle, owns, made, open, lost, borrowed, wrong>>
      BY <1>10 DEF Close, fields
    <2>2. WrongIsBorrowed'
      BY <2>1 DEF IInv, WrongIsBorrowed
    <2>3. QED
      BY <2>1, <2>2, NothingMoves
  <1>11. QED
    BY <1>1, <1>2, <1>3, <1>4, <1>5, <1>6, <1>7, <1>8, <1>9, <1>10 DEF ClientStep

(* Each handle that is held is owned by one object or lost, and an owner   *)
(* or borrower of one that is gone shows that a borrowed one was freed.    *)
THEOREM IInvHolds == Spec => []IInv
  <1>1. QED
    BY InitIInv, NextIInv, PTL DEF Spec

(* The owners of an open handle are one object, or none if an assignment   *)
(* of statements has lost it.                                              *)
LEMMA IInvHandles == IInv => HandlesAreOwned
  <1> SUFFICES ASSUME IInv PROVE HandlesAreOwned
    OBVIOUS
  <1>1. ASSUME NEW h \in open PROVE Cardinality(Owners(h)) = IF h \in lost THEN 0 ELSE 1
    <2>1. CASE h \in lost
      <3>1. Owners(h) = {}
        BY <2>1 DEF Owners, IInv, Held, LostIsNobodys
      <3>2. QED
        BY <2>1, <3>1, FS_EmptySet
    <2>2. CASE h \notin lost
      <3>1. PICK o \in Objects : Owns(o) /\ handle[o] = h
        BY <1>1, <2>2 DEF IInv, Held, OwnedOrLost
      <3>2. Owners(h) = {o}
        BY <3>1 DEF Owners, IInv, Held, NoTwoOwners
      <3>3. QED
        BY <2>2, <3>2, FS_Singleton
    <2>3. QED
      BY <2>1, <2>2
  <1>2. OneOwner
    BY <1>1 DEF OneOwner
  <1>3. FreedOnce
    BY DEF FreedOnce, IInv, WrongIsBorrowed, Held, HeldIsOpen, Owns
  <1>4. QED
    BY <1>2, <1>3 DEF HandlesAreOwned

(* "Only one object can own the VM" (CppSQLite3.cpp:307), whatever a       *)
(* program does with these classes: what is open has one owner, and nothing *)
(* is freed twice or used afterwards while no borrowed handle is freed.    *)
THEOREM HandlesAreOwnedHolds == Spec => []HandlesAreOwned
  <1>1. QED
    BY IInvHolds, IInvHandles, PTL

-----------------------------------------------------------------------------
(* A step of a fetch keeps IInv: it is one of a client, or connects.       *)
LEMMA FetchStepIInv == IInv /\ [FNext]_fvars => IInv'
  <1> SUFFICES ASSUME IInv, [FNext]_fvars PROVE IInv'
    OBVIOUS
  <1>1. CASE [ClientStep]_vars
    BY <1>1, NextIInv
  <1>2. CASE Connect
    <2>1. UNCHANGED <<kind, alive, handle, owns, made, open, lost, borrowed, wrong>>
      BY <1>2 DEF Connect, fields
    <2>2. WrongIsBorrowed'
      BY <2>1 DEF IInv, WrongIsBorrowed
    <2>3. QED
      BY <2>1, <2>2, NothingMoves
  <1>3. [ClientStep]_vars \/ Connect
    <2>1. CASE UNCHANGED fvars
      BY <2>1 DEF fvars
    <2>2. CASE Call \/ Return \/ Again
      BY <2>2 DEF Call, Return, Again
    <2>3. CASE ExecQuery \/ ReadRow \/ EndRows \/ Unwind \/ Disconnect
      BY <2>3, FetchAssumption
         DEF ExecQuery, ReadRow, EndRows, Unwind, Disconnect, ClientStep
    <2>4. QED
      BY <2>1, <2>2, <2>3 DEF FNext, FetchStep
  <1>4. QED
    BY <1>1, <1>2, <1>3

(* A fetch, which shares these classes with every other client, leaves     *)
(* each open handle its one owner too.                                     *)
THEOREM FetchOwnsHandles == FSpec => []HandlesAreOwned
  <1>1. FInit => IInv
    BY InitIInv DEF FInit
  <1>2. QED
    BY <1>1, FetchStepIInv, IInvHandles, PTL DEF FSpec

-----------------------------------------------------------------------------
(* What a fetch has read.                                                  *)
\* The rows of a statement as a call of a class adds them.
Rows(c, s) == [k \in DOMAIN s.rows |-> AsRow(c, s, s.rows[k])]

CallKinds == {"rows", "map", "scalar"}

Results == UNION {Range(Rows(c, s)) : c \in CallKinds, s \in Statements}

Infos == [field : Nat, header : Seq(UNION {Range(s.names) : s \in Statements}),
          rows : Seq(Results)]

FetchType ==
    /\ pc \in {"idle", "connect", "execute", "row", "unwind", "return", "returned"}
    /\ alive \in [Objects -> BOOLEAN] /\ owns \in [Objects -> BOOLEAN]
    /\ knowsDB \in [Objects -> BOOLEAN] /\ eof \in [Objects -> BOOLEAN]
    /\ handle \in [Objects -> Nat] /\ made \in Nat
    /\ call \in CallKinds /\ asked \in Statements /\ stmt \in Statements
    /\ row \in Nat /\ ret \in Int
    /\ info \in Infos /\ before \in Infos /\ IsFiniteSet(widths)

\* The query of the call is the one object with a handle, and only until it ends.
TheQuery ==
    /\ kind[query] = "query" /\ wrong = "nothing"
    /\ pc \notin {"row", "unwind"} => ~alive[query] /\ open = {}
    /\ pc = "row" => /\ alive[query] /\ handle[query] # 0 /\ owns[query] /\ knowsDB[query]
                     /\ open = {handle[query]}
    /\ pc = "unwind" => alive[query] /\ handle[query] = 0 /\ open = {}

\* The rows read so far are behind those of before, and the query is at its end when
\* all of them are.
TheRows ==
    /\ ~(call = "scalar" /\ asked.percent) => stmt = asked
    /\ call = "scalar" => before.rows = <<>>
    /\ pc \in {"connect", "execute"} => row = 0 /\ info.rows = before.rows
    /\ pc = "row" =>
           /\ row \in 0 .. Len(stmt.rows) /\ (eof[query] <=> row = Len(stmt.rows))
           /\ info.rows = before.rows \o SubSeq(Rows(call, stmt), 1, row)
           /\ info.field = Len(stmt.names)
    /\ pc \in {"unwind", "return", "returned"} =>
           /\ ret >= 0 => /\ info.rows = before.rows \o Rows(call, stmt)
                          /\ ret = Len(info.rows) /\ info.field = Len(stmt.names)
           /\ ret < 0 => \E k \in 0 .. Len(stmt.rows) :
                             info.rows = before.rows \o SubSeq(Rows(call, stmt), 1, k)

\* Rows are as wide as one of the statements fetched, and the last one's width is field.
TheWidths ==
    call = "rows" =>
        /\ \A k \in DOMAIN info.rows : Len(info.rows[k]) \in widths
        /\ info.rows # <<>> \/ pc = "row" => info.field \in widths

TheResult ==
    result = IF pc # "returned" \/ call # "scalar" \/ ret < 0 THEN "unset"
             ELSE IF NoCell THEN "default" ELSE info.rows[1][1]

\* The inductive invariant of a fetch.
Fetching == FetchType /\ TheQuery /\ TheRows /\ TheWidths /\ TheResult

FetchInv == pc # "other client" => Fetching

-----------------------------------------------------------------------------
(* One more element of a sequence behind another one.                      *)
LEMMA OneMore ==
    ASSUME NEW S, NEW s \in Seq(S), NEW t \in Seq(S), NEW k \in Nat, k < Len(t)
    PROVE  /\ t[k + 1] \in S
           /\ Append(s \o SubSeq(t, 1, k), t[k + 1]) = s \o SubSeq(t, 1, k + 1)
  <1>1. k + 1 \in 1 .. Len(t) /\ 1 \in 1 .. Len(t) /\ k + 1 \in Int /\ k \in Int
    BY LenProperties
  <1>2. t[k + 1] \in S
    BY <1>1, ElementOfSeq
  <1>3. SubSeq(t, 1, k) \in Seq(S)
    <2>1. \A j \in 1 .. k : t[j] \in S
      BY <1>1, LenProperties, ElementOfSeq
    <2>2. QED
      BY <1>1, <2>1, SubSeqProperties
  <1>4. SubSeq(t, 1, k + 1) = SubSeq(t, 1, k) \o <<t[k + 1]>>
    <2>1. SubSeq(t, 1, k + 1) = SubSeq(t, 1, (k + 1) - 1) \o <<t[k + 1]>>
      BY <1>1, SubSeqRecursiveSecond
    <2>2. (k + 1) - 1 = k
      OBVIOUS
    <2>3. QED
      BY <2>1, <2>2
  <1>5. Append(s \o SubSeq(t, 1, k), t[k + 1]) = (s \o SubSeq(t, 1, k)) \o <<t[k + 1]>>
    BY <1>2, <1>3, ConcatProperties, AppendIsConcat
  <1>6. <<t[k + 1]>> \in Seq(S)
    BY <1>2
  <1>7. (s \o SubSeq(t, 1, k)) \o <<t[k + 1]>> = s \o SubSeq(t, 1, k + 1)
    <2> DEFINE u == SubSeq(t, 1, k)
               v == <<t[k + 1]>>
    <2> HIDE DEF u, v
    <2>1. u \in Seq(S) /\ v \in Seq(S)
      BY <1>3, <1>6 DEF u, v
    <2>2. (s \o u) \o v = s \o (u \o v)
      BY <2>1, ConcatAssociative
    <2>3. QED
      BY <1>4, <2>2 DEF u, v
  <1>8. QED
    BY <1>2, <1>5, <1>7

\* In a call of no map a row is as wide as in sqlite.
LEMMA RowWidth ==
    ASSUME NEW s \in Statements, NEW k \in DOMAIN s.rows, NEW c, c # "map"
    PROVE  /\ AsRow(c, s, s.rows[k]) = [j \in 1 .. Len(s.names) |-> Text(s.rows[k][j])]
           /\ Len(AsRow(c, s, s.rows[k])) = Len(s.names) /\ Len(s.names) \in Nat
  <1>1. s.rows[k] \in Seq(Range(s.rows[k])) /\ Len(s.rows[k]) = Len(s.names)
    BY FetchAssumption DEF IsStatement, Range
  <1>2. DOMAIN s.rows[k] = 1 .. Len(s.names) /\ Len(s.names) \in Nat
    BY <1>1, LenProperties
  <1>3. AsRow(c, s, s.rows[k]) = [j \in 1 .. Len(s.names) |-> Text(s.rows[k][j])]
    BY <1>2 DEF AsRow
  <1>4. QED
    BY <1>2, <1>3

\* The rows of a statement are a sequence of possible rows.
LEMMA RowsType ==
    ASSUME NEW c \in CallKinds, NEW s \in Statements
    PROVE  /\ Rows(c, s) \in Seq(Results) /\ Len(s.rows) \in Nat
           /\ Len(Rows(c, s)) = Len(s.rows) /\ DOMAIN s.rows = 1 .. Len(s.rows)
           /\ SubSeq(Rows(c, s), 1, 0) = <<>>
           /\ SubSeq(Rows(c, s), 1, Len(s.rows)) = Rows(c, s)
  <1>1. s.rows \in Seq(Range(s.rows))
    BY FetchAssumption DEF IsStatement
  <1>2. Len(s.rows) \in Nat /\ DOMAIN s.rows = 1 .. Len(s.rows)
    BY <1>1, LenProperties
  <1>3. \A k \in 1 .. Len(s.rows) : Rows(c, s)[k] \in Results
    <2>1. \A k \in 1 .. Len(s.rows) : Rows(c, s)[k] \in Range(Rows(c, s))
      BY <1>2 DEF Rows, Range
    <2>2. Range(Rows(c, s)) \in {Range(Rows(d, t)) : d \in CallKinds, t \in Statements}
      OBVIOUS
    <2>3. QED
      BY <2>1, <2>2 DEF Results
  <1>4. Rows(c, s) \in [1 .. Len(s.rows) -> Results]
    BY <1>2, <1>3 DEF Rows
  <1>5. Rows(c, s) \in Seq(Results) /\ Len(Rows(c, s)) = Len(s.rows)
    BY <1>2, <1>4
  <1>6. QED
    BY <1>2, <1>5, SubSeqEmpty, SubSeqFull

\* What info holds; its rows are a sequence of possible rows.
LEMMA InfoType ==
    ASSUME FetchType
    PROVE  info.rows \in Seq(Results) /\ before.rows \in Seq(Results) /\ Len(info.rows) \in Nat
  BY LenProperties DEF FetchType, Infos

\* An object gets another handle.
LEMMA PutHandle ==
    ASSUME NEW f \in [Objects -> Nat], NEW o, NEW h \in Nat
    PROVE  [f EXCEPT ![o] = h] \in [Objects -> Nat]
  OBVIOUS

-----------------------------------------------------------------------------
(* A fetch begins with nothing, ...                                        *)
LEMMA InitFetch == FInit => FetchInv
  <1> SUFFICES ASSUME FInit, pc = "idle"
               PROVE  Fetching
    BY DEF FetchInv, FInit
  <1>1. NoRows \in Infos
    BY EmptySeq DEF NoRows, Infos
  <1>2. FetchType
    BY <1>1, FS_EmptySet, FetchAssumption DEF FInit, Init, FetchType, CallKinds
  <1>3. TheQuery /\ TheRows /\ TheResult
    BY FetchAssumption DEF FInit, Init, TheQuery, TheRows, TheResult, NoRows
  <1>4. TheWidths
    BY DEF FInit, TheWidths, NoRows
  <1>5. QED
    BY <1>2, <1>3, <1>4 DEF Fetching

\* ... a call sets up what it will add to, ...
LEMMA CallFetch == ASSUME Fetching, Call PROVE Fetching'
  <1> USE DEF Fetching
  <1>1. /\ pc = "idle" /\ pc' \in {"connect", "execute"} /\ row' = 0
        /\ call' \in {call, "scalar"} /\ asked' \in Statements
        /\ ~(call' = "scalar" /\ asked'.percent) => stmt' = asked'
        /\ stmt' \in Statements /\ before' = info'
        /\ UNCHANGED <<kind, alive, handle, owns, knowsDB, eof, made, open, wrong, ret, result>>
    BY DEF Call, vars, fields
  <1>2. /\ call' = call /\ call # "scalar" => info' = info /\ widths' = widths
        /\ call' = "scalar" => info' = NoRows /\ widths' = {}
    BY <1>1 DEF Call
  <1>3. info' \in Infos /\ IsFiniteSet(widths')
    <2>1. NoRows \in Infos
      BY EmptySeq DEF NoRows, Infos
    <2>2. QED
      BY <1>1, <1>2, <2>1, FS_EmptySet DEF FetchType
  <1>4. FetchType'
    BY <1>1, <1>3 DEF FetchType, CallKinds
  <1>5. TheQuery' /\ TheRows' /\ TheResult'
    <2>1. TheQuery'
      BY <1>1 DEF TheQuery
    <2>2. TheResult'
      BY <1>1 DEF TheResult
    <2>3. call' = "scalar" => before'.rows = <<>>
      BY <1>1, <1>2 DEF NoRows
    <2>4. QED
      BY <1>1, <2>1, <2>2, <2>3 DEF TheRows
  <1>6. TheWidths'
    BY <1>1, <1>2 DEF TheWidths
  <1>7. QED
    BY <1>1, <1>4, <1>5, <1>6

\* ... connects or gives up with no row read, ...
LEMMA ConnectFetch == ASSUME Fetching, Connect PROVE Fetching'
  <1> USE DEF Fetching
  <1>1. /\ pc = "connect"
        /\ \/ pc' = "execute" /\ ret' = ret
           \/ pc' = "return" /\ ret' = -1
        /\ UNCHANGED <<kind, alive, handle, owns, knowsDB, eof, made, open, wrong>>
        /\ UNCHANGED <<call, asked, stmt, row, info, before, widths, result>>
    BY DEF Connect, fields
  <1>2. FetchType' /\ TheQuery' /\ TheWidths' /\ TheResult'
    BY <1>1 DEF FetchType, TheQuery, TheWidths, TheResult
  <1>3. info.rows = before.rows \o SubSeq(Rows(call, stmt), 1, 0)
    BY <1>1, InfoType, RowsType, ConcatEmptySeq DEF FetchType, TheRows
  <1>4. TheRows'
    <2>1. Len(stmt.rows) \in Nat /\ 0 \in 0 .. Len(stmt.rows) /\ -1 < 0
      BY RowsType DEF FetchType
    <2>2. \E k \in 0 .. Len(stmt.rows) :
              info.rows = before.rows \o SubSeq(Rows(call, stmt), 1, k)
      BY <1>3, <2>1
    <2>3. CASE pc' = "execute" /\ ret' = ret
      BY <1>1, <2>3 DEF TheRows
    <2>4. CASE pc' = "return" /\ ret' = -1
      <3>1. ~(ret' >= 0)
        BY <2>4
      <3>2. QED
        BY <1>1, <2>2, <2>4, <3>1 DEF TheRows
    <2>5. QED
      BY <1>1, <2>3, <2>4
  <1>5. QED
    BY <1>1, <1>2, <1>4

\* ... opens the statement of its query, the one there is, or gives up, ...
LEMMA ExecQueryFetch == ASSUME Fetching, ExecQuery PROVE Fetching'
  <1> USE DEF Fetching
  <1>1. /\ pc = "execute" /\ row = 0 /\ info.rows = before.rows
        /\ UNCHANGED <<call, asked, stmt, row, before, result>>
    BY DEF ExecQuery, TheRows
  <1>2. /\ SubSeq(Rows(call, stmt), 1, 0) = <<>> /\ Len(stmt.rows) \in Nat
        /\ info.rows = before.rows \o SubSeq(Rows(call, stmt), 1, 0)
    BY <1>1, InfoType, RowsType, ConcatEmptySeq DEF FetchType
  <1>3. CASE /\ pc' = "return" /\ ret' = -1
             /\ UNCHANGED <<vars, info, widths>>
    <2>1. UNCHANGED <<kind, alive, handle, owns, knowsDB, eof, made, open, wrong, info, widths>>
      BY <1>3 DEF vars, fields
    <2>2. FetchType' /\ TheQuery' /\ TheWidths' /\ TheResult'
      BY <1>1, <1>3, <2>1 DEF FetchType, TheQuery, TheWidths, TheResult
    <2>3. TheRows'
      <3>1. 0 \in 0 .. Len(stmt.rows) /\ -1 < 0 /\ ~(-1 >= 0)
        BY <1>2
      <3>2. \E k \in 0 .. Len(stmt.rows) :
                info.rows = before.rows \o SubSeq(Rows(call, stmt), 1, k)
        BY <1>2, <3>1
      <3>3. QED
        BY <1>1, <1>3, <2>1, <3>1, <3>2 DEF TheRows
    <2>4. QED
      BY <1>3, <2>2, <2>3
  <1>4. CASE /\ Execute(query) /\ eof'[query] = (stmt.rows = <<>>)
             /\ info' = [info EXCEPT !.field = Len(stmt.names),
                                     !.header = IF call = "map" THEN @ \o stmt.names ELSE @]
             /\ widths' = widths \cup {Len(stmt.names)}
             /\ pc' = "row" /\ UNCHANGED ret
    <2>1. PICK end \in BOOLEAN : Returned(query, TRUE, end)
      BY <1>4 DEF Execute
    <2>2. /\ alive' = [alive EXCEPT ![query] = TRUE] /\ handle' = [handle EXCEPT ![query] = made + 1]
          /\ owns' = [owns EXCEPT ![query] = TRUE] /\ knowsDB' = [knowsDB EXCEPT ![query] = TRUE]
          /\ eof' = [eof EXCEPT ![query] = end] /\ made' = made + 1
          /\ open' = open \cup {made + 1} /\ UNCHANGED <<kind, wrong>>
      BY <2>1 DEF Returned, Starts, Set
    <2>3. stmt.names \in Seq(Range(stmt.names)) /\ Len(stmt.names) \in Nat
      BY FetchAssumption, LenProperties DEF FetchType, IsStatement
    <2>4. /\ info' \in Infos /\ info'.rows = info.rows /\ info'.field = Len(stmt.names)
      <3> DEFINE S == UNION {Range(s.names) : s \in Statements}
      <3>1. PICK f \in Nat, h \in Seq(S), r \in Seq(Results) :
                info = [field |-> f, header |-> h, rows |-> r]
        BY DEF FetchType, Infos
      <3>2. stmt.names \in Seq(S)
        <4>1. Range(stmt.names) \subseteq S
          BY DEF FetchType
        <4>2. Seq(Range(stmt.names)) \subseteq Seq(S)
          BY <4>1, SeqMonotonic
        <4>3. QED
          BY <2>3, <4>2
      <3>3. PICK g \in Seq(S) : info' = [field |-> Len(stmt.names), header |-> g, rows |-> r]
        <4>1. h \o stmt.names \in Seq(S)
          BY <3>2, ConcatProperties
        <4>2. QED
          BY <1>4, <3>1, <4>1
      <3>4. QED
        BY <2>3, <3>1, <3>3 DEF Infos
    <2>5. FetchType'
      <3>1. IsFiniteSet(widths')
        BY <1>4, FS_AddElement DEF FetchType
      <3>2. /\ alive' \in [Objects -> BOOLEAN] /\ owns' \in [Objects -> BOOLEAN]
            /\ knowsDB' \in [Objects -> BOOLEAN] /\ eof' \in [Objects -> BOOLEAN]
        BY <2>2, Zenon DEF FetchType
      <3>3. handle' \in [Objects -> Nat] /\ made' \in Nat
        <4>1. handle \in [Objects -> Nat] /\ made \in Nat
          BY DEF FetchType
        <4>2. made + 1 \in Nat
          BY <4>1
        <4>3. [handle EXCEPT ![query] = made + 1] \in [Objects -> Nat]
          BY <4>1, <4>2, PutHandle
        <4>4. QED
          BY <2>2, <4>2, <4>3
      <3>4. QED
        BY <1>1, <1>4, <2>4, <3>1, <3>2, <3>3 DEF FetchType
    <2>6. TheQuery'
      BY <1>1, <1>4, <2>2, FetchAssumption DEF TheQuery, FetchType
    <2>7. eof'[query] <=> row = Len(stmt.rows)
      <3>1. stmt.rows = <<>> <=> Len(stmt.rows) = 0
        BY FetchAssumption, EmptySeq, LenProperties DEF FetchType, IsStatement
      <3>2. QED
        BY <1>1, <1>4, <3>1
    <2>8. TheRows'
      BY <1>1, <1>2, <1>4, <2>4, <2>7 DEF TheRows
    <2>9. TheWidths' /\ TheResult'
      BY <1>1, <1>4, <2>4 DEF TheWidths, TheResult
    <2>10. QED
      BY <1>4, <2>5, <2>6, <2>8, <2>9
  <1>5. QED
    BY <1>3, <1>4 DEF ExecQuery

\* ... adds one row and stands at the next one, or fails having added it, ...
LEMMA ReadRowFetch == ASSUME Fetching, ReadRow PROVE Fetching'
  <1> USE DEF Fetching
  <1>1. /\ pc = "row" /\ ~eof[query] /\ row \in Nat /\ row < Len(stmt.rows) /\ row' = row + 1
        /\ UNCHANGED <<call, asked, stmt, before, widths, result>>
        /\ call \in CallKinds /\ stmt \in Statements
        /\ info' = [info EXCEPT !.rows = Append(@, Rows(call, stmt)[row + 1])]
    <2>1. /\ pc = "row" /\ ~eof[query] /\ row' = row + 1
          /\ UNCHANGED <<call, asked, stmt, before, widths, result>>
          /\ call \in CallKinds /\ stmt \in Statements
      BY DEF ReadRow, FetchType
    <2>2. row \in Nat /\ row < Len(stmt.rows)
      BY <2>1, RowsType DEF TheRows
    <2>3. row + 1 \in DOMAIN stmt.rows
      BY <2>1, <2>2, RowsType
    <2>4. info' = [info EXCEPT !.rows = Append(@, Rows(call, stmt)[row + 1])]
      BY <2>3 DEF ReadRow, AddRow, Rows
    <2>5. QED
      BY <2>1, <2>2, <2>4
  <1>2. /\ Rows(call, stmt) \in Seq(Results) /\ Len(Rows(call, stmt)) = Len(stmt.rows)
        /\ Len(stmt.rows) \in Nat
    BY <1>1, RowsType
  <1>3. /\ info'.rows = before.rows \o SubSeq(Rows(call, stmt), 1, row + 1)
        /\ info'.field = info.field /\ info' \in Infos
        /\ Rows(call, stmt)[row + 1] \in Results
    <2>1. info.rows = before.rows \o SubSeq(Rows(call, stmt), 1, row)
      BY <1>1 DEF TheRows
    <2>2. /\ Rows(call, stmt)[row + 1] \in Results
          /\ Append(info.rows, Rows(call, stmt)[row + 1])
                = before.rows \o SubSeq(Rows(call, stmt), 1, row + 1)
      BY <1>1, <1>2, <2>1, InfoType, OneMore
    <2>3. Append(info.rows, Rows(call, stmt)[row + 1]) \in Seq(Results)
      BY <2>2, InfoType, AppendProperties
    <2>4. QED
      BY <1>1, <2>2, <2>3 DEF FetchType, Infos
  <1>4. TheWidths'
    <2> SUFFICES ASSUME call = "rows" PROVE TheWidths'
      BY <1>1 DEF TheWidths
    <2>1. /\ \A k \in DOMAIN info.rows : Len(info.rows[k]) \in widths
          /\ info.field \in widths /\ info.field = Len(stmt.names)
      BY <1>1 DEF TheWidths, TheRows
    <2>2. Len(Rows(call, stmt)[row + 1]) = Len(stmt.names)
      <3>1. row + 1 \in DOMAIN stmt.rows
        BY <1>1, <1>2, RowsType
      <3>2. QED
        BY <1>1, <3>1, RowWidth DEF Rows
    <2>3. \A k \in DOMAIN info'.rows : Len(info'.rows[k]) \in widths
      <3>1. info'.rows = Append(info.rows, Rows(call, stmt)[row + 1])
        BY <1>1 DEF FetchType, Infos
      <3>2. /\ DOMAIN info'.rows = 1 .. Len(info.rows) + 1
            /\ DOMAIN info.rows = 1 .. Len(info.rows)
            /\ \A k \in 1 .. Len(info.rows) : info'.rows[k] = info.rows[k]
            /\ info'.rows[Len(info.rows) + 1] = Rows(call, stmt)[row + 1]
        <4>1. info.rows \in Seq(Results) /\ Len(info.rows) \in Nat
              /\ DOMAIN info.rows = 1 .. Len(info.rows)
          BY InfoType, LenProperties
        <4>2. /\ info'.rows \in Seq(Results) /\ Len(info'.rows) = Len(info.rows) + 1
              /\ \A k \in 1 .. Len(info.rows) : info'.rows[k] = info.rows[k]
              /\ info'.rows[Len(info.rows) + 1] = Rows(call, stmt)[row + 1]
          <5> DEFINE e == Rows(call, stmt)[row + 1]
          <5>1. e \in Results
            BY <1>3
          <5> HIDE DEF e
          <5>2. /\ Append(info.rows, e) \in Seq(Results)
                /\ Len(Append(info.rows, e)) = Len(info.rows) + 1
                /\ \A k \in 1 .. Len(info.rows) : Append(info.rows, e)[k] = info.rows[k]
                /\ Append(info.rows, e)[Len(info.rows) + 1] = e
            BY <4>1, <5>1, AppendProperties
          <5>3. info'.rows = Append(info.rows, e)
            BY <3>1 DEF e
          <5>4. QED
            BY <5>2, <5>3 DEF e
        <4>3. DOMAIN info'.rows = 1 .. Len(info'.rows)
          BY <4>2, LenProperties
        <4>4. QED
          BY <4>1, <4>2, <4>3
      <3>3. \A k \in 1 .. Len(info.rows) + 1 : k \in 1 .. Len(info.rows) \/ k = Len(info.rows) + 1
        BY InfoType
      <3>4. QED
        BY <2>1, <2>2, <3>2, <3>3
    <2>4. QED
      BY <1>1, <1>3, <2>1, <2>3 DEF TheWidths
  <1>5. CASE /\ NextRow(query) /\ eof'[query] = (row' = Len(stmt.rows))
             /\ UNCHANGED <<pc, ret>>
    <2>1. /\ UNCHANGED <<kind, alive, handle, owns, knowsDB, made, open, wrong>>
          /\ \E end \in BOOLEAN : eof' = [eof EXCEPT ![query] = eof[query] \/ end]
      BY <1>5 DEF NextRow
    <2>2. FetchType'
      <3>1. eof' \in [Objects -> BOOLEAN]
        BY <2>1, Zenon DEF FetchType
      <3>2. QED
        BY <1>1, <1>3, <1>5, <2>1, <3>1 DEF FetchType
    <2>3. TheQuery' /\ TheResult'
      BY <1>1, <1>5, <2>1 DEF TheQuery, TheResult
    <2>4. TheRows'
      <3>1. row + 1 \in 0 .. Len(stmt.rows)
        BY <1>1, <1>2
      <3>2. info'.field = Len(stmt.names)
        BY <1>1, <1>3 DEF TheRows
      <3>3. QED
        BY <1>1, <1>3, <1>5, <3>1, <3>2 DEF TheRows
    <2>5. QED
      BY <1>1, <1>4, <1>5, <2>2, <2>3, <2>4
  <1>6. CASE NextRowFails(query) /\ pc' = "unwind" /\ ret' = -1
    <2>1. /\ UNCHANGED <<kind, alive, owns, knowsDB, eof, made>>
          /\ open' = open \ {handle[query]} /\ handle' = [handle EXCEPT ![query] = 0]
          /\ knowsDB[query] => wrong' = wrong
      BY <1>6 DEF NextRowFails
    <2>2. FetchType'
      <3>1. handle' \in [Objects -> Nat] /\ row' \in Nat /\ ret' \in Int
        <4>1. handle \in [Objects -> Nat]
          BY DEF FetchType
        <4>2. [handle EXCEPT ![query] = 0] \in [Objects -> Nat]
          BY <4>1, PutHandle
        <4>3. row + 1 \in Nat /\ -1 \in Int
          BY <1>1
        <4>4. QED
          BY <1>1, <1>6, <2>1, <4>2, <4>3
      <3>2. QED
        BY <1>1, <1>3, <1>6, <2>1, <3>1 DEF FetchType
    <2>3. TheQuery' /\ TheResult'
      BY <1>1, <1>6, <2>1, FetchAssumption DEF TheQuery, TheResult, FetchType
    <2>4. TheRows'
      <3>1. row + 1 \in 0 .. Len(stmt.rows) /\ ~(-1 >= 0)
        BY <1>1, <1>2
      <3>2. QED
        BY <1>1, <1>3, <1>6, <3>1 DEF TheRows
    <2>5. QED
      BY <1>1, <1>4, <1>6, <2>2, <2>3, <2>4
  <1>7. QED
    BY <1>5, <1>6 DEF ReadRow

\* ... finalizes the statement once all rows are read, ...
LEMMA EndRowsFetch == ASSUME Fetching, EndRows PROVE Fetching'
  <1> USE DEF Fetching
  <1>1. /\ pc = "row" /\ eof[query] /\ Finalize(query) /\ ret' = Len(info.rows) /\ pc' = "unwind"
        /\ UNCHANGED <<call, asked, stmt, row, info, before, widths, result>>
    BY DEF EndRows
  <1>2. Owns(query)
    BY <1>1 DEF Owns, TheQuery
  <1>3. /\ open' = open \ {handle[query]} /\ handle' = [handle EXCEPT ![query] = 0]
        /\ wrong' = wrong /\ UNCHANGED <<kind, alive, owns, knowsDB, eof, made>>
    BY <1>1, <1>2 DEF Finalize, FreeOwn, Free, TheQuery
  <1>4. FetchType' /\ TheWidths' /\ TheResult'
    <2>1. handle' \in [Objects -> Nat] /\ ret' \in Int
      <3>1. handle \in [Objects -> Nat]
        BY DEF FetchType
      <3>2. [handle EXCEPT ![query] = 0] \in [Objects -> Nat]
        BY <3>1, PutHandle
      <3>3. Len(info.rows) \in Int
        BY InfoType
      <3>4. QED
        BY <1>1, <1>3, <3>2, <3>3
    <2>2. FetchType'
      BY <1>1, <1>3, <2>1 DEF FetchType
    <2>3. QED
      BY <1>1, <2>2 DEF TheWidths, TheResult
  <1>5. TheQuery'
    BY <1>1, <1>3, FetchAssumption DEF FetchType, TheQuery
  <1>6. info.rows = before.rows \o Rows(call, stmt) /\ info.field = Len(stmt.names)
    <2>1. row = Len(stmt.rows) /\ info.rows = before.rows \o SubSeq(Rows(call, stmt), 1, row)
          /\ info.field = Len(stmt.names)
      BY <1>1 DEF TheRows
    <2>2. SubSeq(Rows(call, stmt), 1, row) = Rows(call, stmt)
      BY <2>1, RowsType DEF FetchType
    <2>3. QED
      BY <2>1, <2>2
  <1>7. TheRows'
    BY <1>1, <1>6, InfoType DEF TheRows
  <1>8. QED
    BY <1>1, <1>4, <1>5, <1>7

\* ... destroys a query that owns nothing any more, ...
LEMMA UnwindFetch == ASSUME Fetching, Unwind PROVE Fetching'
  <1> USE DEF Fetching
  <1>1. /\ pc = "unwind" /\ pc' = "return" /\ Destroy(query)
        /\ UNCHANGED <<call, asked, stmt, row, info, before, widths, ret, result>>
    BY DEF Unwind
  <1>2. ~Owns(query)
    BY <1>1 DEF Owns, TheQuery
  <1>3. /\ alive' = [alive EXCEPT ![query] = FALSE] /\ handle' = [handle EXCEPT ![query] = 0]
        /\ owns' = [owns EXCEPT ![query] = FALSE] /\ knowsDB' = [knowsDB EXCEPT ![query] = FALSE]
        /\ eof' = [eof EXCEPT ![query] = TRUE] /\ UNCHANGED <<kind, made, open, wrong>>
    BY <1>1, <1>2 DEF Destroy, FreeOwn, Set
  <1>4. FetchType' /\ TheRows' /\ TheWidths' /\ TheResult'
    BY <1>1, <1>3 DEF FetchType, TheRows, TheWidths, TheResult
  <1>5. TheQuery'
    BY <1>1, <1>3, FetchAssumption DEF FetchType, TheQuery
  <1>6. QED
    BY <1>1, <1>4, <1>5

\* ... answers, and leaves it all alone until the next call.
LEMMA ReturnFetch == ASSUME Fetching, Return \/ Again \/ Disconnect PROVE Fetching'
  <1> USE DEF Fetching
  <1>1. /\ UNCHANGED <<kind, alive, handle, owns, knowsDB, eof, made, open, wrong>>
        /\ UNCHANGED <<call, asked, stmt, row, info, before, widths, ret>>
    BY DEF Return, Again, Disconnect, Close, vars, fields, fetchVars
  <1>2. \/ pc = "return" /\ pc' = "returned"
        \/ pc = "returned" /\ pc' = "idle"
        \/ pc = "idle" /\ pc' = "idle"
    BY DEF Return, Again, Disconnect, fetchVars
  <1>3. FetchType' /\ TheQuery' /\ TheRows' /\ TheWidths'
    BY <1>1, <1>2 DEF FetchType, TheQuery, TheRows, TheWidths
  <1>4. TheResult'
    BY <1>1, <1>2 DEF TheResult, Return, Again, Disconnect, fetchVars, NoCell
  <1>5. QED
    BY <1>3, <1>4

\* So no step disturbs the invariant; another client never becomes a fetch.
LEMMA NextFetch == FetchInv /\ [FNext]_fvars => FetchInv'
  <1> SUFFICES ASSUME FetchInv, [FNext]_fvars PROVE FetchInv'
    OBVIOUS
  <1>1. CASE UNCHANGED fvars
    <2>1. UNCHANGED <<kind, alive, handle, owns, knowsDB, eof, made, open, wrong, pc, call, asked,
                      stmt, row, info, before, widths, ret, result>>
      BY <1>1 DEF fvars, fetchVars, vars, fields
    <2>2. QED
      BY <2>1 DEF FetchInv, Fetching, FetchType, TheQuery, TheRows, TheWidths,
         TheResult, NoCell
  <1>2. CASE pc = "other client" /\ ClientStep /\ UNCHANGED fetchVars
    BY <1>2 DEF FetchInv, fetchVars
  <1>3. CASE FetchStep
    <2>1. Fetching
      BY <1>3 DEF FetchInv, FetchStep, Call, Connect, ExecQuery, ReadRow, EndRows, Unwind,
                  Return, Again, Disconnect
    <2>2. QED
      BY <1>3, <2>1, CallFetch, ConnectFetch, ExecQueryFetch, ReadRowFetch, EndRowsFetch,
         UnwindFetch, ReturnFetch DEF FetchStep, FetchInv
  <1>4. QED
    BY <1>1, <1>2, <1>3 DEF FNext

(* The invariant of a fetch holds in every behaviour: its query is the one *)
(* owner of a handle, and its rows are a prefix of the statement's.        *)
THEOREM FetchInvHolds == FSpec => []FetchInv
  BY InitFetch, NextFetch, PTL DEF FSpec

-----------------------------------------------------------------------------
(* What the invariant says of a call that is over.                         *)
\* The first cell of the answer to a scalar call, by get_data(0, 0).
LEMMA FirstCell ==
    ASSUME NEW s \in Statements, info.rows = Rows("scalar", s), info.field = Len(s.names)
    PROVE  (IF NoCell THEN "default" ELSE info.rows[1][1])
             = IF s.rows = <<>> THEN "default" ELSE Text(s.rows[1][1])
  <1>1. /\ Len(info.rows) = Len(s.rows) /\ Len(s.rows) \in Nat
        /\ DOMAIN s.rows = 1 .. Len(s.rows) /\ info.rows \in Seq(Results)
    BY RowsType DEF CallKinds
  <1>2. info.rows = <<>> <=> s.rows = <<>>
    <2>1. s.rows = <<>> <=> Len(s.rows) = 0
      BY FetchAssumption, EmptySeq, LenProperties DEF IsStatement
    <2>2. info.rows = <<>> <=> Len(info.rows) = 0
      BY <1>1, EmptySeq, LenProperties
    <2>3. QED
      BY <1>1, <2>1, <2>2
  <1>3. CASE s.rows = <<>>
    BY <1>2, <1>3 DEF NoCell
  <1>4. CASE s.rows # <<>>
    <2>1. 1 \in DOMAIN s.rows
      BY <1>1, <1>4, FetchAssumption, EmptySeq DEF IsStatement
    <2>2. Len(s.names) \in Nat /\ Len(s.names) # 0
      BY <1>4, FetchAssumption, EmptySeq, LenProperties DEF IsStatement
    <2>3. ~NoCell
      BY <1>2, <1>4, <2>2 DEF NoCell
    <2>4. info.rows[1] = [j \in 1 .. Len(s.names) |-> Text(s.rows[1][j])]
      <3>1. info.rows[1] = AsRow("scalar", s, s.rows[1])
        BY <2>1 DEF Rows
      <3>2. QED
        BY <2>1, <3>1, RowWidth
    <2>5. 1 \in 1 .. Len(s.names)
      BY <2>2
    <2>6. QED
      BY <1>4, <2>3, <2>4, <2>5
  <1>5. QED
    BY <1>3, <1>4

\* Statements of one width leave rows of that width.
LEMMA OneWidth ==
    ASSUME Fetching, call = "rows", Cardinality(widths) <= 1
    PROVE  \A k \in DOMAIN info.rows : Len(info.rows[k]) = info.field
  <1> SUFFICES ASSUME NEW k \in DOMAIN info.rows PROVE Len(info.rows[k]) = info.field
    OBVIOUS
  <1>1. info.rows # <<>>
    BY EmptySeq
  <1>2. Len(info.rows[k]) \in widths /\ info.field \in widths
    BY <1>1 DEF Fetching, TheWidths
  <1>3. IsFiniteSet(widths)
    BY DEF Fetching, FetchType
  <1>4. Cardinality(widths) \in Nat /\ Cardinality(widths) # 0
    BY <1>2, <1>3, FS_EmptySet, FS_CardinalityType
  <1>5. Cardinality(widths) = 1
    BY <1>4
  <1>6. PICK w : widths = {w}
    BY <1>3, <1>5, FS_Singleton
  <1>7. QED
    BY <1>2, <1>6

\* A call that is over has kept what it promises.
LEMMA FetchInvReports == ASSUME FetchInv PROVE FetchReports
  <1> SUFFICES ASSUME pc = "returned", ~(call = "scalar" /\ asked.percent)
               PROVE  /\ ret >= 0 => info.rows = before.rows \o Rows(call, asked)
                                     /\ ret = Len(info.rows)
                      /\ ret < 0 => \E k \in 0 .. Len(Rows(call, asked)) :
                             info.rows = before.rows \o SubSeq(Rows(call, asked), 1, k)
                      /\ (call = "scalar" /\ ret >= 0) =>
                             result = IF asked.rows = <<>> THEN "default"
                                      ELSE Text(asked.rows[1][1])
                      /\ (call # "scalar" \/ ret < 0) => result = "unset"
                      /\ (call = "rows" /\ Cardinality(widths) <= 1) =>
                             \A k \in DOMAIN info.rows : Len(info.rows[k]) = info.field
    BY DEF FetchReports, Rows
  <1>1. Fetching /\ stmt = asked /\ asked \in Statements /\ call \in CallKinds /\ ret \in Int
    BY DEF FetchInv, Fetching, FetchType, TheRows
  <1>2. /\ Rows(call, asked) \in Seq(Results) /\ Len(Rows(call, asked)) = Len(asked.rows)
    BY <1>1, RowsType
  <1>3. ret >= 0 => /\ info.rows = before.rows \o Rows(call, asked) /\ ret = Len(info.rows)
                    /\ info.field = Len(asked.names)
    BY <1>1 DEF Fetching, TheRows
  <1>4. ret < 0 => \E k \in 0 .. Len(Rows(call, asked)) :
                       info.rows = before.rows \o SubSeq(Rows(call, asked), 1, k)
    BY <1>1, <1>2 DEF Fetching, TheRows
  <1>5. ASSUME call = "scalar", ret >= 0
        PROVE  result = IF asked.rows = <<>> THEN "default" ELSE Text(asked.rows[1][1])
    <2>1. info.rows = Rows("scalar", asked)
      <3>1. before.rows = <<>>
        BY <1>1, <1>5 DEF Fetching, TheRows
      <3>2. QED
        BY <1>2, <1>3, <1>5, <3>1, ConcatEmptySeq
    <2>2. ~(ret < 0)
      BY <1>1, <1>5
    <2>3. result = IF NoCell THEN "default" ELSE info.rows[1][1]
      BY <1>1, <1>5, <2>2 DEF Fetching, TheResult
    <2>4. QED
      BY <1>1, <1>3, <1>5, <2>1, <2>3, FirstCell
  <1>6. (call # "scalar" \/ ret < 0) => result = "unset"
    BY <1>1 DEF Fetching, TheResult
  <1>7. QED
    BY <1>1, <1>3, <1>4, <1>5, <1>6, OneWidth

(* However a fetch ends, it has read what it reports, and has neither left *)
(* a statement open nor finalized one twice, whatever other calls the      *)
(* connection has served (fetch of common/sqlite_utils.cpp).               *)
THEOREM FetchCompletesHolds == FSpec => []FetchCompletes
  <1>1. FetchInv => FetchLeavesNothing
    BY DEF FetchInv, Fetching, TheQuery, FetchLeavesNothing
  <1>2. FetchInv => FetchCompletes
    BY <1>1, FetchInvReports DEF FetchCompletes
  <1>3. QED
    BY <1>2, FetchInvHolds, PTL
=============================================================================
