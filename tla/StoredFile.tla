----------------------------- MODULE StoredFile -----------------------------
(***************************************************************************)
(* A file that processes write and read whole, one at a time.  Only a      *)
(* failure, of a write or of the process that writes, leaves the beginning *)
(* of a content.  What is read ends at the first zero byte.                *)
(***************************************************************************)
EXTENDS Integers, Sequences

Text == INSTANCE Strings

CONSTANTS Procs, Contents

VARIABLES value,     \* what the file holds
          result,    \* what each process read last
          up,        \* the processes that run
          failures

vars == <<value, result, up, failures>>

Init == /\ value = <<>>
        /\ result = [p \in Procs |-> <<>>]
        /\ up = Procs
        /\ failures = 0

Write(p) == /\ p \in up
            /\ value' \in Contents
            /\ UNCHANGED <<result, up, failures>>

Read(p) == /\ p \in up
           /\ result' = [result EXCEPT ![p] = Text!CString(value)]
           /\ UNCHANGED <<value, up, failures>>

Torn == \E c \in Contents : \E n \in 0 .. Len(c) : value' = SubSeq(c, 1, n)

WriteFails(p) == /\ p \in up
                 /\ Torn
                 /\ failures' = failures + 1
                 /\ UNCHANGED <<result, up>>

Crash(p) == /\ p \in up
            /\ value' = value \/ Torn
            /\ up' = up \ {p}
            /\ result' = [result EXCEPT ![p] = <<>>]
            /\ failures' = failures + 1

Restart(p) == p \notin up /\ up' = up \cup {p} /\ UNCHANGED <<value, result, failures>>

Next == \E p \in Procs : Write(p) \/ Read(p) \/ WriteFails(p) \/ Crash(p) \/ Restart(p)

Spec == Init /\ [][Next]_vars
=============================================================================
