--------------------------- MODULE ReadersWriters ---------------------------
(***************************************************************************)
(* What a reader/writer lock promises: many threads inside to read, or one *)
(* to write.                                                               *)
(***************************************************************************)
CONSTANT Threads

VARIABLE inside    \* "out", "read" or "write"

Init == inside = [t \in Threads |-> "out"]

Enter(t, mode) ==
    /\ inside[t] = "out"
    /\ \A u \in Threads : inside[u] = "out" \/ (mode = "read" /\ inside[u] = "read")
    /\ inside' = [inside EXCEPT ![t] = mode]

Exit(t) == inside[t] # "out" /\ inside' = [inside EXCEPT ![t] = "out"]

Next == \E t \in Threads : Enter(t, "read") \/ Enter(t, "write") \/ Exit(t)

Spec == Init /\ [][Next]_inside
=============================================================================
