------------------------------ MODULE OneCall ------------------------------
(***************************************************************************)
(* A call of a function that keeps no state: which, with what argument and *)
(* result.                                                                 *)
(***************************************************************************)
VARIABLES fn, arg, res

callVars == <<fn, arg, res>>

CallInit == fn = "none" /\ arg = <<>> /\ res = <<>>

Called(f, x, r) == fn = "none" /\ fn' = f /\ arg' = x /\ res' = r
=============================================================================
