------------------------------ MODULE MCEncode ------------------------------
(* One call of the encoder: of byte_pair_encode with a piece, or of encode with *)
(* a text, in which a piece stands for its tokens.                              *)
(*                                                                              *)
(* Pieces: two byte values, every piece of up to four bytes and one of six, and *)
(* every vocabulary that ranks up to three of thirteen words of two to four     *)
(* bytes in any order, with one byte known or both.  Texts: see MCTexts; with a *)
(* regex that does not cover them, of up to three characters.                   *)
EXTENDS BytePairMerge, MCTexts

CONSTANTS b0, b1, Chars, Leading, Continuation, Texts, Specials, AllowedArgs, All, NoSpecial

VARIABLES call, text, allowed, checkAll, covers, start, startFind, special, offset, ret, textPc

textVars == <<text, allowed, checkAll, covers, start, startFind, special, offset, ret, textPc>>

Text == INSTANCE EncodeText WITH out <- ret, pc <- textPc

ASSUME TextsAssumption == Text!SpecialsAssumption

MCByte == {b0, b1}

MCPieces == BoundedSeq(MCByte, 4) \cup {<<b0, b1, b0, b1, b0, b1>>}

Words == [1 .. 2 -> MCByte] \cup [1 .. 3 -> MCByte] \cup {<<b0, b1, b0, b1>>}

Orders == UNION {{o \in [1 .. n -> Words] : IsInjective(o)} : n \in 0 .. 2}
          \cup {o \in [1 .. 3 -> Words] : IsInjective(o) /\ o[1] \in [1 .. 2 -> MCByte]}

MCRankTables ==
    {[w \in ToSet(o) |-> CHOOSE i \in DOMAIN o : o[i] = w] :
        o \in {<<<<b0>>, <<b1>>>> \o p : p \in Orders} \cup {<<<<b0>>>> \o p : p \in Orders}}

MCAllowedArgs == MCArgs \cup {{All}}

EncodeInit ==
    \/ call = "piece" /\ text = <<>> /\ allowed = {} /\ checkAll = FALSE /\ covers = TRUE /\ Text!Init /\ Init
    \/ call = "text" /\ piece = <<>> /\ ranks = (CHOOSE r \in RankTables : TRUE) /\ Init /\ Text!Init
       /\ (Len(text) > 3 => covers)

EncodeNext ==
    \/ call = "piece" /\ Next /\ UNCHANGED <<call, textVars>>
    \/ call = "text" /\ Text!Next /\ UNCHANGED <<call, vars>>

\* One thread runs the call to its end.
EncodeSpec == EncodeInit /\ [][EncodeNext]_<<call, vars, textVars>>
              /\ WF_<<call, vars, textVars>>(EncodeNext)

LosslessToFirstSpecial == Text!LosslessToFirstSpecial
SpecialsAreAllowed == Text!SpecialsAreAllowed

\* Every call ends: each merge makes the parts fewer, and a search that an allowed special
\* token does not end goes on behind the one it found.
CallEnds == IF call = "piece" THEN Terminates ELSE <>(textPc \in {"done", "thrown", "refused"})
=============================================================================
