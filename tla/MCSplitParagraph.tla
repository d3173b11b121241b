-------------------------- MODULE MCSplitParagraph --------------------------
EXTENDS SplitParagraph

\* Bound: texts of up to MaxLen characters, of every kind and order.
MaxLen == 8
MCTexts == UNION {[1 .. n -> Kinds] : n \in 0 .. MaxLen}
=============================================================================
