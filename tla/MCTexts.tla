------------------------------ MODULE MCTexts ------------------------------
(***************************************************************************)
(* Three characters of one byte and one of two, two special tokens of two  *)
(* characters that share their first one; every text of up to four of the  *)
(* first three, the texts of up to six made of four words, and texts with  *)
(* the wide character and the halves of it, which are no UTF-8;            *)
(* allowed_special empty, one special, or it and a word that is none.      *)
(***************************************************************************)
EXTENDS Integers, SequencesExt

CONSTANTS letter, open, close, lead, cont

MCLeading == {lead}

MCContinuation == {cont}

MCChars == {letter, open, close, lead, cont}

MCSpecials == {<<open, close>>, <<open, open>>}

TextWords == MCSpecials \cup {<<letter>>, <<close>>, <<>>}

WideWords == {<<open, close>>, <<lead, cont>>, <<lead>>, <<cont>>, <<>>}

MCTexts == BoundedSeq({letter, open, close}, 4) \cup
           {t \o u \o v : t, u, v \in WideWords} \cup
           {x \in {t \o u \o v \o w : t, u, v, w \in TextWords} : Len(x) <= 6}

MCArgs == {{}, {<<open, close>>}, {<<open, close>>, <<close, open>>}}
=============================================================================
