--------------------------- MODULE SplitParagraph ---------------------------
(***************************************************************************)
(* split_paragraph of search/frontend_utils.cpp for lang == "zh", and the  *)
(* loop of text_normalize that erases what is only punctuation from its    *)
(* result.  A character is of one of four kinds; its length is one, as     *)
(* cacu_utf8_len counts it.                                                *)
(***************************************************************************)
EXTENDS Integers, Sequences, SequencesExt

CONSTANTS Texts,     \* the texts to split
          TokenMaxN, TokenMinN, MergeLen

\* text_normalize passes 80, 60 and 20.
ASSUME LimitsAssumption ==
    TokenMaxN \in Nat /\ TokenMinN \in Nat /\ MergeLen \in 0 .. TokenMinN + 1

Kinds == {"word", "comma", "stop", "quote"}  \* "stop": in the set pounc

ASSUME TextsAssumption == \A t \in Texts : t \in Seq(Kinds)

VARIABLES text,    \* the argument
          words,   \* its characters, with a stop at the end
          i, st,   \* the loop that cuts: position, start of the utterance
          utts,    \* the utterances it cuts
          cur,     \* the loop that merges: cur_utt
          final,   \* final_utts
          pc

cutting == <<i, st>>
vars == <<text, words, i, st, utts, cur, final, pc>>

Ended(t) == IF Last(t) = "stop" THEN t ELSE Append(t, "stop")

Init ==
    /\ text \in Texts
    /\ words = IF text = <<>> THEN <<>> ELSE Ended(text)
    /\ i = 1 /\ st = 1
    /\ utts = <<>> /\ cur = <<>> /\ final = <<>>
    /\ pc = IF text = <<>> THEN "done" ELSE "cut"

AddToLast(us, chars) == [us EXCEPT ![Len(us)] = @ \o chars]

QuoteFollows == i < Len(words) /\ words[i + 1] = "quote"

CutSkipsOne ==
    LET body   == SubSeq(words, st, i - 1)
        closed == IF body = <<>> THEN utts ELSE Append(utts, Append(body, words[i]))
    IN  /\ utts' = IF QuoteFollows /\ closed # <<>> THEN AddToLast(closed, <<"quote">>)
                                                   ELSE closed
        /\ st' = i + 2

\* At a stop: what lies before it is an utterance, a quote after it goes with it.
CutAtStop ==
    LET body   == SubSeq(words, st, i - 1)
        closed == IF body = <<>> THEN utts ELSE Append(utts, Append(body, words[i]))
    IN  /\ utts' = IF QuoteFollows /\ closed # <<>> THEN AddToLast(closed, <<"quote">>)
                                                   ELSE closed
        /\ st' = IF QuoteFollows THEN i + 2 ELSE i + 1

Cut ==
    /\ pc = "cut" /\ i <= Len(words)
    /\ IF words[i] = "stop" THEN CutAtStop ELSE UNCHANGED <<utts, st>>
    /\ i' = i + 1
    /\ UNCHANGED <<text, words, cur, final, pc>>

EndCut ==
    /\ pc = "cut" /\ i > Len(words)
    /\ pc' = "merge"
    /\ UNCHANGED <<text, words, cutting, utts, cur, final>>

TooLongByTwo(utt) == Len(cur \o utt) > TokenMaxN + 1 /\ Len(cur) > TokenMinN

TooLong(utt) == Len(cur \o utt) > TokenMaxN /\ Len(cur) > TokenMinN

Merge ==
    /\ pc = "merge" /\ utts # <<>>
    /\ final' = IF TooLong(Head(utts)) THEN Append(final, cur) ELSE final
    /\ cur' = IF TooLong(Head(utts)) THEN Head(utts) ELSE cur \o Head(utts)
    /\ utts' = Tail(utts)
    /\ UNCHANGED <<text, words, cutting, pc>>

ShouldMerge(utt) == Len(utt) < MergeLen

WithTail == IF ShouldMerge(cur) /\ final # <<>> THEN AddToLast(final, cur) ELSE Append(final, cur)

EndMerge ==
    /\ pc = "merge" /\ utts = <<>>
    /\ final' = IF cur = <<>> THEN final ELSE WithTail
    /\ pc' = "normalize"
    /\ UNCHANGED <<text, words, cutting, utts, cur>>

\* is_only_punctuation: ^[\p{P}\p{S}]*$ matches.
OnlyPunctuation(utt) == \A k \in 1 .. Len(utt) : utt[k] # "word"

\* The elements of s that are in S, in their order.
Only(s, S) ==
    LET only[k \in 0 .. Len(s)] ==
            IF k = 0 THEN <<>>
            ELSE IF s[k] \in S THEN Append(only[k - 1], s[k]) ELSE only[k - 1]
    IN  only[Len(s)]

EraseOnlyPunctuation ==
    /\ pc = "normalize"
    /\ final' = Only(final, {utt \in Range(final) : ~OnlyPunctuation(utt)})
    /\ pc' = "done"
    /\ UNCHANGED <<text, words, cutting, utts, cur>>

Next == Cut \/ EndCut \/ Merge \/ EndMerge \/ EraseOnlyPunctuation

Spec == Init /\ [][Next]_vars

-----------------------------------------------------------------------------
\* Nothing but stops and quotes gets lost when a text is cut and put together again,
\* nothing twice, and when the utterances of mere punctuation go, no word goes with them.
KeepsText ==
    /\ pc = "normalize" => Only(FlattenSeq(final), {"word", "comma"}) = Only(text, {"word", "comma"})
    /\ pc = "done" => Only(FlattenSeq(final), {"word"}) = Only(text, {"word"})

OneSentence(utt) ==
    \A k \in 1 .. Len(utt) : utt[k] = "stop" => \A j \in k + 1 .. Len(utt) : utt[j] = "quote"

\* An utterance longer than TokenMaxN, but for a tail shorter than MergeLen on the last
\* one, is a sentence that is itself too long for what was there before it, and that
\* was at most TokenMinN.
LongOnlyBySentence ==
    pc = "normalize" => \A u \in 1 .. Len(final) :
        \E tail \in 0 .. IF u = Len(final) /\ MergeLen > 0 THEN MergeLen - 1 ELSE 0 :
            LET utt == SubSeq(final[u], 1, Len(final[u]) - tail) IN
            \/ Len(utt) <= TokenMaxN
            \/ \E before \in 0 .. TokenMinN : OneSentence(SubSeq(utt, before + 1, Len(utt)))

\* Only the last utterance may be shorter than TokenMinN + 1, and it is not shorter than
\* MergeLen when there are others.
NotShort ==
    pc = "normalize" => \A u \in 1 .. Len(final) :
        IF u < Len(final) THEN Len(final[u]) > TokenMinN
        ELSE u > 1 => Len(final[u]) >= MergeLen

\* Both, of every text.
LengthsKept == LongOnlyBySentence /\ NotShort

\* frontend_utils.h: "per sentence max len token_max_n".
SentencesFit == pc = "done" => \A u \in 1 .. Len(final) : Len(final[u]) <= TokenMaxN
=============================================================================
