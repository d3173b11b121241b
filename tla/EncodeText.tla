----------------------------- MODULE EncodeText -----------------------------
(***************************************************************************)
(* TikTokenEncoding::encode (search/tiktoken.cpp) and the loop of          *)
(* CoreBPE::_encode_native (search/core_bpe.cpp): the text is checked for  *)
(* special tokens that the caller does not allow, then cut at the allowed  *)
(* ones; what lies between is cut by the regex into pieces, each encoded   *)
(* on its own (module BytePairMerge).  A piece stands here for its tokens. *)
(* Both regexes are compiled with PCRE2_UTF: where the text is not UTF-8   *)
(* pcre2_match fails, and the code takes that for no match.                *)
(* Offsets are the code's, from 0: some are offsets in the text and some   *)
(* in a suffix of it, and the code mixes them, as the model does.          *)
(***************************************************************************)
EXTENDS Integers, Sequences, FiniteSets, SequencesExt

CONSTANTS Chars,        \* the bytes of texts
          Leading,      \* the bytes that begin a character of two bytes
          Continuation, \* the bytes that end one
          Texts,        \* the texts that may be encoded
          Specials,     \* the keys of _special_tokens_encoder
          AllowedArgs,  \* the values of allowed_special
          All,          \* "all" among them, for every special token
          NoSpecial     \* no special token was found

\* A string that PCRE2 takes for UTF-8.
Utf8(s) ==
    /\ \A k \in 1 .. Len(s) : s[k] \in Continuation <=> k > 1 /\ s[k - 1] \in Leading
    /\ \A k \in {Len(s)} \ {0} : s[k] \notin Leading

\* Texts and special tokens are strings; no special token is empty, and the constructor
\* compiles only what is UTF-8.
SpecialsAssumption ==
    /\ Texts \subseteq Seq(Chars)
    /\ Specials # {} /\ Specials \subseteq {w \in Seq(Chars) \ {<<>>} : Utf8(w)}
    /\ NoSpecial \notin Nat \X Nat

VARIABLES text,      \* the argument
          allowed,   \* the special tokens allowed, after "all" is expanded
          checkAll,  \* is disallowed_special {"all"}, its default, or empty?
          covers,    \* does the regex match some characters at every place, as Whisper's does?
          start,     \* where the part of the text not yet encoded starts
          startFind, \* where the search for a special token starts
          special,   \* next_special: <<first, last + 1>> or NoSpecial
          offset,    \* start_offset of the regex in the part before it
          out,       \* what was encoded: pieces and special tokens
          pc

vars == <<text, allowed, checkAll, covers, start, startFind, special, offset, out, pc>>

\* std::string::substr
Substr(s, from, len) == SubSeq(s, from + 1, IF from + len < Len(s) THEN from + len ELSE Len(s))

Suffix(from) == Substr(text, from, Len(text))

\* A character begins at p, if the string does not end there.
Onset(s, p) == p < Len(s) => s[p + 1] \notin Continuation

\* pcre2_match does not fail with PCRE2_ERROR_BADOFFSET, BADUTFOFFSET or an error of UTF-8:
\* what lies before the offset is not looked at.
Readable(s, from) == from <= Len(s) /\ Utf8(SubSeq(s, from + 1, Len(s)))

OccursAt(w, s, p) == p >= 0 /\ p + Len(w) <= Len(s) /\ Substr(s, p, Len(w)) = w

\* What pcre2_match may find at or after an offset: the leftmost occurrence of one of
\* the words; which of two at one place depends on the order of an unordered_map.
Matches(words, s, from) ==
    LET at == {p \in from .. Len(s) - 1 : \E w \in words : OccursAt(w, s, p)}
        p0 == CHOOSE p \in at : \A q \in at : p <= q
    IN  IF at = {} THEN {} ELSE {<<p0, p0 + Len(w)>> : w \in {v \in words : OccursAt(v, s, p0)}}

Init ==
    /\ text \in Texts
    /\ \E arg \in AllowedArgs : allowed = IF All \in arg THEN Specials ELSE arg
    /\ checkAll \in BOOLEAN /\ covers \in BOOLEAN
    /\ start = 0 /\ startFind = 0 /\ special = NoSpecial /\ offset = 0 /\ out = <<>>
    /\ pc = "check"

\* encode with the default disallowed_special refuses the specials that are not allowed.
Disallowed == IF checkAll THEN Specials \ allowed ELSE {}

Check ==
    /\ pc = "check"
    /\ pc' = IF Disallowed # {} /\ Matches(Disallowed, text, 0) # {} THEN "refused" ELSE "search"
    /\ UNCHANGED <<text, allowed, checkAll, covers, start, startFind, special, offset, out>>

FoundAny(m) == special' = m /\ pc' = "split" /\ UNCHANGED startFind

\* An allowed token ends the search; after another one it goes on, a byte further.
Found(m) ==
    LET matched == Substr(text, m[1], m[2] - m[1])
    IN  IF matched \in allowed
        THEN special' = m /\ pc' = "split" /\ UNCHANGED startFind
        ELSE startFind' = m[1] + 1 /\ UNCHANGED <<special, pc>>

\* The subject is the suffix at startFind and the match starts startFind into it; the
\* offsets that come back are used as offsets of the text.
Search ==
    /\ pc = "search"
    /\ LET ms == IF Readable(Suffix(startFind), startFind)
                 THEN Matches(Specials, Suffix(startFind), startFind) ELSE {}
       IN  IF ms = {} THEN special' = NoSpecial /\ pc' = "split" /\ UNCHANGED startFind
           ELSE \E m \in ms : Found(m)
    /\ UNCHANGED <<text, allowed, checkAll, covers, start, offset, out>>

End == IF special = NoSpecial THEN Len(text) ELSE special[1]

\* The part before it, in which the regex matches.
Part == Substr(text, start, End - start)

CutAll(at, n) == Substr(text, at, n + 1)

\* The piece the regex cut, n bytes at a place of the part, is taken from the text.
Cut(at, n) == Substr(text, at, n)

\* The regex matches some characters further on, or none: then it goes on a byte behind.
Split ==
    /\ pc = "split" /\ start < End /\ Readable(Part, offset)
    /\ \E at \in offset .. Len(Part) : \E n \in 0 .. Len(Part) - at :
          /\ Onset(Part, at) /\ Onset(Part, at + n)
          /\ covers => at = offset /\ n > 0
          /\ out' = Append(out, [special |-> FALSE, bytes |-> Cut(at, n)])
          /\ offset' = at + (IF n = 0 THEN 1 ELSE n)
    /\ UNCHANGED <<text, allowed, checkAll, covers, start, startFind, special, pc>>

\* Nothing matches any more, or pcre2_match fails: the rest of the part is dropped.
PartDone ==
    /\ pc = "split"
    /\ offset >= Len(Part) \/ ~Readable(Part, offset) \/ ~covers
    /\ pc' = "push"
    /\ UNCHANGED <<text, allowed, checkAll, covers, start, startFind, special, offset, out>>

\* The special token goes after the pieces, or runtime_error.
Push ==
    /\ pc = "push" /\ special # NoSpecial
    /\ LET w == Substr(text, special[1], special[2] - special[1])
       IN  IF w \in Specials
           THEN /\ out' = Append(out, [special |-> TRUE, bytes |-> w])
                /\ start' = special[2] /\ startFind' = special[2]
                /\ offset' = 0 /\ special' = NoSpecial /\ pc' = "search"
           ELSE pc' = "thrown" /\ UNCHANGED <<start, startFind, special, offset, out>>
    /\ UNCHANGED <<text, allowed, checkAll, covers>>

Return ==
    /\ pc = "push" /\ special = NoSpecial
    /\ pc' = "done"
    /\ UNCHANGED <<text, allowed, checkAll, covers, start, startFind, special, offset, out>>

Ended == pc \in {"done", "thrown", "refused"} /\ UNCHANGED vars

Next == Check \/ Search \/ Split \/ PartDone \/ Push \/ Return \/ Ended

Spec == Init /\ [][Next]_vars

-----------------------------------------------------------------------------
Bytes(o) == FlattenSeq([i \in DOMAIN o |-> o[i].bytes])

SpecialsIn(o) == {i \in DOMAIN o : o[i].special}

\* With a regex that matches everywhere: up to and with the first special token, what is
\* encoded decodes to the text, whatever the regex cuts.  A text in which no allowed
\* special token is found is encoded whole if it is UTF-8; if it is not, all of it is
\* dropped and the call reports nothing, but no part of it comes out without the rest.
LosslessToFirstSpecial ==
    covers =>
        /\ SpecialsIn(out) \subseteq {Len(out)} => IsPrefix(Bytes(out), text)
        /\ pc = "done" /\ SpecialsIn(out) = {} =>
               Bytes(out) = IF Utf8(text) THEN text ELSE <<>>

\* A special token in the output is one the caller allowed, at a place where the text
\* has it, even where the search mixed its offsets up; with the default check the text has
\* no other; and the call throws only if the caller allowed what is no special token.
SpecialsAreAllowed ==
    /\ \A i \in SpecialsIn(out) : out[i].bytes \in allowed
    /\ special # NoSpecial => start <= special[1] /\ special[2] <= Len(text)
    /\ checkAll /\ pc \notin {"check", "refused"} =>
           \A w \in Specials \ allowed : \A p \in 0 .. Len(text) : ~OccursAt(w, text, p)
    /\ pc = "thrown" => ~(allowed \subseteq Specials)

\* "Find the next allowed special token, if any": in a text of UTF-8, what the search found
\* is the first allowed special token at or after start.
FindsNextSpecial ==
    pc = "split" /\ Utf8(text) =>
        LET at == {p \in start .. Len(text) : \E w \in allowed \cap Specials : OccursAt(w, text, p)}
        IN  IF special = NoSpecial THEN at = {}
            ELSE special[1] \in at /\ \A p \in at : special[1] <= p
=============================================================================
