----------------------------- MODULE WordHashes -----------------------------
(***************************************************************************)
(* How the hash functions of common/ (murmurhash2.cc, hash_utils.cc) cut   *)
(* their input into words.  A hash is what has been mixed into it, in      *)
(* order: whole words, then the tail.  The arithmetic of mixing and the    *)
(* seed are left out; a word is the sequence of its bytes, the lowest      *)
(* first, a byte is a number above 0, and 0 is a place without a byte.     *)
(***************************************************************************)
EXTENDS Integers, Sequences

Bytes(s, from, n) == SubSeq(s, from + 1, from + n)

\* MurmurHash2, MurmurHashNeutral2, MurmurHash2A, Hash (w = 4), MurmurHash2_64A (w = 8).
OneShot(s, w) ==
    [words |-> [g \in 1 .. Len(s) \div w |-> Bytes(s, w * (g - 1), w)],
     tail  |-> Bytes(s, w * (Len(s) \div w), Len(s) % w)]

\* MurmurHash2_64B: the words go to h1 and h2 in turn, in pairs, a last odd one to h1,
\* and the tail to h2 whatever was last.
Lanes(s) ==
    LET pairs == Len(s) \div 8
        odd   == Len(s) % 8 >= 4
        word(g) == Bytes(s, 4 * g, 4)
    IN  [h1 |-> [k \in 1 .. pairs + (IF odd THEN 1 ELSE 0) |-> word(2 * (k - 1))],
         h2 |-> [k \in 1 .. pairs |-> word(2 * k - 1)],
         tail |-> Bytes(s, 8 * pairs + (IF odd THEN 4 ELSE 0), Len(s) % 4)]

-----------------------------------------------------------------------------
\* Registers of four bytes: shifts by whole bytes, and the bitwise or.
Register(bytes) == [j \in 0 .. 3 |-> IF j < Len(bytes) THEN bytes[j + 1] ELSE 0]
ShiftLeft(r, k) == [j \in 0 .. 3 |-> IF j >= k THEN r[j - k] ELSE 0]
ShiftRight(r, k) == [j \in 0 .. 3 |-> IF j + k <= 3 THEN r[j + k] ELSE 0]
Or(q, r) == [j \in 0 .. 3 |-> q[j] + r[j]]

\* What is in a register, up to the highest byte that is there.
Word(r) ==
    LET n == CHOOSE n \in 0 .. 4 : (n = 0 \/ r[n - 1] # 0) /\ \A j \in n .. 3 : r[j] = 0
    IN  [j \in 1 .. n |-> r[j - 1]]

(* MurmurHashAligned2 of s at an address with align = address & 3: it reads the    *)
(* bytes up to the next word into t, and then each word d, of which the low bytes  *)
(* complete t and the high ones are the next t.                                    *)
Aligned(s, align) ==
    IF align = 0 \/ Len(s) < 4 THEN OneShot(s, 4)
    ELSE LET first == 4 - align
             n     == (Len(s) - first) \div 4          \* turns of the loop
             d(k)  == Register(Bytes(s, first + 4 * (k - 1), 4))
             t(k)  == IF k = 0 THEN ShiftLeft(Register(Bytes(s, 0, first)), align) ELSE d(k)
             with(k, r) == Word(Or(ShiftRight(t(k), align), ShiftLeft(r, 4 - align)))
             at    == first + 4 * n
             left  == Len(s) - at
             words == [k \in 1 .. n |-> with(k - 1, d(k))]
         IN  IF left >= align
             THEN [words |-> Append(words, with(n, Register(Bytes(s, at, align)))),
                   tail  |-> Bytes(s, at + align, left - align)]
             ELSE [words |-> words, tail |-> with(n, Register(Bytes(s, at, left)))]

-----------------------------------------------------------------------------
\* CMurmurHash2A: m_hash, m_tail with its m_count bytes, m_size.
Begin == [words |-> <<>>, tail |-> <<>>, size |-> 0]

\* The loop of MixTail takes bytes while fewer than four are left or the tail has begun: it ends
\* with byte k when none is left, or there are four and the tail is empty.
TailEnds(h, data, k) ==
    k = Len(data) \/ (Len(data) - k >= 4 /\ (Len(h.tail) + k) % 4 = 0)

MixTail(h, data) ==
    LET k   == CHOOSE k \in 0 .. Len(data) :
                   TailEnds(h, data, k) /\ \A j \in 0 .. k - 1 : ~TailEnds(h, data, j)
        all == OneShot(h.tail \o SubSeq(data, 1, k), 4)
    IN  [hash |-> [words |-> h.words \o all.words, tail |-> all.tail, size |-> h.size],
         data |-> SubSeq(data, k + 1, Len(data))]

AddWithoutTail(h, data) ==
    LET whole == OneShot(data, 4)
        mixed == [words |-> h.words \o whole.words, tail |-> h.tail, size |-> h.size + Len(data)]
    IN  MixTail(mixed, whole.tail).hash

\* MixTail, the whole words, MixTail.
Add(h, data) ==
    LET begun == MixTail(h, data)
        whole == OneShot(begun.data, 4)
        mixed == [words |-> begun.hash.words \o whole.words, tail |-> begun.hash.tail,
                  size |-> h.size + Len(data)]
    IN  MixTail(mixed, whole.tail).hash
=============================================================================
