------------------------------- MODULE Codecs -------------------------------
(***************************************************************************)
(* The codecs of common/: base64 (base64.cpp, and crypt_utils.cpp over     *)
(* openssl), the two percent codes (url_utils.cpp) and RC4                 *)
(* (crypt_utils.cpp).  Bytes and characters are numbers below 256; a       *)
(* base64 digit is its value, any other character is a number above 63.    *)
(***************************************************************************)
EXTENDS Integers, Sequences, SequencesExt

CONSTANTS Rc4Bytes,    \* 256 in the code
          Xor          \* Xor[a][b], of two bytes below that

\* The part of s before the first of these places.
Before(s, places) == IF places = {} THEN s ELSE SubSeq(s, 1, Min(places) - 1)

At(s, k) == IF k <= Len(s) THEN s[k] ELSE 0

-----------------------------------------------------------------------------
Pad == 64
NotFound == 255    \* (unsigned char) std::string::npos

Group(b) == <<b[1] \div 4, (b[1] % 4) * 16 + (b[2] \div 16), (b[2] % 16) * 4 + (b[3] \div 64), b[3] % 64>>

Ungroup(d) == <<(d[1] * 4 + ((d[2] \div 16) % 4)) % 256,
                ((d[2] % 16) * 16 + ((d[3] \div 4) % 16)) % 256,
                ((d[3] % 4) * 64 + d[4]) % 256>>

\* base64_encode: groups of three bytes, the last one filled up with zeros; of its
\* four digits only those with a bit of the text are put out, then the padding.
Base64Encode(s) ==
    LET group(g) == Group([k \in 1 .. 3 |-> At(s, 3 * g + k)])
    IN  [k \in 1 .. 4 * ((Len(s) + 2) \div 3) |->
            IF k > (4 * Len(s) + 2) \div 3 THEN Pad ELSE group((k - 1) \div 4)[((k - 1) % 4) + 1]]

Base64Digits(t) == Before(t, {k \in DOMAIN t : t[k] > 63})

\* base64_decode: up to the first other character; an incomplete group of i digits is
\* filled up with digits that are not found and yields i - 1 bytes.
Base64Decode(t) ==
    LET d == Base64Digits(t)
        octets(g) == Ungroup([j \in 1 .. 4 |-> IF 4 * g + j <= Len(d) THEN d[4 * g + j] ELSE NotFound])
        size == 3 * (Len(d) \div 4) + (IF Len(d) % 4 = 0 THEN 0 ELSE (Len(d) % 4) - 1)
    IN  [k \in 1 .. size |-> octets((k - 1) \div 3)[((k - 1) % 3) + 1]]

\* Crypt::base64_decode makes a string of the bytes up to the first zero.
CryptDecode(t) == Before(Base64Decode(t), {k \in DOMAIN Base64Decode(t) : Base64Decode(t)[k] = 0})

-----------------------------------------------------------------------------
Percent == 37
Digit == 48 .. 57
Upper == 65 .. 90
Lower == 97 .. 122

HexChar(n) == IF n < 10 THEN 48 + n ELSE 65 + n - 10

HexValue(c) ==
    IF c \in Digit THEN c - 48
    ELSE IF c \in 65 .. 70 THEN c - 65 + 10
    ELSE IF c \in 97 .. 102 THEN c - 97 + 10
    ELSE -1

\* A character, or what stands for it.
Code(c, safe) ==
    IF c \in safe THEN <<c>> ELSE <<Percent, HexChar(c \div 16), HexChar(c % 16)>>

PercentEncode(s, safe) == FlattenSeq([k \in DOMAIN s |-> Code(s[k], safe)])

UriEncode(s) == PercentEncode(s, Digit \cup Upper \cup Lower)

\* '/' and '.' stay.
UrlEncodeGbk(s) == PercentEncode(s, Digit \cup Upper \cup Lower \cup {46, 47})

\* What a decoder has put out and where it reads on, when it comes to place k, where it
\* would take a byte from a number of places.
Take(done, k, read) ==
    IF done.at > k THEN done
    ELSE [out |-> Append(done.out, read.byte), at |-> k + read.size]

Scan(reads) ==
    LET done[k \in 0 .. Len(reads)] ==
            IF k = 0 THEN [out |-> <<>>, at |-> 1] ELSE Take(done[k - 1], k, reads[k])
    IN  done[Len(reads)]

Hex(c) == HexValue(c) # -1

IsEscape(s, k) == s[k] = Percent /\ k + 2 <= Len(s) /\ Hex(s[k + 1]) /\ Hex(s[k + 2])

OfHex(s, k) == (HexValue(At(s, k + 1)) * 16 + HexValue(At(s, k + 2))) % 256

\* A '%' without two hexadecimal digits after it stays; the last two characters are
\* never the begin of an escape.
UriRead(s, k) ==
    IF IsEscape(s, k) THEN [byte |-> OfHex(s, k), size |-> 3] ELSE [byte |-> s[k], size |-> 1]

UriDecode(s) == Scan([k \in DOMAIN s |-> UriRead(s, k)]).out

\* Every '%' takes two characters with it, whatever they are: the character behind the end
\* is 0, what lies behind that is not defined.
UrlRead(s, k) ==
    IF s[k] = Percent THEN [byte |-> OfHex(s, k), size |-> 3] ELSE [byte |-> s[k], size |-> 1]

Undefined == <<-1>>

UrlDecodeGbk(s) ==
    LET all == Scan([k \in DOMAIN s |-> UrlRead(s, k)])
    IN  IF all.at > Len(s) + 2 THEN Undefined ELSE all.out

-----------------------------------------------------------------------------
Rc4Byte == 0 .. Rc4Bytes - 1

Swap(f, x, y) == [f EXCEPT ![x] = f[y], ![y] = f[x]]

\* The i-th turn of _rc4Init.
MixIn(key, i, mixed) ==
    LET y == (key[((i - 1) % Len(key)) + 1] + mixed.state[i - 1] + mixed.y) % Rc4Bytes
    IN  [state |-> Swap(mixed.state, i - 1, y), y |-> y]

\* _rc4Init, for a key that is not empty.
Rc4Init(key) ==
    LET mixed[i \in 0 .. Rc4Bytes] ==
            IF i = 0 THEN [state |-> [j \in Rc4Byte |-> j], y |-> 0] ELSE MixIn(key, i, mixed[i - 1])
    IN  [state |-> mixed[Rc4Bytes].state, x |-> 0, y |-> 0]

\* A turn of _rc4, without the text.
NextKey(key) ==
    LET x == (key.x + 1) % Rc4Bytes
        y == (key.state[x] + key.y) % Rc4Bytes
    IN  [state |-> Swap(key.state, x, y), x |-> x, y |-> y]

KeyAfter(key, n) ==
    LET after[k \in 0 .. n] == IF k = 0 THEN key ELSE NextKey(after[k - 1])
    IN  after[n]

KeyByte(key) == key.state[(key.state[key.x] + key.state[key.y]) % Rc4Bytes]

\* _rc4: the text in its place, and the state of the key afterwards.
Rc4(key, s) ==
    [key |-> KeyAfter(key, Len(s)),
     out |-> [k \in DOMAIN s |-> Xor[s[k]][KeyByte(KeyAfter(key, k))]]]

Rc4Full(key, s) == Rc4(Rc4Init(key), s).out
=============================================================================
