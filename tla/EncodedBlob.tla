---------------------------- MODULE EncodedBlob ----------------------------
(***************************************************************************)
(* CppSQLite3Binary (common/CppSQLite3.cpp): bytes that are put into SQL   *)
(* as a string without a zero and without a quote, in one buffer that      *)
(* holds either form, and sqlite3_encode_binary and sqlite3_decode_binary, *)
(* which turn one into the other.                                          *)
(***************************************************************************)
EXTENDS Integers, Sequences, FiniteSets

CONSTANTS Base,     \* 256 in the code
          Quote,    \* the byte '\'', above the escape sequences 1 1, 1 2 and 1 3
          MaxInt,   \* 2^31 - 1
          Blobs,    \* what setBinary is given
          Strings   \* what setEncoded is given: no 0

\* 256, and 39 between the 3 of an escape sequence and the 120 of an "x".
ASSUME BlobAssumption ==
    /\ Base \in Nat /\ Quote \in 4 .. Base - 2 /\ MaxInt \in Nat
    /\ \A d \in Blobs : d \in Seq(0 .. Base - 1)
    /\ \A s \in Strings : s \in Seq(1 .. Base - 1)

VARIABLES buf,      \* mpBuf, or Null
          room,     \* mnBufferLen
          length,   \* mnBinaryLen
          encoded,  \* mbEncoded
          data,     \* history: the bytes that were put in, or Malformed
          quoted,   \* history: as a string with a quote in it
          failed,   \* history: getBinary has thrown since
          broken,   \* undefined behaviour, once there is some
          overrun   \* history: it was a write behind the end of the buffer

blobVars == <<buf, room, length, encoded, data, quoted, failed, broken, overrun>>

Null == <<-1>>
Malformed == <<-2>>

BlobInit ==
    /\ buf = Null /\ room = 0 /\ length = 0 /\ encoded = FALSE
    /\ data = <<>> /\ quoted = FALSE /\ failed = FALSE /\ broken = FALSE /\ overrun = FALSE

-----------------------------------------------------------------------------
Count(in, b) == Cardinality({k \in DOMAIN in : in[k] = b % Base})

EscapesOfTwo(in, e) == Count(in, e) + Count(in, e + 1)

\* How many bytes the offset turns into 0, 1 and the quote.
Escapes(in, e) == Count(in, e) + Count(in, e + 1) + Count(in, e + Quote)

\* The first of the offsets that need the fewest escapes.
Offset(in) ==
    LET offsets == (1 .. Base - 1) \ {Quote}
    IN  CHOOSE e \in offsets : \A f \in offsets :
            Escapes(in, e) < Escapes(in, f) \/ (Escapes(in, e) = Escapes(in, f) /\ e <= f)

Escape(c) == CASE c = 0 -> <<1, 1>> [] c = 1 -> <<1, 2>> [] c = Quote -> <<1, 3>> [] OTHER -> <<c>>

Escaped == <<0, 1, Quote>>

Body(in, e) ==
    LET out[k \in 0 .. Len(in)] ==
            IF k = 0 THEN <<>> ELSE out[k - 1] \o Escape((in[k] - e) % Base)
    IN  out[Len(in)]

\* sqlite3_encode_binary, with the zero at the end.
Encode(in) ==
    IF in = <<>> THEN <<Base - 1, 0>>    \* "x"
    ELSE <<Offset(in)>> \o Body(in, Offset(in)) \o <<0>>

\* A character is read: behind an escape, or not, or nothing any more.
Read(d, c, e) ==
    CASE d.mode = "plain" /\ c = 0 -> [out |-> d.out, mode |-> "end"]
      [] d.mode = "plain" /\ c = 1 -> [out |-> d.out, mode |-> "escape"]
      [] d.mode = "plain" /\ c \notin {0, 1} -> [out |-> Append(d.out, (c + e) % Base), mode |-> "plain"]
      [] d.mode = "escape" /\ c \in 1 .. 3 -> [out |-> Append(d.out, (Escaped[c] + e) % Base), mode |-> "plain"]
      [] d.mode = "escape" /\ c \notin 1 .. 3 -> [out |-> d.out, mode |-> "malformed"]
      [] d.mode \in {"end", "malformed"} -> d

Reads(s, e) ==
    LET read[k \in 0 .. Len(s)] ==
            IF k = 0 THEN [out |-> <<>>, mode |-> "plain"] ELSE Read(read[k - 1], s[k], e)
    IN  read[Len(s)]

\* sqlite3_decode_binary: what it has written, and whether the string was well formed.
Decode(s) ==
    LET all == Reads(Tail(s), Head(s))
    IN  [out |-> all.out, ok |-> all.mode = "end"]

-----------------------------------------------------------------------------
\* (Base + 1) * n is an int, and as one it wraps; the quotient is rounded towards zero.
Product(n) == (((Base + 1) * n + MaxInt + 1) % (2 * (MaxInt + 1))) - (MaxInt + 1)

Quot(a, b) == IF a >= 0 THEN a \div b ELSE -((-a) \div b)

RoomFor(n) == 3 + Quot(Product(n), Base - 2)

\* malloc gives nothing: an exception, and an object without a buffer.
NoMemory == buf' = Null /\ data' = <<>> /\ UNCHANGED <<encoded, broken, overrun>>

\* n bytes are written into a buffer of r.
Write(n, r) == overrun' = (n > r) /\ broken' = (n > r)

\* A size below zero is one that malloc never has.
SetBinary == \E d \in Blobs :
    /\ length' = Len(d) /\ room' = RoomFor(Len(d))
    /\ quoted' = FALSE /\ failed' = FALSE
    /\ \/ NoMemory
       \/ /\ RoomFor(Len(d)) >= 0
          /\ buf' = d /\ data' = d /\ encoded' = FALSE
          /\ Write(Len(d), RoomFor(Len(d)))

\* clear leaves the length of an object without a buffer.
SetEncoded == \E s \in Strings :
    /\ room' = Len(s) + 1
    /\ length' = IF buf = Null THEN length ELSE 0
    /\ quoted' = (\E k \in DOMAIN s : s[k] = Quote) /\ failed' = FALSE
    /\ \/ NoMemory
       \/ /\ buf' = Append(s, 0) /\ encoded' = TRUE
          /\ data' = IF s # <<>> /\ Decode(Append(s, 0)).ok THEN Decode(Append(s, 0)).out
                                                           ELSE Malformed
          /\ UNCHANGED <<broken, overrun>>

\* An object that was never set has no buffer to encode into; and nobody asks whether there
\* was memory for the copy of the bytes.
GetEncoded ==
    /\ ~encoded
    /\ \/ (buf = Null \/ length > 0) /\ broken' = TRUE /\ UNCHANGED <<buf, overrun>>
       \/ /\ buf # Null
          /\ buf' = Encode(SubSeq(buf, 1, length))
          /\ Write(Len(buf'), room)
    /\ encoded' = TRUE
    /\ UNCHANGED <<room, length, data, quoted, failed>>

\* The buffer is decoded in place; clear does not reset mbEncoded, and of an empty string
\* the byte behind its end is read.
GetBinary ==
    /\ encoded
    /\ IF buf = Null \/ Len(buf) = 1
       THEN broken' = TRUE /\ UNCHANGED <<buf, length, encoded, failed>>
       ELSE LET r == Decode(buf) IN
            /\ buf' = r.out \o SubSeq(buf, Len(r.out) + 1, Len(buf))
            /\ length' = IF r.ok THEN Len(r.out) ELSE -1
            /\ encoded' = ~r.ok
            /\ failed' = (failed \/ ~r.ok)
            /\ UNCHANGED broken
    /\ UNCHANGED <<room, data, quoted, overrun>>

Clear ==
    /\ buf # Null
    /\ buf' = Null /\ room' = 0 /\ length' = 0
    /\ data' = <<>> /\ quoted' = FALSE /\ failed' = FALSE
    /\ UNCHANGED <<encoded, broken, overrun>>

BlobNext == ~broken /\ (SetBinary \/ SetEncoded \/ GetEncoded \/ GetBinary \/ Clear)

BlobSpec == BlobInit /\ [][BlobNext]_blobVars

-----------------------------------------------------------------------------
\* However often the bytes go from one form into the other, they are the ones that were put
\* in, and the string they are encoded to has no zero and no quote.  The buffer is large
\* enough ("use 3 instead of 2 just to be sure", CppSQLite3.cpp:262) but for three cases: so
\* many bytes that the product of its size passes an int; the bytes of a string with a
\* quote, which decodes, when they are encoded again; and what is left after getBinary has
\* thrown: the buffer is half decoded, and another call may return anything.
BlobKeepsData ==
    /\ (~broken /\ buf # Null /\ ~failed) =>
        /\ Len(buf) <= room
        /\ ~encoded => SubSeq(buf, 1, length) = data
        /\ (encoded /\ data # Malformed) => Decode(buf) = [out |-> data, ok |-> TRUE]
        /\ (encoded /\ data # Malformed /\ buf = Encode(data)) =>
               \A k \in 1 .. Len(buf) - 1 : buf[k] \notin {0, Quote}
    /\ overrun => failed \/ quoted \/ (Base + 1) * Len(data) > MaxInt
=============================================================================
