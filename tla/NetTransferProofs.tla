------------------------- MODULE NetTransferProofs -------------------------
(***************************************************************************)
(* A transfer that returns 0 has delivered its own answer, and none leaves *)
(* anything open, for any functions called, answers and number of calls.   *)
(***************************************************************************)
EXTENDS NetTransfer, SequenceTheorems, TLAPS

Bytes == UNION {Range(r.body) : r \in Responses}

\* What has arrived of the body.
Received == SubSeq(resp.body, 1, got)

Types ==
    /\ kind \in Kinds /\ resp \in Responses
    /\ got \in 0 .. Len(resp.body) /\ Len(seen) \in 0 .. Len(resp.headers)
    /\ tmp \in Seq(Bytes) /\ buf \in Seq(Bytes)

\* A call starts with nothing open and nothing received, ...
NothingOpen == pc \in {"idle", "open"} => held = {}

Fresh == pc \in {"open", "init", "options", "fields"} => got = 0 /\ seen = <<>> /\ tmp = <<>>

\* ... takes the header lines in their order, ...
LinesSoFar == seen = SubSeq(resp.headers, 1, Len(seen))

\* ... and keeps what it receives in one place, which its kind tells.
BodySoFar == pc \in {"init", "options", "fields", "perform", "finish"} =>
    /\ ToFile => file = Received
    /\ ~(ToFile \/ ToBuffer) => tmp = Received
    /\ ToBuffer => IsSuffix(Received, buf)

\* The caller's header map is not touched before the end.
MapWaits == pc # "idle" => headers = older

\* libcurl says CURLE_OK of a whole answer only.
OKIsWhole == pc = "finish" /\ ret = 0 =>
    got = Len(resp.body) /\ (ToFile \/ Len(seen) = Len(resp.headers))

\* The inductive invariant.
IInv == /\ Types /\ NothingOpen /\ Fresh /\ LinesSoFar /\ BodySoFar /\ MapWaits /\ OKIsWhole
        /\ FileOfOneResponse /\ BodyArrives /\ ReportsOwnResponse
-----------------------------------------------------------------------------
(* The beginnings of a sequence.                                           *)
LEMMA Beginning == ASSUME NEW S, NEW s \in Seq(S), NEW n \in 0 .. Len(s) PROVE
    /\ SubSeq(s, 1, n) \in Seq(S) /\ Len(SubSeq(s, 1, n)) = n
    /\ \A k \in 1 .. n : SubSeq(s, 1, n)[k] = s[k]
    /\ IsPrefix(SubSeq(s, 1, n), s)
  <1>1. \A k \in 1 .. n : s[k] \in S
    BY LenProperties, ElementOfSeq
  <1>2. /\ SubSeq(s, 1, n) \in Seq(S) /\ Len(SubSeq(s, 1, n)) = n
        /\ \A k \in 1 .. n : SubSeq(s, 1, n)[k] = s[k]
    BY <1>1, SubSeqProperties, LenProperties
  <1>3. SubSeq(SubSeq(s, 1, n), 1, n) = SubSeq(s, 1, n)
    BY <1>2, SubSeqFull
  <1>4. QED
    BY <1>2, <1>3, LenProperties DEF IsPrefix

LEMMA BeginningGrows == ASSUME NEW S, NEW s \in Seq(S), NEW n \in Nat, n < Len(s)
    PROVE Append(SubSeq(s, 1, n), s[n + 1]) = SubSeq(s, 1, n + 1)
  <1>1. n + 1 \in 1 .. Len(s) /\ n \in 0 .. Len(s) /\ 1 \in 1 .. Len(s)
    BY LenProperties
  <1>2. s[n + 1] \in S
    BY <1>1, ElementOfSeq
  <1>3. SubSeq(s, 1, n + 1) = SubSeq(s, 1, (n + 1) - 1) \o <<s[n + 1]>>
    BY <1>1, SubSeqRecursiveSecond
  <1>4. Append(SubSeq(s, 1, n), s[n + 1]) = SubSeq(s, 1, n) \o <<s[n + 1]>>
    BY <1>1, <1>2, Beginning, AppendIsConcat
  <1>5. QED
    BY <1>3, <1>4

LEMMA BeginningOfBeginning == ASSUME NEW S, NEW s \in Seq(S),
    NEW n \in 0 .. Len(s), NEW m \in 0 .. n
    PROVE SubSeq(SubSeq(s, 1, n), 1, m) = SubSeq(s, 1, m)
  <1> DEFINE t == SubSeq(s, 1, n)
  <1>1. m \in 0 .. Len(s) /\ m \in 0 .. Len(t) /\ t \in Seq(S)
    BY Beginning, LenProperties
  <1>2. /\ SubSeq(t, 1, m) \in Seq(S) /\ Len(SubSeq(t, 1, m)) = m
        /\ \A k \in 1 .. m : SubSeq(t, 1, m)[k] = t[k]
    BY <1>1, Beginning
  <1>3. /\ SubSeq(s, 1, m) \in Seq(S) /\ Len(SubSeq(s, 1, m)) = m
        /\ \A k \in 1 .. m : SubSeq(s, 1, m)[k] = s[k]
    BY <1>1, Beginning
  <1>4. \A k \in 1 .. m : t[k] = s[k]
    BY Beginning
  <1>5. QED
    BY <1>2, <1>3, <1>4, SeqEqual

(* What a sequence ends with, element by element.                          *)
LEMMA EndsWith == ASSUME NEW S, NEW s \in Seq(S), NEW b \in Seq(S) PROVE
    IsSuffix(s, b) <=> /\ Len(s) <= Len(b)
                       /\ \A k \in 1 .. Len(s) : s[Len(s) - k + 1] = b[Len(b) - k + 1]
  <1>1. Len(s) \in Nat /\ Len(b) \in Nat
    BY LenProperties
  <1>2. \A q \in Seq(S) : Reverse(q) \in Seq(S) /\ Len(Reverse(q)) = Len(q)
            /\ \A k \in 1 .. Len(q) : Reverse(q)[k] = q[Len(q) - k + 1]
    <2> TAKE q \in Seq(S)
    <2>1. Len(q) \in Nat
      BY LenProperties
    <2>2. \A k \in 1 .. Len(q) : q[(Len(q) - k) + 1] \in S
      BY <2>1, ElementOfSeq
    <2>3. Reverse(q) \in Seq(S)
      BY <2>1, <2>2, IsASeq DEF Reverse
    <2>4. QED
      BY <2>1, <2>3, LenProperties DEF Reverse
  <1>3. CASE Len(s) <= Len(b)
    <2>1. Len(s) \in 0 .. Len(Reverse(s)) /\ Len(s) \in 0 .. Len(Reverse(b))
      BY <1>1, <1>2, <1>3
    <2>2. /\ Len(SubSeq(Reverse(s), 1, Len(s))) = Len(s)
          /\ SubSeq(Reverse(s), 1, Len(s)) \in Seq(S)
          /\ \A k \in 1 .. Len(s) : SubSeq(Reverse(s), 1, Len(s))[k] = Reverse(s)[k]
      BY <1>2, <2>1, Beginning
    <2>3. /\ Len(SubSeq(Reverse(b), 1, Len(s))) = Len(s)
          /\ SubSeq(Reverse(b), 1, Len(s)) \in Seq(S)
          /\ \A k \in 1 .. Len(s) : SubSeq(Reverse(b), 1, Len(s))[k] = Reverse(b)[k]
      BY <1>2, <2>1, Beginning
    <2>4. SubSeq(Reverse(s), 1, Len(s)) = SubSeq(Reverse(b), 1, Len(s)) <=>
              \A k \in 1 .. Len(s) : Reverse(s)[k] = Reverse(b)[k]
      BY <2>2, <2>3, SeqEqual
    <2>5. \A k \in 1 .. Len(s) : Reverse(s)[k] = s[Len(s) - k + 1]
                                 /\ Reverse(b)[k] = b[Len(b) - k + 1]
      BY <1>1, <1>2, <1>3
    <2>6. QED
      BY <1>2, <1>3, <2>4, <2>5 DEF IsSuffix, IsPrefix
  <1>4. CASE ~(Len(s) <= Len(b))
    BY <1>2, <1>4 DEF IsSuffix, IsPrefix
  <1>5. QED
    BY <1>3, <1>4

LEMMA EndGrows == ASSUME NEW S, NEW s \in Seq(S), NEW b \in Seq(S), NEW e \in S, IsSuffix(s, b)
    PROVE IsSuffix(Append(s, e), Append(b, e))
  <1> DEFINE t == Append(s, e)
             c == Append(b, e)
  <1>1. Len(s) \in Nat /\ Len(b) \in Nat
    BY LenProperties
  <1>2. /\ t \in Seq(S) /\ Len(t) = Len(s) + 1 /\ t[Len(s) + 1] = e
        /\ \A k \in 1 .. Len(s) : t[k] = s[k]
    BY AppendProperties
  <1>3. /\ c \in Seq(S) /\ Len(c) = Len(b) + 1 /\ c[Len(b) + 1] = e
        /\ \A k \in 1 .. Len(b) : c[k] = b[k]
    BY AppendProperties
  <1>4. Len(s) <= Len(b) /\ \A k \in 1 .. Len(s) : s[Len(s) - k + 1] = b[Len(b) - k + 1]
    BY EndsWith
  <1>5. ASSUME NEW k \in 1 .. Len(t) PROVE t[Len(t) - k + 1] = c[Len(c) - k + 1]
    <2>1. CASE k = 1
      BY <1>1, <1>2, <1>3, <2>1
    <2>2. CASE k # 1
      <3> DEFINE j == k - 1
      <3>1. j \in 1 .. Len(s) /\ Len(s) - j + 1 \in 1 .. Len(s) /\ Len(b) - j + 1 \in 1 .. Len(b)
        BY <1>1, <1>2, <1>4, <2>2
      <3>2. Len(t) - k + 1 = Len(s) - j + 1 /\ Len(c) - k + 1 = Len(b) - j + 1
        BY <1>1, <1>2, <1>3
      <3>3. t[Len(s) - j + 1] = s[Len(s) - j + 1] /\ c[Len(b) - j + 1] = b[Len(b) - j + 1]
        BY <1>2, <1>3, <3>1
      <3>4. s[Len(s) - j + 1] = b[Len(b) - j + 1]
        BY <1>4, <3>1
      <3>5. QED
        BY <3>2, <3>3, <3>4
    <2>3. QED
      BY <2>1, <2>2
  <1>6. Len(t) <= Len(c)
    BY <1>1, <1>2, <1>3, <1>4
  <1>7. QED
    BY <1>2, <1>3, <1>5, <1>6, EndsWith

LEMMA NothingEnds == ASSUME NEW S, NEW s \in Seq(S), Len(s) = 0, NEW b \in Seq(S)
    PROVE IsSuffix(s, b)
  <1>1. Len(s) <= Len(b)
    BY LenProperties
  <1>2. \A k \in 1 .. Len(s) : s[Len(s) - k + 1] = b[Len(b) - k + 1]
    OBVIOUS
  <1>3. QED
    BY <1>1, <1>2, EndsWith

-----------------------------------------------------------------------------
(* Header lines and body of an answer are sequences.                       *)
LEMMA AnswerTypes == ASSUME NEW r \in Responses PROVE
    /\ r.body \in Seq(Bytes) /\ Len(r.body) \in Nat
    /\ r.headers \in Seq(Range(r.headers)) /\ Len(r.headers) \in Nat
  <1>1. r.body \in Seq(Range(r.body)) /\ r.headers \in Seq(Range(r.headers))
    BY ResponsesAssumption
  <1>2. Range(r.body) \subseteq Bytes
    BY DEF Bytes
  <1>3. r.body \in Seq(Bytes)
    BY <1>1, <1>2, SeqMonotonic
  <1>4. QED
    BY <1>1, <1>3, LenProperties

(* What has arrived, when nothing or everything has.                       *)
LEMMA ReceivedTypes == ASSUME Types PROVE
    /\ Received \in Seq(Bytes) /\ IsPrefix(Received, resp.body) /\ Len(Received) = got
    /\ got = 0 => Received = <<>>
    /\ got = Len(resp.body) => Received = resp.body
  <1>1. resp.body \in Seq(Bytes) /\ got \in 0 .. Len(resp.body)
    BY AnswerTypes DEF Types
  <1>2. Received \in Seq(Bytes) /\ IsPrefix(Received, resp.body) /\ Len(Received) = got
    BY <1>1, Beginning DEF Received
  <1>3. got = 0 => Received = <<>>
    BY <1>2, EmptySeq
  <1>4. got = Len(resp.body) => Received = resp.body
    BY <1>1, SubSeqFull DEF Received
  <1>5. QED
    BY <1>2, <1>3, <1>4

LEMMA NothingBegins == Responses # {} => \E r \in Responses : IsPrefix(<<>>, r.body)
  <1> SUFFICES ASSUME NEW r \in Responses PROVE IsPrefix(<<>>, r.body)
    OBVIOUS
  <1>1. r.body \in Seq(Bytes) /\ 0 \in 0 .. Len(r.body)
    BY AnswerTypes
  <1>2. SubSeq(r.body, 1, 0) \in Seq(Bytes) /\ Len(SubSeq(r.body, 1, 0)) = 0
        /\ IsPrefix(SubSeq(r.body, 1, 0), r.body)
    BY <1>1, Beginning
  <1>3. SubSeq(r.body, 1, 0) = <<>>
    BY <1>2, EmptySeq
  <1>4. QED
    BY <1>2, <1>3

(* Nothing has been called.                                                *)
LEMMA InitIInv == Init => IInv
  <1> SUFFICES ASSUME Init PROVE IInv
    OBVIOUS
  <1> USE DEF Init
  <1>1. Len(resp.body) \in Nat /\ Len(resp.headers) \in Nat /\ Len(seen) = 0
    BY AnswerTypes, EmptySeq
  <1>2. Types
    BY <1>1, EmptySeq DEF Types
  <1>3. seen = SubSeq(resp.headers, 1, Len(seen))
    BY <1>1, SubSeqEmpty
  <1>4. NothingOpen /\ Fresh /\ LinesSoFar /\ BodySoFar /\ MapWaits /\ OKIsWhole
    BY <1>3 DEF NothingOpen, Fresh, LinesSoFar, BodySoFar, MapWaits, OKIsWhole
  <1>5. FileOfOneResponse /\ BodyArrives /\ ReportsOwnResponse
    BY DEF FileOfOneResponse, BodyArrives, ReportsOwnResponse, Succeeded
  <1>6. QED
    BY <1>2, <1>4, <1>5 DEF IInv

(* A step that does not come back with 0 promises nothing about the answer. *)
LEMMA NotReturned == ASSUME pc' # "idle" \/ ret' # 0 PROVE BodyArrives' /\ ReportsOwnResponse'
  BY DEF BodyArrives, ReportsOwnResponse, Succeeded

(* A step that receives nothing and leaves the buffers and the file.       *)
LEMMA NothingReceived == ASSUME IInv, UNCHANGED <<kind, resp, transfer, callers>>
    PROVE Types' /\ LinesSoFar' /\ FileOfOneResponse'
  BY DEF IInv, Types, LinesSoFar, FileOfOneResponse, transfer, callers

LEMMA CallStep == ASSUME IInv, Call PROVE IInv'
  <1>1. /\ kind' \in Kinds /\ resp' \in Responses /\ got' = 0 /\ seen' = <<>> /\ tmp' = <<>>
        /\ buf' = buf /\ file' = file /\ held' = held /\ pc = "idle"
        /\ headers' = headers /\ older' = headers
    BY DEF Call, TmpFresh, callers
  <1>2. \/ pc' = "idle" /\ ret' = -1
        \/ pc' = "open" /\ ToFile'
        \/ pc' = "init" /\ ~ToFile'
    BY DEF Call, Return
  <1>3. Len(seen') = 0 /\ Len(resp'.body) \in Nat /\ Len(resp'.headers) \in Nat
    BY <1>1, AnswerTypes, EmptySeq
  <1>4. Types'
    BY <1>1, <1>3, EmptySeq DEF IInv, Types
  <1>5. NothingOpen' /\ Fresh'
    BY <1>1 DEF IInv, NothingOpen, Fresh
  <1>6. LinesSoFar'
    BY <1>1, <1>3, SubSeqEmpty DEF LinesSoFar
  <1>7. Received' = <<>>
    BY <1>1, SubSeqEmpty DEF Received
  <1>8. IsSuffix(<<>>, buf)
    BY EmptySeq, NothingEnds DEF IInv, Types
  <1>9. BodySoFar' /\ MapWaits'
    BY <1>1, <1>2, <1>7, <1>8 DEF BodySoFar, MapWaits
  <1>10. OKIsWhole' /\ FileOfOneResponse'
    BY <1>1, <1>2 DEF IInv, OKIsWhole, FileOfOneResponse
  <1>11. BodyArrives' /\ ReportsOwnResponse'
    BY <1>2, NotReturned
  <1>12. QED
    BY <1>4, <1>5, <1>6, <1>9, <1>10, <1>11 DEF IInv

LEMMA OpenStep == ASSUME IInv, Open PROVE IInv'
  <1>1. /\ pc = "open" /\ kind' = kind /\ resp' = resp /\ got' = got /\ seen' = seen /\ tmp' = tmp
        /\ buf' = buf /\ headers' = headers /\ older' = older
    BY DEF Open, transfer
  <1>2. \/ pc' = "idle" /\ ret' = -3 /\ held' = held /\ file' = file
        \/ pc' = "init" /\ file' = <<>>
    BY DEF Open, Return
  <1>3. Types' /\ LinesSoFar' /\ Fresh'
    BY <1>1, <1>2 DEF IInv, Types, LinesSoFar, Fresh
  <1>4. NothingOpen' /\ OKIsWhole'
    BY <1>1, <1>2 DEF IInv, NothingOpen, OKIsWhole
  <1>5. got = 0 /\ tmp = <<>> /\ Received' = <<>>
    <2>1. got = 0 /\ tmp = <<>>
      BY <1>1 DEF IInv, Fresh
    <2>2. QED
      BY <1>1, <2>1, SubSeqEmpty DEF Received
  <1>6. IsSuffix(<<>>, buf)
    BY EmptySeq, NothingEnds DEF IInv, Types
  <1>7. BodySoFar' /\ MapWaits'
    BY <1>1, <1>2, <1>5, <1>6 DEF BodySoFar, IInv, MapWaits
  <1>8. FileOfOneResponse'
    BY <1>2, NothingBegins DEF IInv, Types, FileOfOneResponse
  <1>9. BodyArrives' /\ ReportsOwnResponse'
    BY <1>2, NotReturned
  <1>10. QED
    BY <1>3, <1>4, <1>7, <1>8, <1>9 DEF IInv

(* The steps before curl_easy_perform.                                     *)
LEMMA OptionsStep == ASSUME IInv, InitHandle \/ SetOptions \/ SetFields PROVE IInv'
  <1>1. /\ pc \in {"init", "options", "fields"}
        /\ UNCHANGED <<kind, resp, older, transfer, callers>>
    BY DEF InitHandle, SetOptions, SetFields
  <1>2. \/ pc' = "idle" /\ ret' \in {-1, -2, -3} /\ held' = {}
        \/ pc' \in {"options", "fields", "perform"}
    BY DEF InitHandle, SetOptions, SetFields, Return
  <1>3. Types' /\ LinesSoFar' /\ FileOfOneResponse'
    BY <1>1, NothingReceived
  <1>4. NothingOpen' /\ OKIsWhole'
    BY <1>2 DEF NothingOpen, OKIsWhole
  <1>5. Fresh'
    BY <1>1 DEF IInv, Fresh, transfer
  <1>6. BodySoFar' /\ MapWaits'
    BY <1>1, <1>2 DEF IInv, BodySoFar, MapWaits, Received, ToFile, ToBuffer, transfer, callers
  <1>7. BodyArrives' /\ ReportsOwnResponse'
    BY <1>2, NotReturned
  <1>8. QED
    BY <1>3, <1>4, <1>5, <1>6, <1>7 DEF IInv

LEMMA ReceiveHeaderStep == ASSUME IInv, ReceiveHeader PROVE IInv'
  <1>1. /\ pc = "perform" /\ pc' = "perform" /\ kind' = kind /\ resp' = resp /\ got' = got
        /\ tmp' = tmp /\ buf' = buf /\ file' = file /\ headers' = headers /\ older' = older
        /\ Len(seen) < Len(resp.headers)
        /\ seen' = Append(seen, resp.headers[Len(seen) + 1])
    BY DEF ReceiveHeader, callers
  <1>2. /\ resp.headers \in Seq(Range(resp.headers)) /\ Len(seen) \in 0 .. Len(resp.headers)
        /\ Len(resp.headers) \in Nat
        /\ seen = SubSeq(resp.headers, 1, Len(seen))
    BY AnswerTypes DEF IInv, Types, LinesSoFar
  <1>3. seen' = SubSeq(resp.headers, 1, Len(seen) + 1)
    BY <1>1, <1>2, BeginningGrows
  <1>4. Len(seen) + 1 \in 0 .. Len(resp.headers)
    BY <1>1, <1>2
  <1>5. Len(seen') = Len(seen) + 1
    BY <1>2, <1>3, <1>4, Beginning
  <1>6. Types' /\ LinesSoFar'
    BY <1>1, <1>3, <1>4, <1>5 DEF IInv, Types, LinesSoFar
  <1>7. NothingOpen' /\ Fresh' /\ OKIsWhole'
    BY <1>1 DEF NothingOpen, Fresh, OKIsWhole
  <1>8. BodySoFar' /\ MapWaits' /\ FileOfOneResponse'
    BY <1>1 DEF IInv, BodySoFar, MapWaits, Received, ToFile, ToBuffer, FileOfOneResponse
  <1>9. BodyArrives' /\ ReportsOwnResponse'
    BY <1>1, NotReturned
  <1>10. QED
    BY <1>6, <1>7, <1>8, <1>9 DEF IInv

LEMMA ReceiveStep == ASSUME IInv, Receive PROVE IInv'
  <1> DEFINE chunk == resp.body[got + 1]
  <1>1. /\ pc = "perform" /\ pc' = "perform" /\ kind' = kind /\ resp' = resp /\ seen' = seen
        /\ got < Len(resp.body) /\ got' = got + 1
        /\ tmp' = IF ToFile \/ ToBuffer THEN tmp ELSE Append(tmp, chunk)
        /\ buf' = IF ToBuffer THEN Append(buf, chunk) ELSE buf
        /\ file' = IF ToFile THEN Append(file, chunk) ELSE file
        /\ headers' = headers /\ older' = older
    BY DEF Receive
  <1>2. /\ resp.body \in Seq(Bytes) /\ Len(resp.body) \in Nat /\ got \in Nat
        /\ tmp \in Seq(Bytes) /\ buf \in Seq(Bytes) /\ got + 1 \in 1 .. Len(resp.body)
    BY <1>1, AnswerTypes DEF IInv, Types
  <1>3. chunk \in Bytes
    BY <1>2, ElementOfSeq
  <1>4. tmp' \in Seq(Bytes) /\ buf' \in Seq(Bytes)
    BY <1>1, <1>2, <1>3, AppendProperties
  <1>5. Types'
    BY <1>1, <1>2, <1>4 DEF IInv, Types
  <1>6. Received' = Append(Received, chunk)
    BY <1>1, <1>2, BeginningGrows DEF Received
  <1>7. (ToFile' <=> ToFile) /\ (ToBuffer' <=> ToBuffer)
    BY <1>1 DEF ToFile, ToBuffer
  <1>8. Received \in Seq(Bytes)
    BY ReceivedTypes DEF IInv
  <1>9. BodySoFar'
    <2>1. ToFile => file' = Received'
      BY <1>1, <1>6 DEF IInv, BodySoFar
    <2>2. ~(ToFile \/ ToBuffer) => tmp' = Received'
      BY <1>1, <1>6 DEF IInv, BodySoFar
    <2>3. ASSUME ToBuffer PROVE IsSuffix(Received', buf')
      <3>1. IsSuffix(Received, buf)
        BY <1>1, <2>3 DEF IInv, BodySoFar
      <3>2. IsSuffix(Append(Received, chunk), Append(buf, chunk))
        BY <1>2, <1>3, <1>8, <3>1, EndGrows
      <3>3. QED
        BY <1>1, <1>6, <2>3, <3>2
    <2>4. QED
      BY <1>1, <1>7, <2>1, <2>2, <2>3 DEF BodySoFar
  <1>10. FileOfOneResponse'
    <2>1. CASE ToFile
      <3>1. SubSeq(resp.body, 1, got + 1) = file' /\ got + 1 \in 0 .. Len(resp.body)
        BY <1>1, <1>2, <1>6, <2>1 DEF IInv, BodySoFar, Received
      <3>2. IsPrefix(file', resp.body)
        BY <1>2, <3>1, Beginning
      <3>3. QED
        BY <3>2 DEF IInv, Types, FileOfOneResponse
    <2>2. CASE ~ToFile
      BY <1>1, <2>2 DEF IInv, FileOfOneResponse
    <2>3. QED
      BY <2>1, <2>2
  <1>11. NothingOpen' /\ Fresh' /\ LinesSoFar' /\ MapWaits' /\ OKIsWhole'
    BY <1>1 DEF IInv, NothingOpen, Fresh, LinesSoFar, MapWaits, OKIsWhole
  <1>12. BodyArrives' /\ ReportsOwnResponse'
    BY <1>1, NotReturned
  <1>13. QED
    BY <1>5, <1>9, <1>10, <1>11, <1>12 DEF IInv

LEMMA PerformedStep == ASSUME IInv, Performed PROVE IInv'
  <1>1. pc = "perform" /\ pc' = "finish" /\ UNCHANGED <<kind, resp, older, transfer, callers>>
    BY DEF Performed
  <1>2. \/ ret' = 1
        \/ got = Len(resp.body) /\ (ToFile \/ Len(seen) = Len(resp.headers))
    BY DEF Performed
  <1>3. Types' /\ LinesSoFar' /\ FileOfOneResponse'
    BY <1>1, NothingReceived
  <1>4. NothingOpen' /\ Fresh'
    BY <1>1 DEF NothingOpen, Fresh
  <1>5. OKIsWhole'
    BY <1>1, <1>2 DEF OKIsWhole, ToFile, transfer
  <1>6. BodySoFar' /\ MapWaits'
    BY <1>1 DEF IInv, BodySoFar, MapWaits, Received, ToFile, ToBuffer, transfer, callers
  <1>7. BodyArrives' /\ ReportsOwnResponse'
    BY <1>1, NotReturned
  <1>8. QED
    BY <1>3, <1>4, <1>5, <1>6, <1>7 DEF IInv

(* What fclose leaves of a file is still the beginning of its answer.      *)
LEMMA ClosedFile == ASSUME IInv, pc = "finish", ToFile, CloseFile PROVE FileOfOneResponse'
  <1>1. resp.body \in Seq(Bytes) /\ got \in 0 .. Len(resp.body) /\ resp \in Responses
        /\ Len(resp.body) \in Nat
    BY AnswerTypes DEF IInv, Types
  <1>2. file = SubSeq(resp.body, 1, got)
    BY DEF IInv, BodySoFar, Received
  <1>3. CASE file' = file
    BY <1>3 DEF IInv, FileOfOneResponse
  <1>4. CASE file' # file
    <2>1. PICK n \in 0 .. Len(file) - 1 : file' = SubSeq(file, 1, n)
      BY <1>4 DEF CloseFile
    <2>2. Len(file) = got
      BY <1>1, <1>2, Beginning
    <2>3. n \in 0 .. got /\ n \in 0 .. Len(resp.body)
      BY <1>1, <2>2
    <2>4. file' = SubSeq(resp.body, 1, n)
      BY <1>1, <1>2, <2>1, <2>3, BeginningOfBeginning
    <2>5. IsPrefix(file', resp.body)
      BY <1>1, <2>3, <2>4, Beginning
    <2>6. QED
      BY <1>1, <2>5 DEF FileOfOneResponse
  <1>5. QED
    BY <1>3, <1>4

LEMMA FinishStep == ASSUME IInv, Finish PROVE IInv'
  <1>1. /\ pc = "finish" /\ pc' = "idle" /\ ret' = ret /\ held' = {} /\ kind' = kind
        /\ resp' = resp /\ got' = got /\ seen' = seen /\ tmp' = tmp /\ older' = older
        /\ buf' = IF kind = "post" THEN tmp ELSE buf
        /\ events' = IF kind = "stream" THEN Lines(tmp) ELSE events
    BY DEF Finish, Return, transfer
  <1>2. Types' /\ LinesSoFar'
    BY <1>1 DEF IInv, Types, LinesSoFar
  <1>3. NothingOpen' /\ Fresh' /\ OKIsWhole' /\ BodySoFar' /\ MapWaits'
    BY <1>1 DEF NothingOpen, Fresh, OKIsWhole, BodySoFar, MapWaits
  <1>4. FileOfOneResponse'
    <2>1. CASE ToFile
      BY <1>1, <2>1, ClosedFile DEF Finish
    <2>2. CASE ~ToFile
      BY <2>2 DEF Finish, IInv, FileOfOneResponse
    <2>3. QED
      BY <2>1, <2>2
  <1>5. BodyArrives'
    <2> SUFFICES ASSUME ret = 0 PROVE BodyArrives'
      BY <1>1, NotReturned
    <2>1. Received = resp.body
      BY <1>1, ReceivedTypes DEF IInv, OKIsWhole
    <2>2. ToBuffer => IsSuffix(resp.body, buf')
      BY <1>1, <2>1 DEF IInv, BodySoFar, ToBuffer
    <2>3. kind = "post" => buf' = resp.body
      BY <1>1, <2>1 DEF IInv, BodySoFar, ToFile, ToBuffer
    <2>4. kind = "stream" => events' = Lines(resp.body)
      BY <1>1, <2>1 DEF IInv, BodySoFar, ToFile, ToBuffer
    <2>5. ToFile => file' = resp.body \/ lost'
      BY <1>1, <2>1 DEF Finish, CloseFile, IInv, BodySoFar
    <2>6. kind \in {"post", "stream", "unread"} \/ ToBuffer \/ ToFile
      BY KindsAssumption DEF IInv, Types, ToFile, ToBuffer
    <2>7. (ToBuffer' <=> ToBuffer) /\ (ToFile' <=> ToFile) /\ Lines(resp.body)' = Lines(resp.body)
      BY <1>1 DEF ToBuffer, ToFile
    <2>8. QED
      BY <1>1, <2>2, <2>3, <2>4, <2>5, <2>6, <2>7 DEF BodyArrives, Succeeded, ToBuffer, ToFile
  <1>6. ReportsOwnResponse'
    <2> SUFFICES ASSUME ret = 0, ~ToFile PROVE ReportsOwnResponse'
      BY <1>1 DEF ReportsOwnResponse, Succeeded, ToFile
    <2>1. code' = resp.code /\ headers' = Merged /\ headers = older
      BY DEF Finish, IInv, MapWaits
    <2>2. resp.headers \in Seq(Range(resp.headers)) /\ Len(seen) = Len(resp.headers)
      BY <1>1, AnswerTypes DEF IInv, Types, OKIsWhole
    <2>3. seen = resp.headers
      BY <2>2, SubSeqFull DEF IInv, LinesSoFar
    <2>4. /\ DOMAIN headers' = DOMAIN older \cup Names(resp.headers)
          /\ \A name \in DOMAIN headers' :
                headers'[name] = IF name \in Names(resp.headers) THEN LastOf(resp.headers, name)
                                                                 ELSE older[name]
      BY <2>1, <2>3 DEF Merged
    <2>5. QED
      BY <1>1, <2>1, <2>4 DEF ReportsOwnResponse
  <1>7. QED
    BY <1>2, <1>3, <1>4, <1>5, <1>6 DEF IInv

LEMMA NextStep == ASSUME IInv, [Next]_vars PROVE IInv'
  <1>1. CASE UNCHANGED vars
    BY <1>1 DEF vars, transfer, callers, IInv, Types, NothingOpen, Fresh, LinesSoFar, BodySoFar,
        MapWaits, Received, OKIsWhole, ToFile, ToBuffer, FileOfOneResponse, BodyArrives, ReportsOwnResponse, Succeeded
  <1>2. QED
    BY <1>1, CallStep, OpenStep, OptionsStep, ReceiveHeaderStep, ReceiveStep, PerformedStep,
        FinishStep DEF Next, Finished

(* Header lines come in their order, a body in the one place that its call *)
(* keeps it, and only a whole answer counts as success.                    *)
THEOREM IInvHolds == Spec => []IInv
  BY InitIInv, NextStep, PTL DEF Spec

(* However a call ends, at whichever of its steps, it leaves nothing open. *)
THEOREM ReleasedHolds == Spec => []Released
  <1>1. IInv => Released
    BY DEF IInv, NothingOpen, Released
  <1>2. QED
    BY <1>1, IInvHolds, PTL

(* A call that returns 0 has delivered the whole body of its own answer,   *)
(* whatever earlier failed calls have left behind; that of a stream goes   *)
(* nowhere when the caller passes no vector, and is lines when he does.    *)
THEOREM BodyArrivesHolds == Spec => []BodyArrives
  BY IInvHolds, PTL DEF IInv

(* A successful call reports its own code and the last value of each header*)
(* of its answer, and leaves every other entry of the map as it was.       *)
THEOREM ReportsOwnResponseHolds == Spec => []ReportsOwnResponse
  BY IInvHolds, PTL DEF IInv

(* A file is the old one or the beginning of one answer, even when fclose  *)
(* loses what stdio still held.                                            *)
THEOREM FileOfOneResponseHolds == Spec => []FileOfOneResponse
  BY IInvHolds, PTL DEF IInv
=============================================================================
