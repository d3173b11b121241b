---------------------------- MODULE WrittenCalls ----------------------------
(***************************************************************************)
(* A call of a function of common/ that writes something as text, or bytes *)
(* as others, or reads it again: the codecs and the times.                 *)
(***************************************************************************)
EXTENDS Codecs, Calendar, OneCall

CONSTANTS ByteTexts, UrlTexts, Rc4Keys, Rc4Texts,
          Zones, Instants, Fields    \* fields of a time in text form

ASSUME CodecsAssumption ==
    /\ Rc4Bytes \in Nat \ {0}
    /\ \A a, b \in Rc4Byte : Xor[a][b] \in Rc4Byte /\ Xor[Xor[a][b]][b] = a
    /\ \A s \in ByteTexts \cup UrlTexts : s \in Seq(0 .. 255)
    /\ \A s \in Rc4Keys \cup Rc4Texts : s \in Seq(Rc4Byte)
    /\ <<>> \notin Rc4Keys

IsZone(z) == z.offset \in Int /\ z.from \in Int /\ z.until \in Int

\* 1970 to 2099, in local time, which no uint32_t is too small for.  What is read must leave
\* room for a day too many.
ASSUME TimesAssumption ==
    /\ \A z \in Zones : IsZone(z)
    /\ \A t \in Instants : /\ t \in Int /\ t < Wrap
                           /\ \A z \in Zones : Local(t, z) \div Day \in 0 .. YearStart(2100) - 1
    /\ \A f \in Fields : /\ f \in [1 .. 6 -> Int] /\ f[1] \in 1970 .. 2098
                         /\ InRange(f) => \A z \in Zones : MkTime(f, z) < Wrap

Base64 == \E s \in ByteTexts : Called("base64", s, Base64Encode(s))
EncodeUri == \E s \in UrlTexts : Called("uri encode", s, UriEncode(s))
EncodeUrl == \E s \in UrlTexts : Called("url encode", s, UrlEncodeGbk(s))
DecodeUri == \E s \in UrlTexts : Called("uri decode", s, UriDecode(s))
EncryptRc4 == \E key \in Rc4Keys, s \in Rc4Texts :
                 Called("rc4", [key |-> key, text |-> s], Rc4Full(key, s))

WriteTime == \E z \in Zones, t \in Instants : Called("time", [at |-> t, zone |-> z], TimeToStr(t, z))
ReadTime == \E z \in Zones, f \in Fields : Called("parse", [fields |-> f, zone |-> z], ParseTime(f, z))

WrittenNext == Base64 \/ EncodeUri \/ EncodeUrl \/ DecodeUri \/ EncryptRc4 \/ WriteTime \/ ReadTime

WrittenSpec == CallInit /\ [][WrittenNext]_callVars

-----------------------------------------------------------------------------
\* Base64 is decoded whatever the length is modulo 3, without its padding too, but for
\* Crypt::base64_decode, which ends at a zero byte.
Base64Inverts(s, text) ==
    /\ Base64Decode(text) = s /\ Base64Decode(Base64Digits(text)) = s
    /\ CryptDecode(text) = Before(s, {k \in DOMAIN s : s[k] = 0})

\* Both decoders undo either percent code.
PercentInverts(s, text) == UriDecode(text) = s /\ UrlDecodeGbk(text) = s

EscapesComplete(s) == \A k \in DOMAIN s : s[k] = Percent => IsEscape(s, k)

\* They agree as long as no '%' is incomplete, and beyond that only uri_decode is defined.
DecodersAgree(s, decoded) ==
    /\ EscapesComplete(s) => UrlDecodeGbk(s) = decoded
    /\ UrlDecodeGbk(s) = Undefined => Last(s) = Percent /\ Last(decoded) = Percent

\* RC4 undoes itself, and may be done in one piece or with the text cut in two.
Rc4Inverts(key, s, secret) ==
    /\ Rc4Full(key, secret) = s
    /\ \A k \in 0 .. Len(s) :
           LET first == Rc4(Rc4Init(key), SubSeq(s, 1, k))
           IN  secret = first.out \o Rc4(first.key, SubSeq(s, k + 1, Len(s))).out

\* Decoders undo encoders.
CodecsInvert ==
    /\ fn = "base64" => Base64Inverts(arg, res)
    /\ fn \in {"uri encode", "url encode"} => PercentInverts(arg, res)
    /\ fn = "uri decode" => DecodersAgree(arg, res)
    /\ fn = "rc4" => Rc4Inverts(arg.key, arg.text, res)

-----------------------------------------------------------------------------
MidnightOf(f) == [f EXCEPT ![4] = 0, ![5] = 0, ![6] = 0]
FullHourOf(f) == [f EXCEPT ![5] = 0, ![6] = 0]

NoSummer(zone) == zone.from = zone.until

\* A time that is written and parsed is the same, the begin of its day or hour is in that day or hour
\* and not later, with two exceptions.  In summer everything parsed is an hour late, since the
\* fields are taken for winter time; and east of Greenwich 1970 begins before 1970, where what is
\* parsed is a time of 2106.
WrittenIsParsed(t, text, zone) ==
    LET day  == TimestampToDay(t, zone)
        hour == TimestampToHour(t, zone) IN
    /\ ParseTime(text, zone) = Unsigned(t + (IF IsSummer(t, zone) THEN Hour ELSE 0))
    /\ ParseDayShortTime(text, zone) = day
    /\ (NoSummer(zone) /\ MkTime(MidnightOf(text), zone) >= 0) =>
           /\ LocalTime(day, zone) = MidnightOf(text)
           /\ LocalTime(hour, zone) = FullHourOf(text)
           /\ day <= hour /\ hour <= t /\ t < hour + Hour /\ t < day + Day

\* What is parsed, and not before 1970, is written as it was just if it is a date and has no
\* leap second; a day that its month does not have is taken for one of the next month.
ParsedIsWritten(f, t, zone) ==
    /\ MkTime(f, zone) >= 0 => ((IsDate(f) /\ f[6] < 60) <=> TimeToStr(t, zone) = f)
    /\ ~IsDate(f) => t = ParseTime([f EXCEPT ![2] = @ + 1, ![3] = @ - DaysIn(f[1], f[2])], zone)

\* A time stays the same when it is written and parsed, or parsed and written, with the exceptions
\* that the two definitions name (parseTime leaves tm_isdst 0, timer.cpp:249).
TimesKept ==
    /\ fn = "time" => WrittenIsParsed(arg.at, res, arg.zone)
    /\ (fn = "parse" /\ res # Rejected /\ NoSummer(arg.zone)) => ParsedIsWritten(arg.fields, res, arg.zone)

\* A time with a day that its month does not have is rejected: "2025-02-31 02:02:02" is
\* (uint32_t)-1 in the test (test_common.cpp:18-19).
NoSuchDayRejected == (fn = "parse" /\ ~IsDate(arg.fields)) => res = Rejected

\* What is written is read back, codes and times, with no exceptions but those that these two name.
WrittenIsRead == CodecsInvert /\ TimesKept
=============================================================================
