# SmartVideo: specification, model checking and proofs

SmartVideo (`src/src`) is a C++ search service: a brpc server (`search/`), the
tokenizers and the text front end of a speech pipeline that it links, and a library
(`common/`) of locks, SQLite access, files, HTTP transfers and string functions that
are shared by its threads. This directory holds TLA+ modules of the parts with state,
order or concurrency in them, the configurations with which TLC checks them, and
theorems that TLAPS proves for all values of the constants. Paths below are relative
to the repository root.

## 1. Inventory

### Tokenizers (`src/src/search/core_bpe.*`, `tiktoken.*`, `whisper_token.*`)

* **Byte pair encoding of a piece.** `byte_pair_encode` / `_byte_pair_merge`. State of
  a call: `parts`, a vector of (start, rank) in which each element caches the rank of
  the pair that starts there. Hard: the cache is refreshed by hand, for two elements,
  *before* the element between is erased. Correct when no byte is lost, the cache
  equals a fresh look-up, and an exception needs a byte the vocabulary lacks.
* **Encoding of a text.** `TikTokenEncoding::encode` refuses texts with special tokens
  that are not allowed; `CoreBPE::_encode_native` searches for the next allowed one,
  cuts what lies before it by a PCRE2 regex, and encodes the pieces. State: `start`,
  `start_find`, the match, `start_offset`. Hard: offsets of the text and offsets of a
  suffix of it are mixed, and an error of the regex engine is taken for no match.
* **Match data.** 128 blocks per regex, chosen by the hash of the thread id; written
  by `pcre2_match`, read afterwards by the same caller, with no lock. Hard: collisions.
* **Vocabulary loading.** Two file formats become `bpe_ranks`; the gym format is compared
  with a second file. The constructor of `CoreBPE` compiles two regexes, copies each
  for every block and inverts the ranks; the destructor frees the copies.
  `WhisperToken` numbers its special tokens behind the ranks. Hard: repeated merges, files
  with gaps, a constructor that throws half-way. Correct when a rank follows the
  order of the merges, a token means one word, and nothing is lost.

### Text front end (`src/src/search/frontend_utils.*`)

* **Splitting.** `split_paragraph`: a loop that cuts at stops with a look-ahead for a
  closing quote, one that merges under two limits, a third limit for the tail;
  `text_normalize` erases utterances that are only punctuation. Correct when no word is
  lost or moved and the lengths keep their bounds.
* **Numbers and blanks**: `spell_out_number`, `number_to_words`, `replace_blank`,
  `remove_tail_mark` and the rest of the cleaning. Pure. Hard: bytes taken for
  characters, signs, digits that do not fit. Correct when what is read aloud is the
  number and no letter of a text is lost.

### SQLite access (`src/src/common/sqlite_utils.*`, `CppSQLite3.*`)

One connection per object, opened on first use, shared by threads under the write side
of an `RWLock`. `execute` of a statement, of a vector (BEGIN … COMMIT, ROLLBACK at the
first failure), of a batched insert (one lock and one implicit transaction for each
batch); `fetch`; `last_id`, `connect` and `close`, which take no lock; destructor. Hard: threads
in between batches and calls without the lock, failures in the middle, a COMMIT whose result
is not looked at, process death.
Correct when vectors are atomic and isolated and a reported success is durable.

Below it the wrapper classes: queries, tables and statements move a handle of sqlite3
from one to the other when they are copied or assigned; a query of a statement borrows
the handle of it. Hard: objects built by default, assigned to themselves, or used after
what they borrow from. Correct when each handle has one owner. `CppSQLite3Binary` keeps
bytes and their form for SQL in one buffer.

### Locks (`src/src/common/lock.h`)

`Mutex`, `RWLock`, `MutexSimulativeRWLock`, the guards `ScopedLock`, `ScopedLockR`,
`ScopedLockW` with `UnLock`/`Lock` inside the scope, and `SharedInt`, an integer under
a mutex. Hard: a guard whose `Lock` is called when it has the lock already. Correct when
writers are alone, a lock counts exactly the guards that are locked, and the operations of
`SharedInt` are atomic.

### Files (`src/src/common/file_utils.*`)

`lock_file` runs a function under `flock`; `file_write` truncates and then writes,
`file_read` takes the size and then reads. State: the lock of the open file, the
descriptors (`lock_file` closes none), the file. Hard: crashes, full disks, functions that throw,
descriptors that run out, processes that wait.

### Transfers (`src/src/common/net_utils.*`)

Seven functions over libcurl that fill the caller's buffer, event vector, header map,
code or file. Hard: each may fail at every step and has its own clean-up; callers
retry with the same result variables.

### Functions without state (`src/src/common/string_utils.*`, `url_utils.*`, `crypt_utils.*`, `base64.*`, `timer.*`, `murmurhash2.*`)

Lists in strings, percent codes, base64 in two versions, RC4, times as text, hashes.
Hard: ends of the input, empty elements, bytes with a meaning. Most come in pairs, of
an encoder and its decoder or of two versions of one function: correct when the
pair agrees.

### Service and the rest

`search/main.cpp` makes the log directory, starts brpc and answers fixed texts; it
keeps no state. Audio and system utilities: calls of libraries and of `/proc`.

### How they interact

`text_normalize` → `split_paragraph`, whose caller counts tokens with a tokenizer;
`WhisperToken` → `TikTokenEncoding::encode` → `CoreBPE::_encode_native` →
`byte_pair_encode`, all of it by several threads on one object, which share the match
data that its constructor has made. `SqliteUtils` calls go through `ScopedLockW<RWLock>`
and use the classes of CppSQLite3. `lock_file` calls a function of its caller's, which
reads or writes the file with `file_read` or `file_write`. Nothing sends messages but
libcurl.

## 2. Modules

| module | models | main state | actions |
|---|---|---|---|
| `ByteMerging` | abstract: what BPE promises | `segs` | join the two neighbours of lowest rank, end when none join |
| `BytePairMerge` | `byte_pair_encode`, `_byte_pair_merge` | `parts`, `out` | `OneByte`, `Start`, `Merge` (one turn: two look-ups, one erase), `NothingLeft`, `Emit`, `Return` |
| `EncodeText` | `encode`, `_encode_native` | `start`, `startFind`, `special`, `offset`, `out` | `Check`, `Search`, `Split`, `PartDone`, `Push`, `Return` |
| `MatchSlots` | match data per hash of the thread id | `block`, `hash`, `got` | `BeginMatch`, `EndMatch`, `ReadOffsets` |
| `Vocabulary` | loading, `CoreBPE()`, `~CoreBPE()`, numbering | `ranks`, `encoder`, `specials`, `tables`, `decoder`, `held` | `ReadMerge`, `ParseEncoder`, `ReadEntry`, `CompareWithEncoder`, `ReadTiktokenLine`, `EndTiktoken`, `Number`, `New`, `Regex`, `SpecialRegex`, `NoSpecialRegex`, `FillDecoder`, `Delete` |
| `SplitParagraph` | `split_paragraph` (zh), filter of `text_normalize` | `words`, `utts`, `cur`, `final` | `Cut`, `EndCut`, `Merge`, `EndMerge`, `EraseOnlyPunctuation` |
| `SqliteUtils` | `SqliteUtils` | `lock`, `conn`, `broken`, `inTxn`, `pending`, `db`, `changes` | one per step between which another thread or a crash may come |
| `SqliteHandles` | `CppSQLite3DB`, `Query`, `Table`, `Statement` | `handle`, `owns`, `knowsDB`, `open` | one per member function that touches a handle |
| `SqliteFetch` | `fetch`, `fetch_format`, `fetch_format_scalar`; a client of `SqliteHandles` | `info`, `row`, `ret`, `result` | `Call`, `Connect`, `ExecQuery`, `ReadRow`, `EndRows`, `Unwind`, `Return`, `Disconnect` |
| `EncodedBlob` | `CppSQLite3Binary` and its coding | `buf`, `room`, `length`, `encoded` | `SetBinary`, `SetEncoded`, `GetEncoded`, `GetBinary`, `Clear` |
| `ReadersWriters` | abstract reader/writer lock | `inside` | enter, leave |
| `ScopedLocks` | guards over either lock | `readers`, `writer`, `guard`, `mode` | `Open`, `Locked`, `UnLock`, `Relock`, `LockTwice`, `Close` |
| `AtomicInt` | abstract integer with operations of one step | `value`, `status`, `result` | call, take effect, return |
| `SharedInt` | `SharedInt` | `i`, `mutex`, `ret` | `Call`, `Lock`, `Read`, `Write`, `Unlock` |
| `StoredFile` | abstract file, whole reads and writes | `value`, `result`, `up` | read, write, crash, restart |
| `LockedFile` | `lock_file` with `file_write` / `file_read` | `lock`, `fds`, `file`, `pc` | `Open`, `Flock`, `FlockFails`, `FOpen`, `FWrite`, `FWriteFails`, `FRead`, `Leave`, `Throw`, `Crash`, `Restart` |
| `NetTransfer` | the transfers | `held`, `got`, `buf`, `headers`, `code`, `file` | `Call`, `Open`, `InitHandle`, `SetOptions`, `SetFields`, `ReceiveHeader`, `Receive`, `Performed`, `Finish` |
| `Codecs` | base64, percent codes, RC4 | – | operators |
| `WordHashes` | how murmurhash2 and `Hash` cut their input into words | – | operators |
| `Hashing` | a `CMurmurHash2A` to which an input is added | `input`, `at`, `hash` | `BeginHash`, `AddChunk` |
| `TextCleaning` | UTF-8 of the front end, blanks, marks, brackets | – | operators |
| `Strings` | lists in strings, files as lines | – | operators |
| `NumberWords` | numbers in words and with commas | – | operators |
| `Calendar` | instants and local times | – | operators |
| `OneCall` | a call and its result | `fn`, `arg`, `res` | – |
| `WrittenCalls` | one call of a function of `Codecs` or `Calendar` | of `OneCall` | one per function |
| `TextCalls` | one call of a function of `TextCleaning`, `Strings` or `NumberWords` | of `OneCall` | one per function |

`MC*` modules give constants their values, `*Proofs` modules hold theorems. Four of them
also compose: `MCEncode` is a call of `BytePairMerge` or one of `EncodeText`; `MCCoreBPE` is `Vocabulary` and `MatchSlots` as one object, matched with
only while it is there; `MCLocks` is `ScopedLocks` and `SharedInt`; `MCFunctions` is
`SplitParagraph`, `Hashing`, `EncodedBlob`, `WrittenCalls` and `TextCalls`, one of them at a time. In
`PROJECT.json`, "map" names the source lines of each definition. Definitions that stand
directly before another one and change it by one slip (`MergeNoSkip`, `LockAnyway`, …)
are not part of any behaviour: put in the place of the one they precede, each makes a
property fail, which shows that the property says something about the code.

`BytePairMerge` and `EncodeText` compose through one interface: a piece the regex cuts
(`EncodeText`'s `Cut`) is the `piece` of a call of `byte_pair_encode`. `EncodeText` puts
the bytes of a piece for its tokens, which `BytePairMerge`'s `Lossless` permits, a
theorem. `SqliteUtils` uses its lock as a mutex,
since the code only takes the write side; `ScopedLocks` shows that the guard delivers
this. What `SqliteUtils` does in one step, a fetch under the lock, `SqliteFetch` does row
by row.

**External parts** are modelled from how the code uses them: a PCRE2 match finds the
leftmost occurrence of a special token, and the splitting regex may cut anywhere between
characters, or (`covers`) leaves nothing out, as Whisper's; both fail on what is not UTF-8;
`pcre2_match` writes its block over some time; SQLite statements may fail, BEGIN fails inside
a transaction, an open transaction is rolled back by a crash, and `sqlite3_close`
refuses while a statement is open; a libcurl option may be
refused and a transfer may end at any point; `flock` belongs to an open file, may fail, and dies
with its process; `strptime` takes each field for itself and `mktime` carries a day too
many into the next month, as in glibc; `BIO_read` decodes whole base64 texts.

## 3. Runs

All runs pass their bounds by name in the `.cfg` or the `MC` module.

* `encode`. A call of `byte_pair_encode`: every piece of up to four bytes over two values
  and one of six, with every vocabulary of up to three longer words in any order, one byte
  known or both. Four bytes are the least with a merge whose left and right neighbours both
  have ranks to refresh; six give merges on both sides of an earlier one.
  `CacheFresh`, `ThrowsOnlyOnUnknownByte`, `Lossless` (tokens decode to the piece),
  `MergesAsPromised` (implements `ByteMerging`, which looks every rank up again and
  ends only when nothing joins). Or a call of `encode`: all texts of up to four characters over
  three, those of up to six made of the special tokens and single characters, and texts with a
  character of two bytes and with its halves, which are not UTF-8; two special tokens that share
  their first character, allowed sets empty, one, all, or with a name that is none.
  What holds in spite of the offsets: `LosslessToFirstSpecial`, and `SpecialsAreAllowed`:
  no token that is not allowed comes out or is passed as text, and a text is refused
  only if it has one. A text that is not UTF-8 is lost without a word (see section 4). Both
  end: `CallEnds`.
* `encode_next_special` (must fail): see finding 1.
* `core_bpe`. One object through its life, up to twice. Vocabularies of the gym format
  with three bytes (one of them not printable) and up to three lines after the first, among
  them repeated merges, characters that stand for no byte, an empty half, a line of one
  field; `encoder.json` right, with the gaps that numbering the lines leaves, or
  in another order, and one that does not parse. Files of the tiktoken format with up to
  three lines and any ranks up to 2, repeated, missing or malformed. No special token, one,
  or Whisper's in either order of two languages. Each regex compiles or does not. Three lines
  are the least in which a repeated merge has one before and one after it.
  `RanksFollowMerges`, `DecodesBack`, `SpecialsBehindRanks`, `HeldIsReachable`. While one of
  the objects is there, three threads with all hashes from 0 to 3 match twice each in its
  three blocks, which gives all patterns of collision: `AloneReadsOwn`. The threads are
  symmetric: no definition tells them apart, and no property of the run is a
  liveness property. `match_data_per_thread` (must fail) is finding 2.
* `sqlite_threads`. Two threads with two calls of any kind each, three values in
  batches of two (a full batch and a rest), one death of the process: 760,039 states. Two calls
  each are enough for a call to meet what calls of its own and of the other thread have left
  behind. `last_id`, `connect` and `close` come at any time, as the code lets them; where one
  takes the connection from a thread that uses it, what follows is undefined, and the
  model ends (`broken`). `BrokenOnlyUnlocked`: nothing else does that.
  `VectorAtomic`, `FetchSeesWholeVectors`, `NoTransactionLeftOpen`, `ReportedIsDurable`,
  `BatchesArePrefix`, `VectorCount`, `CallsReturn`.
* `sqlite_fetch`. Any client of the wrapper classes: three objects, two of them of
  one class, three handles; every order of making, copying, assigning, stepping,
  finalizing, destroying and closing. Two objects of one class are the least
  that can exchange handles, the third is what they are made from or borrow from.
  `HandlesAreOwned`: each open handle has one owner, but for what an assignment of statements
  overwrites, and nothing is freed twice or used afterwards, but when a query that borrows
  a handle outlives it. The other client in this run is `SqliteUtils`: three calls of
  `fetch` into one result set or of `fetch_format_scalar`, of statements with no row,
  one, and two with columns of one name; every step may fail. `FetchCompletes`: no statement
  stays open, and what is reported is what was read.
* `scoped_locks`. Three threads, two scopes each, one further `Lock`, of a guard that was
  unlocked or of one that was not, both kinds of lock; or three threads with two calls each on a
  `SharedInt`. A second `Lock` leaks a read lock, or waits for itself for ever: `CountsGuards`
  counts those locks (`doubled`), and `GetsLock` excepts them.
  `CountsGuards`, `IsReadersWriters`, `GetsLock`, `IsAtomic`.
* `locked_file`. Three processes, two descriptors each (the second one lets the func
  open the file; with one used up it fails), two failures (`MaxFailures`), each a crash or a
  write on a full disk, throws and failing flocks at any time. One of the contents has a zero in
  it, at which `file_read` ends. `thrown` tells the lock that a throw keeps from one that a
  call forgets to give up.
  `ReadsWhole`, `ThrowShutsOut`, `WaitersServed`.
* `functions`. `split_paragraph` on every text of up to eight characters of four kinds
  (word, comma, stop, quote), limits 4, 2 and 3: enough for two utterances over the
  limits and a tail that is merged: `KeepsText`, `LengthsKept`. `split_sentences_fit`
  (must fail) is finding 3. Or one object through any of its calls:
  - `HashesAgree`: the versions of murmurhash2 mix the same words, for inputs of up to 19
    bytes at all four alignments, or in chunks that begin and end anywhere.
  - `BlobKeepsData`: a `CppSQLite3Binary` over a byte of seven values, with all bytes of up to
    three, some of four, six and eight, and strings of up to four characters, broken ones and ones
    with a quote among them; each set, encoded, decoded and cleared in any order, with memory that may run out.
    `MaxInt` is 31, so that the size of four bytes and more overflows, as that of 8.3 MB does in
    the code.

  Or one call of a function without state:
  - `WrittenIsRead`: decoders undo encoders, on all byte strings of up to five bytes (every
    length modulo 3) over four values, and percent codes on all texts of up to four characters
    over seven, whole and broken escapes among them; RC4 with every key of up to three
    bytes of two bits. What is written of a time reads as that time: instants and dates around
    a leap day, a new year, both ends of summer time and the first day of 1970.
  - `TextsKept`: cleaning keeps the letters and the marks come right, on all texts of up to
    three of eleven characters of one to four bytes and four broken ones. A number in words is
    heard as that number: all numbers up to 120 and those where a group begins or ends, both
    ends of `int` among them.
  - `ListsKept`: splitting, joining, `str_del`, `generate_custom`, lines of files.

  Where the functions of a pair do not agree, the property says exactly when: section 4.
* `february_days` (must fail) is finding 4.
* `net_transfer`. Three calls of any kind in turn with the same result variables, two
  answers that share one header name, of which one has another name too, streams with a vector for their events and
  without one. `Released`, `BodyArrives`, `ReportsOwnResponse`,
  `FileOfOneResponse`.

Deadlock is checked in every run but these. `functions`, `february_days` and
`split_sentences_fit` are calls that end, with no step after it. In `sqlite_fetch` a client has made its
number of handles or calls, or its behaviour is undefined, and stops. In `LockedFile` a func
that throws leaves everyone, its own process included, waiting for ever: the system
really stops there, and `ThrowShutsOut` says so.

**Fairness.** `MCEncode`: weak fairness of the one thread that runs the call.
`SqliteUtils`: weak fairness of each thread's steps within a call, until the connection is
broken; calls begin only if the program makes them, and the process need not crash. A thread waits for the
lock only while another is in a call, which ends, and the number of calls is bounded, so
nothing is asked of the lock's order. `ScopedLocks`: weak fairness of closing a scope and
of taking a lock that stays free; opening a scope is not fair. `GetsLock` holds
because scopes are bounded: with readers that keep coming, pthread does not promise
it, and the property does not claim it. `LockedFile`: weak fairness of a process inside
`lock_file`; throws, failures and crashes are never forced, restarts need not happen. The other
specifications have no liveness property and no fairness.

## 4. Findings

1. `encode_next_special`: after a first special token at `start > 0` the search runs
   in the suffix at `start_find` *and* starts `start_find` bytes into it
   (`core_bpe.cpp:653-661`), and its offsets are used as offsets of the text. The next
   special token may be missed and is then encoded as ordinary text. The comment at
   `core_bpe.cpp:650` says "Find the next allowed special token, if any".
2. `match_data_per_thread`: the blocks are called match data of each thread
   (`core_bpe.h:106`, `:109`), but threads whose hashes agree modulo 128 share one.
3. `split_sentences_fit`: `frontend_utils.h:40` says that a sentence has at most
   `token_max_n`; the code cuts at stops only and merges while the utterance is not
   longer than `token_min_n`.
4. `february_days`: `test_common.cpp:18-19` expects `(uint32_t)-1` of
   `parseTime("2025-02-31 02:02:02")`; `strptime` accepts the day and `mktime` makes it March 3
   (`timer.cpp:250-254`). The run has a day 29 in 1970 and more of the kind.

What follows has no run of its own. It is where a property that holds had to make
an exception, and the exception is written into the property:

* `remove_tail_mark` (`frontend_utils.cpp:146`) matches bytes. A text that ends in "一" or
  another character with a byte of a mark at its end loses that byte (`TextsKept`).
* `number_to_words` of a number between -1 and 0 has no "minus" (`frontend_utils.cpp:240`); a
  fraction that rounds up to one loses the carry, 0.99999999999 is read "zero point" with
  nothing behind it (`:248`); `spell_out_number` of digits above 2^31 - 1 gives any number
  (`TextsKept`).
* Times that are parsed are an hour late in summer time; the first hours of 1970 east of
  Greenwich lie before 1970 in UTC and become times of 2106 when they are cast to `uint32_t`
  (`timer.cpp:254`, `WrittenIsRead`).
* Where a part of a text is not UTF-8, `pcre2_match` fails and what is left of the part is
  dropped, all of the text if no special token is found in it; `encode` reports nothing
  (`core_bpe.cpp:739`, `LosslessToFirstSpecial`).
* `SqliteUtils::last_id`, `connect` and `close` take no lock and may delete the connection under
  a thread that uses it (`sqlite_utils.cpp:372`, `BrokenOnlyUnlocked`).
* `Lock()` of a guard that has the lock leaks a read lock or waits for itself for ever
  (`lock.h:197`, `CountsGuards`, `GetsLock`).
* A write on a full disk leaves the beginning of its content, since nobody looks at what `fwrite`
  (but as the number that `file_write` returns) or `fclose` said; `file_read` ends at the first
  zero byte (`file_utils.cpp:217`, `:158`, `ReadsWhole`).
* `net_post_url` of a stream without a vector delivers its body nowhere (`net_utils.cpp:207`,
  `BodyArrives`); headers of earlier answers stay in the map (`:188`, `ReportsOwnResponse`).
* The buffer of `CppSQLite3Binary` is too small where 257 times the number of bytes passes an
  `int`, and may be by a byte for bytes that came as a string with a quote
  (`CppSQLite3.cpp:264`, `BlobKeepsData`).
* `str_del` (`string_utils.cpp:392`) keeps the second of two elements that touch and leaves the
  vector at its end; `generate_custom` (`:220`) reads one field and one pair whatever the
  loop is at (`ListsKept`).
* `Crypt::base64_decode` ends at a zero byte; `url_decode_gbk` reads behind the end of a text
  that ends in a '%' (`WrittenIsRead`).
* `fetch_format_scalar` formats twice (`sqlite_utils.cpp:325`, `FetchCompletes`); assigning a
  statement forgets the handle it had, and a query built by default and then copied or
  assigned to asks an unset connection for its error message (`HandlesAreOwned`).
* A constructor of `CoreBPE` that throws at the second regex loses the copies of the first
  (`HeldIsReachable`); a tiktoken file with gaps lets special tokens share a number with a
  rank (`SpecialsBehindRanks`).

## 5. Proofs

Checked by TLAPS with no assumption but the named `ASSUME`s of the modules, which
TLC evaluates in the runs. What they demand is what the code has: sizes and limits are
numbers, a special token is no empty word, `MergeLen` is at most `TokenMinN + 1` (the only
caller of `split_paragraph` passes 20 and 60), there are blocks of match data (`SlotsAssumption`), files are lines of fields (`VocabularyAssumption`),
an answer is a sequence of header lines and of bytes (`ResponsesAssumption`), rows of
sqlite are as wide as their columns (`IsStatement`), inputs of hashes are sequences of bytes
(`InputsAssumption`), and so is what a `CppSQLite3Binary` is given, where a string for
`setEncoded` has no zero, as a string of C, and the quote is a byte
between the escape sequences and the "x" of an empty blob (`BlobAssumption`). Texts for the
codecs are sequences of bytes, no key of RC4 is empty, and of `^` only that doing it twice
changes nothing is used (`CodecsAssumption`); instants lie between 1970 and 2099 in local
time, where every fourth year is a leap year and `YearStart` is the calendar's,
and fit into 32 bits (`TimesAssumption`, `WrapAssumption`).

* `EncodeProofs`, for every piece, vocabulary and `SizeMax`. Partition and
  freshness of the cache are not inductive apart: the new ranks are fresh only because
  the boundaries are strictly increasing, and the segment a merge makes is ranked only
  because its cached rank was fresh. `IInv` joins `TypeOK`, `Partition`, `CacheFresh`,
  `MergedIsRanked` and `ThrowsOnlyOnUnknownByte`; each action has a lemma of its own.
  Results: `Typing`, `PartitionHolds`, `CacheFreshHolds`, `NoThrow`. On top of it
  `MergesAsPromisedHolds`, the refinement of `ByteMerging`: a fresh cache makes the code's
  minimum the lowest rank of two neighbours (`JoinedIsCached`), the partition makes the
  segments after an erase those with two of them joined (`SegsOfParts`, `MergeJoins`), and
  the loop ends only when nothing joins (`LastHasNoRank`), which the `End` of `ByteMerging` demands. `LosslessHolds`: what is emitted is
  the token of each segment in turn (`Emitted`), and the segments make the piece
  (`JoinedSegments`), so the tokens of a vocabulary in which no two words share a rank decode
  to it. What `FlattenSeq` computes follows by induction after all: the library has no
  theorem of it, but that the numbers are well-founded, so that a place where two of its
  results differ has a first one (`LeastNumber`, `FlattenIs`).

  For every text, any special tokens that are not empty and any `allowed_special`:
  `SpecialsAreAllowedHolds` and `LosslessToFirstSpecialHolds`. `TextInv` says that what the
  search found lies in the text, not before `start`, and is allowed, in spite of the mixed
  offsets (`TextType`), and that the regex ends in its part (`InPart`); `PrefixSoFar` that,
  with a regex that matches everywhere, the output up to the first special token is the text up to
  `offset`, or nothing if the part is not UTF-8.
* `CoreBPEProofs`, for any files, names, threads and hashes.
  - `AloneReadsOwnHolds`: the invariant `SlotsInv` says of a thread alone in its block
    that it holds the thread's own match from the end of the match to the read.
  - `HeldIsReachableHolds`: `TablesInv` says which of the four vectors are filled at
    each step of a constructor, and that the heap holds what they point to and what throws
    left behind.
  - `RanksFollowMergesHolds`, `DecodesBackHolds`, `SpecialsBehindRanksHolds`, from
    `VocabularyInv`: the ranks are those of the bytes and of the merges read so far, each
    merge has the rank of the last line that made it, and that of the last line is never
    overwritten. A merge that was overwritten leaves a gap below that rank, so an
    `encoder.json` without gaps equals the ranks only if no merge was lost; then ranks follow
    the lines. That the bytes get the ranks 0 .. `ByteCount - 1` rests on `RankOfByte` being
    a bijection, which is proved by counting the bytes that come earlier.
* `SqliteUtilsProofs`, for any threads, numbers of calls, batches and crashes:
  `VectorAtomicHolds`, `FetchSeesWholeVectorsHolds`, `NoTransactionLeftOpenHolds`,
  `ReportedIsDurableHolds`, `BatchesArePrefixHolds`, `VectorCountHolds` and
  `BrokenOnlyUnlockedHolds`. None of them is inductive. `IInv` adds who holds the lock
  (`LockIsHeld`), whose transaction is open (`Transaction`), how far a call is (`Position`),
  that what it has written so far is the open transaction, or in the database if it has none
  (`Kept`), and what it has counted (`Counts`). That batches are prefixes needs a lemma of
  division: the values before a batch are those of the batches before it (`BatchBefore`).
* `SqliteHandlesProofs`, for any objects of any of the classes and any number of handles.
  `HandlesAreOwnedHolds`: that an open handle has one owner is not inductive: an
  assignment could give an object a handle that was dropped before, and the free of one
  object could close what another still holds. `IInv` adds that dropped handles are
  nobody's, that only statements lend, and that until a borrowed handle is freed all that
  is held is open. `HeldAfterMoves` carries it through every copy, move and loss: each
  object that holds a handle after the step has it from one object before.
  `FetchOwnsHandles` says the same of the behaviours with a fetch, and
  `FetchCompletesHolds` what a fetch promises: in `Fetching` its query is the one object
  with a handle (`TheQuery`), the rows in the result set are those from before and a beginning of
  the statement's (`TheRows`), and each is as wide as some statement fetched (`TheWidths`).
* `LocksProofs`, for any threads and calls. `AtomicHolds`: `SharedInt` implements
  `AtomicInt` (every step is a step of it or a stutter), from `Guarded`: the body runs with
  the mutex, and between load and store `i` still has the value loaded.
  `CountsGuardsHolds` and `GuardsAreReadersWriters`, the refinement of `ReadersWriters`:
  `GuardsInv` counts the guards that share the primitive, with the locks that some took twice,
  and those that have it alone, which the mutex in place of a reader/writer lock does with
  every guard.
* `LockedFileProofs`: `ReadsWholeHolds`, `lock_file` with `file_write` and `file_read`
  implements `StoredFile`, for any processes, contents, descriptor limits, failures and crashes;
  `ThrowShutsOutHolds`. The invariant `IInv` says that whoever runs func has the lock
  (`Alone`) and, at each step of a write, which beginning of whose content the file is
  (`Whole`).
* `NetTransferProofs`, for any functions called, answers and number of calls:
  `ReleasedHolds`, `BodyArrivesHolds`, `ReportsOwnResponseHolds`, `FileOfOneResponseHolds`.
  `IInv` says that what has arrived is a beginning of one answer and is in the one place
  that the function tells (`BodySoFar`), that a call starts with nothing open or received
  (`NothingOpen`, `Fresh`), and that libcurl reports success of a whole answer only
  (`OKIsWhole`).
* `FunctionProofs`, for any text, limits, inputs, chunks, bytes, and orders of calls. Where
  a fact is about all prefixes of a sequence it is proved by induction, from the library's
  principles with a set of numbers or of sequences in the place of a predicate (`EveryNumber`,
  `EverySequence`); what `FlattenSeq` and `SelectSeq` compute is stated once in this way.
  - `LengthsKeptHolds`. `IInv` says that what is not cut
    yet has no stop in it (`CutsAtStops`), so that each utterance is one sentence
    (`Sentences`), and that what is merged so far keeps to the limits; what is gathered in
    `cur` exceeds them only by a sentence behind at most `TokenMinN` characters.
  - `KeepsTextHolds`. `TextInv` says where the text was cut (`CutPlaces`) and that the words
    of what is merged, of `cur` and of the utterances still to come are those of the text, in
    order (`TextSoFar`); `Only` is the filter that the property uses, on which the lemmas
    of joined and empty sequences are stated.
  - `HashesAgreeHolds`. `Incremental` is inductive: after each chunk the words are those of what
    was added so far, the bytes left over are its tail. It needs that the words of two
    sequences, the first of them cut at a multiple of four, are those of both together
    (`CutAfter`), and what a chunk does that only fills the tail (`MixTailMixes`) or goes on
    behind it (`AddMixes`). `AlignedAgrees` follows each shift of the loop that reads aligned words.
  - `BlobKeepsDataHolds`. `EncodedDecodes`: the decoder undoes the encoder with any offset
    (`ReadsBody`). `OffsetIsSet`: the offset is left uninitialized by its loop unless one needs
    fewer escapes than there are bytes, and one always does, since over all the offsets each
    byte is hit three times at most (`HitNext`, `FewEscapes`). `EncodedFits`: with that offset the
    encoded form fits into the buffer, and would with the 2 that the code's comment rounds up to 3.
    `BlobInv` adds what decoding in place leaves behind the bytes: the buffer stays
    long enough (`NoShorter`) for them to be encoded again (`Reencoded`).
  - `CodecsInvertHolds`. Base64: three bytes and their four digits determine each other
    (`ThreeBytes`), and the digits left in an incomplete group are enough for its bytes
    (`DigitsDecode`). Percent codes: the decoders read at each place or pass over it (`ScanIs`),
    what stands for a character is put where the codes of those before it end (`CodesOf`), and
    when a decoder comes there it has put out those characters (`CodesDecode`); of text that no
    encoder made, `UriScan` and `UndefinedAtEnd` say that only a '%' at the end is read beyond
    it. RC4: turns after turns of the key are turns of it (`KeyAfterTurns`), and the key makes
    the same bytes both times (`Rc4Is`).
  - `TimesKeptHolds`, for every instant and zone. Days have one year and, in it, one month and
    day (`MonthStarts`, `DateIs`), seconds one hour, minute and second (`ClockOf`). With these
    the fields of a local time determine it (`WrittenTime`, `ReadTimeIs`), and a day
    that its month does not have is taken for one of the next (`ParsedTimes`).
  - `WrittenIsReadHolds`: both together.

Invariants that the theorems state in general, such as `Partition`, are not also listed as
invariants of a run.

Only model-checked:

* liveness (`CallEnds`, `CallsReturn`, `GetsLock`, `WaitersServed`): TLAPS cannot
  prove fairness arguments here;
* `TextsKept` and `ListsKept`. Lists, texts and numbers use operators of the community
  modules that the library has no theorems about (`FoldLeft`, `SelectInSeq`, `SelectLastInSeq`
  …), and each function would need its own; what they do wrong is at the ends of small inputs,
  which the run enumerates.

## 6. What the models leave out

* What `SqliteUtils` does once a thread has lost the connection it uses: undefined behaviour of
  the process, where the model ends. The properties speak of the time before.
* Races in which the regex engine itself goes wrong on a shared block: the model lets
  the block hold either match, or nothing useful. Deleting a `CoreBPE` that a thread still
  uses: nothing in the code does, and `MCCoreBPE` does not.
* Texts as bytes, except in `TextCleaning` and `Codecs`: characters are members of a small
  set. The tokens of a piece in `EncodeText` are the piece. In `SplitParagraph` a character
  has length one, as with lang `zh`; in another language the length is a number of tokens.
* Words of a hash are told apart by their bytes; that the mixing spreads them is not
  modelled. RC4 has four states instead of 256, `CppSQLite3Binary` seven byte values: both
  are parameters.
* `execute_format` and the other formatted calls cut a statement at 8191 characters
  (`sqlite_utils.cpp:198`): a statement has no length here.
* In `NetTransfer`, timing, retries within libcurl, TLS and proxies; upload over SFTP,
  which changes nothing on this side. `post` and `stream` differ in where the body goes.
* In `LockedFile`, contents are short sequences of blocks; a write reaches the file
  block by block. `EnumFiles` and `mkdirs`.
* Start-up of the service: it tests for the log directory and then makes it
  (`main.cpp:155`), and `mkdirs` reports false for a directory that another process made in
  between, which stops it. What is left of `main` is a list of calls of brpc and glog.
* Not modelled at all, with the reasons in `PROJECT.json`: service, audio, system
  utilities, disabled code, tests and build files.

## 7. Plan

1. `EncodeText` over `BytePairMerge` in one module: what a caller of `encode` sees. The
   tokens of each piece decode to it and the pieces to the text (both are theorems).
2. `split_paragraph` for a language whose lengths are numbers of tokens.
3. Proofs of `ListsKept` and `TextsKept`, with folds as recursive functions, by the inductions of
   `FunctionProofs`.
