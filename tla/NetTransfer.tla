---------------------------- MODULE NetTransfer ----------------------------
(***************************************************************************)
(* The transfers of common/net_utils.cpp: net_crawl_url, net_post_url (also *)
(* of an event stream), net_put_url, net_del_url and net_download_file,    *)
(* net_sftp_download_file.  A caller makes one call after another and hands *)
(* the same buffer, header map, code and file to each, as a retry does.    *)
(* libcurl is external: a setopt may fail, and a transfer may end early at *)
(* any point (CURLOPT_TIMEOUT_MS, a lost connection).                      *)
(***************************************************************************)
EXTENDS Integers, Sequences, SequencesExt

Text == INSTANCE Strings

CONSTANTS Kinds,      \* the functions called; a post of a stream with and without a vector
          Responses,  \* what servers answer: code, header lines, body
          OldFile,    \* what the file holds before the first call
          MaxCalls    \* bound

ASSUME KindsAssumption ==
    Kinds \subseteq {"crawl", "post", "stream", "unread", "put", "del", "download", "sftp"}

ASSUME CallsAssumption == MaxCalls \in Nat

ASSUME ResponsesAssumption ==
    \A r \in Responses : r.headers \in Seq(Range(r.headers)) /\ r.body \in Seq(Range(r.body))

VARIABLES kind, resp,  \* the call, and the answer it would get whole
          pc, calls, ret,
          held,        \* what is open: the handle, its header list, the file
          got,         \* how much of the body has arrived
          seen,        \* resp_headers_str: the header lines that have
          tmp,         \* tmp_buf of net_post_url
          buf, events, \* *buf, *vec_result_buf
          headers,     \* *resp_headers
          older,       \* history: what it held when the call began
          code,        \* *http_code
          file,        \* the file on disk
          lost         \* did fclose fail to write what stdio still had?

callers == <<buf, events, headers, code, file, lost>>
transfer == <<got, seen, tmp>>
vars == <<kind, resp, pc, calls, ret, held, older, transfer, callers>>

ToFile == kind \in {"download", "sftp"}

ToBuffer == kind \in {"crawl", "put", "del"}

Init ==
    /\ kind \in Kinds /\ resp \in Responses
    /\ pc = "idle" /\ calls = 0 /\ ret = 0
    /\ held = {}
    /\ got = 0 /\ seen = <<>> /\ tmp = <<>>
    /\ buf = <<>> /\ events = <<>> /\ headers = << >> /\ older = << >> /\ code = 0
    /\ file = OldFile /\ lost = FALSE

Return(value) == pc' = "idle" /\ ret' = value

TmpStays == UNCHANGED tmp

TmpFresh == tmp' = <<>>

\* A call with empty arguments gives -1 at once.
Call ==
    /\ pc = "idle" /\ calls < MaxCalls
    /\ kind' \in Kinds /\ resp' \in Responses
    /\ calls' = calls + 1
    /\ got' = 0 /\ seen' = <<>> /\ TmpFresh /\ older' = headers
    /\ \/ Return(-1)
       \/ pc' = (IF ToFile' THEN "open" ELSE "init") /\ ret' = ret
    /\ UNCHANGED <<held, callers>>

OpenToAppend ==
    /\ pc = "open"
    /\ pc' = "init" /\ held' = {"file"} /\ UNCHANGED <<file, ret>>
    /\ UNCHANGED <<kind, resp, calls, older, transfer, buf, events, headers, code, lost>>

\* fopen(filepath, "wb"): what the file held is gone, whatever comes of the call.
Open ==
    /\ pc = "open"
    /\ \/ Return(-3) /\ UNCHANGED <<held, file, lost>>
       \/ pc' = "init" /\ held' = {"file"} /\ file' = <<>> /\ lost' = FALSE /\ ret' = ret
    /\ UNCHANGED <<kind, resp, calls, older, transfer, buf, events, headers, code>>

InitHandle ==
    /\ pc = "init"
    /\ \/ Return(-1) /\ held' = {}
       \/ /\ pc' = "options" /\ ret' = ret
          /\ \E list \in {{}, {"list"}} :
                held' = held \cup {"curl"} \cup IF ToFile THEN {} ELSE list
    /\ UNCHANGED <<kind, resp, calls, older, transfer, callers>>

SetOptionsKeepsList ==
    /\ pc = "options"
    /\ \/ Return(-2) /\ held' = held \ {"curl", "file"}
       \/ pc' = (IF kind = "del" THEN "fields" ELSE "perform") /\ UNCHANGED <<held, ret>>
    /\ UNCHANGED <<kind, resp, calls, older, transfer, callers>>

SetOptions ==
    /\ pc = "options"
    /\ \/ Return(-2) /\ held' = {}
       \/ pc' = (IF kind = "del" THEN "fields" ELSE "perform") /\ UNCHANGED <<held, ret>>
    /\ UNCHANGED <<kind, resp, calls, older, transfer, callers>>

\* net_del_url sets the options of a body on their own.
SetFields ==
    /\ pc = "fields"
    /\ \/ Return(-3) /\ held' = {}
       \/ pc' = "perform" /\ UNCHANGED <<held, ret>>
    /\ UNCHANGED <<kind, resp, calls, older, transfer, callers>>

ReceiveHeader ==
    /\ pc = "perform" /\ ~ToFile
    /\ Len(seen) < Len(resp.headers) /\ got = 0
    /\ seen' = Append(seen, resp.headers[Len(seen) + 1])
    /\ UNCHANGED <<kind, resp, pc, calls, ret, held, got, older, tmp, callers>>

\* _ReadFunction appends to what WRITEDATA names, _WriteFileCallback to the file.
Receive ==
    /\ pc = "perform" /\ (ToFile \/ Len(seen) = Len(resp.headers))
    /\ got < Len(resp.body) /\ got' = got + 1
    /\ LET chunk == resp.body[got'] IN
        /\ tmp' = IF ToFile \/ ToBuffer THEN tmp ELSE Append(tmp, chunk)
        /\ buf' = IF ToBuffer THEN Append(buf, chunk) ELSE buf
        /\ file' = IF ToFile THEN Append(file, chunk) ELSE file
    /\ UNCHANGED <<kind, resp, pc, calls, ret, held, seen, older, events, headers, code, lost>>

\* curl_easy_perform returns: CURLE_OK, or at any time an error (1).
Performed ==
    /\ pc = "perform"
    /\ \/ got = Len(resp.body) /\ (ToFile \/ Len(seen) = Len(resp.headers)) /\ ret' = 0
       \/ ret' = 1
    /\ pc' = "finish"
    /\ UNCHANGED <<kind, resp, calls, held, older, transfer, callers>>

Names(lines) == {lines[k].name : k \in 1 .. Len(lines)}

LastOf(lines, name) == Last(SelectSeq(lines, LAMBDA line : line.name = name)).value

MergedOnce == [name \in DOMAIN headers \cup Names(seen) |->
                  IF name \in DOMAIN headers THEN headers[name] ELSE LastOf(seen, name)]

\* The loop over the lines: an entry of that name is overwritten.
Merged == [name \in DOMAIN headers \cup Names(seen) |->
              IF name \in Names(seen) THEN LastOf(seen, name) ELSE headers[name]]

\* What fclose cannot write any more, on a full disk, is lost without a word.
CloseFile == \/ UNCHANGED <<file, lost>>
             \/ \E n \in 0 .. Len(file) - 1 : file' = SubSeq(file, 1, n) /\ lost' = TRUE

\* str_split(tmp_buf, "\r\n", ..): at runs of either character.
Lines(body) == Text!Split(body, {"\r", "\n"}, TRUE)

\* A stream whose caller passes no vector, the default, is read and thrown away.
Finish ==
    /\ pc = "finish" /\ Return(ret)
    /\ held' = {}
    /\ IF ToFile THEN CloseFile /\ UNCHANGED <<code, headers>>
       ELSE /\ code' = IF ret = 0 THEN resp.code ELSE code
            /\ headers' = Merged
            /\ UNCHANGED <<file, lost>>
    /\ buf' = IF kind = "post" THEN tmp ELSE buf
    /\ events' = IF kind = "stream" THEN Lines(tmp) ELSE events
    /\ UNCHANGED <<kind, resp, calls, older, transfer>>

Finished == pc = "idle" /\ calls = MaxCalls /\ UNCHANGED vars

Next == \/ Call \/ Open \/ InitHandle \/ SetOptions \/ SetFields
        \/ ReceiveHeader \/ Receive \/ Performed \/ Finish \/ Finished

Spec == Init /\ [][Next]_vars

-----------------------------------------------------------------------------
\* However a call ends, at whichever of its steps, it leaves no handle, header list or
\* file open.
Released == pc = "idle" => held = {}

Succeeded == pc = "idle" /\ calls > 0 /\ ret = 0

\* A call that returns 0 has delivered the whole body of its own answer, after whatever
\* earlier failed calls have left behind: a stream's in lines, and only to a caller who
\* passes a vector; a file's, unless a full disk was met too late.
BodyArrives == Succeeded /\ kind # "unread" =>
    CASE ToBuffer        -> IsSuffix(resp.body, buf)
      [] kind = "post"   -> buf = resp.body
      [] kind = "stream" -> events = Lines(resp.body)
      [] ToFile          -> file = resp.body \/ lost

\* The code a successful call reports is that of its own answer, and so is each header its
\* answer has, with the last value of that name.  The map is not cleared: headers of other
\* names stay in it just as earlier calls, the failed ones too, have left them.
ReportsOwnResponse == Succeeded /\ ~ToFile =>
    /\ code = resp.code
    /\ DOMAIN headers = DOMAIN older \cup Names(resp.headers)
    /\ \A name \in DOMAIN headers :
          headers[name] = IF name \in Names(resp.headers) THEN LastOf(resp.headers, name)
                                                          ELSE older[name]

\* A file is the old one or the beginning of a single answer, never of two.
FileOfOneResponse == file = OldFile \/ \E r \in Responses : IsPrefix(file, r.body)
=============================================================================
