--------------------------- MODULE MCNetTransfer ---------------------------
EXTENDS NetTransfer

\* One kind for each way the result is handed over; put is crawl with other options.
MCKinds == {"crawl", "post", "stream", "unread", "del", "download"}

MCOldFile == <<"old">>

Line(name, value) == [name |-> name, value |-> value]

\* Two answers that share a header name, one of which repeats it, as a redirect does, and
\* one has a name of its own; a body of two lines, one of no more than a line's end.
MCResponses ==
    {[code |-> 200, headers |-> <<Line("etag", 1), Line("etag", 2)>>, body |-> <<"a", "\n", "b">>],
     [code |-> 404, headers |-> <<Line("age", 3), Line("etag", 3)>>, body |-> <<"\n">>]}
=============================================================================
