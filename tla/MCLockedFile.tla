---------------------------- MODULE MCLockedFile ----------------------------
EXTENDS LockedFile

\* Two contents of different lengths, so that a part of one is not the other; the longer
\* one goes on behind a zero byte.
MCBlocks == {"a", "b", "c", Text!Nul}

MCContents == {<<"a">>, <<"b", Text!Nul, "c">>}
=============================================================================
