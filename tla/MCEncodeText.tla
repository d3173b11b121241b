---------------------------- MODULE MCEncodeText ----------------------------
EXTENDS EncodeText, MCTexts

\* Every special token allowed, as for a prompt that is built from them.
MCAllAllowed == {{All}}
=============================================================================
