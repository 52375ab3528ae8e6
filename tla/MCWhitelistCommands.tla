------------------------- MODULE MCWhitelistCommands -------------------------
EXTENDS WhitelistCommands

CONSTANTS h1, h2, n1

(* Two concurrent handlers and one username: every pair of commands can   *)
(* interleave on the same row.  In the pass run only h1 sets the flag.    *)
MCHandlers == {h1, h2}
MCNames == {n1}

=============================================================================
