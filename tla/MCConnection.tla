---------------------------- MODULE MCConnection ----------------------------
\* Connection on instances TLC can explore. There is no symmetry to use: the pool hands out
\* the first message that is free (NextFree), and liveness would not allow it.
EXTENDS Connection
=============================================================================
