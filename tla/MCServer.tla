------------------------------- MODULE MCServer -------------------------------
(***************************************************************************)
(* The applications the server is checked with.                            *)
(***************************************************************************)
EXTENDS Server

Only(f) == [c \in Contexts |-> IF c \in DOMAIN f THEN f[c] ELSE {}]

\* Closes the server only after it listened, and calls the library from other
\* watchers, never from the server's callbacks.
Careful == Only([created |-> {"listen"}, loop |-> {"close", "destroy_stream"}])
===============================================================================
