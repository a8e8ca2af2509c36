----------------------------- MODULE StreamCalls -----------------------------
(***************************************************************************)
(* Where the library and an application meet: the callbacks of a stream,   *)
(* and the calls an application may make on it (source/include/evn.h).     *)
(***************************************************************************)

Callbacks == {"on_connection", "on_connect", "on_data", "on_end",
              "on_timeout", "on_drain", "on_error", "on_close"}

\* Where the application runs: in a callback of the stream, or from another
\* watcher of the loop, before or after the stream connected.
Contexts == Callbacks \cup {"opening", "loop"}
Calls == {"write", "end", "destroy", "set_timeout"}

\* The application that makes the calls of f and no others.
Only(f) == [c \in Contexts |-> IF c \in DOMAIN f THEN f[c] ELSE {}]
===============================================================================
