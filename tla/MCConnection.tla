----------------------------- MODULE MCConnection -----------------------------
(***************************************************************************)
(* The applications the two ends of a connection are checked with.         *)
(***************************************************************************)
EXTENDS Connection

\* Writes and ends from its callbacks, and leaves every stream to its end.
Talking ==
  Only([on_connection |-> {"write"},
        on_connect    |-> {"write", "end"},
        on_data       |-> {"write", "end"},
        on_end        |-> {"write", "end"},
        on_drain      |-> {"write", "end"}])

\* The same, but where its output has drained it ends or destroys the stream.
Leaving ==
  [Talking EXCEPT !["on_drain"] = {"end", "destroy"}]

\* It installs no on_error.
Silent == Callbacks \ {"on_error"}
===============================================================================
