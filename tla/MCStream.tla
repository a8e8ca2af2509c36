------------------------------- MODULE MCStream -------------------------------
(***************************************************************************)
(* The applications the stream is checked with: the calls each makes, and  *)
(* the callbacks it makes them from.                                       *)
(***************************************************************************)
EXTENDS Stream

\* Writes and ends from every callback, but destroys the stream only where the
\* library is done with it, and ends it only once it is connected.
Careful ==
  Only([on_connection |-> {"write"},
        on_connect    |-> {"write", "end"},
        on_data       |-> {"write", "end"},
        on_end        |-> {"write", "end"},
        on_drain      |-> {"write", "end", "destroy"},
        opening       |-> {"write", "destroy"},
        loop          |-> {"write", "end", "destroy"}])

\* The same, leaving every stream to its end.
Patient == [c \in Contexts |-> Careful[c] \ {"destroy"}]

\* It installs no on_error: a write that is refused changes nothing.
Silent == Callbacks \ {"on_error"}

\* Sets, changes and removes a timeout at any time, on_timeout included, writes
\* there and from the loop, and destroys where the library is done.
Timed ==
  Only([on_timeout    |-> {"set_timeout", "write"},
        on_connection |-> {"set_timeout"},
        on_connect    |-> {"set_timeout"},
        on_drain      |-> {"destroy"},
        opening       |-> {"set_timeout"},
        loop          |-> {"set_timeout", "write", "destroy"}])

\* echo-server.c: sets a timeout, and destroys the stream when it passes.
Destroying == Only([on_connection |-> {"set_timeout"}, on_timeout |-> {"destroy"}])

\* Writes from the loop.
Writing == Only([loop |-> {"write"}])
===============================================================================
