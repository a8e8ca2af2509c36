--------------------------------- MODULE Pipe ---------------------------------
(***************************************************************************)
(* What one direction of a connection promises to its two applications: a  *)
(* pipe of bytes.  A byte is its position in what was written.  The reader *)
(* gets the bytes in order, and is told of the end only after it has got   *)
(* every one of them.  A pipe that breaks just never ends.                 *)
(***************************************************************************)
EXTENDS Naturals, Sequences

VARIABLES
  written,   \* how many bytes the writer has put in
  received,  \* the bytes the reader has got
  state      \* "open", "finished" by the writer, or "ended" for the reader

vars == <<written, received, state>>

Init == written = 0 /\ received = <<>> /\ state = "open"

Write ==
  /\ state = "open"
  /\ written' > written
  /\ UNCHANGED <<received, state>>

Receive ==
  /\ state # "ended"
  /\ \E n \in 1..(written - Len(received)) :
       received' = received \o [i \in 1..n |-> Len(received) + i]
  /\ UNCHANGED <<written, state>>

Finish ==
  /\ state = "open" /\ state' = "finished"
  /\ UNCHANGED <<written, received>>

End ==
  /\ state = "finished" /\ Len(received) = written
  /\ state' = "ended"
  /\ UNCHANGED <<written, received>>

Next == Write \/ Receive \/ Finish \/ End

Spec == Init /\ [][Next]_vars
===============================================================================
