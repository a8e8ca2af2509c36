------------------------------ MODULE ByteQueue ------------------------------
(***************************************************************************)
(* What evn_inbuf promises to the stream that owns it: an unbounded FIFO   *)
(* queue of bytes.  Chunks are added at the back; any number of bytes can  *)
(* be tossed from the front once the kernel has taken them.                *)
(***************************************************************************)
EXTENDS Naturals, Sequences

CONSTANT Chunks  \* the byte sequences a caller may add in one call

VARIABLE queue

Init == queue = <<>>

Add(data) == queue' = queue \o data

Toss(n) == queue' = SubSeq(queue, n + 1, Len(queue))

Next == \/ \E data \in Chunks : Add(data)
        \/ \E n \in 0..Len(queue) : Toss(n)

Spec == Init /\ [][Next]_queue
===============================================================================
