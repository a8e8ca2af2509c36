----------------------------- MODULE MCBufferList -----------------------------
(***************************************************************************)
(* BufferList with blocks of two bytes and a list of one slot: chunks that *)
(* fit, that end at a block's end, that span two blocks and that double    *)
(* the block size once or twice.  The bytes of a chunk are all different,  *)
(* and it is the only chunk that begins as it does and has its length: no  *)
(* wrong copy of a chunk is another chunk.                                 *)
(***************************************************************************)
EXTENDS BufferList

MCChunks == {[i \in 1..n |-> first + i] : n \in {1, 2, 3, 5}, first \in {0, 5}}
===============================================================================
