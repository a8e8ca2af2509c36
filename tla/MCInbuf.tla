------------------------------- MODULE MCInbuf -------------------------------
(***************************************************************************)
(* Inbuf with an initial chunk size of 1 (capacity 2), chunks of one or    *)
(* three bytes and up to five bytes queued: room enough for all three ways *)
(* of adding, for two doublings in a row and for one doubling by four.     *)
(***************************************************************************)
EXTENDS Inbuf

\* Chunks that fit a small buffer, and chunks that do not.  The bytes of
\* a long chunk are different and in one order, so that no wrong copy of it is
\* another chunk.
MCChunks == {<<1>>, <<2>>, <<1, 2, 3>>}
===============================================================================
