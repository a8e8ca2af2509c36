-------------------------------- MODULE Inbuf --------------------------------
(***************************************************************************)
(* evn_inbuf (source/evn-inbuf.c): the output buffer of a stream.  One     *)
(* allocation [start, end) holds the queued bytes in [bottom, top); the    *)
(* space before bottom was drained and the space after top is free.        *)
(*                                                                         *)
(* Pointers are offsets from start, so that the buffer moving to another   *)
(* address is not visible here; an allocation is a function from offsets   *)
(* to bytes, Junk where nothing was written.  malloc and realloc succeed,  *)
(* as the code assumes ("don't assume that malloc worked").                *)
(***************************************************************************)
EXTENDS Integers, Sequences

CONSTANTS
  Byte,       \* the values a byte can take
  Junk,       \* the contents of a byte nobody has written
  InitSize,   \* the size given to evn_inbuf_create
  Chunks,     \* the byte sequences a caller may add in one call
  MaxQueued   \* bound of the model: bytes queued at the same time

ASSUME InbufAssumption ==
  /\ Junk \notin Byte
  /\ InitSize \in Nat \ {0}
  /\ Chunks \subseteq Seq(Byte)
  /\ \A c \in Chunks : Len(c) > 0
  /\ MaxQueued \in Nat

VARIABLES
  mem,       \* the bytes of the allocation
  capacity,  \* end - start
  bottom,    \* offset of the oldest queued byte
  top,       \* offset after the newest queued byte
  size,      \* the size field, kept beside the pointers
  peak       \* history: the largest size so far

vars == <<mem, capacity, bottom, top, size, peak>>

Larger(a, b) == IF a >= b THEN a ELSE b
-------------------------------------------------------------------------------
\* evn_inbuf_create: twice the size asked for.
Init ==
  /\ capacity = 2 * InitSize
  /\ mem = [i \in 0..(2 * InitSize - 1) |-> Junk]
  /\ bottom = 0
  /\ top = 0
  /\ size = 0
  /\ peak = 0

\* evn_inbuf_peek: the n oldest bytes, or -1 when fewer are queued.
Peek(n) ==
  IF size < n THEN <<-1>> ELSE [i \in 1..n |-> mem[bottom + i - 1]]

\* A plausible slip in evn_inbuf_toss: the size field is left behind.
TossKeepingSize(n) ==
  /\ IF bottom + n >= top
     THEN bottom' = 0 /\ top' = 0
     ELSE bottom' = bottom + n /\ UNCHANGED top
  /\ UNCHANGED <<mem, capacity, size, peak>>

\* evn_inbuf_toss: drop the n oldest bytes; an emptied buffer starts over.
Toss(n) ==
  /\ IF bottom + n >= top
     THEN bottom' = 0 /\ top' = 0 /\ size' = 0
     ELSE bottom' = bottom + n /\ size' = size - n /\ UNCHANGED top
  /\ UNCHANGED <<mem, capacity, peak>>
-------------------------------------------------------------------------------
\* A plausible slip in Store: taking top for the offset of the newest byte.
StoreAfterNewest(m, cap, at, data) ==
  [i \in 0..(cap - 1) |->
     IF i \in (at + 1)..(at + Len(data)) THEN data[i - at]
     ELSE IF i \in DOMAIN m THEN m[i] ELSE Junk]

\* memcpy of data to offset at of the allocation m, now cap bytes long.
Store(m, cap, at, data) ==
  [i \in 0..(cap - 1) |->
     IF i \in at..(at + Len(data) - 1) THEN data[i - at + 1]
     ELSE IF i \in DOMAIN m THEN m[i] ELSE Junk]

\* A plausible slip in Moved: copying from the start of the old allocation.
MovedFromStart(used, from) ==
  [i \in 0..(capacity - 1) |-> IF i < used THEN mem[i] ELSE Junk]

\* A fresh allocation of the same capacity with the used bytes at its start.
Moved(used, from) ==
  [i \in 0..(capacity - 1) |-> IF i < used THEN mem[from + i] ELSE Junk]

\* A plausible slip in Fits: an off-by-one at the end of the allocation.
FitsOffByOne(n, trailing) == n <= trailing + 1

\* "use the space we still have available"
Fits(n, trailing) == n <= trailing

\* A plausible slip in Compacts: drained space is never used again.
NeverCompacts(n, leading, trailing) == FALSE

\* Room enough in all, and at least half of the allocation is drained.
Compacts(n, leading, trailing) ==
  /\ n <= leading + trailing
  /\ leading >= capacity \div 2

\* The capacity c at which the do-while loop stops: doubled once, and then
\* again for as long as n bytes do not fit after offset t.
GrownTo(c, n, t) ==
  /\ \E k \in 1..(capacity + n) : c = capacity * 2^k
  /\ n <= c - t
  /\ c = 2 * capacity \/ n > (c \div 2) - t

\* evn_inbuf_add.  The test of used against size returns 1 and changes nothing;
\* adding nothing returns 0 and is a stuttering step (no chunk is empty).
Add(data) ==
  LET n        == Len(data)
      used     == top - bottom
      from     == IF used = 0 THEN 0 ELSE bottom
      t        == from + used
      trailing == capacity - t
  IN  /\ size + n <= MaxQueued
      /\ IF used # size
         THEN UNCHANGED vars
         ELSE /\ size' = used + n
              /\ peak' = Larger(peak, used + n)
              /\ IF Fits(n, trailing)
                 THEN /\ mem' = Store(mem, capacity, t, data)
                      /\ bottom' = from
                      /\ top' = t + n
                      /\ UNCHANGED capacity
                 ELSE IF Compacts(n, from, trailing)
                 THEN /\ mem' = Store(Moved(used, from), capacity, used, data)
                      /\ bottom' = 0
                      /\ top' = used + n
                      /\ UNCHANGED capacity
                 ELSE \E c \in (2 * capacity)..(2 * (capacity + n)) :
                        /\ GrownTo(c, n, t)
                        /\ mem' = Store(mem, c, t, data)
                        /\ bottom' = from
                        /\ top' = t + n
                        /\ capacity' = c

Next == \/ \E data \in Chunks : Add(data)
        \/ \E n \in 0..size : Toss(n)

Spec == Init /\ [][Next]_vars
-------------------------------------------------------------------------------
\* Every pointer stays inside the allocation, so no memcpy of evn_inbuf_add
\* writes past its end and no peek or send reads past it.
TypeOK ==
  /\ capacity \in Nat \ {0}
  /\ mem \in [0..(capacity - 1) -> Byte \cup {Junk}]
  /\ bottom \in 0..capacity
  /\ top \in 0..capacity
  /\ size \in Nat
  /\ peak \in Nat

\* The size field and the pointers always agree: the test "used != buf->size"
\* of evn_inbuf_add, which would drop the caller's data, never fires.
SizeAgrees == size = top - bottom

\* The bytes between bottom and top were all written by callers.
QueuedIsWritten == \A i \in bottom..(top - 1) : mem[i] \in Byte

\* The buffer never shrinks, and never outgrows need: past its first size, its
\* capacity stays below four times the most bytes ever queued at once.
CapacityFollowsPeak ==
  /\ size <= peak
  /\ capacity = 2 * InitSize \/ capacity < 4 * peak

\* The buffer is a FIFO queue: what peek and send see, in whichever of its
\* three ways evn_inbuf_add found room.
Queue == INSTANCE ByteQueue WITH queue <- Peek(size)

IsByteQueue == Queue!Spec
===============================================================================
