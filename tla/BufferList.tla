------------------------------ MODULE BufferList ------------------------------
(***************************************************************************)
(* evn_bufferlist (source/evn-buffer-list.c): where a oneshot stream keeps *)
(* what it receives until the peer's FIN.  The bytes lie in blocks; the    *)
(* list of blocks doubles when all its slots are used.                     *)
(*                                                                         *)
(* A slot is an evn_buffer: its data pointer is null (as calloc leaves it),*)
(* junk (as realloc leaves it) or a block, and bytes are what it holds.    *)
(* used, free and position of an evn_buffer always move together and are   *)
(* Len(bytes) here.  Allocation succeeds, as the code assumes.             *)
(***************************************************************************)
EXTENDS Integers, Sequences

CONSTANTS
  Byte,       \* the values a byte can take
  BlockSize,  \* min_block_size given to evn_bufferlist_create
  Slots,      \* min_slice_count given to evn_bufferlist_create
  Chunks,     \* the byte sequences recv can return
  MaxUsed     \* bound of the model: bytes added in all

ASSUME BufferListAssumption ==
  /\ BlockSize \in Nat \ {0}
  /\ Slots \in Nat \ {0}
  /\ Chunks \subseteq Seq(Byte)
  /\ \A c \in Chunks : Len(c) > 0
  /\ MaxUsed \in Nat

VARIABLES
  bufferlist,  \* the struct: list, index (of the current block, from 0),
               \* block_size, used and size
  heap,        \* "alive", "freed", or "corrupt" after free of a junk pointer
  longest      \* history: the longest chunk so far

vars == <<bufferlist, heap, longest>>

Least(a, b) == IF a <= b THEN a ELSE b
Larger(a, b) == IF a >= b THEN a ELSE b

Null == [data |-> "null", bytes |-> <<>>, capacity |-> 0]
Junk == [data |-> "junk", bytes |-> <<>>, capacity |-> 0]

\* evn_buffer_init.
Block(size) == [data |-> "block", bytes |-> <<>>, capacity |-> size]

\* *bufferlist->current, for a list with at least one block.
Current(b) == b.list[b.index + 1]
-------------------------------------------------------------------------------
\* evn_bufferlist_create.
Init ==
  /\ bufferlist = [list |-> [i \in 1..Slots |-> Null], index |-> -1,
                   block_size |-> BlockSize, used |-> 0, size |-> 0]
  /\ heap = "alive"
  /\ longest = 0

\* evn_bufferlist_next_buffer: realloc doubles a full list, and the next slot
\* gets a block.
NextBuffer(b) ==
  LET full == b.index + 1 = Len(b.list)
      list == IF full THEN b.list \o [i \in 1..Len(b.list) |-> Junk] ELSE b.list
  IN  [b EXCEPT !.list  = [list EXCEPT ![b.index + 2] = Block(b.block_size)],
                !.index = @ + 1,
                !.size  = @ + b.block_size]

\* A plausible slip in evn_buffer_add: counting one byte of room too many.
CopiedPastEnd(buffer, n) == Least(buffer.capacity - Len(buffer.bytes) + 1, n)

\* evn_buffer_add: how many of n bytes go into the buffer.
Copied(buffer, n) == Least(buffer.capacity - Len(buffer.bytes), n)

\* evn_buffer_add on the current block.
AddToCurrent(b, data) ==
  LET n == Copied(Current(b), Len(data))
  IN  [b EXCEPT !.list[b.index + 1].bytes = @ \o SubSeq(data, 1, n)]

\* A plausible slip: doubling before the test, as evn_inbuf_add does.
Doubled(size, n, s) ==
  /\ \E k \in 1..(n + 1) : s = size * 2^k
  /\ n <= s
  /\ s = 2 * size \/ s \div 2 < n

\* s is the block_size at which the doubling stops: a chunk of n bytes fits.
GrownTo(size, n, s) ==
  /\ \E k \in 0..n : s = size * 2^k
  /\ n <= s
  /\ s = size \/ s \div 2 < n

\* A plausible slip: data is not advanced past what was copied.
RestFromStart(data, n) == SubSeq(data, 1, Len(data) - n)

\* What is left of the data after n bytes were copied.
Rest(data, n) == SubSeq(data, n + 1, Len(data))

\* A plausible slip: the next block is made as soon as the current one is full.
FullNow(buffer, n) == n >= buffer.capacity - Len(buffer.bytes)

\* The next block is needed when not all n bytes went into the current one.
NeedsNext(buffer, n) == Copied(buffer, n) # n

\* A plausible slip: used counts only what fitted into the first block.
UsedByFirst(used, copied, n) == used + copied

\* used grows by total_bytes_copied, which is all n.
UsedByAll(used, copied, n) == used + n

\* The list sized, whose block_size is large enough, with data added.  The loop
\* runs at most twice: what does not fit in the current block is shorter than
\* block_size, the capacity of the next.
Filled(sized, data) ==
  LET n      == Len(data)
      first  == IF sized.index = -1 THEN NextBuffer(sized) ELSE sized
      copied == Copied(Current(first), n)
      begun  == AddToCurrent(first, data)
      next   == IF NeedsNext(Current(first), n) THEN NextBuffer(begun) ELSE begun
      filled == IF copied = n THEN next ELSE AddToCurrent(next, Rest(data, copied))
  IN  [filled EXCEPT !.used = UsedByAll(@, copied, n)]

\* evn_bufferlist_add.
Add(data) ==
  LET n    == Len(data)
      size == bufferlist.block_size
  IN  /\ heap = "alive"
      /\ bufferlist.used + n <= MaxUsed
      /\ \E s \in size..(2 * (size + n)) :
           /\ GrownTo(size, n, s)
           /\ bufferlist' = Filled([bufferlist EXCEPT !.block_size = s], data)
      /\ longest' = Larger(longest, n)
      /\ UNCHANGED heap

\* evn_bufferlist_destroy: free(item->data) for every slot of the list.
Destroy ==
  /\ heap = "alive"
  /\ heap' = IF \E i \in 1..Len(bufferlist.list) : bufferlist.list[i].data = "junk"
             THEN "corrupt" ELSE "freed"
  /\ UNCHANGED <<bufferlist, longest>>

Next == Destroy \/ \E data \in Chunks : Add(data)

Spec == Init /\ [][Next]_vars
-------------------------------------------------------------------------------
InUse == 1..(bufferlist.index + 1)

\* The loop of evn_bufferlist_concat: the bytes of the first k blocks of a list
\* are copied one after the other.
Joined(list, k) ==
  LET joined[i \in 0..k] == IF i = 0 THEN <<>> ELSE joined[i - 1] \o list[i].bytes
  IN  joined[k]

\* evn_bufferlist_concat: the bytes of the blocks up to index, in their order.
Concat == Joined(bufferlist.list, bufferlist.index + 1)

\* Every slot up to index has a block, no later slot has one, and no block
\* holds more than its capacity: no memcpy of evn_buffer_add runs past its end.
TypeOK ==
  /\ bufferlist.index \in -1..(Len(bufferlist.list) - 1)
  /\ \A i \in 1..Len(bufferlist.list) :
       LET slot == bufferlist.list[i]
       IN  IF i \in InUse
           THEN slot.data = "block" /\ Len(slot.bytes) <= slot.capacity
           ELSE slot \in {Null, Junk}
  /\ heap \in {"alive", "freed", "corrupt"}

\* size - used is the room in the current block.
RoomAgrees ==
  bufferlist.size - bufferlist.used =
    IF InUse = {} THEN 0
    ELSE Current(bufferlist).capacity - Len(Current(bufferlist).bytes)

\* evn_bufferlist_concat allocates used bytes and copies those of the blocks:
\* they are as many.
CountersAgree ==
  /\ Len(Concat) = bufferlist.used
  /\ RoomAgrees

\* No block is skipped or left behind with room in it: all blocks before the
\* current one are full, and the current one is not empty.
BlocksAreFilled ==
  \A i \in InUse :
    LET slot == bufferlist.list[i]
    IN  Len(slot.bytes) = slot.capacity \/ (i = bufferlist.index + 1 /\ slot.bytes # <<>>)

\* A block is at most twice as long as the longest chunk asked for.
BlockFollowsDemand ==
  bufferlist.block_size = BlockSize \/ bufferlist.block_size < 2 * longest

Received == INSTANCE ByteQueue WITH queue <- Concat

\* What concat returns is every byte added, in order, wherever blocks end and
\* whenever the list grows: a ByteQueue from which nothing is ever tossed.
IsByteLog ==
  Received!Init /\ [][\E data \in Chunks : Received!Add(data)]_Concat

\* "we calloc the list in bufferlist, so if we didn't malloc anything item->data
\* should be NULL (ok to free)": destroying a list frees nothing else.
DestroyFreesBlocksOnly == heap # "corrupt"
===============================================================================
