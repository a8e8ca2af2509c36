--------------------------- MODULE BufferListProofs ---------------------------
(***************************************************************************)
(* Theorems about BufferList: no copy runs past the end of a block, blocks *)
(* are filled one after another, the counters agree with what the blocks   *)
(* hold, and that is every byte that was added, in order.                  *)
(***************************************************************************)
EXTENDS BufferList, SequenceTheorems, WellFoundedInduction, TLAPS

\* An evn_buffer of the list.
Slot == [data : {"null", "junk", "block"}, bytes : Seq(Byte), capacity : Nat]

List == [list : Seq(Slot), index : Int, block_size : Nat, used : Nat, size : Nat]

\* A block in use: it has room for something, and holds no more than that.
Sound(slot) ==
  /\ slot.data = "block"
  /\ slot.capacity > 0
  /\ Len(slot.bytes) <= slot.capacity

IsFull(slot) == Len(slot.bytes) = slot.capacity

\* The room in the current block.
Room(b) == IF b.index = -1 THEN 0 ELSE Current(b).capacity - Len(Current(b).bytes)

\* A well-formed list b: blocks up to index, none behind it, and all before
\* the current one are full.
Good(b) ==
  /\ b \in List
  /\ b.index \in -1..(Len(b.list) - 1)
  /\ Len(b.list) > 0
  /\ b.block_size > 0
  /\ \A i \in 1..Len(b.list) :
       IF i <= b.index + 1 THEN Sound(b.list[i]) ELSE b.list[i] \in {Null, Junk}
  /\ \A i \in 1..b.index : IsFull(b.list[i])

\* What holds of a list between two calls: the current block is not empty, and
\* the counters tell the room in it.  It is inductive.
IInv ==
  /\ Good(bufferlist)
  /\ bufferlist.index >= 0 => Current(bufferlist).bytes # <<>>
  /\ bufferlist.size - bufferlist.used = Room(bufferlist)
  /\ heap \in {"alive", "freed", "corrupt"}
  /\ longest \in Nat
  /\ BlockFollowsDemand
-------------------------------------------------------------------------------
\* The slot of the current block.
LEMMA CurrentSlot ==
  ASSUME NEW b, Good(b), b.index >= 0
  PROVE  /\ b.index + 1 \in 1..Len(b.list)
         /\ Current(b) = b.list[b.index + 1]
         /\ Current(b) \in Slot
         /\ Sound(Current(b))
<1>1. /\ b.list \in Seq(Slot)
      /\ b.index \in Int
  BY DEF Good, List
<1>2. b.index + 1 \in 1..Len(b.list)
  BY <1>1, LenProperties DEF Good
<1>3. b.list[b.index + 1] \in Slot
  BY <1>1, <1>2, ElementOfSeq
<1> QED BY <1>1, <1>2, <1>3 DEF Good, Current

\* A list of twice the length, whose new slots are junk.
LEMMA DoubledList ==
  ASSUME NEW l \in Seq(Slot)
  PROVE  LET l2 == l \o [i \in 1..Len(l) |-> Junk]
         IN  /\ l2 \in Seq(Slot)
             /\ Len(l2) = 2 * Len(l)
             /\ \A i \in 1..Len(l) : l2[i] = l[i]
             /\ \A i \in (Len(l) + 1)..(2 * Len(l)) : l2[i] = Junk
<1> DEFINE j  == [i \in 1..Len(l) |-> Junk]
           l2 == l \o j
<1>1. Len(l) \in Nat
  BY LenProperties
<1>2. Junk \in Slot
  BY EmptySeq DEF Junk, Slot
<1>3. j \in Seq(Slot) /\ Len(j) = Len(l)
  BY <1>1, <1>2, IsASeq, LenProperties
<1>4. l2 \in Seq(Slot) /\ Len(l2) = 2 * Len(l)
  BY <1>1, <1>3, ConcatProperties
<1>5. \A i \in 1..Len(l) : l2[i] = l[i]
  BY <1>1, <1>3, ConcatProperties
<1>6. \A i \in (Len(l) + 1)..(2 * Len(l)) : l2[i] = Junk
  <2>1. SUFFICES ASSUME NEW i \in (Len(l) + 1)..(2 * Len(l)) PROVE l2[i] = Junk
    OBVIOUS
  <2>2. l2[i] = j[i - Len(l)] /\ i - Len(l) \in 1..Len(l)
    BY <1>1, <1>3, ConcatProperties
  <2> QED BY <2>2
<1> QED BY <1>4, <1>5, <1>6

\* Where the new half of a full list lies, when k is the index of its last slot.
LEMMA TwiceAsLong ==
  ASSUME NEW k \in Int, k >= 0, NEW m, m = k + 1, NEW m2, m2 = 2 * m
  PROVE  m2 \in Nat /\ k + 2 \in 1..m2 /\ (k + 2)..m2 = (m + 1)..(2 * m)
  OBVIOUS

\* The next block is made behind the current one, which must be full; every
\* slot up to the current one stays as it is, and the new block is empty.
LEMMA NextBufferGood ==
  ASSUME NEW b, Good(b), b.index >= 0 => IsFull(Current(b))
  PROVE  /\ Good(NextBuffer(b))
         /\ NextBuffer(b).index = b.index + 1
         /\ Current(NextBuffer(b)) = Block(b.block_size)
         /\ NextBuffer(b).block_size = b.block_size
         /\ NextBuffer(b).size = b.size + b.block_size
         /\ NextBuffer(b).used = b.used
<1> DEFINE full == b.index + 1 = Len(b.list)
           l    == IF full THEN b.list \o [i \in 1..Len(b.list) |-> Junk] ELSE b.list
           l2   == [l EXCEPT ![b.index + 2] = Block(b.block_size)]
           b2   == NextBuffer(b)
<1>1. /\ b \in List /\ b.list \in Seq(Slot) /\ b.index \in Int /\ b.block_size \in Nat
      /\ b.used \in Nat /\ b.size \in Nat /\ Len(b.list) \in Nat
      /\ b.index \in -1..(Len(b.list) - 1)
      /\ Len(b.list) > 0 /\ b.block_size > 0
  BY LenProperties DEF Good, List
<1>2. b.index \in Int /\ Len(b.list) \in Nat /\ -1 <= b.index /\ b.index < Len(b.list)
  BY <1>1
<1>3. /\ l \in Seq(Slot)
      /\ Len(l) \in Nat
      /\ b.index + 2 \in 1..Len(l)
      /\ \A i \in 1..(b.index + 1) : l[i] = b.list[i]
      /\ \A i \in (b.index + 2)..Len(l) : l[i] \in {Null, Junk}
  <2>1. CASE full
    <3>1. /\ l \in Seq(Slot)
          /\ Len(l) = 2 * Len(b.list)
          /\ \A i \in 1..Len(b.list) : l[i] = b.list[i]
          /\ \A i \in (Len(b.list) + 1)..(2 * Len(b.list)) : l[i] = Junk
      BY <1>1, <2>1, DoubledList
    <3> HIDE DEF l
    <3>2. Len(b.list) = b.index + 1 /\ b.index >= 0
      <4>1. Len(b.list) = b.index + 1
        BY <2>1
      <4>2. b.index >= 0
        BY <1>2, <4>1, <1>1
      <4> QED BY <4>1, <4>2
    <3>3. /\ Len(l) \in Nat
          /\ b.index + 2 \in 1..Len(l)
          /\ (b.index + 2)..Len(l) = (Len(b.list) + 1)..(2 * Len(b.list))
      <4>1. b.index \in Int
        BY <1>2
      <4>2. Len(l) = 2 * Len(b.list)
        BY <3>1
      <4> QED BY <3>2, <4>1, <4>2, TwiceAsLong
    <3>4. \A i \in 1..(b.index + 1) : l[i] = b.list[i]
      BY <3>1, <3>2
    <3>5. \A i \in (b.index + 2)..Len(l) : l[i] \in {Null, Junk}
      BY <3>1, <3>3
    <3> QED BY <3>1, <3>3, <3>4, <3>5
  <2>2. CASE ~full
    <3>1. l = b.list
      BY <2>2
    <3>2. \A i \in (b.index + 2)..Len(b.list) : b.list[i] \in {Null, Junk}
      BY <1>1 DEF Good
    <3> HIDE DEF l
    <3>3. b.index + 2 \in 1..Len(b.list)
      BY <1>2, <2>2
    <3>4. \A i \in 1..(b.index + 1) : l[i] = b.list[i]
      BY <3>1
    <3> QED BY <1>1, <3>1, <3>2, <3>3, <3>4
  <2> QED BY <2>1, <2>2
<1>4. Len(l) \in Nat /\ b.index + 2 <= Len(l)
  BY <1>3, <1>2
<1>5. Block(b.block_size) \in Slot
  BY <1>1, EmptySeq DEF Block, Slot
<1>6. b2 = [b EXCEPT !.list = l2, !.index = b.index + 1, !.size = b.size + b.block_size]
  BY <1>1 DEF NextBuffer, List
<1> HIDE DEF l
<1>7. /\ l2 \in Seq(Slot)
      /\ Len(l2) = Len(l)
      /\ l2[b.index + 2] = Block(b.block_size)
      /\ \A i \in 1..Len(l) : i # b.index + 2 => l2[i] = l[i]
  BY <1>3, <1>5, ExceptSeq
<1> HIDE DEF l2, b2
<1>8. /\ b2 \in List
      /\ b2.list = l2
      /\ b2.index = b.index + 1
      /\ b2.size = b.size + b.block_size
      /\ b2.used = b.used
      /\ b2.block_size = b.block_size
  <2> DEFINE i2 == b.index + 1
             n2 == b.size + b.block_size
  <2>1. n2 \in Nat /\ i2 \in Int
    BY <1>1
  <2> DEFINE r == [b EXCEPT !.list = l2, !.index = i2, !.size = n2]
  <2>2. b2 = r
    BY <1>6
  <2> HIDE DEF i2, n2
  <2>3. b \in List /\ l2 \in Seq(Slot) /\ i2 \in Int /\ n2 \in Nat
    BY <1>1, <1>7, <2>1
  <2>4. /\ r \in List
        /\ r.list = l2
        /\ r.index = i2
        /\ r.size = n2
        /\ r.used = b.used
        /\ r.block_size = b.block_size
    BY <2>3 DEF List
  <2> HIDE DEF r
  <2> QED BY <2>2, <2>4 DEF i2, n2
<1>9. /\ Current(b2) = Block(b.block_size)
      /\ Block(b.block_size).data = "block"
      /\ Block(b.block_size).capacity = b.block_size
      /\ Len(Block(b.block_size).bytes) = 0
  BY <1>1, <1>7, <1>8, EmptySeq DEF Current, Block
<1>10. /\ Len(l2) = Len(l)
       /\ b2.list = l2
       /\ b2.index = b.index + 1
  BY <1>7, <1>8
<1>11. \A i \in 1..Len(l2) :
        IF i <= b2.index + 1 THEN Sound(l2[i]) ELSE l2[i] \in {Null, Junk}
  <2>1. SUFFICES ASSUME NEW i \in 1..Len(l2)
                 PROVE  IF i <= b2.index + 1 THEN Sound(l2[i]) ELSE l2[i] \in {Null, Junk}
    OBVIOUS
  <2>2. CASE i = b.index + 2
    BY <1>1, <1>7, <1>8, <1>9, <2>2 DEF Sound
  <2>3. CASE i < b.index + 2
    <3>0. i \in 1..(b.index + 1) /\ i \in 1..Len(l) /\ i # b.index + 2
      BY <1>2, <1>4, <1>10, <2>3
    <3>1. l2[i] = b.list[i]
      BY <1>3, <1>7, <3>0
    <3>2. i \in 1..Len(b.list) /\ i <= b.index + 1
      BY <1>1, <3>0
    <3>3. Sound(b.list[i])
      BY <3>2 DEF Good
    <3> QED BY <1>1, <1>8, <3>1, <3>2, <3>3
  <2>4. CASE i > b.index + 2
    <3>1. i \in (b.index + 2)..Len(l) /\ i \in 1..Len(l) /\ i # b.index + 2
      BY <1>1, <1>3, <1>7, <2>4
    <3>2. l2[i] \in {Null, Junk}
      BY <1>3, <1>7, <3>1
    <3> QED BY <1>1, <1>8, <2>4, <3>2
  <2> QED BY <1>1, <2>2, <2>3, <2>4
<1>12. \A i \in 1..b2.index : IsFull(l2[i])
  <2>1. SUFFICES ASSUME NEW i \in 1..(b.index + 1) PROVE IsFull(l2[i])
    BY <1>8
  <2>2. l2[i] = b.list[i]
    <3>1. i \in 1..Len(l) /\ i # b.index + 2
      BY <1>2, <1>4
    <3> QED BY <1>3, <1>7, <3>1
  <2>3. CASE i = b.index + 1
    BY <1>1, <2>2, <2>3 DEF Current
  <2>4. CASE i # b.index + 1
    <3>1. i \in 1..b.index
      BY <1>1, <2>4
    <3>2. IsFull(b.list[i])
      BY <3>1 DEF Good
    <3> QED BY <2>2, <3>2
  <2> QED BY <2>3, <2>4
<1>13. b2.index \in -1..(Len(b2.list) - 1) /\ Len(b2.list) > 0
  BY <1>2, <1>4, <1>10
<1>14. Good(b2)
  BY <1>1, <1>8, <1>11, <1>12, <1>13 DEF Good
<1> QED BY <1>8, <1>9, <1>14 DEF b2

\* Copying into the current block what fits of the data, which is not empty:
\* other slots stay as they are.
LEMMA AddToCurrentGood ==
  ASSUME NEW b, Good(b), b.index >= 0, NEW data \in Seq(Byte), Len(data) > 0
  PROVE  LET n == Copied(Current(b), Len(data))
             b2 == AddToCurrent(b, data)
         IN  /\ n \in 0..Len(data)
             /\ Good(b2)
             /\ b2.index = b.index
             /\ b2.block_size = b.block_size
             /\ b2.used = b.used
             /\ b2.size = b.size
             /\ Room(b2) = Room(b) - n
             /\ n # Len(data) => IsFull(Current(b2))
             /\ n > 0 => Current(b2).bytes # <<>>
             /\ n = Len(data) <=> Len(data) <= Room(b)
<1> DEFINE n  == Copied(Current(b), Len(data))
           b2 == AddToCurrent(b, data)
           c  == Current(b)
           c2 == [c EXCEPT !.bytes = c.bytes \o SubSeq(data, 1, n)]
           l2 == [b.list EXCEPT ![b.index + 1] = c2]
<1>1. /\ b \in List /\ b.list \in Seq(Slot) /\ b.index \in Int
      /\ Len(b.list) \in Nat /\ b.index \in 0..(Len(b.list) - 1)
      /\ Len(data) \in Nat
  BY LenProperties DEF Good, List
<1>2. /\ b.index + 1 \in 1..Len(b.list)
      /\ c = b.list[b.index + 1]
      /\ c \in Slot
      /\ Sound(c)
  BY CurrentSlot
<1>3. /\ c.bytes \in Seq(Byte) /\ c.capacity \in Nat /\ Len(c.bytes) \in Nat
      /\ Len(c.bytes) <= c.capacity
      /\ c.capacity > 0
  BY <1>2, LenProperties DEF Slot, Sound
<1>4. /\ n \in 0..Len(data)
      /\ n <= c.capacity - Len(c.bytes)
      /\ n # Len(data) => n = c.capacity - Len(c.bytes)
      /\ n = Len(data) <=> Len(data) <= c.capacity - Len(c.bytes)
  BY <1>1, <1>3 DEF Copied, Least
<1> HIDE DEF n
<1>5. SubSeq(data, 1, n) \in Seq(Byte) /\ Len(SubSeq(data, 1, n)) = n
  BY <1>1, <1>4, SubSeqProperties
<1>6. /\ c.bytes \o SubSeq(data, 1, n) \in Seq(Byte)
      /\ Len(c.bytes \o SubSeq(data, 1, n)) = Len(c.bytes) + n
  BY <1>3, <1>5, ConcatProperties
<1>7. /\ c2 \in Slot
      /\ c2.data = c.data
      /\ c2.capacity = c.capacity
      /\ c2.bytes = c.bytes \o SubSeq(data, 1, n)
  BY <1>2, <1>6 DEF Slot
<1>8. b2 = [b EXCEPT !.list = l2]
  BY <1>1, <1>2 DEF AddToCurrent, List, n
<1> HIDE DEF c, c2
<1>9. /\ l2 \in Seq(Slot)
      /\ Len(l2) = Len(b.list)
      /\ l2[b.index + 1] = c2
      /\ \A i \in 1..Len(b.list) : i # b.index + 1 => l2[i] = b.list[i]
  <2>1. b.list \in Seq(Slot) /\ b.index + 1 \in 1..Len(b.list) /\ c2 \in Slot
    BY <1>1, <1>2, <1>7
  <2> QED BY <2>1, ExceptSeq
<1> HIDE DEF l2, b2
<1>10. /\ b2 \in List
       /\ b2.list = l2
       /\ b2.index = b.index
       /\ b2.size = b.size
       /\ b2.used = b.used
       /\ b2.block_size = b.block_size
  BY <1>1, <1>8, <1>9 DEF List
<1>11. Current(b2) = c2
  BY <1>9, <1>10 DEF Current
<1>12. Sound(c2)
  <2>1. c2.data = "block"
    BY <1>2, <1>7 DEF Sound
  <2>2. Len(c2.bytes) = Len(c.bytes) + n
    BY <1>6, <1>7
  <2>3. c2.capacity > 0 /\ Len(c2.bytes) <= c2.capacity
    <3>1. c2.capacity = c.capacity
      BY <1>7
    <3> HIDE DEF c2
    <3> QED BY <1>1, <1>3, <1>4, <2>2, <3>1
  <2> QED BY <2>1, <2>3 DEF Sound
<1>13. \A i \in 1..Len(b2.list) :
         IF i <= b2.index + 1 THEN Sound(b2.list[i]) ELSE b2.list[i] \in {Null, Junk}
  <2>1. SUFFICES ASSUME NEW i \in 1..Len(b.list)
                 PROVE  IF i <= b.index + 1 THEN Sound(l2[i]) ELSE l2[i] \in {Null, Junk}
    BY <1>9, <1>10
  <2>2. CASE i = b.index + 1
    BY <1>1, <1>9, <1>12, <2>2
  <2>3. CASE i # b.index + 1
    <3>1. l2[i] = b.list[i]
      BY <1>9, <2>3
    <3>2. IF i <= b.index + 1 THEN Sound(b.list[i]) ELSE b.list[i] \in {Null, Junk}
      BY DEF Good
    <3> QED BY <3>1, <3>2
  <2> QED BY <2>2, <2>3
<1>14. \A i \in 1..b2.index : IsFull(b2.list[i])
  <2>1. SUFFICES ASSUME NEW i \in 1..b.index PROVE IsFull(l2[i])
    BY <1>10
  <2>2. i \in 1..Len(b.list) /\ i # b.index + 1
    BY <1>1
  <2>3. l2[i] = b.list[i]
    BY <1>9, <2>2
  <2> QED BY <2>3 DEF Good
<1>15. Good(b2)
  BY <1>9, <1>10, <1>13, <1>14 DEF Good
<1>16. Room(b) = c.capacity - Len(c.bytes)
  BY <1>1 DEF Room, c
<1>17. Room(b2) = c.capacity - (Len(c.bytes) + n)
  <2>1. b2.index # -1
    BY <1>1, <1>10
  <2>2. Len(c2.bytes) = Len(c.bytes) + n
    BY <1>6, <1>7
  <2> QED BY <1>7, <1>11, <2>1, <2>2 DEF Room
<1>18. Room(b2) = Room(b) - n
  BY <1>3, <1>4, <1>16, <1>17
<1>19. n # Len(data) => IsFull(Current(b2))
  BY <1>3, <1>4, <1>6, <1>7, <1>11 DEF IsFull
<1>20. n > 0 => Current(b2).bytes # <<>>
  <2>1. SUFFICES ASSUME n > 0 PROVE c2.bytes # <<>>
    BY <1>11
  <2>2. Len(c2.bytes) = Len(c.bytes) + n
    BY <1>6, <1>7
  <2>3. Len(c2.bytes) > 0
    BY <1>1, <1>3, <1>4, <2>1, <2>2
  <2> QED BY <2>3, EmptySeq
<1> QED BY <1>4, <1>10, <1>15, <1>16, <1>18, <1>19, <1>20 DEF n, b2, c

\* A list whose blocks are to be larger from now on is as well-formed as before.
LEMMA SizedGood ==
  ASSUME NEW b, Good(b), NEW s \in Nat, s > 0
  PROVE  LET b2 == [b EXCEPT !.block_size = s]
         IN  /\ Good(b2)
             /\ Room(b2) = Room(b)
             /\ b2.block_size = s
             /\ b2.index = b.index
             /\ b2.used = b.used
             /\ b2.size = b.size
             /\ b2.list = b.list
<1> DEFINE b2 == [b EXCEPT !.block_size = s]
<1>1. /\ b2 \in List /\ b2.block_size = s /\ b2.index = b.index
      /\ b2.used = b.used /\ b2.size = b.size /\ b2.list = b.list
  BY DEF Good, List
<1> HIDE DEF b2
<1>2. Good(b2) /\ Room(b2) = Room(b)
  BY <1>1 DEF Good, Room, Current
<1> QED BY <1>1, <1>2 DEF b2

\* So is one that counts more bytes as used.
LEMMA UsedGood ==
  ASSUME NEW b, Good(b), NEW u \in Nat
  PROVE  LET b2 == [b EXCEPT !.used = u]
         IN  /\ Good(b2)
             /\ Room(b2) = Room(b)
             /\ b2.used = u
             /\ b2.index = b.index
             /\ b2.block_size = b.block_size
             /\ b2.size = b.size
             /\ b2.list = b.list
<1> DEFINE b2 == [b EXCEPT !.used = u]
<1>1. /\ b2 \in List /\ b2.used = u /\ b2.index = b.index
      /\ b2.block_size = b.block_size /\ b2.size = b.size /\ b2.list = b.list
  BY DEF Good, List
<1> HIDE DEF b2
<1>2. Good(b2) /\ Room(b2) = Room(b)
  BY <1>1 DEF Good, Room, Current
<1> QED BY <1>1, <1>2 DEF b2

\* Adding a chunk that fits in a block: what does not go into the current
\* block goes into the next, which is made only when it is needed.
LEMMA FilledGood ==
  ASSUME NEW b, Good(b),
         b.index >= 0 => Current(b).bytes # <<>>,
         b.size - b.used = Room(b),
         NEW data \in Seq(Byte), Len(data) > 0, Len(data) <= b.block_size
  PROVE  LET f == Filled(b, data)
         IN  /\ Good(f)
             /\ f.index >= 0 => Current(f).bytes # <<>>
             /\ f.size - f.used = Room(f)
             /\ f.used = b.used + Len(data)
             /\ f.block_size = b.block_size
<1> DEFINE n      == Len(data)
           first  == IF b.index = -1 THEN NextBuffer(b) ELSE b
           copied == Copied(Current(first), n)
           begun  == AddToCurrent(first, data)
           next   == IF NeedsNext(Current(first), n) THEN NextBuffer(begun) ELSE begun
           rest   == Rest(data, copied)
           filled == IF copied = n THEN next ELSE AddToCurrent(next, rest)
           f      == [filled EXCEPT !.used = filled.used + n]
<1>0. f = Filled(b, data)
  BY DEF Filled, UsedByAll
<1> HIDE DEF f
<1>1. /\ b.index \in Int /\ b.index >= -1 /\ b.used \in Nat /\ b.size \in Nat
      /\ b.block_size \in Nat /\ n \in Nat /\ n > 0
  BY LenProperties DEF Good, List
<1>2. /\ Good(first)
      /\ first.index >= 0
      /\ first.block_size = b.block_size
      /\ first.used = b.used
      /\ first.size - first.used = Room(first)
  <2>1. CASE b.index = -1
    <3>1. /\ Good(first)
          /\ first.index = 0
          /\ Current(first) = Block(b.block_size)
          /\ first.block_size = b.block_size
          /\ first.size = b.size + b.block_size
          /\ first.used = b.used
      BY <2>1, NextBufferGood
    <3>2. b.size - b.used = 0
      BY <2>1 DEF Room
    <3>3. Room(first) = b.block_size
      BY <1>1, <3>1, EmptySeq DEF Room, Block
    <3> HIDE DEF first
    <3> QED BY <1>1, <3>1, <3>2, <3>3
  <2>2. CASE b.index # -1
    BY <1>1, <2>2
  <2> QED BY <2>1, <2>2
<1> HIDE DEF first
<1>3. /\ copied \in 0..n
      /\ Good(begun)
      /\ begun.index = first.index
      /\ begun.block_size = b.block_size
      /\ begun.used = b.used
      /\ begun.size = first.size
      /\ Room(begun) = Room(first) - copied
      /\ copied # n => IsFull(Current(begun))
      /\ copied > 0 => Current(begun).bytes # <<>>
  BY <1>2, AddToCurrentGood
<1>4. first.size \in Nat /\ begun.index \in Nat
  BY <1>2, <1>3 DEF Good, List
<1>5. NeedsNext(Current(first), n) <=> copied # n
  BY DEF NeedsNext
<1> HIDE DEF copied, begun
<1>7. /\ Good(filled)
      /\ filled.index >= 0
      /\ filled.block_size = b.block_size
      /\ filled.used = b.used
      /\ Current(filled).bytes # <<>>
      /\ filled.size - (b.used + n) = Room(filled)
  <2>1. CASE copied = n
    <3>1. filled = begun
      BY <1>5, <2>1 DEF copied
    <3> HIDE DEF filled
    <3>2. begun.size - (b.used + n) = Room(begun)
      BY <1>1, <1>2, <1>3, <1>4, <2>1
    <3> QED BY <1>1, <1>3, <1>4, <2>1, <3>1, <3>2
  <2>2. CASE copied # n
    <3>1. next = NextBuffer(begun) /\ filled = AddToCurrent(next, rest)
      BY <1>5, <2>2 DEF copied
    <3> HIDE DEF next
    <3>2. /\ Good(next)
          /\ next.index = begun.index + 1
          /\ Current(next) = Block(b.block_size)
          /\ next.block_size = b.block_size
          /\ next.size = begun.size + b.block_size
          /\ next.used = b.used
      BY <1>3, <2>2, <3>1, NextBufferGood
    <3>3. /\ next.index >= 0
          /\ Room(next) = b.block_size
      BY <1>1, <1>4, <3>2, EmptySeq DEF Room, Block
    <3>4. rest \in Seq(Byte) /\ Len(rest) = n - copied
      BY <1>1, <1>3, SubSeqProperties DEF Rest
    <3> HIDE DEF rest
    <3>5. Len(rest) > 0 /\ Len(rest) <= Room(next)
      BY <1>1, <1>3, <2>2, <3>3, <3>4
    <3>6. /\ Copied(Current(next), Len(rest)) = Len(rest)
          /\ Good(filled)
          /\ filled.index = next.index
          /\ filled.block_size = next.block_size
          /\ filled.size = next.size
          /\ filled.used = next.used
          /\ Room(filled) = Room(next) - Len(rest)
          /\ Current(filled).bytes # <<>>
      BY <3>1, <3>2, <3>3, <3>4, <3>5, AddToCurrentGood
    <3>7. Room(begun) = 0
      <4>1. Current(begun) \in Slot
        BY <1>3, <1>4, CurrentSlot
      <4> QED BY <1>3, <1>4, <2>2, <4>1, LenProperties DEF Room, IsFull, Slot
    <3> HIDE DEF filled
    <3>8. filled.size - (b.used + n) = Room(filled)
      <4>1. copied = Room(first)
        BY <1>1, <1>2, <1>3, <1>4, <3>7
      <4>2. first.size - b.used = copied
        BY <1>2, <4>1
      <4>3. filled.size = first.size + b.block_size
        BY <1>3, <3>2, <3>6
      <4>4. Room(filled) = b.block_size - (n - copied)
        BY <3>3, <3>4, <3>6
      <4>5. copied \in Int /\ n \in Int /\ b.used \in Int /\ b.block_size \in Int
        BY <1>1, <1>3
      <4>6. first.size = b.used + copied
        BY <1>4, <4>2, <4>5
      <4>7. filled.size = (b.used + copied) + b.block_size
        BY <4>3, <4>6
      <4> HIDE DEF n
      <4> QED BY <4>4, <4>5, <4>7
    <3> QED BY <3>2, <3>3, <3>6, <3>8
  <2> QED BY <2>1, <2>2
<1> HIDE DEF filled
<1>8. /\ Good(f) /\ f.used = b.used + n /\ f.index = filled.index
      /\ f.block_size = b.block_size /\ f.size = filled.size
      /\ f.list = filled.list /\ Room(f) = Room(filled)
  <2>1. b.used + n \in Nat
    BY <1>1
  <2>2. f = [filled EXCEPT !.used = b.used + n]
    BY <1>7 DEF f
  <2> QED BY <1>7, <2>1, <2>2, UsedGood
<1>9. /\ Good(f)
      /\ f.index >= 0 => Current(f).bytes # <<>>
      /\ f.size - f.used = Room(f)
      /\ f.used = b.used + n
      /\ f.block_size = b.block_size
  BY <1>7, <1>8 DEF Current
<1> QED BY <1>0, <1>9
-------------------------------------------------------------------------------
\* A set of numbers has a least one: an induction is a proof that the least
\* number for which a formula fails cannot exist.
LEMMA LeastOne ==
  ASSUME NEW T \in SUBSET Nat, T # {}
  PROVE  \E m \in T : \A k \in T : m <= k
<1> DEFINE R == OpToRel(<, Nat)
<1>1. IsWellFoundedOn(R, Nat)
  BY NatLessThanWellFounded
<1>2. \A k, m \in Nat : k < m => <<k, m>> \in R
  BY DEF OpToRel
<1> HIDE DEF R
<1>3. PICK m \in T : \A k \in T : <<k, m>> \notin R
  BY <1>1, WFMin
<1>4. ASSUME NEW k \in T PROVE m <= k
  <2>1. k \in Nat /\ m \in Nat /\ ~(k < m)
    BY <1>2, <1>3
  <2> QED BY <2>1
<1> QED BY <1>4

\* The function that Joined computes: g[i] is what the first i blocks hold.
Joins(g, list, n) ==
  g = [i \in 0..n |-> IF i = 0 THEN <<>> ELSE g[i - 1] \o list[i].bytes]

\* There is such a function.
LEMMA JoinsExists ==
  ASSUME NEW list, NEW n \in Nat
  PROVE  \E g : Joins(g, list, n)
<1> DEFINE T == {m \in Nat : ~\E g : Joins(g, list, m)}
<1>1. SUFFICES ASSUME T # {} PROVE FALSE
  OBVIOUS
<1>2. PICK m \in T : \A k \in T : m <= k
  <2> HIDE DEF T
  <2>1. T \in SUBSET Nat
    BY DEF T
  <2> QED BY <1>1, <2>1, LeastOne
<1>3. m \in Nat /\ ~\E g : Joins(g, list, m)
  OBVIOUS
<1>4. CASE m = 0
  <2>1. Joins([i \in 0..0 |-> <<>>], list, 0)
    BY DEF Joins
  <2> QED BY <1>3, <1>4, <2>1
<1>5. CASE m # 0
  <2>1. m - 1 \in Nat /\ ~(m <= m - 1)
    BY <1>3, <1>5
  <2>2. m - 1 \notin T
    BY <1>2, <2>1
  <2>3. PICK g : Joins(g, list, m - 1)
    BY <2>1, <2>2
  <2> DEFINE h == [i \in 0..m |-> IF i = m THEN g[i - 1] \o list[i].bytes ELSE g[i]]
  <2>4. ASSUME NEW i \in 0..m
        PROVE  h[i] = IF i = 0 THEN <<>> ELSE h[i - 1] \o list[i].bytes
    <3>1. CASE i = m
      <4>1. i # 0 /\ i - 1 \in 0..m /\ i - 1 # m
        BY <1>3, <1>5, <3>1
      <4> QED BY <3>1, <4>1
    <3>2. CASE i # m
      <4>1. i \in 0..(m - 1) /\ (i # 0 => i - 1 \in 0..m /\ i - 1 # m)
        BY <1>3, <3>2
      <4>2. g[i] = IF i = 0 THEN <<>> ELSE g[i - 1] \o list[i].bytes
        BY <2>3, <4>1 DEF Joins
      <4> QED BY <3>2, <4>1, <4>2
    <3> QED BY <3>1, <3>2
  <2>5. h = [i \in 0..m |-> h[i]]
    OBVIOUS
  <2> HIDE DEF h
  <2>6. Joins(h, list, m)
    BY <2>4, <2>5 DEF Joins
  <2> QED BY <1>3, <2>6
<1> QED BY <1>4, <1>5

\* Two of them agree on the blocks that hold the same.
LEMMA JoinsAgree ==
  ASSUME NEW l1, NEW l2, NEW n \in Nat, NEW m \in Nat, NEW g, NEW h,
         Joins(g, l1, n), Joins(h, l2, m),
         NEW k \in Nat, k <= n, k <= m, \A i \in 1..k : l1[i].bytes = l2[i].bytes
  PROVE  g[k] = h[k]
<1> DEFINE T == {i \in 0..k : g[i] # h[i]}
<1>1. SUFFICES ASSUME T # {} PROVE FALSE
  OBVIOUS
<1>2. PICK i \in T : \A j \in T : i <= j
  <2> HIDE DEF T
  <2>1. T \in SUBSET Nat
    BY DEF T
  <2> QED BY <1>1, <2>1, LeastOne
<1>3. i \in 0..k /\ g[i] # h[i]
  OBVIOUS
<1>4. /\ g[i] = IF i = 0 THEN <<>> ELSE g[i - 1] \o l1[i].bytes
      /\ h[i] = IF i = 0 THEN <<>> ELSE h[i - 1] \o l2[i].bytes
  <2>1. i \in 0..n /\ i \in 0..m
    BY <1>3
  <2> QED BY <1>3, <2>1 DEF Joins
<1>5. i # 0
  BY <1>3, <1>4
<1>6. i - 1 \in 0..k /\ ~(i <= i - 1) /\ i \in 1..k
  BY <1>3, <1>5
<1>7. g[i - 1] = h[i - 1]
  BY <1>2, <1>6
<1> QED BY <1>3, <1>4, <1>5, <1>6, <1>7

\* What the first k blocks hold is what the function says of k, for every list
\* whose first k blocks hold the same.
LEMMA JoinedIs ==
  ASSUME NEW l1, NEW l2, NEW n \in Nat, NEW g, Joins(g, l1, n), NEW k \in 0..n,
         \A i \in 1..k : l1[i].bytes = l2[i].bytes
  PROVE  Joined(l2, k) = g[k]
<1> DEFINE f == CHOOSE h : Joins(h, l2, k)
<1>1. Joins(f, l2, k)
  BY JoinsExists
<1>2. Joined(l2, k) = f[k]
  BY DEF Joined, Joins
<1> HIDE DEF f
<1>3. k \in Nat /\ k <= n /\ k <= k
  OBVIOUS
<1>4. ASSUME NEW h, Joins(h, l2, k) PROVE g[k] = h[k]
  BY <1>3, <1>4, JoinsAgree
<1> QED BY <1>1, <1>2, <1>4

\* No block holds nothing, and one more block appends what it holds.
LEMMA JoinedStep ==
  ASSUME NEW list
  PROVE  /\ Joined(list, 0) = <<>>
         /\ \A k \in Nat : Joined(list, k + 1) = Joined(list, k) \o list[k + 1].bytes
<1>1. ASSUME NEW k \in Nat
      PROVE  /\ Joined(list, 0) = <<>>
             /\ Joined(list, k + 1) = Joined(list, k) \o list[k + 1].bytes
  <2>1. k + 1 \in Nat /\ 0 \in 0..(k + 1) /\ k \in 0..(k + 1) /\ k + 1 \in 0..(k + 1)
        /\ k + 1 # 0 /\ (k + 1) - 1 = k
    OBVIOUS
  <2>2. PICK g : Joins(g, list, k + 1)
    BY <2>1, JoinsExists
  <2>3. \A j \in 0..(k + 1) : Joined(list, j) = g[j]
    BY <2>1, <2>2, JoinedIs
  <2>4. g[0] = <<>> /\ g[k + 1] = g[k] \o list[k + 1].bytes
    BY <2>1, <2>2 DEF Joins
  <2> QED BY <2>1, <2>3, <2>4
<1> QED BY <1>1

\* Blocks that hold the same are joined to the same.
LEMMA JoinedSame ==
  ASSUME NEW l1, NEW l2, NEW k \in Nat, \A i \in 1..k : l1[i].bytes = l2[i].bytes
  PROVE  Joined(l1, k) = Joined(l2, k)
<1>1. PICK g : Joins(g, l1, k)
  BY JoinsExists
<1>2. k \in 0..k
  OBVIOUS
<1>3. Joined(l1, k) = g[k]
  BY <1>1, <1>2, JoinedIs
<1>4. Joined(l2, k) = g[k]
  BY <1>1, <1>2, JoinedIs
<1> QED BY <1>3, <1>4

\* The blocks of a list hold bytes.
LEMMA JoinedBytes ==
  ASSUME NEW list \in Seq(Slot), NEW k \in 0..Len(list)
  PROVE  Joined(list, k) \in Seq(Byte)
<1> DEFINE T == {i \in 0..k : Joined(list, i) \notin Seq(Byte)}
<1>1. SUFFICES ASSUME T # {} PROVE FALSE
  OBVIOUS
<1>2. Len(list) \in Nat /\ k \in Nat
  BY LenProperties
<1>3. PICK i \in T : \A j \in T : i <= j
  <2> HIDE DEF T
  <2>1. T \in SUBSET Nat
    BY <1>2 DEF T
  <2> QED BY <1>1, <2>1, LeastOne
<1>4. i \in 0..k /\ Joined(list, i) \notin Seq(Byte)
  OBVIOUS
<1>5. i # 0
  BY <1>4, JoinedStep, EmptySeq
<1>6. i - 1 \in Nat /\ i - 1 \in 0..k /\ ~(i <= i - 1) /\ i \in 1..Len(list) /\ (i - 1) + 1 = i
  BY <1>2, <1>4, <1>5
<1>7. Joined(list, i - 1) \in Seq(Byte)
  BY <1>3, <1>6
<1>8. list[i].bytes \in Seq(Byte)
  <2>1. list[i] \in Slot
    BY <1>6, ElementOfSeq
  <2> QED BY <2>1 DEF Slot
<1>9. Joined(list, i) = Joined(list, i - 1) \o list[i].bytes
  BY <1>6, JoinedStep
<1> QED BY <1>4, <1>7, <1>8, <1>9, ConcatProperties

\* Joining bytes is associative.
LEMMA BytesAssociate ==
  \A x, y, z \in Seq(Byte) : (x \o y) \o z = x \o (y \o z)
BY ConcatAssociative

\* What evn_bufferlist_concat would return.
Held(b) == Joined(b.list, b.index + 1)

\* It is a sequence of bytes.
LEMMA HeldBytes ==
  ASSUME NEW b, Good(b)
  PROVE  Held(b) \in Seq(Byte)
<1>1. b.list \in Seq(Slot) /\ b.index + 1 \in 0..Len(b.list)
  BY LenProperties DEF Good, List
<1> QED BY <1>1, JoinedBytes DEF Held

\* Making the next block changes no slot up to the current one.
LEMMA NextBufferSlots ==
  ASSUME NEW b, Good(b), NEW i \in 1..(b.index + 1)
  PROVE  NextBuffer(b).list[i] = b.list[i]
<1> DEFINE full == b.index + 1 = Len(b.list)
           l    == IF full THEN b.list \o [j \in 1..Len(b.list) |-> Junk] ELSE b.list
           l2   == [l EXCEPT ![b.index + 2] = Block(b.block_size)]
<1>1. /\ b \in List /\ b.list \in Seq(Slot) /\ b.index \in Int /\ Len(b.list) \in Nat
      /\ b.index < Len(b.list)
  BY LenProperties DEF Good, List
<1>2. NextBuffer(b).list = l2
  BY <1>1 DEF NextBuffer, List
<1>3. i \in 1..Len(b.list) /\ i # b.index + 2
  BY <1>1
<1>4. l \in Seq(Slot) /\ i \in 1..Len(l) /\ l[i] = b.list[i]
  <2>1. CASE full
    <3>1. /\ l \in Seq(Slot)
          /\ Len(l) = 2 * Len(b.list)
          /\ \A j \in 1..Len(b.list) : l[j] = b.list[j]
      BY <1>1, <2>1, DoubledList
    <3> HIDE DEF l
    <3>2. i \in 1..(2 * Len(b.list))
      BY <1>1, <1>3
    <3> QED BY <1>3, <3>1, <3>2
  <2>2. CASE ~full
    BY <1>1, <1>3, <2>2
  <2> QED BY <2>1, <2>2
<1> HIDE DEF l
<1>5. l2[i] = l[i]
  <2>1. i \in DOMAIN l
    BY <1>4, LenProperties
  <2> QED BY <1>3, <2>1
<1> QED BY <1>2, <1>4, <1>5

\* A new block holds nothing.
LEMMA NextBufferHolds ==
  ASSUME NEW b, Good(b), b.index >= 0 => IsFull(Current(b))
  PROVE  Held(NextBuffer(b)) = Held(b)
<1> DEFINE b2 == NextBuffer(b)
           k  == b.index + 1
<1>1. /\ b.index \in Int /\ k \in Nat /\ (k + 1) - 1 = k
  BY DEF Good, List
<1>2. b2.index + 1 = k + 1 /\ Current(b2) = Block(b.block_size)
  BY <1>1, NextBufferGood
<1>3. b2.list[k + 1].bytes = <<>>
  BY <1>2 DEF Current, Block
<1>4. Held(b2) = Joined(b2.list, k) \o <<>>
  <2>1. Joined(b2.list, k + 1) = Joined(b2.list, k) \o b2.list[k + 1].bytes
    BY <1>1, JoinedStep
  <2> QED BY <1>2, <1>3, <2>1 DEF Held
<1>5. \A i \in 1..k : b2.list[i].bytes = b.list[i].bytes
  BY NextBufferSlots
<1>6. Joined(b2.list, k) = Held(b)
  BY <1>1, <1>5, JoinedSame DEF Held
<1> QED BY <1>4, <1>6, HeldBytes, ConcatEmptySeq

\* What is copied into the current block is appended.
LEMMA AddToCurrentHolds ==
  ASSUME NEW b, Good(b), b.index >= 0, NEW data \in Seq(Byte), Len(data) > 0
  PROVE  Held(AddToCurrent(b, data)) =
           Held(b) \o SubSeq(data, 1, Copied(Current(b), Len(data)))
<1> DEFINE n  == Copied(Current(b), Len(data))
           b2 == AddToCurrent(b, data)
           c  == Current(b)
           d  == SubSeq(data, 1, n)
           k  == b.index
           p  == Joined(b.list, k)
<1>1. /\ b \in List /\ b.list \in Seq(Slot) /\ k \in Nat /\ Len(b.list) \in Nat
      /\ k \in 0..Len(b.list) /\ k < Len(b.list)
  BY LenProperties DEF Good, List
<1>2. /\ k + 1 \in 1..Len(b.list) /\ c = b.list[k + 1] /\ c \in Slot
  BY CurrentSlot
<1>3. n \in 0..Len(data)
  BY AddToCurrentGood
<1>4. d \in Seq(Byte)
  <2>1. Len(data) \in Nat /\ \A i \in 1..n : data[i] \in Byte
    BY <1>3, LenProperties, ElementOfSeq
  <2> QED BY <1>3, <2>1, SubSeqProperties
<1>5. c.bytes \in Seq(Byte) /\ p \in Seq(Byte)
  <2>1. c.bytes \in Seq(Byte)
    BY <1>2 DEF Slot
  <2>2. p \in Seq(Byte)
    BY <1>1, JoinedBytes
  <2> QED BY <2>1, <2>2
<1>6. /\ b2.list = [b.list EXCEPT ![k + 1] = [c EXCEPT !.bytes = c.bytes \o d]]
      /\ b2.index = k
  BY <1>1, <1>2 DEF AddToCurrent, List
<1> HIDE DEF c, d, n, b2, p
<1>7. /\ b2.list[k + 1].bytes = c.bytes \o d
      /\ \A i \in 1..k : b2.list[i].bytes = b.list[i].bytes
  <2>1. DOMAIN b.list = 1..Len(b.list)
    BY <1>1, LenProperties
  <2>2. b2.list[k + 1] = [c EXCEPT !.bytes = c.bytes \o d]
    BY <1>2, <1>6, <2>1
  <2>3. b2.list[k + 1].bytes = c.bytes \o d
    BY <1>2, <2>2 DEF Slot
  <2>4. \A i \in 1..k : i \in DOMAIN b.list /\ i # k + 1
    BY <1>1, <2>1
  <2> QED BY <1>6, <2>3, <2>4
<1>8. Joined(b2.list, k) = p
  BY <1>1, <1>7, JoinedSame DEF p
<1>9. Held(b2) = p \o (c.bytes \o d)
  <2>1. Joined(b2.list, k + 1) = Joined(b2.list, k) \o b2.list[k + 1].bytes
    BY <1>1, JoinedStep
  <2> QED BY <1>6, <1>7, <1>8, <2>1 DEF Held
<1>10. Held(b) = p \o c.bytes
  <2>1. Joined(b.list, k + 1) = Joined(b.list, k) \o b.list[k + 1].bytes
    BY <1>1, JoinedStep
  <2> QED BY <1>2, <2>1 DEF Held, p
<1>11. (p \o c.bytes) \o d = p \o (c.bytes \o d)
  BY <1>4, <1>5, BytesAssociate
<1> QED BY <1>9, <1>10, <1>11 DEF b2, d, n

\* Wherever the blocks end, all of the chunk is appended.
LEMMA FilledHolds ==
  ASSUME NEW b, Good(b), NEW data \in Seq(Byte), Len(data) > 0, Len(data) <= b.block_size
  PROVE  Held(Filled(b, data)) = Held(b) \o data
<1> DEFINE n      == Len(data)
           first  == IF b.index = -1 THEN NextBuffer(b) ELSE b
           copied == Copied(Current(first), n)
           begun  == AddToCurrent(first, data)
           next   == IF NeedsNext(Current(first), n) THEN NextBuffer(begun) ELSE begun
           rest   == Rest(data, copied)
           filled == IF copied = n THEN next ELSE AddToCurrent(next, rest)
<1>1. /\ b.index \in Int /\ b.index >= -1 /\ b.block_size \in Nat /\ n \in Nat /\ n > 0
  BY LenProperties DEF Good, List
<1>2. /\ Good(first) /\ first.index >= 0 /\ first.block_size = b.block_size
      /\ Held(first) = Held(b)
  <2>1. CASE b.index = -1
    <3>1. ~(b.index >= 0)
      BY <2>1
    <3>2. Good(NextBuffer(b)) /\ NextBuffer(b).index = 0 /\ Held(NextBuffer(b)) = Held(b)
          /\ NextBuffer(b).block_size = b.block_size
      BY <2>1, <3>1, NextBufferGood, NextBufferHolds
    <3> QED BY <2>1, <3>2
  <2>2. CASE b.index # -1
    BY <1>1, <2>2
  <2> QED BY <2>1, <2>2
<1> HIDE DEF first
<1>3. /\ copied \in 0..n
      /\ Good(begun) /\ begun.index = first.index /\ begun.index >= 0
      /\ begun.block_size = b.block_size
      /\ copied # n => IsFull(Current(begun))
  BY <1>2, AddToCurrentGood
<1>4. Held(begun) = Held(b) \o SubSeq(data, 1, copied)
  BY <1>2, AddToCurrentHolds
<1>5. NeedsNext(Current(first), n) <=> copied # n
  BY DEF NeedsNext
<1> HIDE DEF copied, begun
<1>6. Held(Filled(b, data)) = Held(filled)
  <2>1. Filled(b, data) = [filled EXCEPT !.used = UsedByAll(filled.used, copied, n)]
    BY DEF Filled, first, copied, begun
  <2>2. filled \in List
    <3>1. CASE copied = n
      BY <1>3, <1>5, <3>1 DEF Good
    <3>2. CASE copied # n
      <4>1. Good(next) /\ next.index >= 0
        <5>1. next = NextBuffer(begun)
          BY <1>5, <3>2
        <5>2. begun.index \in Int /\ begun.index + 1 >= 0
          BY <1>3 DEF Good, List
        <5> HIDE DEF next
        <5> QED BY <1>3, <3>2, <5>1, <5>2, NextBufferGood
      <4>2. rest \in Seq(Byte) /\ Len(rest) > 0
        BY <1>1, <1>3, <3>2, SubSeqProperties DEF Rest
      <4> QED BY <3>2, <4>1, <4>2, AddToCurrentGood DEF Good
    <3> QED BY <3>1, <3>2
  <2> HIDE DEF filled
  <2> QED BY <2>1, <2>2 DEF Held, List
<1>7. CASE copied = n
  <2>1. filled = begun
    BY <1>5, <1>7
  <2>2. SubSeq(data, 1, n) = data
    BY SubSeqFull
  <2> QED BY <1>4, <1>6, <1>7, <2>1, <2>2
<1>8. CASE copied # n
  <2>1. next = NextBuffer(begun) /\ filled = AddToCurrent(next, rest)
    BY <1>5, <1>8
  <2> HIDE DEF next, filled
  <2>2. /\ Good(next) /\ next.index >= 0 /\ Current(next) = Block(b.block_size)
        /\ Held(next) = Held(begun)
    <3>1. begun.index \in Int
      BY <1>3 DEF Good, List
    <3> QED BY <1>3, <1>8, <2>1, <3>1, NextBufferGood, NextBufferHolds
  <2>3. rest \in Seq(Byte) /\ Len(rest) = n - copied
    BY <1>1, <1>3, SubSeqProperties DEF Rest
  <2> DEFINE s == SubSeq(data, 1, copied)
  <2>4. s \in Seq(Byte) /\ s \o rest = data
    <3>1. s \in Seq(Byte)
      BY <1>1, <1>3, SubSeqProperties
    <3>2. 1 \in 1..(n + 1) /\ copied \in (1 - 1)..n /\ n \in copied..n
      BY <1>1, <1>3
    <3>3. SubSeq(data, 1, copied) \o SubSeq(data, copied + 1, n) = SubSeq(data, 1, n)
      BY <3>2, ConcatAdjacentSubSeq
    <3> QED BY <3>1, <3>3, SubSeqFull DEF Rest
  <2> HIDE DEF rest, s
  <2>5. Copied(Current(next), Len(rest)) = Len(rest) /\ Len(rest) > 0
    <3>1. Current(next).capacity - Len(Current(next).bytes) = b.block_size
      BY <1>1, <2>2, EmptySeq DEF Block
    <3>2. Len(rest) <= b.block_size /\ Len(rest) > 0
      BY <1>1, <1>3, <1>8, <2>3
    <3>3. Len(rest) \in Nat
      BY <2>3, LenProperties
    <3>4. Copied(Current(next), Len(rest)) = Least(b.block_size, Len(rest))
      BY <3>1 DEF Copied
    <3> QED BY <1>1, <3>2, <3>3, <3>4 DEF Least
  <2>6. Held(filled) = Held(next) \o rest
    <3>1. Held(filled) = Held(next) \o SubSeq(rest, 1, Len(rest))
      BY <2>1, <2>2, <2>3, <2>5, AddToCurrentHolds
    <3>2. SubSeq(rest, 1, Len(rest)) = rest
      BY <2>3, SubSeqFull
    <3> QED BY <3>1, <3>2
  <2>7. Held(b) \in Seq(Byte)
    BY HeldBytes
  <2>8. (Held(b) \o s) \o rest = Held(b) \o (s \o rest)
    BY <2>3, <2>4, <2>7, BytesAssociate
  <2>9. Held(next) = Held(b) \o s
    BY <1>4, <2>2 DEF s
  <2> QED BY <1>6, <2>4, <2>6, <2>8, <2>9
<1> QED BY <1>7, <1>8
-------------------------------------------------------------------------------
\* A list that was just created is well-formed and empty.
LEMMA InitIInv == Init => IInv
<1> SUFFICES ASSUME Init PROVE IInv
  OBVIOUS
<1> DEFINE l == [i \in 1..Slots |-> Null]
<1>1. BlockSize \in Nat /\ BlockSize > 0 /\ Slots \in Nat /\ Slots > 0
  BY BufferListAssumption
<1>2. Null \in Slot
  BY EmptySeq DEF Null, Slot
<1>3. l \in Seq(Slot) /\ Len(l) = Slots
  BY <1>1, <1>2, IsASeq, LenProperties
<1>4. \A i \in 1..Slots : l[i] = Null
  OBVIOUS
<1> HIDE DEF l
<1>5. bufferlist = [list |-> l, index |-> -1, block_size |-> BlockSize,
                    used |-> 0, size |-> 0]
  BY DEF Init, l
<1>6. Good(bufferlist)
  BY <1>1, <1>3, <1>4, <1>5 DEF Good, List
<1> QED BY <1>5, <1>6 DEF Init, IInv, Room, BlockFollowsDemand

\* Adding a chunk keeps the invariant, whatever blocks it needs.
LEMMA AddIInv ==
  ASSUME IInv, NEW data \in Chunks, Add(data)
  PROVE  IInv'
<1> DEFINE n == Len(data)
           size == bufferlist.block_size
<1>1. data \in Seq(Byte) /\ n \in Nat /\ n > 0
  BY BufferListAssumption, LenProperties
<1>2. /\ Good(bufferlist) /\ size \in Nat /\ size > 0 /\ longest \in Nat
      /\ bufferlist.used \in Nat
  BY DEF IInv, Good, List
<1>3. PICK s \in size..(2 * (size + n)) :
        /\ GrownTo(size, n, s)
        /\ bufferlist' = Filled([bufferlist EXCEPT !.block_size = s], data)
  BY DEF Add
<1>4. longest' = Larger(longest, n) /\ heap' = heap
  BY DEF Add
<1> DEFINE b == [bufferlist EXCEPT !.block_size = s]
<1>5. /\ Good(b) /\ Room(b) = Room(bufferlist) /\ b.block_size = s
      /\ b.index = bufferlist.index /\ b.used = bufferlist.used
      /\ b.size = bufferlist.size /\ b.list = bufferlist.list
  BY <1>1, <1>2, SizedGood
<1>6. n <= s
  BY <1>3 DEF GrownTo
<1> HIDE DEF b
<1>7. b.index >= 0 => Current(b).bytes # <<>>
  BY <1>5 DEF IInv, Current
<1>8. b.size - b.used = Room(b)
  BY <1>5 DEF IInv
<1>9. /\ Good(bufferlist')
      /\ bufferlist'.index >= 0 => Current(bufferlist').bytes # <<>>
      /\ bufferlist'.size - bufferlist'.used = Room(bufferlist')
      /\ bufferlist'.block_size = s
  <2>1. bufferlist' = Filled(b, data)
    BY <1>3 DEF b
  <2> QED BY <1>1, <1>5, <1>6, <1>7, <1>8, <2>1, FilledGood
<1>10. BlockFollowsDemand'
  <2>1. CASE s = size
    BY <1>1, <1>2, <1>4, <1>9, <2>1 DEF IInv, BlockFollowsDemand, Larger
  <2>2. CASE s \div 2 < n
    <3>1. s < 2 * n
      BY <1>1, <1>2, <1>3, <2>2
    <3> QED BY <1>1, <1>2, <1>3, <1>4, <1>9, <3>1 DEF BlockFollowsDemand, Larger
  <2> QED BY <1>3, <2>1, <2>2 DEF GrownTo
<1>11. longest' \in Nat
  BY <1>1, <1>2, <1>4 DEF Larger
<1> QED BY <1>4, <1>9, <1>10, <1>11 DEF IInv, Room, Current

\* Every call on the list keeps the invariant.
LEMMA NextIInv == IInv /\ [Next]_vars => IInv'
<1> SUFFICES ASSUME IInv, [Next]_vars PROVE IInv'
  OBVIOUS
<1>1. CASE Destroy
  BY <1>1 DEF Destroy, IInv, Room, Current, BlockFollowsDemand
<1>2. CASE \E data \in Chunks : Add(data)
  BY <1>2, AddIInv
<1>3. CASE UNCHANGED vars
  BY <1>3 DEF vars, IInv, Room, Current, BlockFollowsDemand
<1> QED BY <1>1, <1>2, <1>3 DEF Next

\* The invariant holds in every reachable state.
LEMMA AlwaysIInv == Spec => []IInv
  BY InitIInv, NextIInv, PTL DEF Spec

\* The blocks in use, counted as evn_bufferlist_concat counts them.
LEMMA InUseIsUpToIndex ==
  ASSUME IInv
  PROVE  /\ bufferlist.index \in Int
         /\ Len(bufferlist.list) \in Nat
         /\ \A i \in Int : i \in InUse <=> 1 <= i /\ i <= bufferlist.index + 1
         /\ InUse = {} <=> bufferlist.index = -1
<1>1. bufferlist.index \in Int /\ bufferlist.index >= -1 /\ Len(bufferlist.list) \in Nat
  BY LenProperties DEF IInv, Good, List
<1>2. \A i \in Int : i \in InUse <=> 1 <= i /\ i <= bufferlist.index + 1
  BY <1>1 DEF InUse
<1>3. bufferlist.index # -1 => 1 \in InUse
  BY <1>1 DEF InUse
<1>4. bufferlist.index = -1 => InUse = {}
  BY DEF InUse
<1> QED BY <1>1, <1>2, <1>3, <1>4

\* evn_buffer_add never copies past the end of a block, for every block size,
\* list length and sequence of chunks; every slot behind the current is unused.
THEOREM TypeCorrect == Spec => []TypeOK
<1>1. IInv => TypeOK
  <2> SUFFICES ASSUME IInv PROVE TypeOK
    OBVIOUS
  <2>1. bufferlist.index \in -1..(Len(bufferlist.list) - 1)
    BY DEF IInv, Good
  <2>2. \A i \in 1..Len(bufferlist.list) :
          IF i \in InUse
          THEN bufferlist.list[i].data = "block"
               /\ Len(bufferlist.list[i].bytes) <= bufferlist.list[i].capacity
          ELSE bufferlist.list[i] \in {Null, Junk}
    BY InUseIsUpToIndex DEF IInv, Good, Sound
  <2> QED BY <2>1, <2>2 DEF TypeOK, IInv
<1> QED BY <1>1, AlwaysIInv, PTL

\* The blocks are filled in order: none is skipped, left behind with room in it
\* or made before it is needed, wherever chunks end.
THEOREM BlocksAlwaysFilled == Spec => []BlocksAreFilled
<1>1. IInv => BlocksAreFilled
  <2> SUFFICES ASSUME IInv, NEW i \in InUse
               PROVE  \/ Len(bufferlist.list[i].bytes) = bufferlist.list[i].capacity
                      \/ i = bufferlist.index + 1 /\ bufferlist.list[i].bytes # <<>>
    BY DEF BlocksAreFilled
  <2>1. i \in Int /\ 1 <= i /\ i <= bufferlist.index + 1 /\ bufferlist.index \in Int
    BY InUseIsUpToIndex DEF InUse
  <2>2. CASE i = bufferlist.index + 1
    BY <2>1, <2>2 DEF IInv, Current
  <2>3. CASE i # bufferlist.index + 1
    <3>1. i \in 1..bufferlist.index
      BY <2>1, <2>3
    <3> QED BY <3>1 DEF IInv, Good, IsFull
  <2> QED BY <2>2, <2>3
<1> QED BY <1>1, AlwaysIInv, PTL

\* The block size stays below twice the longest chunk, for every workload.
THEOREM BlockAlwaysFollowsDemand == Spec => []BlockFollowsDemand
<1>1. IInv => BlockFollowsDemand
  BY DEF IInv
<1> QED BY <1>1, AlwaysIInv, PTL

\* A chunk is appended to what concat returns, and counted.
LEMMA AddHolds ==
  ASSUME IInv, NEW data \in Chunks, Add(data)
  PROVE  /\ Concat' = Concat \o data
         /\ bufferlist'.used = bufferlist.used + Len(data)
<1>1. data \in Seq(Byte) /\ Len(data) \in Nat /\ Len(data) > 0
  BY BufferListAssumption, LenProperties
<1>2. /\ Good(bufferlist) /\ bufferlist.block_size \in Nat /\ bufferlist.block_size > 0
  BY DEF IInv, Good, List
<1>3. PICK s \in bufferlist.block_size..(2 * (bufferlist.block_size + Len(data))) :
        /\ Len(data) <= s
        /\ bufferlist' = Filled([bufferlist EXCEPT !.block_size = s], data)
  BY DEF Add, GrownTo
<1> DEFINE b == [bufferlist EXCEPT !.block_size = s]
<1>4. /\ Good(b) /\ Room(b) = Room(bufferlist) /\ b.block_size = s
      /\ b.index = bufferlist.index /\ b.used = bufferlist.used
      /\ b.size = bufferlist.size /\ b.list = bufferlist.list
  BY <1>1, <1>2, SizedGood
<1>5. bufferlist' = Filled(b, data)
  BY <1>3
<1> HIDE DEF b
<1>6. bufferlist'.used = bufferlist.used + Len(data)
  <2>1. /\ b.index >= 0 => Current(b).bytes # <<>>
        /\ b.size - b.used = Room(b)
    BY <1>4 DEF IInv, Current
  <2> QED BY <1>1, <1>3, <1>4, <1>5, <2>1, FilledGood
<1>7. Held(bufferlist') = Held(b) \o data
  BY <1>1, <1>3, <1>4, <1>5, FilledHolds
<1>8. Held(b) = Concat /\ Held(bufferlist') = Concat'
  BY <1>4 DEF Held, Concat
<1> QED BY <1>6, <1>7, <1>8

\* Nothing else changes what concat returns.
LEMMA OthersHold ==
  ASSUME Destroy \/ UNCHANGED vars
  PROVE  UNCHANGED <<Concat, bufferlist>>
BY DEF Destroy, vars, Concat

\* A list that was just created holds nothing.
LEMMA InitHolds == Init => Concat = <<>> /\ bufferlist.used = 0
<1> SUFFICES ASSUME Init PROVE Concat = <<>> /\ bufferlist.used = 0
  OBVIOUS
<1>1. bufferlist.index + 1 = 0 /\ bufferlist.used = 0
  BY DEF Init
<1> QED BY <1>1, JoinedStep DEF Concat

\* used counts the bytes that concat returns, for every workload: the buffer it
\* allocates is as long as what it copies into it.
THEOREM CountersAlwaysAgree == Spec => []CountersAgree
<1> DEFINE Counted == Len(Concat) = bufferlist.used
<1>1. Init => Counted
  BY InitHolds, EmptySeq
<1>2. IInv /\ Counted /\ [Next]_vars => Counted'
  <2> SUFFICES ASSUME IInv, Counted, [Next]_vars PROVE Counted'
    OBVIOUS
  <2>1. ASSUME NEW data \in Chunks, Add(data) PROVE Counted'
    <3>1. Concat \in Seq(Byte) /\ data \in Seq(Byte)
      BY HeldBytes, BufferListAssumption DEF IInv, Held, Concat
    <3>2. Len(Concat \o data) = Len(Concat) + Len(data)
      BY <3>1, ConcatProperties
    <3> QED BY <2>1, <3>2, AddHolds
  <2>2. CASE Destroy \/ UNCHANGED vars
    BY <2>2, OthersHold
  <2> QED BY <2>1, <2>2 DEF Next
<1>3. IInv /\ Counted => CountersAgree
  BY InUseIsUpToIndex DEF CountersAgree, RoomAgrees, IInv, Room
<1> QED BY <1>1, <1>2, <1>3, AlwaysIInv, PTL DEF Spec

\* What concat returns is every byte added, in order, wherever blocks end and
\* whenever the list grows: the list implements a queue that nothing leaves.
THEOREM ImplementsByteLog == Spec => IsByteLog
<1>1. Init => Received!Init
  BY InitHolds DEF Received!Init
<1>2. IInv /\ [Next]_vars => [\E data \in Chunks : Received!Add(data)]_Concat
  <2> SUFFICES ASSUME IInv, [Next]_vars
               PROVE  [\E data \in Chunks : Received!Add(data)]_Concat
    OBVIOUS
  <2>1. ASSUME NEW data \in Chunks, Add(data) PROVE Received!Add(data)
    BY <2>1, AddHolds DEF Received!Add
  <2>2. CASE Destroy \/ UNCHANGED vars
    BY <2>2, OthersHold
  <2> QED BY <2>1, <2>2 DEF Next
<1> QED BY <1>1, <1>2, AlwaysIInv, PTL DEF Spec, IsByteLog
===============================================================================
