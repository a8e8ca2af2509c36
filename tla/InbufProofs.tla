----------------------------- MODULE InbufProofs -----------------------------
(***************************************************************************)
(* Safety of evn_inbuf for every chunk size, every set of chunks and every *)
(* number of queued bytes.                                                 *)
(***************************************************************************)
EXTENDS Inbuf, SequenceTheorems, TLAPS

\* "this shouldn't happen, but just in case it does": an empty buffer always
\* starts at the front of its allocation.
EmptyIsRewound == bottom = top => bottom = 0

\* The conjunction of the invariants; it is inductive.
IInv ==
  /\ TypeOK
  /\ SizeAgrees
  /\ bottom <= top
  /\ EmptyIsRewound
  /\ QueuedIsWritten
  /\ CapacityFollowsPeak

-------------------------------------------------------------------------------
\* memcpy into an allocation keeps it an allocation of bytes.
LEMMA StoreType ==
  ASSUME NEW m, NEW old \in Nat, m \in [0..(old - 1) -> Byte \cup {Junk}],
         NEW cap \in Nat, NEW at \in Nat, NEW data \in Seq(Byte)
  PROVE  Store(m, cap, at, data) \in [0..(cap - 1) -> Byte \cup {Junk}]
  BY DEF Store

\* A byte outside the copied range keeps its value; one inside comes from data.
LEMMA StoreValue ==
  ASSUME NEW m, NEW cap \in Nat, NEW at \in Nat, NEW data \in Seq(Byte),
         NEW i \in 0..(cap - 1)
  PROVE  /\ i \in at..(at + Len(data) - 1) =>
              /\ Store(m, cap, at, data)[i] = data[i - at + 1]
              /\ Store(m, cap, at, data)[i] \in Byte
         /\ i \notin at..(at + Len(data) - 1) /\ i \in DOMAIN m =>
              Store(m, cap, at, data)[i] = m[i]
  BY DEF Store

\* The moved bytes fill the front of the fresh allocation.
LEMMA MovedType ==
  ASSUME IInv
  PROVE  /\ Moved(top - bottom, bottom) \in [0..(capacity - 1) -> Byte \cup {Junk}]
         /\ \A i \in 0..(top - bottom - 1) : Moved(top - bottom, bottom)[i] \in Byte
  BY DEF IInv, TypeOK, QueuedIsWritten, Moved
-------------------------------------------------------------------------------
\* A buffer that was just created satisfies the invariant.
LEMMA InitIInv == Init => IInv
  BY InbufAssumption DEF Init, IInv, TypeOK, SizeAgrees, EmptyIsRewound,
     QueuedIsWritten, CapacityFollowsPeak

\* Tossing bytes the kernel has taken keeps the invariant.
LEMMA TossIInv ==
  ASSUME IInv, NEW n \in 0..size, Toss(n)
  PROVE  IInv'
  BY DEF IInv, Toss, TypeOK, SizeAgrees, EmptyIsRewound, QueuedIsWritten,
     CapacityFollowsPeak

\* What every way of adding a chunk relies on.
LEMMA AddFacts ==
  ASSUME IInv, NEW data \in Chunks
  PROVE  /\ data \in Seq(Byte)
         /\ Len(data) \in Nat \ {0}
         /\ top - bottom = size
         /\ (IF top - bottom = 0 THEN 0 ELSE bottom) = bottom
  BY InbufAssumption DEF IInv, TypeOK, SizeAgrees, EmptyIsRewound

\* Adding a chunk keeps the invariant, however room is found for it.
LEMMA AddIInv ==
  ASSUME IInv, NEW data \in Chunks, Add(data)
  PROVE  IInv'
<1> DEFINE n == Len(data)
<1>1. /\ data \in Seq(Byte) /\ n \in Nat \ {0}
      /\ top - bottom = size
      /\ (IF top - bottom = 0 THEN 0 ELSE bottom) = bottom
      /\ bottom + (top - bottom) = top
  BY AddFacts DEF IInv, TypeOK
<1>2. /\ size' = size + n
      /\ peak' = Larger(peak, size + n)
  BY <1>1 DEF Add
<1>3. CASE Fits(n, capacity - top)
  <2>1. /\ mem' = Store(mem, capacity, top, data)
        /\ bottom' = bottom
        /\ top' = top + n
        /\ capacity' = capacity
    BY <1>1, <1>3 DEF Add
  <2>2. TypeOK'
    <3>1. mem' \in [0..(capacity - 1) -> Byte \cup {Junk}]
      BY <1>1, <2>1, StoreType, SMTT(30) DEF IInv, TypeOK
    <3> QED
      BY <1>1, <1>2, <1>3, <2>1, <3>1 DEF IInv, TypeOK, Fits, Larger
  <2>3. QueuedIsWritten'
    <3>1. SUFFICES ASSUME NEW i \in bottom..(top + n - 1)
                   PROVE  Store(mem, capacity, top, data)[i] \in Byte
      BY <1>1, <2>1 DEF QueuedIsWritten, IInv, TypeOK
    <3>2. i \in 0..(capacity - 1) /\ capacity \in Nat /\ top \in Nat
      BY <1>1, <1>3 DEF IInv, TypeOK, Fits
    <3>3. CASE i \in top..(top + n - 1)
      BY <1>1, <3>2, <3>3, StoreValue
    <3>4. CASE i \notin top..(top + n - 1)
      <4>1. i \in bottom..(top - 1) /\ i \in DOMAIN mem
        BY <1>1, <3>2, <3>4 DEF IInv, TypeOK
      <4>2. Store(mem, capacity, top, data)[i] = mem[i]
        BY <1>1, <3>2, <3>4, <4>1, StoreValue, SMTT(30)
      <4> QED BY <4>1, <4>2 DEF IInv, QueuedIsWritten
    <3> QED BY <3>3, <3>4
  <2> QED
    BY <1>1, <1>2, <2>1, <2>2, <2>3 DEF IInv, TypeOK, SizeAgrees,
       EmptyIsRewound, CapacityFollowsPeak, Larger
<1>4. CASE ~Fits(n, capacity - top) /\ Compacts(n, bottom, capacity - top)
  <2> DEFINE m == Moved(size, bottom)
  <2>1. /\ mem' = Store(m, capacity, size, data)
        /\ bottom' = 0
        /\ top' = size + n
        /\ capacity' = capacity
    BY <1>1, <1>4 DEF Add
  <2>2. /\ m \in [0..(capacity - 1) -> Byte \cup {Junk}]
        /\ \A i \in 0..(size - 1) : m[i] \in Byte
        /\ size + n <= capacity
    BY <1>1, <1>4, MovedType DEF Compacts, IInv, TypeOK
  <2>3. TypeOK'
    <3>1. mem' \in [0..(capacity - 1) -> Byte \cup {Junk}]
      BY <1>1, <2>1, <2>2, StoreType DEF IInv, TypeOK
    <3> QED
      BY <1>1, <1>2, <2>1, <2>2, <3>1 DEF IInv, TypeOK, Larger
  <2>4. QueuedIsWritten'
    <3>1. SUFFICES ASSUME NEW i \in 0..(size + n - 1)
                   PROVE  Store(m, capacity, size, data)[i] \in Byte
      BY <1>1, <2>1 DEF QueuedIsWritten, IInv, TypeOK
    <3>2. i \in 0..(capacity - 1) /\ capacity \in Nat /\ size \in Nat
      BY <1>1, <2>2 DEF IInv, TypeOK
    <3>3. CASE i \in size..(size + n - 1)
      BY <1>1, <3>2, <3>3, StoreValue
    <3>4. CASE i \notin size..(size + n - 1)
      <4>1. i \in 0..(size - 1) /\ i \in DOMAIN m
        BY <1>1, <2>2, <3>2, <3>4
      <4>2. Store(m, capacity, size, data)[i] = m[i]
        BY <1>1, <3>2, <3>4, <4>1, StoreValue, SMTT(30)
      <4> QED BY <2>2, <4>1, <4>2
    <3> QED BY <3>3, <3>4
  <2> QED
    BY <1>1, <1>2, <2>1, <2>3, <2>4 DEF IInv, TypeOK, SizeAgrees,
       EmptyIsRewound, CapacityFollowsPeak, Larger
<1>5. CASE ~Fits(n, capacity - top) /\ ~Compacts(n, bottom, capacity - top)
  <2>1. PICK c \in (2 * capacity)..(2 * (capacity + n)) :
          /\ GrownTo(c, n, top)
          /\ mem' = Store(mem, c, top, data)
          /\ bottom' = bottom
          /\ top' = top + n
          /\ capacity' = c
    BY <1>1, <1>5 DEF Add
  <2>2. /\ c \in Nat \ {0} /\ c >= 2 * capacity
        /\ top + n <= c
        /\ c = 2 * capacity \/ n > (c \div 2) - top
    BY <1>1, <2>1 DEF GrownTo, IInv, TypeOK
  <2>3. TypeOK'
    <3>1. mem' \in [0..(c - 1) -> Byte \cup {Junk}]
      BY <1>1, <2>1, <2>2, StoreType, SMTT(30) DEF IInv, TypeOK
    <3> QED
      BY <1>1, <1>2, <2>1, <2>2, <3>1 DEF IInv, TypeOK, Larger
  <2>4. QueuedIsWritten'
    <3>1. SUFFICES ASSUME NEW i \in bottom..(top + n - 1)
                   PROVE  Store(mem, c, top, data)[i] \in Byte
      BY <1>1, <2>1 DEF QueuedIsWritten, IInv, TypeOK
    <3>2. i \in 0..(c - 1) /\ c \in Nat /\ top \in Nat
      BY <1>1, <2>2 DEF IInv, TypeOK
    <3>3. CASE i \in top..(top + n - 1)
      BY <1>1, <3>2, <3>3, StoreValue
    <3>4. CASE i \notin top..(top + n - 1)
      <4>1. i \in bottom..(top - 1) /\ i \in DOMAIN mem
        BY <1>1, <3>2, <3>4 DEF IInv, TypeOK
      <4>2. Store(mem, c, top, data)[i] = mem[i]
        BY <1>1, <3>2, <3>4, <4>1, StoreValue, SMTT(30)
      <4> QED BY <4>1, <4>2 DEF IInv, QueuedIsWritten
    <3> QED BY <3>3, <3>4
  \* The loop stops before four times the bytes now queued: after one doubling
  \* because they filled more than half of the old allocation, after several
  \* because half of the new one was still too small.
  <2>5. c < 4 * (size + n)
    <3> DEFINE h == capacity \div 2
    <3>1. /\ capacity \in Nat \ {0} /\ bottom \in Nat /\ size \in Nat
          /\ top = bottom + size /\ bottom <= capacity
          /\ h \in Nat /\ 2 * h <= capacity
      BY <1>1 DEF IInv, TypeOK
    <3>2. /\ n > capacity - top
          /\ n > bottom + (capacity - top) \/ bottom < h
      BY <1>1, <1>5, <3>1 DEF Fits, Compacts
    <3> HIDE DEF h
    <3>3. CASE c = 2 * capacity
      BY <1>1, <2>2, <3>1, <3>2, <3>3
    <3>4. CASE c # 2 * capacity
      <4> DEFINE g == c \div 2
      <4>1. g \in Nat /\ g >= capacity /\ 2 * g <= c /\ c <= 2 * g + 1 /\ n > g - top
        BY <2>2, <3>1, <3>4
      <4> HIDE DEF g
      <4> QED BY <1>1, <2>2, <3>1, <3>2, <4>1
    <3> QED BY <3>3, <3>4
  <2> QED
    BY <1>1, <1>2, <2>1, <2>2, <2>3, <2>4, <2>5, SMTT(30) DEF IInv, TypeOK, SizeAgrees,
       EmptyIsRewound, CapacityFollowsPeak, Larger
<1> QED BY <1>3, <1>4, <1>5

-------------------------------------------------------------------------------
\* Every call on the buffer keeps the invariant.
LEMMA NextIInv == IInv /\ [Next]_vars => IInv'
<1> SUFFICES ASSUME IInv, [Next]_vars PROVE IInv'
  OBVIOUS
<1>1. ASSUME NEW data \in Chunks, Add(data) PROVE IInv'
  BY <1>1, AddIInv
<1>2. ASSUME NEW n \in 0..size, Toss(n) PROVE IInv'
  BY <1>2, TossIInv
<1>3. CASE UNCHANGED vars
  BY <1>3 DEF vars, IInv, TypeOK, SizeAgrees, EmptyIsRewound, QueuedIsWritten,
     CapacityFollowsPeak
<1> QED BY <1>1, <1>2, <1>3 DEF Next

\* The invariant holds in every reachable state.
LEMMA AlwaysIInv == Spec => []IInv
  BY InitIInv, NextIInv, PTL DEF Spec

\* Pointers never leave the allocation: evn_inbuf_add never copies past it.
THEOREM TypeCorrect == Spec => []TypeOK
<1>1. IInv => TypeOK
  BY DEF IInv
<1> QED BY <1>1, AlwaysIInv, PTL

\* The size field agrees with the pointers, so no chunk is ever refused.
THEOREM SizeAlwaysAgrees == Spec => []SizeAgrees
<1>1. IInv => SizeAgrees
  BY DEF IInv
<1> QED BY <1>1, AlwaysIInv, PTL

\* Only bytes that callers added are ever handed to send.
THEOREM QueuedAlwaysWritten == Spec => []QueuedIsWritten
<1>1. IInv => QueuedIsWritten
  BY DEF IInv
<1> QED BY <1>1, AlwaysIInv, PTL

\* Memory stays below four times the peak of the queue, for every workload.
THEOREM CapacityAlwaysFollowsPeak == Spec => []CapacityFollowsPeak
<1>1. IInv => CapacityFollowsPeak
  BY DEF IInv
<1> QED BY <1>1, AlwaysIInv, PTL
-------------------------------------------------------------------------------
(***************************************************************************)
(* Inbuf implements ByteQueue.                                             *)
(***************************************************************************)

\* n bytes of the allocation m, from offset b on: what evn_inbuf_peek returns.
Window(m, b, n) == [i \in 1..n |-> m[b + i - 1]]

\* They were all written by callers.
Written(m, b, n) == \A i \in b..(b + n - 1) : m[i] \in Byte

\* m is an allocation of old bytes.
Allocation(m, old) == m \in [0..(old - 1) -> Byte \cup {Junk}]

\* The n bytes of m2 from b2 on are those of m from b on, and data lies behind.
Extends(m, b, n, m2, b2, data) ==
  /\ \A i \in 0..(n - 1) : m2[b2 + i] = m[b + i]
  /\ \A i \in 0..(Len(data) - 1) : m2[b2 + n + i] = data[i + 1]

\* The length and elements of a window.
LEMMA WindowType ==
  ASSUME NEW m, NEW b \in Int, NEW n \in Nat, Written(m, b, n)
  PROVE  /\ Window(m, b, n) \in Seq(Byte)
         /\ Len(Window(m, b, n)) = n
         /\ \A i \in 1..n : Window(m, b, n)[i] = m[b + i - 1]
<1>1. \A i \in 1..n : m[b + i - 1] \in Byte
  BY DEF Written
<1>2. Window(m, b, n) \in [1..n -> Byte]
  BY <1>1 DEF Window
<1>3. Window(m, b, n) \in Seq(Byte) /\ DOMAIN Window(m, b, n) = 1..n
  BY <1>2, SeqDef
<1>4. Len(Window(m, b, n)) = n
  BY <1>3, LenProperties
<1> QED BY <1>3, <1>4 DEF Window

\* The queued bytes are the window from bottom to top.
LEMMA QueueIsWindow ==
  ASSUME IInv
  PROVE  /\ Peek(size) = Window(mem, bottom, size)
         /\ size \in Nat /\ bottom \in Nat /\ bottom + size = top
         /\ Written(mem, bottom, size)
<1>1. size \in Nat /\ bottom \in Nat /\ bottom + size = top
  BY DEF IInv, TypeOK, SizeAgrees
<1> QED BY <1>1 DEF IInv, QueuedIsWritten, Peek, Window, Written

\* A window that keeps the old bytes and has data behind them is the old
\* window with data appended.
LEMMA WindowAppend ==
  ASSUME NEW m, NEW b \in Int, NEW n \in Nat, Written(m, b, n),
         NEW data \in Seq(Byte), NEW m2, NEW b2 \in Int,
         Extends(m, b, n, m2, b2, data)
  PROVE  Window(m2, b2, n + Len(data)) = Window(m, b, n) \o data
<1> DEFINE k == Len(data)
           s == Window(m, b, n)
           t == Window(m2, b2, n + k)
<1>1. k \in Nat /\ \A i \in 1..k : data[i] \in Byte
  BY LenProperties, ElementOfSeq
<1>2. s \in Seq(Byte) /\ Len(s) = n /\ \A i \in 1..n : s[i] = m[b + i - 1]
  BY WindowType
<1>3. \A i \in 1..(n + k) :
        m2[b2 + i - 1] = IF i <= n THEN m[b + i - 1] ELSE data[i - n]
  <2>1. TAKE i \in 1..(n + k)
  <2>2. CASE i <= n
    <3>1. i - 1 \in 0..(n - 1) /\ b2 + (i - 1) = b2 + i - 1 /\ b + (i - 1) = b + i - 1
      BY <2>2
    <3> QED BY <2>2, <3>1 DEF Extends
  <2>3. CASE i > n
    <3>1. /\ i - n - 1 \in 0..(k - 1) /\ b2 + n + (i - n - 1) = b2 + i - 1
          /\ (i - n - 1) + 1 = i - n /\ ~(i <= n)
      BY <1>1, <2>3
    <3> QED BY <3>1 DEF Extends
  <2> QED BY <2>2, <2>3
<1>4. Written(m2, b2, n + k)
  <2> SUFFICES \A i \in b2..(b2 + (n + k) - 1) : m2[i] \in Byte
    BY DEF Written
  <2>1. TAKE i \in b2..(b2 + (n + k) - 1)
  <2>2. (i - b2 + 1) \in 1..(n + k) /\ b2 + (i - b2 + 1) - 1 = i
    BY <1>1
  <2>3. m2[i] = IF i - b2 + 1 <= n THEN m[b + (i - b2 + 1) - 1] ELSE data[(i - b2 + 1) - n]
    BY <1>3, <2>2
  <2>4. CASE i - b2 + 1 <= n
    <3>1. b + (i - b2 + 1) - 1 \in b..(b + n - 1)
      BY <2>2, <2>4
    <3> QED BY <2>3, <2>4, <3>1 DEF Written
  <2>5. CASE ~(i - b2 + 1 <= n)
    <3>1. (i - b2 + 1) - n \in 1..k
      BY <1>1, <2>2, <2>5
    <3> QED BY <1>1, <2>3, <2>5, <3>1
  <2> QED BY <2>4, <2>5
<1>5. t \in Seq(Byte) /\ Len(t) = n + k /\ \A i \in 1..(n + k) : t[i] = m2[b2 + i - 1]
  <2>1. n + k \in Nat
    BY <1>1
  <2> QED BY <1>4, <2>1, WindowType
<1>6. /\ s \o data \in Seq(Byte) /\ Len(s \o data) = n + k
      /\ \A i \in 1..(n + k) : (s \o data)[i] = IF i <= n THEN s[i] ELSE data[i - n]
  <2> HIDE DEF s
  <2>1. /\ s \o data \in Seq(Byte) /\ Len(s \o data) = Len(s) + Len(data)
        /\ \A i \in 1..(Len(s) + Len(data)) :
             (s \o data)[i] = IF i <= Len(s) THEN s[i] ELSE data[i - Len(s)]
    BY <1>2, ConcatProperties
  <2> QED BY <1>2, <2>1
<1>7. \A i \in 1..(n + k) : t[i] = (s \o data)[i]
  <2>1. TAKE i \in 1..(n + k)
  <2>2. i <= n => i \in 1..n
    OBVIOUS
  <2> QED BY <1>2, <1>3, <1>5, <1>6, <2>2
<1> HIDE DEF k, s, t
<1>8. t = s \o data
  BY <1>5, <1>6, <1>7, SeqEqual
<1> QED BY <1>8 DEF k, s, t

\* Storing data behind a kept window, which ends at t, appends it.
LEMMA StoreAppends ==
  ASSUME NEW m, NEW old \in Nat, Allocation(m, old),
         NEW cap \in Nat, NEW b \in Nat, NEW n \in Nat, NEW data \in Seq(Byte),
         NEW t \in Nat, t = b + n, t <= old, t + Len(data) <= cap,
         Written(m, b, n)
  PROVE  Window(Store(m, cap, t, data), b, n + Len(data)) = Window(m, b, n) \o data
<1> DEFINE m2 == Store(m, cap, t, data)
<1>0. Len(data) \in Nat
  BY LenProperties
<1>1. \A i \in 0..(n - 1) : m2[b + i] = m[b + i]
  <2>1. TAKE i \in 0..(n - 1)
  <2>2. PICK j : j = b + i
    OBVIOUS
  <2>3. j \in 0..(cap - 1) /\ j \in DOMAIN m /\ j \notin t..(t + Len(data) - 1)
    BY <1>0, <2>2 DEF Allocation
  <2>4. m2[j] = m[j]
    BY <2>3 DEF Store
  <2> QED BY <2>2, <2>4
<1>2. \A i \in 0..(Len(data) - 1) : m2[b + n + i] = data[i + 1]
  <2>1. TAKE i \in 0..(Len(data) - 1)
  <2>2. PICK j : j = b + n + i
    OBVIOUS
  <2>3. /\ j \in 0..(cap - 1) /\ j \in t..(t + Len(data) - 1)
        /\ j - t + 1 = i + 1
    BY <1>0, <2>2
  <2>4. m2[j] = data[j - t + 1]
    BY <2>3 DEF Store
  <2> QED BY <2>2, <2>3, <2>4
<1> HIDE DEF m2
<1>3. b \in Int /\ Extends(m, b, n, m2, b, data)
  <2>1. Extends(m, b, n, m2, b, data)
    BY <1>1, <1>2, Zenon DEF Extends
  <2> QED BY <2>1
<1>4. Window(m2, b, n + Len(data)) = Window(m, b, n) \o data
  BY <1>3, WindowAppend
<1> QED BY <1>4 DEF m2

\* Moving the queued bytes to the front keeps what is queued.
LEMMA MovedKeeps ==
  ASSUME IInv
  PROVE  Window(Moved(size, bottom), 0, size) = Window(mem, bottom, size)
<1>1. size \in Nat /\ bottom \in Nat /\ size <= capacity /\ capacity \in Nat
  BY DEF IInv, TypeOK, SizeAgrees
<1>2. \A i \in 1..size : Moved(size, bottom)[0 + i - 1] = mem[bottom + i - 1]
  <2>1. TAKE i \in 1..size
  <2>2. /\ 0 + i - 1 \in 0..(capacity - 1) /\ 0 + i - 1 < size
        /\ bottom + (0 + i - 1) = bottom + i - 1
    BY <1>1
  <2> QED BY <2>2 DEF Moved
<1> QED BY <1>2 DEF Window

\* Whichever way room is found, adding a chunk appends it to what is queued.
LEMMA AddAppends ==
  ASSUME IInv, NEW data \in Chunks, Add(data)
  PROVE  Peek(size)' = Peek(size) \o data
<1> DEFINE n == Len(data)
<1>1. /\ data \in Seq(Byte) /\ n \in Nat \ {0}
      /\ top - bottom = size
      /\ (IF top - bottom = 0 THEN 0 ELSE bottom) = bottom
      /\ bottom + (top - bottom) = top
  BY AddFacts DEF IInv, TypeOK
<1>2. /\ Peek(size) = Window(mem, bottom, size)
      /\ size \in Nat /\ bottom \in Nat /\ bottom + size = top
      /\ Written(mem, bottom, size)
      /\ capacity \in Nat /\ top <= capacity
      /\ Allocation(mem, capacity)
  BY QueueIsWindow DEF IInv, TypeOK, Allocation
<1>3. size' = size + n /\ Peek(size)' = Window(mem', bottom', size')
  BY <1>1, <1>2 DEF Add, Peek, Window
<1>4. data \in Seq(Byte)
  BY <1>1
<1>5. \A m : \A old \in Nat, cap \in Nat, b \in Nat, k \in Nat, t \in Nat :
        /\ Allocation(m, old) /\ Written(m, b, k)
        /\ t = b + k /\ t <= old /\ t + Len(data) <= cap
        => Window(Store(m, cap, t, data), b, k + Len(data)) = Window(m, b, k) \o data
  BY <1>4, StoreAppends, SMT
<1>6. CASE Fits(n, capacity - top)
  <2>1. mem' = Store(mem, capacity, top, data) /\ bottom' = bottom
    BY <1>1, <1>2, <1>6 DEF Add
  <2>2. top \in Nat /\ top = bottom + size /\ top <= capacity /\ top + n <= capacity
    BY <1>1, <1>2, <1>6 DEF Fits
  <2>3. Window(Store(mem, capacity, top, data), bottom, size + n)
          = Window(mem, bottom, size) \o data
    <3>1. capacity \in Nat /\ bottom \in Nat /\ size \in Nat /\ top \in Nat
      BY <1>2, <2>2
    <3>2. /\ Allocation(mem, capacity) /\ Written(mem, bottom, size)
          /\ top = bottom + size /\ top <= capacity /\ top + Len(data) <= capacity
      BY <1>2, <2>2
    <3> QED BY <1>5, <3>1, <3>2, SMT
  <2> QED BY <1>2, <1>3, <2>1, <2>3
<1>7. CASE ~Fits(n, capacity - top) /\ Compacts(n, bottom, capacity - top)
  <2> DEFINE m == Moved(size, bottom)
  <2>1. mem' = Store(m, capacity, size, data) /\ bottom' = 0
    BY <1>1, <1>2, <1>7 DEF Add
  <2>2. /\ 0 \in Nat /\ size = 0 + size
        /\ size <= capacity /\ size + n <= capacity
    BY <1>1, <1>2, <1>7 DEF Compacts
  <2>3. /\ Allocation(m, capacity)
        /\ Written(m, 0, size)
    BY <1>1, <1>2, MovedType DEF Written, Allocation
  <2>4. Window(m, 0, size) = Window(mem, bottom, size)
    BY MovedKeeps
  <2> HIDE DEF m
  <2>5. Window(Store(m, capacity, size, data), 0, size + n)
          = Window(m, 0, size) \o data
    BY <1>2, <1>5, <2>2, <2>3
  <2> QED BY <1>2, <1>3, <2>1, <2>4, <2>5
<1>8. CASE ~Fits(n, capacity - top) /\ ~Compacts(n, bottom, capacity - top)
  <2>1. PICK c \in (2 * capacity)..(2 * (capacity + n)) :
          /\ GrownTo(c, n, top)
          /\ mem' = Store(mem, c, top, data)
          /\ bottom' = bottom
    BY <1>1, <1>2, <1>8 DEF Add
  <2>2. /\ c \in Nat /\ top \in Nat /\ top = bottom + size
        /\ top <= capacity /\ top + n <= c
    BY <1>1, <1>2, <2>1 DEF GrownTo
  <2>3. Window(Store(mem, c, top, data), bottom, size + n)
          = Window(mem, bottom, size) \o data
    <3>1. capacity \in Nat /\ c \in Nat /\ bottom \in Nat /\ size \in Nat /\ top \in Nat
      BY <1>2, <2>2
    <3>2. /\ Allocation(mem, capacity) /\ Written(mem, bottom, size)
          /\ top = bottom + size /\ top <= capacity /\ top + Len(data) <= c
      BY <1>2, <2>2
    <3> QED BY <1>5, <3>1, <3>2, SMT
  <2> QED BY <1>2, <1>3, <2>1, <2>3
<1> QED BY <1>6, <1>7, <1>8

\* Tossing drops bytes from the front of what is queued, and no others.
LEMMA TossDrops ==
  ASSUME IInv, NEW n \in 0..size, Toss(n)
  PROVE  Peek(size)' = SubSeq(Peek(size), n + 1, Len(Peek(size)))
<1> DEFINE q == Peek(size)
           r == SubSeq(q, n + 1, size)
           t == Window(mem', bottom', size')
<1>1. /\ q = Window(mem, bottom, size)
      /\ size \in Nat /\ bottom \in Nat /\ bottom + size = top
      /\ Written(mem, bottom, size)
  BY QueueIsWindow
<1>2. q \in Seq(Byte) /\ Len(q) = size /\ \A i \in 1..size : q[i] = mem[bottom + i - 1]
  <2>1. bottom \in Int
    BY <1>1
  <2> QED BY <1>1, <2>1, WindowType
<1>3. /\ mem' = mem /\ size' = size - n /\ size' \in Nat /\ bottom' \in Nat
      /\ size' > 0 => bottom' = bottom + n
  BY <1>1 DEF Toss
<1>4. Peek(size)' = t
  BY <1>3 DEF Peek, Window
<1> HIDE DEF q
<1>5. /\ r \in Seq(Byte) /\ Len(r) = size - n
      /\ \A i \in 1..(size - n) : r[i] = q[n + i]
  <2>1. \A i \in (n + 1)..size : q[i] \in Byte
    BY <1>1, <1>2
  <2>2. /\ r \in Seq(Byte)
        /\ Len(r) = IF n + 1 <= size THEN size - (n + 1) + 1 ELSE 0
        /\ \A i \in 1..(size - (n + 1) + 1) : r[i] = q[(n + 1) + i - 1]
    BY <1>1, <2>1, SubSeqProperties
  <2> HIDE DEF r
  <2>3. Len(r) = size - n /\ size - (n + 1) + 1 = size - n
    BY <1>1, <2>2
  <2>4. \A i \in 1..(size - n) : (n + 1) + i - 1 = n + i
    BY <1>1
  <2> QED BY <2>2, <2>3, <2>4
<1>6. /\ t \in Seq(Byte) /\ Len(t) = size - n
      /\ \A i \in 1..(size - n) : t[i] = mem[bottom' + i - 1]
  <2>1. Written(mem', bottom', size')
    <3> SUFFICES \A i \in bottom'..(bottom' + size' - 1) : mem'[i] \in Byte
      BY DEF Written
    <3>1. TAKE i \in bottom'..(bottom' + size' - 1)
    <3>2. size' > 0
      BY <1>3, <3>1
    <3>3. i \in bottom..(bottom + size - 1)
      BY <1>1, <1>3, <3>1, <3>2
    <3> QED BY <1>1, <1>3, <3>3 DEF Written
  <2>2. bottom' \in Int
    BY <1>3
  <2>3. /\ t \in Seq(Byte) /\ Len(t) = size'
        /\ \A i \in 1..size' : t[i] = mem'[bottom' + i - 1]
    BY <1>3, <2>1, <2>2, WindowType
  <2> HIDE DEF t
  <2> QED BY <1>3, <2>3
<1>7. \A i \in 1..(size - n) : t[i] = r[i]
  <2>1. TAKE i \in 1..(size - n)
  <2>2. size' > 0
    BY <1>3, <2>1
  <2>3. n + i \in 1..size /\ bottom' + i - 1 = bottom + (n + i) - 1
    BY <1>1, <1>3, <2>1, <2>2
  <2> QED BY <1>2, <1>5, <1>6, <2>3
<1> HIDE DEF r, t
<1>8. t = r
  BY <1>5, <1>6, <1>7, SeqEqual
<1> QED BY <1>2, <1>4, <1>8 DEF q, r

\* Every behaviour of the output buffer is one of a FIFO queue: what peek and
\* send see is what was added and not yet tossed, in order, through every way
\* of finding room.
THEOREM ImplementsByteQueue == Spec => IsByteQueue
<1>1. Init => Queue!Init
  <2> SUFFICES ASSUME Init PROVE Peek(size) = <<>>
    BY DEF Queue!Init
  <2> QED BY DEF Init, Peek
<1>2. IInv /\ [Next]_vars => [Queue!Next]_(Peek(size))
  <2> SUFFICES ASSUME IInv, [Next]_vars PROVE [Queue!Next]_(Peek(size))
    OBVIOUS
  <2>1. ASSUME NEW data \in Chunks, Add(data) PROVE Queue!Next
    BY <2>1, AddAppends DEF Queue!Next, Queue!Add
  <2>2. ASSUME NEW n \in 0..size, Toss(n) PROVE Queue!Next
    <3>1. n \in 0..Len(Peek(size))
      <4>1. Len(Peek(size)) = size
        BY QueueIsWindow, WindowType
      <4> QED BY <4>1
    <3> QED BY <2>2, <3>1, TossDrops DEF Queue!Next, Queue!Toss
  <2>3. CASE UNCHANGED vars
    BY <2>3 DEF vars, Peek
  <2> QED BY <2>1, <2>2, <2>3 DEF Next
<1> QED BY <1>1, <1>2, AlwaysIInv, PTL DEF Spec, IsByteQueue, Queue!Spec
===============================================================================
