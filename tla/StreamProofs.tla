----------------------------- MODULE StreamProofs -----------------------------
(***************************************************************************)
(* Safety of a stream for every application, every timeout, every size of  *)
(* the kernel's buffers and every amount of data.                          *)
(***************************************************************************)
EXTENDS Stream, SequenceTheorems, TLAPS

Frames == Callbacks \cup Points

-------------------------------------------------------------------------------
(***************************************************************************)
(* Lemmas about the operators of the model.                                *)
(***************************************************************************)

\* Calling back pushes frames, and so do the points the library goes on at.
LEMMA PushType ==
  ASSUME NEW c \in Callbacks
  PROVE  /\ Call(c) \in Seq(Frames)
         /\ \A rest \in Seq(Frames) : Call(c) \o rest \in Seq(Frames)
         /\ \A p \in Points : Call(c) \o <<p>> \in Seq(Frames)
         /\ \A p \in Points, rest \in Seq(Frames) :
              Call(c) \o <<p>> \o rest \in Seq(Frames)
         /\ \A p, q \in Points, rest \in Seq(Frames) :
              Call(c) \o <<p, q>> \o rest \in Seq(Frames)
<1>1. /\ c \in Frames
      /\ \A p \in Points : p \in Frames
  BY DEF Frames
<1>2. /\ <<c>> \in Seq(Frames) /\ << >> \in Seq(Frames)
      /\ \A p \in Points : <<p>> \in Seq(Frames)
      /\ \A p, q \in Points : <<p, q>> \in Seq(Frames)
  BY <1>1
<1>3. Call(c) \in Seq(Frames)
  BY <1>2 DEF Call
<1>4. /\ \A p \in Points : Call(c) \o <<p>> \in Seq(Frames)
      /\ \A p, q \in Points : Call(c) \o <<p, q>> \in Seq(Frames)
  BY <1>2, <1>3, ConcatProperties
<1> QED BY <1>2, <1>3, <1>4, ConcatProperties

\* Numbered bytes are a sequence of numbers.
LEMMA BytesType ==
  ASSUME NEW m \in Nat, NEW n \in Nat, m <= n
  PROVE  /\ Bytes(m, n) \in Seq(Nat)
         /\ Len(Bytes(m, n)) = n - m
         /\ \A i \in 1..(n - m) : Bytes(m, n)[i] = m + i
<1>1. Bytes(m, n) \in [1..(n - m) -> Nat]
  BY DEF Bytes
<1> QED BY <1>1 DEF Bytes

\* Updates of the records of the model with values of the fields' types: the
\* provers find these facts about values, and not about literals in their place.
LEMMA StreamUpdates ==
  ASSUME NEW s \in Streams
  PROVE  /\ \A h \in {"none", "alive", "freed"} : [s EXCEPT !.heap = h] \in Streams
         /\ \A h \in {"none", "alive", "freed"}, r \in States, o \in BOOLEAN :
              [s EXCEPT !.heap = h, !.ready_state = r, !.oneshot = o] \in Streams
         /\ \A h \in {"none", "alive", "freed"}, out, list \in Seq(Nat), l \in BOOLEAN :
              [s EXCEPT !.heap = h, !.out = out, !.bufferlist = list,
                        !.has_list = l] \in Streams
         /\ \A r \in States : [s EXCEPT !.ready_state = r] \in Streams
         /\ \A l \in BOOLEAN : [s EXCEPT !.has_list = l] \in Streams
         /\ \A out \in Seq(Nat) : [s EXCEPT !.out = out] \in Streams
         /\ \A list \in Seq(Nat) : [s EXCEPT !.bufferlist = list] \in Streams
  BY DEF Streams

\* The same for the io watcher.
LEMMA WatcherUpdates ==
  ASSUME NEW w \in Watchers
  PROVE  /\ \A a \in BOOLEAN : [w EXCEPT !.active = a] \in Watchers
         /\ \A p \in SUBSET {"READ", "WRITE"} : [w EXCEPT !.pending = p] \in Watchers
         /\ \A a \in BOOLEAN, p \in SUBSET {"READ", "WRITE"} :
              [w EXCEPT !.active = a, !.pending = p] \in Watchers
         /\ \A e, p \in SUBSET {"READ", "WRITE"} :
              [w EXCEPT !.events = e, !.pending = p] \in Watchers
         /\ \A a \in BOOLEAN, e, p \in SUBSET {"READ", "WRITE"} :
              [w EXCEPT !.active = a, !.events = e, !.pending = p] \in Watchers
         /\ \A c \in {"none", "on_connect", "on_activity"}, e \in SUBSET {"READ", "WRITE"} :
              [w EXCEPT !.events = e, !.cb = c] \in Watchers
         /\ \A c \in {"none", "on_connect", "on_activity"}, e \in SUBSET {"READ", "WRITE"},
               a \in BOOLEAN :
              [w EXCEPT !.events = e, !.cb = c, !.active = a] \in Watchers
  BY DEF Watchers

\* The same for the kernel's side of the connection.
LEMMA SocketUpdates ==
  ASSUME NEW s \in Sockets
  PROVE  /\ \A b \in BOOLEAN : /\ [s EXCEPT !.open = b] \in Sockets
                              /\ [s EXCEPT !.shut = b] \in Sockets
                              /\ [s EXCEPT !.fin = b] \in Sockets
                              /\ [s EXCEPT !.reset = b] \in Sockets
         /\ \A n \in Nat : /\ [s EXCEPT !.room = n] \in Sockets
                          /\ [s EXCEPT !.arrived = n] \in Sockets
                          /\ [s EXCEPT !.read = n] \in Sockets
         /\ \A wire \in Seq(Nat), n \in Nat :
              [s EXCEPT !.wire = wire, !.room = n] \in Sockets
  BY DEF Sockets

\* The same for the history.
LEMMA LogUpdates ==
  ASSUME NEW g \in Logs
  PROVE  /\ \A n \in Nat : /\ [g EXCEPT !.written = n] \in Logs
                          /\ [g EXCEPT !.ended = n] \in Logs
         /\ \A d \in Seq(Nat) : [g EXCEPT !.delivered = d] \in Logs
         /\ \A n \in Nat, b \in BOOLEAN :
              [g EXCEPT !.closed = n, !.had_error = b] \in Logs
         /\ \A b \in BOOLEAN : [g EXCEPT !.send_failed = b] \in Logs
         /\ \A p \in Points : [g EXCEPT !.ub = p] \in Logs
  BY DEF Logs

\* The same for the timer.
LEMMA TimerUpdates ==
  ASSUME NEW t \in TimerType(Timeouts)
  PROVE  /\ \A b \in BOOLEAN, d \in Int :
              [t EXCEPT !.armed = b, !.due = d] \in TimerType(Timeouts)
         /\ \A b \in BOOLEAN : [t EXCEPT !.active = b] \in TimerType(Timeouts)
         /\ \A i \in Nat : [t EXCEPT !.idle = i] \in TimerType(Timeouts)
         /\ \A i \in Nat, d \in Int :
              [t EXCEPT !.idle = i, !.due = d] \in TimerType(Timeouts)
         /\ \A m \in Timeouts, i \in Nat :
              [t EXCEPT !.timeout = m, !.idle = i] \in TimerType(Timeouts)
  BY DEF TimerType

\* The arithmetic on a timer is on numbers.
LEMMA TimerFields ==
  ASSUME NEW t \in TimerType(Timeouts)
  PROVE  t.timeout \in Nat /\ t.idle \in Nat /\ t.due \in Int
<1>1. t.timeout \in Timeouts \cup {0} /\ t.idle \in Nat /\ t.due \in Int
  BY DEF TimerType
<1>2. \A timeout \in Timeouts \cup {0} : timeout \in Nat
  BY StreamAssumption
<1> QED BY <1>1, <1>2, Zenon

\* Stopping the timer keeps its type.
LEMMA StopType ==
  ASSUME NEW t \in TimerType(Timeouts)
  PROVE  Stop(t) \in TimerType(Timeouts)
<1>1. 0 \in Int /\ 0 \in Nat /\ FALSE \in BOOLEAN
  OBVIOUS
<1> QED BY <1>1, TimerUpdates DEF Stop

\* So does arming it for what is left of the timeout,
LEMMA RearmType ==
  ASSUME NEW t \in TimerType(Timeouts)
  PROVE  Rearm(t) \in TimerType(Timeouts)
<1>1. t.timeout - t.idle \in Int /\ TRUE \in BOOLEAN
  BY TimerFields
<1>2. Again(t, t.timeout - t.idle) \in TimerType(Timeouts)
  BY <1>1, StopType, TimerUpdates DEF Again
<1> QED BY <1>1, <1>2, TimerUpdates DEF Rearm

\* giving up,
LEMMA GiveUpType ==
  ASSUME NEW t \in TimerType(Timeouts)
  PROVE  GiveUp(t) \in TimerType(Timeouts)
  BY StopType, TimerUpdates DEF GiveUp

\* activity,
LEMMA TouchType ==
  ASSUME NEW t \in TimerType(Timeouts)
  PROVE  Touch(t) \in TimerType(Timeouts)
<1>1. [t EXCEPT !.idle = 0] \in TimerType(Timeouts)
  BY TimerUpdates
<1> QED BY <1>1, RearmType DEF Touch

\* configuring it,
LEMMA SetTimeoutType ==
  ASSUME NEW t \in TimerType(Timeouts), NEW timeout \in Timeouts
  PROVE  SetTimeout(t, timeout) \in TimerType(Timeouts)
<1>1. GiveUp(t) \in TimerType(Timeouts)
  BY GiveUpType
<1>2. [GiveUp(t) EXCEPT !.timeout = timeout, !.idle = 0] \in TimerType(Timeouts)
  BY <1>1, TimerUpdates
<1> QED BY <1>1, <1>2, RearmType DEF SetTimeout

\* and the passing of time.
LEMMA TickType ==
  ASSUME NEW t \in TimerType(Timeouts)
  PROVE  Tick(t) \in TimerType(Timeouts)
<1> DEFINE i == IF t.idle > t.timeout THEN t.idle ELSE t.idle + 1
           d == IF t.armed /\ t.due >= 0 THEN t.due - 1 ELSE t.due
<1>1. i \in Nat /\ d \in Int
  BY TimerFields
<1>2. Tick(t) = [t EXCEPT !.idle = i, !.due = d]
  BY DEF Tick
<1> HIDE DEF i, d
<1>3. [t EXCEPT !.idle = i, !.due = d] \in TimerType(Timeouts)
  BY <1>1, TimerUpdates, Zenon
<1> QED BY <1>2, <1>3
-------------------------------------------------------------------------------
(***************************************************************************)
(* The parts of a step.                                                    *)
(***************************************************************************)

\* send() takes a prefix of the data and what is left is queued.
LEMMA SendFacts ==
  ASSUME TypeOK, NEW data \in Seq(Nat)
  PROVE  /\ Taken(data) \in 0..Len(data)
         /\ sock.room - Taken(data) \in Nat
         /\ Unsent(data) \in Seq(Nat)
         /\ Len(Unsent(data)) = Len(data) - Taken(data)
         /\ \A i \in 1..Len(Unsent(data)) : Unsent(data)[i] = data[Taken(data) + i]
         /\ sock.wire \o SubSeq(data, 1, Taken(data)) \in Seq(Nat)
<1>1. sock.room \in Nat /\ sock.wire \in Seq(Nat)
  BY DEF TypeOK, Sockets
<1>2. Len(data) \in Nat /\ \A i \in 1..Len(data) : data[i] \in Nat
  OBVIOUS
<1>3. Taken(data) \in 0..Len(data) /\ sock.room - Taken(data) \in Nat
  BY <1>1, <1>2 DEF Taken, Least
<1>4. SubSeq(data, 1, Taken(data)) \in Seq(Nat)
  BY <1>2, <1>3, SubSeqProperties
<1>5. /\ Unsent(data) \in Seq(Nat)
      /\ Len(Unsent(data)) = Len(data) - Taken(data)
      /\ \A i \in 1..Len(Unsent(data)) : Unsent(data)[i] = data[Taken(data) + i]
  <2> DEFINE m == Taken(data) + 1
             n == Len(data)
  <2>1. m \in Int /\ n \in Int /\ \A i \in m..n : data[i] \in Nat
    BY <1>2, <1>3
  <2>2. /\ SubSeq(data, m, n) \in Seq(Nat)
        /\ Len(SubSeq(data, m, n)) = IF m <= n THEN n - m + 1 ELSE 0
        /\ \A i \in 1..(n - m + 1) : SubSeq(data, m, n)[i] = data[m + i - 1]
    BY <2>1, SubSeqProperties
  <2>3. Len(SubSeq(data, m, n)) = Len(data) - Taken(data) /\ n - m + 1 = Len(data) - Taken(data)
    BY <1>2, <1>3, <2>2
  <2>4. \A i \in 1..(n - m + 1) : m + i - 1 = Taken(data) + i
    BY <1>2, <1>3
  <2> QED BY <2>2, <2>3, <2>4 DEF Unsent
<1> QED BY <1>1, <1>3, <1>4, <1>5, ConcatProperties

\* The kernel's side after a send.
LEMMA SentType ==
  ASSUME TypeOK, NEW data \in Seq(Nat), Sent(data)
  PROVE  sock' \in Sockets /\ sock'.read <= sock'.arrived
<1>1. sock' \in Sockets
  BY SendFacts, SocketUpdates DEF Sent, TypeOK
<1>2. sock'.read = sock.read /\ sock'.arrived = sock.arrived
  BY DEF Sent, TypeOK, Sockets
<1> QED BY <1>1, <1>2 DEF TypeOK

\* The watcher after a change of what it watches.
LEMMA WatchType ==
  ASSUME TypeOK, WatchWrites \/ UnwatchWrites \/ Dispatched
  PROVE  /\ io' \in Watchers
         /\ io'.pending \subseteq io'.events /\ (io'.pending # {} => io'.active)
<1>1. /\ io \in Watchers /\ io.events \in SUBSET {"READ", "WRITE"}
      /\ io.pending \in SUBSET {"READ", "WRITE"} /\ io.pending \subseteq io.events
      /\ (io.pending # {} => io.active)
  BY DEF TypeOK, Watchers
<1>2. CASE WatchWrites
  <2> DEFINE e == io.events \cup {"WRITE"}
             p == IF "WRITE" \in io.events THEN io.pending ELSE {}
  <2>1. e \in SUBSET {"READ", "WRITE"} /\ p \in SUBSET {"READ", "WRITE"} /\ p \subseteq e
    BY <1>1
  <2>2. io' = [io EXCEPT !.active = TRUE, !.events = e, !.pending = p]
    BY <1>2 DEF WatchWrites
  <2> HIDE DEF e, p
  <2>3. io'.active = TRUE /\ io'.events = e /\ io'.pending = p
    BY <1>1, <2>2 DEF Watchers
  <2> QED BY <1>1, <2>1, <2>2, <2>3, WatcherUpdates
<1>3. CASE UnwatchWrites
  <2>1. io' \in Watchers
    BY <1>1, <1>3, WatcherUpdates DEF UnwatchWrites
  <2>2. io'.pending = {}
    BY <1>1, <1>3 DEF UnwatchWrites, Watchers
  <2> QED BY <2>1, <2>2
<1>4. CASE Dispatched
  <2>1. io' \in Watchers
    BY <1>1, <1>4, WatcherUpdates DEF Dispatched
  <2>2. io'.pending = {}
    BY <1>1, <1>4 DEF Dispatched, Watchers
  <2> QED BY <2>1, <2>2
<1> QED BY <1>2, <1>3, <1>4
-------------------------------------------------------------------------------
(***************************************************************************)
(* Every action keeps the types.                                           *)
(***************************************************************************)

\* The frames under the running one.
LEMMA TailType ==
  ASSUME TypeOK, stack # <<>>
  PROVE  Tail(stack) \in Seq(Frames) /\ Head(stack) \in Frames
  BY HeadTailProperties DEF TypeOK, Frames

\* The initial state has the types.
LEMMA InitTypeOK == Init => TypeOK
<1> SUFFICES ASSUME Init PROVE TypeOK
  OBVIOUS
<1>1. stream \in Streams
  BY DEF Init, Streams, States
<1>2. io \in Watchers /\ io.pending = {}
  BY DEF Init, Watchers
<1>3. sock \in Sockets /\ sock.read <= sock.arrived
  BY StreamAssumption DEF Init, Sockets
<1>4. timer \in TimerType(Timeouts)
  BY DEF Init, NoTimer, TimerType
<1>5. log \in Logs
  BY DEF Init, Logs, Points
<1>6. stack \in Seq(Callbacks \cup Points)
  BY EmptySeq DEF Init
<1> QED BY <1>1, <1>2, <1>3, <1>4, <1>5, <1>6 DEF TypeOK

\* A fault only names the point where it happened.
LEMMA FaultType ==
  ASSUME TypeOK, NEW p \in Points, Fault(p)
  PROVE  TypeOK'
<1>1. log' \in Logs
  BY LogUpdates DEF Fault, TypeOK
<1> QED BY <1>1 DEF Fault, TypeOK

\* The watcher after it is started or stopped with nothing pending.
LEMMA StoppedType ==
  ASSUME TypeOK, io' = [io EXCEPT !.active = FALSE, !.pending = {}]
  PROVE  io' \in Watchers /\ io'.pending = {}
<1>1. io' \in Watchers
  BY WatcherUpdates DEF TypeOK
<1>2. io'.pending = {}
  BY DEF TypeOK, Watchers
<1> QED BY <1>1, <1>2

\* evn_stream_destroy up to on_close keeps the types.
LEMMA DestroyType ==
  ASSUME TypeOK, NEW clean \in BOOLEAN, NEW rest \in Seq(Frames),
         Destroy(clean, rest)
  PROVE  TypeOK'
<1>1. stream' \in Streams
  BY StreamUpdates DEF Destroy, TypeOK, States
<1>2. io' \in Watchers /\ io'.pending = {}
  BY StoppedType DEF Destroy
<1>3. sock' \in Sockets /\ sock'.read <= sock'.arrived
  <2>1. sock' \in Sockets
    BY SocketUpdates DEF Destroy, TypeOK
  <2>2. sock'.read = sock.read /\ sock'.arrived = sock.arrived
    BY DEF Destroy, TypeOK, Sockets
  <2> QED BY <2>1, <2>2 DEF TypeOK
<1>4. timer' \in TimerType(Timeouts)
  BY StopType DEF Destroy, TypeOK
<1>5. log' \in Logs
  <2>1. PICK close_failed \in {TRUE, ~sock.open} :
          log' = [log EXCEPT !.closed = log.closed + 1,
                             !.had_error = ~clean \/ close_failed]
    BY DEF Destroy
  <2> DEFINE n == log.closed + 1
             b == ~clean \/ close_failed
  <2>2. n \in Nat /\ b \in BOOLEAN
    BY DEF TypeOK, Logs
  <2>3. log' = [log EXCEPT !.closed = n, !.had_error = b]
    BY <2>1
  <2> HIDE DEF n, b
  <2>4. [log EXCEPT !.closed = n, !.had_error = b] \in Logs
    BY <2>2, LogUpdates DEF TypeOK
  <2> QED BY <2>3, <2>4
<1>6. stack' \in Seq(Frames)
  <2>1. "on_close" \in Callbacks /\ "free" \in Points
    BY DEF Callbacks, Points
  <2> QED BY <2>1, PushType DEF Destroy
<1> QED BY <1>1, <1>2, <1>3, <1>4, <1>5, <1>6 DEF TypeOK, Frames
-------------------------------------------------------------------------------
\* Creation keeps the types.
LEMMA CreationType ==
  ASSUME TypeOK, Accept \/ Accepted \/ Connect \/ ConnectFails \/ Connected
  PROVE  TypeOK'
<1>1. /\ "accepted" \in Points /\ "connected" \in Points
      /\ "on_connection" \in Callbacks
  BY DEF Points, Callbacks
<1>2. stream.oneshot \in BOOLEAN /\ io.pending = io.pending
  BY DEF TypeOK, Streams
<1>3. CASE Accept
  <2>1. stream' \in Streams
    <3>1. PICK oneshot \in Oneshots :
            stream' = [stream EXCEPT !.heap = "alive", !.ready_state = "OPEN",
                                     !.oneshot = oneshot]
      BY <1>3 DEF Accept
    <3>2. oneshot \in BOOLEAN
      BY StreamAssumption
    <3> QED BY <3>1, <3>2, StreamUpdates DEF TypeOK, States
  <2>2. io' \in Watchers
    BY <1>3 DEF Accept, Watchers
  <2>3. io'.pending \subseteq io'.events /\ (io'.pending # {} => io'.active)
    BY <1>3 DEF Accept
  <2>4. sock' \in Sockets /\ sock'.read <= sock'.arrived
    <3>1. sock' \in Sockets
      BY <1>3, SocketUpdates DEF Accept, TypeOK
    <3>2. sock'.read = sock.read /\ sock'.arrived = sock.arrived
      BY <1>3 DEF Accept, TypeOK, Sockets
    <3> QED BY <3>1, <3>2 DEF TypeOK
  <2>5. stack' \in Seq(Frames)
    BY <1>1, <1>3, PushType DEF Accept
  <2> QED BY <1>3, <2>1, <2>2, <2>3, <2>4, <2>5 DEF Accept, TypeOK, Frames
<1>4. CASE Accepted
  <2>1. CASE Fault("accepted")
    BY <1>1, <2>1, FaultType
  <2>2. CASE ~Fault("accepted")
    <3>1. /\ stack # <<>>
          /\ stream' = [stream EXCEPT !.has_list = stream.oneshot]
          /\ io' = [io EXCEPT !.active = TRUE]
          /\ stack' = Tail(stack)
          /\ UNCHANGED <<sock, timer, log>>
      BY <1>4, <2>2 DEF Accepted, At
    <3>2. stream' \in Streams
      BY <1>2, <3>1, StreamUpdates DEF TypeOK
    <3>3. io' \in Watchers
      BY <3>1, WatcherUpdates DEF TypeOK
    <3>4. io'.pending \subseteq io'.events /\ (io'.pending # {} => io'.active)
      BY <3>1 DEF TypeOK, Watchers
    <3> QED BY <3>1, <3>2, <3>3, <3>4, TailType DEF TypeOK, Frames
  <2> QED BY <2>1, <2>2
<1>5. CASE Connect
  <2>1. stream' \in Streams
    <3>1. PICK oneshot \in Oneshots :
            stream' = [stream EXCEPT !.heap = "alive", !.ready_state = "OPENING",
                                     !.oneshot = oneshot]
      BY <1>5 DEF Connect
    <3>2. oneshot \in BOOLEAN
      BY StreamAssumption
    <3> QED BY <3>1, <3>2, StreamUpdates DEF TypeOK, States
  <2>2. io' \in Watchers
    BY <1>5 DEF Connect, Watchers
  <2>3. io'.pending \subseteq io'.events /\ (io'.pending # {} => io'.active)
    BY <1>5 DEF Connect
  <2>4. sock' \in Sockets /\ sock'.read <= sock'.arrived
    <3>1. sock' \in Sockets
      BY <1>5, SocketUpdates DEF Connect, TypeOK
    <3>2. sock'.read = sock.read /\ sock'.arrived = sock.arrived
      BY <1>5 DEF Connect, TypeOK, Sockets
    <3> QED BY <3>1, <3>2 DEF TypeOK
  <2> QED BY <1>5, <2>1, <2>2, <2>3, <2>4 DEF Connect, TypeOK
<1>6. CASE ConnectFails
  BY <1>6, StreamUpdates DEF ConnectFails, TypeOK
<1>7. CASE Connected
  <2>1. CASE Fault("connected")
    BY <1>1, <2>1, FaultType
  <2>2. CASE ~Fault("connected")
    <3>1. /\ stack # <<>>
          /\ stream' = [stream EXCEPT !.has_list = stream.oneshot]
          /\ timer' = Touch(timer)
          /\ stack' = Tail(stack)
          /\ UNCHANGED <<io, sock, log>>
      BY <1>7, <2>2 DEF Connected, At
    <3>2. stream' \in Streams
      BY <1>2, <3>1, StreamUpdates DEF TypeOK
    <3>3. timer' \in TimerType(Timeouts)
      BY <3>1, TouchType DEF TypeOK
    <3> QED BY <3>1, <3>2, <3>3, TailType DEF TypeOK, Frames
  <2> QED BY <2>1, <2>2
<1> QED BY <1>3, <1>4, <1>5, <1>6, <1>7
-------------------------------------------------------------------------------
\* Destruction, and the errors that lead to it, keep the types.
LEMMA DestructionType ==
  ASSUME TypeOK, Free \/ ReadFailed \/ SendFailed
  PROVE  TypeOK'
<1>1. {"free", "read_failed", "send_failed"} \subseteq Points
  BY DEF Points
<1>2. CASE Free
  <2>1. CASE Fault("free")
    BY <1>1, <2>1, FaultType
  <2>2. CASE ~Fault("free")
    <3>1. /\ stack # <<>>
          /\ stream' = [stream EXCEPT !.heap = "freed", !.out = <<>>,
                                      !.bufferlist = <<>>, !.has_list = FALSE]
          /\ stack' = Tail(stack)
          /\ UNCHANGED <<io, sock, timer, log>>
      BY <1>2, <2>2 DEF Free, At
    <3>2. stream' \in Streams
      <4>1. << >> \in Seq(Nat) /\ FALSE \in BOOLEAN
        OBVIOUS
      <4> QED BY <3>1, <4>1, StreamUpdates DEF TypeOK
    <3> QED BY <3>1, <3>2, TailType DEF TypeOK, Frames
  <2> QED BY <2>1, <2>2
<1>3. CASE ReadFailed
  <2>1. CASE Fault("read_failed")
    BY <1>1, <2>1, FaultType
  <2>2. CASE ~Fault("read_failed")
    BY <1>3, <2>2, TailType, DestroyType DEF ReadFailed, At
  <2> QED BY <2>1, <2>2
<1>4. CASE SendFailed
  <2>1. CASE Fault("send_failed")
    BY <1>1, <2>1, FaultType
  <2>2. CASE ~Fault("send_failed")
    BY <1>4, <2>2, TailType, DestroyType DEF SendFailed, At
  <2> QED BY <2>1, <2>2
<1> QED BY <1>2, <1>3, <1>4

\* A failed send keeps the types of what it changes.
LEMMA SendFailsType ==
  ASSUME TypeOK, NEW caller \in Points, SendFails(caller)
  PROVE  stack' \in Seq(Frames) /\ log' \in Logs
<1>1. "on_error" \in Callbacks /\ "send_failed" \in Points
  BY DEF Callbacks, Points
<1>2. stack \in Seq(Frames)
  BY DEF TypeOK, Frames
<1>3. stack' \in Seq(Frames)
  BY <1>1, <1>2, PushType DEF SendFails
<1>4. log' \in Logs
  BY LogUpdates DEF SendFails, TypeOK
<1> QED BY <1>3, <1>4

\* What a write adds.
LEMMA WriteFacts ==
  ASSUME TypeOK, NEW n \in Nat
  PROVE  /\ Bytes(log.written, log.written + n) \in Seq(Nat)
         /\ stream.out \in Seq(Nat)
         /\ stream.out \o Bytes(log.written, log.written + n) \in Seq(Nat)
         /\ [log EXCEPT !.written = log.written + n] \in Logs
<1>1. log.written \in Nat /\ log.written + n \in Nat /\ log.written <= log.written + n
  BY DEF TypeOK, Logs
<1>2. Bytes(log.written, log.written + n) \in Seq(Nat)
  BY <1>1, BytesType
<1>3. stream.out \in Seq(Nat)
  BY DEF TypeOK, Streams
<1>4. [log EXCEPT !.written = log.written + n] \in Logs
  BY <1>1, LogUpdates DEF TypeOK
<1> QED BY <1>2, <1>3, <1>4, ConcatProperties

\* evn_stream_write keeps the types.
LEMMA WriteType ==
  ASSUME TypeOK, NEW n \in Nat, Write(n)
  PROVE  TypeOK'
<1> DEFINE data == Bytes(log.written, log.written + n)
<1>1. data \in Seq(Nat)
  BY WriteFacts
<1>2. CASE stream.ready_state = "READ_ONLY"
  <2>1. stack \in Seq(Frames) /\ "on_error" \in Callbacks
    BY DEF TypeOK, Frames, Callbacks
  <2>2. stack' \in Seq(Frames)
    BY <1>2, <2>1, PushType DEF Write
  <2> QED BY <1>2, <2>2 DEF Write, TypeOK, Frames
<1>3. CASE stream.ready_state # "READ_ONLY"
  <2>1. timer' \in TimerType(Timeouts)
    BY <1>3, TouchType DEF Write, TypeOK
  <2>2. CASE stream.out # <<>>
    <3>1. /\ stream' = [stream EXCEPT !.out = stream.out \o data]
          /\ WatchWrites
          /\ log' = [log EXCEPT !.written = log.written + n]
          /\ UNCHANGED <<sock, stack>>
      BY <1>3, <2>2 DEF Write
    <3>2. stream' \in Streams
      BY <3>1, WriteFacts, StreamUpdates DEF TypeOK
    <3> QED BY <2>1, <3>1, <3>2, WriteFacts, WatchType DEF TypeOK
  <2>3. CASE stream.out = <<>> /\ n # 0 /\ ~CanSend
    <3>1. SendFails("watch_writes") /\ UNCHANGED <<stream, io, sock>>
      BY <1>3, <2>3 DEF Write
    <3>2. "watch_writes" \in Points
      BY DEF Points
    <3> QED BY <2>1, <3>1, <3>2, SendFailsType DEF TypeOK, Frames
  <2>4. CASE stream.out = <<>> /\ ~(n # 0 /\ ~CanSend)
    <3>1. /\ Sent(data)
          /\ stream' = [stream EXCEPT !.out = Unsent(data)]
          /\ WatchWrites \/ UNCHANGED io
          /\ log' = [log EXCEPT !.written = log.written + n]
          /\ UNCHANGED stack
      BY <1>3, <2>4 DEF Write
    <3>2. stream' \in Streams
      BY <1>1, <3>1, SendFacts, StreamUpdates DEF TypeOK
    <3>3. /\ io' \in Watchers
          /\ io'.pending \subseteq io'.events /\ (io'.pending # {} => io'.active)
      BY <3>1, WatchType DEF TypeOK
    <3> HIDE DEF data
    <3> QED BY <1>1, <2>1, <3>1, <3>2, <3>3, WriteFacts, SentType DEF TypeOK
  <2> QED BY <2>2, <2>3, <2>4
<1> QED BY <1>2, <1>3

\* The writable event, and the end of a failed write, keep the types.
LEMMA WritableType ==
  ASSUME TypeOK, OnWritable \/ WatchWritesAfterFailure \/ CheckClosed
  PROVE  TypeOK'
<1>1. {"watch_writes", "check_closed"} \subseteq Points
  BY DEF Points
<1>2. CASE OnWritable
  <2>1. timer' \in TimerType(Timeouts)
    BY <1>2, TouchType DEF OnWritable, TypeOK
  <2>2. CASE stream.out # <<>> /\ ~CanSend
    <3>1. SendFails("check_closed") /\ Dispatched /\ UNCHANGED <<stream, sock>>
      BY <1>2, <2>2 DEF OnWritable
    <3> QED BY <1>1, <2>1, <3>1, SendFailsType, WatchType DEF TypeOK, Frames
  <2>3. CASE ~(stream.out # <<>> /\ ~CanSend)
    <3>1. /\ Sent(stream.out)
          /\ stream' = [stream EXCEPT !.out = Unsent(stream.out)]
          /\ UnwatchWrites \/ Dispatched
          /\ stack' = Call("on_drain") \/ UNCHANGED stack
          /\ UNCHANGED log
      BY <1>2, <2>3 DEF OnWritable
    <3>2. stream.out \in Seq(Nat)
      BY DEF TypeOK, Streams
    <3>3. stream' \in Streams
      BY <3>1, <3>2, SendFacts, StreamUpdates DEF TypeOK
    <3>4. stack' \in Seq(Frames)
      <4>1. "on_drain" \in Callbacks /\ stack \in Seq(Frames)
        BY DEF Callbacks, TypeOK, Frames
      <4> QED BY <3>1, <4>1, PushType
    <3> QED BY <2>1, <3>1, <3>2, <3>3, <3>4, SentType, WatchType DEF TypeOK, Frames
  <2> QED BY <2>2, <2>3
<1>3. CASE WatchWritesAfterFailure
  <2>1. CASE Fault("watch_writes")
    BY <1>1, <2>1, FaultType
  <2>2. CASE ~Fault("watch_writes")
    <3>1. /\ stack # <<>> /\ WatchWrites /\ stack' = Tail(stack)
          /\ UNCHANGED <<stream, sock, timer, log>>
      BY <1>3, <2>2 DEF WatchWritesAfterFailure, At
    <3> QED BY <3>1, WatchType, TailType DEF TypeOK, Frames
  <2> QED BY <2>1, <2>2
<1>4. CASE CheckClosed
  <2>1. CASE Fault("check_closed")
    BY <1>1, <2>1, FaultType
  <2>2. CASE ~Fault("check_closed")
    <3>1. /\ stack # <<>> /\ stack' = Tail(stack)
          /\ UNCHANGED <<stream, io, sock, timer, log>>
      BY <1>4, <2>2 DEF CheckClosed, At
    <3> QED BY <3>1, TailType DEF TypeOK, Frames
  <2> QED BY <2>1, <2>2
<1> QED BY <1>2, <1>3, <1>4
-------------------------------------------------------------------------------
\* A read event keeps the types of what it changes whatever recv returns.
LEMMA ReadEventType ==
  ASSUME TypeOK, ReadEvent
  PROVE  /\ timer' \in TimerType(Timeouts)
         /\ io' \in Watchers
         /\ io'.pending \subseteq io'.events /\ (io'.pending # {} => io'.active)
         /\ stack = << >>
<1>1. timer' \in TimerType(Timeouts)
  BY TouchType DEF ReadEvent, TypeOK
<1> QED BY <1>1, WatchType DEF ReadEvent, InLoop

\* on_data keeps the types of what it changes.
LEMMA DeliverType ==
  ASSUME TypeOK, NEW data \in Seq(Nat), NEW rest \in Seq(Frames),
         Deliver(data, rest)
  PROVE  stack' \in Seq(Frames) /\ log' \in Logs
<1>1. "on_data" \in Callbacks
  BY DEF Callbacks
<1>2. stack' \in Seq(Frames)
  BY <1>1, PushType DEF Deliver
<1>3. log.delivered \o data \in Seq(Nat)
  BY ConcatProperties DEF TypeOK, Logs
<1>4. log' \in Logs
  BY <1>3, LogUpdates DEF Deliver, TypeOK
<1> QED BY <1>2, <1>4

\* What recv returns is a prefix of what has arrived and was not read.
LEMMA UnreadFacts ==
  ASSUME TypeOK
  PROVE  /\ Unread \in Seq(Nat)
         /\ Len(Unread) = sock.arrived - sock.read
         /\ \A n \in 0..Len(Unread) :
              /\ SubSeq(Unread, 1, n) \in Seq(Nat)
              /\ sock.read + n \in Nat /\ sock.read + n <= sock.arrived
<1>1. sock.read \in Nat /\ sock.arrived \in Nat /\ sock.read <= sock.arrived
  BY DEF TypeOK, Sockets
<1>2. /\ Unread \in Seq(Nat)
      /\ Len(Unread) = sock.arrived - sock.read
  BY <1>1, BytesType DEF Unread
<1>3. ASSUME NEW n \in 0..Len(Unread)
      PROVE  SubSeq(Unread, 1, n) \in Seq(Nat)
  <2>1. \A i \in 1..n : Unread[i] \in Nat
    BY <1>2
  <2> QED BY <1>1, <1>2, <2>1, SubSeqProperties
<1>4. \A n \in 0..Len(Unread) :
        sock.read + n \in Nat /\ sock.read + n <= sock.arrived
  BY <1>1, <1>2
<1> QED BY <1>2, <1>3, <1>4

\* The half-close keeps the types.
LEMMA HalfCloseType ==
  ASSUME TypeOK, HalfClose
  PROVE  /\ stream' \in Streams
         /\ io' \in Watchers /\ io'.pending = {}
<1>1. stream' \in Streams
  BY StreamUpdates DEF HalfClose, TypeOK, States
<1>2. io' \in Watchers
  <2>1. io.events \ {"READ"} \in SUBSET {"READ", "WRITE"}
    BY DEF TypeOK, Watchers
  <2> QED BY <2>1, WatcherUpdates DEF HalfClose, TypeOK
<1>3. io'.pending = {}
  BY DEF HalfClose, TypeOK, Watchers
<1> QED BY <1>1, <1>2, <1>3

\* The connect and read events keep the types.
LEMMA InputType ==
  ASSUME TypeOK,
         OnConnect \/ OnData \/ OnReadError \/ OnFin \/ FinEnd \/ FinClose
  PROVE  TypeOK'
<1>1. /\ {"connected", "read_failed", "fin_end", "fin_close"} \subseteq Points
      /\ {"on_connect", "on_error", "on_end"} \subseteq Callbacks
  BY DEF Points, Callbacks
<1>2. CASE OnConnect
  <2>1. stream' \in Streams
    BY <1>2, StreamUpdates DEF OnConnect, TypeOK, States
  <2>2. io' \in Watchers /\ io'.pending = {}
    BY <1>2 DEF OnConnect, Watchers
  <2>3. stack' \in Seq(Frames)
    BY <1>1, <1>2, PushType DEF OnConnect
  <2> QED BY <1>2, <2>1, <2>2, <2>3 DEF OnConnect, TypeOK, Frames
<1>3. CASE OnData
  <2> DEFINE n    == Least(Len(Unread), MaxRecv)
             data == SubSeq(Unread, 1, n)
  <2>1. n \in 0..Len(Unread)
    BY StreamAssumption, UnreadFacts DEF Least
  <2>2. /\ sock' = [sock EXCEPT !.read = sock.read + n]
        /\ \/ /\ stream' = [stream EXCEPT !.bufferlist = stream.bufferlist \o data]
              /\ UNCHANGED <<stack, log>>
           \/ Deliver(data, << >>) /\ UNCHANGED stream
    BY <1>3 DEF OnData
  <2>3. data \in Seq(Nat) /\ sock.read + n \in Nat /\ sock.read + n <= sock.arrived
    BY <2>1, UnreadFacts
  <2> HIDE DEF data, n
  <2>4. sock' \in Sockets /\ sock'.read <= sock'.arrived
    <3>1. sock' \in Sockets
      BY <2>2, <2>3, SocketUpdates DEF TypeOK
    <3>2. sock'.read = sock.read + n /\ sock'.arrived = sock.arrived
      BY <2>2 DEF TypeOK, Sockets
    <3> QED BY <2>3, <3>1, <3>2
  <2>5. CASE /\ stream' = [stream EXCEPT !.bufferlist = stream.bufferlist \o data]
             /\ UNCHANGED <<stack, log>>
    <3>1. stream.bufferlist \o data \in Seq(Nat)
      BY <2>3, ConcatProperties DEF TypeOK, Streams
    <3>2. stream' \in Streams
      BY <2>5, <3>1, StreamUpdates DEF TypeOK
    <3> QED BY <1>3, <2>4, <2>5, <3>2, ReadEventType DEF OnData, TypeOK
  <2>6. CASE Deliver(data, << >>) /\ UNCHANGED stream
    <3>1. << >> \in Seq(Frames)
      OBVIOUS
    <3> QED BY <1>3, <2>3, <2>4, <2>6, <3>1, ReadEventType, DeliverType
            DEF OnData, TypeOK, Frames
  <2> QED BY <2>2, <2>5, <2>6
<1>4. CASE OnReadError
  <2>1. stack' \in Seq(Frames)
    BY <1>1, <1>4, PushType DEF OnReadError
  <2> QED BY <1>4, <2>1, ReadEventType DEF OnReadError, TypeOK, Frames
<1>5. CASE OnFin
  <2>1. <<"fin_end">> \in Seq(Frames)
    BY <1>1 DEF Frames
  <2>2. stream.bufferlist \in Seq(Nat)
    BY DEF TypeOK, Streams
  <2>3. stack' \in Seq(Frames) /\ log' \in Logs
    BY <1>5, <2>1, <2>2, DeliverType DEF OnFin, TypeOK
  <2> QED BY <1>5, <2>3, ReadEventType DEF OnFin, TypeOK, Frames
<1>6. CASE FinEnd
  <2>1. CASE Fault("fin_end")
    BY <1>1, <2>1, FaultType
  <2>2. CASE ~Fault("fin_end")
    <3>1. /\ stack # <<>>
          /\ log' = [log EXCEPT !.ended = log.ended + 1]
          /\ stack' = Call("on_end") \o <<"fin_close">> \o Tail(stack)
          /\ UNCHANGED <<stream, io, sock, timer>>
      BY <1>6, <2>2 DEF FinEnd, At
    <3>2. log' \in Logs
      <4>1. log.ended + 1 \in Nat
        BY DEF TypeOK, Logs
      <4> QED BY <3>1, <4>1, LogUpdates DEF TypeOK
    <3>3. stack' \in Seq(Frames)
      BY <1>1, <3>1, TailType, PushType
    <3> QED BY <3>1, <3>2, <3>3 DEF TypeOK, Frames
  <2> QED BY <2>1, <2>2
<1>7. CASE FinClose
  <2>1. CASE Fault("fin_close")
    BY <1>1, <2>1, FaultType
  <2>2. CASE ~Fault("fin_close") /\ stream.ready_state = "READ_ONLY"
    BY <1>7, <2>2, TailType, DestroyType DEF FinClose, At
  <2>3. CASE ~Fault("fin_close") /\ stream.ready_state # "READ_ONLY"
    <3>1. /\ stack # <<>> /\ HalfClose /\ stack' = Tail(stack)
          /\ UNCHANGED <<sock, timer, log>>
      BY <1>7, <2>3 DEF FinClose, At
    <3> QED BY <3>1, HalfCloseType, TailType DEF TypeOK, Frames
  <2> QED BY <2>1, <2>2, <2>3
<1> QED BY <1>2, <1>3, <1>4, <1>5, <1>6, <1>7
-------------------------------------------------------------------------------
\* The timer's events keep the types.
LEMMA TimingType ==
  ASSUME TypeOK, OnTimer \/ TimedOut \/ TimePasses
  PROVE  TypeOK'
<1>1. "timed_out" \in Points /\ "on_timeout" \in Callbacks
  BY DEF Points, Callbacks
<1>2. CASE OnTimer
  <2>1. timer' \in TimerType(Timeouts)
    BY <1>2, RearmType DEF OnTimer, TypeOK
  <2>2. stack' \in Seq(Frames)
    BY <1>1, <1>2, PushType DEF OnTimer, TypeOK, Frames
  <2> QED BY <1>2, <2>1, <2>2 DEF OnTimer, TypeOK, Frames
<1>3. CASE TimedOut
  <2>1. CASE Fault("timed_out")
    BY <1>1, <2>1, FaultType
  <2>2. CASE ~Fault("timed_out")
    <3>1. /\ stack # <<>> /\ timer' = GiveUp(timer) /\ stack' = Tail(stack)
          /\ UNCHANGED <<stream, io, sock, log>>
      BY <1>3, <2>2 DEF TimedOut, At
    <3> QED BY <3>1, GiveUpType, TailType DEF TypeOK, Frames
  <2> QED BY <2>1, <2>2
<1>4. CASE TimePasses
  BY <1>4, TickType DEF TimePasses, TypeOK
<1> QED BY <1>2, <1>3, <1>4
-------------------------------------------------------------------------------
\* Every call of the application, and the return of a callback, keep the types.
LEMMA CallsType ==
  ASSUME TypeOK, AppWrites \/ AppEnds \/ AppDestroys \/ AppSetsTimeout \/ Return
  PROVE  TypeOK'
<1>1. stack \in Seq(Frames)
  BY DEF TypeOK, Frames
<1>2. CASE AppWrites
  <2>1. PICK n \in 0..(MaxWritten - log.written) : Write(n)
    BY <1>2 DEF AppWrites
  <2>2. n \in Nat
    BY StreamAssumption DEF TypeOK, Logs
  <2> QED BY <2>1, <2>2, WriteType
<1>3. CASE AppEnds
  <2>1. CASE stream.ready_state = "WRITE_ONLY"
    BY <1>1, <1>3, <2>1, DestroyType DEF AppEnds
  <2>2. CASE stream.ready_state # "WRITE_ONLY"
    <3>1. EndOutput /\ UNCHANGED <<io, timer, stack, log>>
      BY <1>3, <2>2 DEF AppEnds
    <3>2. stream' \in Streams
      BY <3>1, StreamUpdates DEF EndOutput, TypeOK, States
    <3>3. sock' \in Sockets
      BY <3>1, SocketUpdates DEF EndOutput, TypeOK
    <3>4. sock'.read = sock.read /\ sock'.arrived = sock.arrived
      BY <3>1 DEF EndOutput, TypeOK, Sockets
    <3> QED BY <3>1, <3>2, <3>3, <3>4 DEF TypeOK
  <2> QED BY <2>1, <2>2
<1>4. CASE AppDestroys
  BY <1>1, <1>4, DestroyType DEF AppDestroys
<1>5. CASE AppSetsTimeout
  <2>1. PICK timeout \in Timeouts : timer' = SetTimeout(timer, timeout)
    BY <1>5 DEF AppSetsTimeout
  <2>2. timer' \in TimerType(Timeouts)
    BY <2>1, SetTimeoutType DEF TypeOK
  <2> QED BY <1>5, <2>2 DEF AppSetsTimeout, TypeOK
<1>6. CASE Return
  BY <1>6, TailType DEF Return, TypeOK, Frames
<1> QED BY <1>2, <1>3, <1>4, <1>5, <1>6

\* The kernel, the peer and the poll keep the types.
LEMMA EnvironmentType ==
  ASSUME TypeOK, Poll \/ PeerSends \/ PeerFins \/ Resets \/ KernelSends
  PROVE  TypeOK'
<1>1. CASE Poll
  <2>1. PICK ready \in SUBSET io.events : io' = [io EXCEPT !.pending = ready]
    BY <1>1 DEF Poll
  <2>2. ready \in SUBSET {"READ", "WRITE"}
    BY DEF TypeOK, Watchers
  <2>3. io' \in Watchers
    BY <2>1, <2>2, WatcherUpdates DEF TypeOK
  <2>4. io'.pending = ready /\ io'.events = io.events /\ io'.active = io.active
    BY <2>1 DEF TypeOK, Watchers
  <2> QED BY <1>1, <2>3, <2>4 DEF Poll, TypeOK
<1>2. CASE PeerSends
  <2>1. PICK n \in 1..(MaxArrived - sock.arrived) :
          sock' = [sock EXCEPT !.arrived = sock.arrived + n]
    BY <1>2 DEF PeerSends, Network
  <2>2. /\ sock.arrived \in Nat /\ sock.read \in Nat /\ sock.read <= sock.arrived
        /\ sock.arrived + n \in Nat /\ sock.read <= sock.arrived + n
    BY StreamAssumption DEF TypeOK, Sockets
  <2>3. sock' \in Sockets
    BY <2>1, <2>2, SocketUpdates DEF TypeOK
  <2>4. sock'.arrived = sock.arrived + n /\ sock'.read = sock.read
    BY <2>1 DEF TypeOK, Sockets
  <2> QED BY <1>2, <2>2, <2>3, <2>4 DEF PeerSends, Network, TypeOK
<1>3. CASE PeerFins \/ Resets
  <2>1. sock' \in Sockets
    BY <1>3, SocketUpdates DEF PeerFins, Resets, Network, TypeOK
  <2>2. sock'.arrived = sock.arrived /\ sock'.read = sock.read
    BY <1>3 DEF PeerFins, Resets, Network, TypeOK, Sockets
  <2> QED BY <1>3, <2>1, <2>2 DEF PeerFins, Resets, Network, TypeOK
<1>4. CASE KernelSends
  <2>1. PICK n \in 1..(SndBuf - sock.room) :
          sock' = [sock EXCEPT !.room = sock.room + n]
    BY <1>4 DEF KernelSends, Network
  <2>2. sock.room + n \in Nat
    BY StreamAssumption DEF TypeOK, Sockets
  <2>3. sock' \in Sockets
    BY <2>1, <2>2, SocketUpdates DEF TypeOK
  <2>4. sock'.arrived = sock.arrived /\ sock'.read = sock.read
    BY <2>1 DEF TypeOK, Sockets
  <2> QED BY <1>4, <2>3, <2>4 DEF KernelSends, Network, TypeOK
<1> QED BY <1>1, <1>2, <1>3, <1>4

\* Every step keeps the types.
LEMMA NextTypeOK == TypeOK /\ [Next]_vars => TypeOK'
<1> SUFFICES ASSUME TypeOK, [Next]_vars PROVE TypeOK'
  OBVIOUS
<1>1. CASE Library
  BY <1>1, CreationType, DestructionType, WritableType, InputType, TimingType,
     EnvironmentType DEF Library
<1>2. CASE Application
  BY <1>2, CreationType, CallsType DEF Application
<1>3. CASE Environment
  BY <1>3, EnvironmentType, TimingType DEF Environment
<1>4. CASE UNCHANGED vars
  BY <1>4 DEF vars, TypeOK
<1> QED BY <1>1, <1>2, <1>3, <1>4 DEF Next

\* The fields of a stream have their types for every application and every
\* peer, libev never holds an event for a watcher that does not watch it, and
\* no byte is read before it arrived.
THEOREM TypeCorrect == Spec => []TypeOK
  BY InitTypeOK, NextTypeOK, PTL DEF Spec
-------------------------------------------------------------------------------
(***************************************************************************)
(* What becomes of the bytes given to evn_stream_write, for every          *)
(* application (the calls it makes, and where it makes them), every peer,  *)
(* every size of the kernel's buffer and every amount of data: they are    *)
(* sent once and in order, and those that are queued have a watcher.       *)
(***************************************************************************)

\* The bytes of s are numbered from m + 1 on.
Numbered(s, m) == \A i \in 1..Len(s) : s[i] = m + i

\* The inductive form of SentInOrder: wire and queue, with what is known of
\* them before the stream exists and after it is freed.
Order ==
  /\ stream.heap # "alive" => stream.out = << >>
  /\ stream.heap = "none" => log.written = 0 /\ sock.wire = << >>
  /\ stream.heap = "alive" => Len(sock.wire) + Len(stream.out) = log.written
  /\ Numbered(sock.wire, 0)
  /\ Numbered(stream.out, Len(sock.wire))
-------------------------------------------------------------------------------
(***************************************************************************)
(* Numbered sequences.                                                     *)
(***************************************************************************)

\* Appending the bytes that follow.
LEMMA AppendNumbered ==
  ASSUME NEW s \in Seq(Nat), NEW t \in Seq(Nat), NEW m \in Nat,
         Numbered(s, m), Numbered(t, m + Len(s))
  PROVE  /\ s \o t \in Seq(Nat)
         /\ Len(s \o t) = Len(s) + Len(t)
         /\ Numbered(s \o t, m)
<1>1. Len(s) \in Nat /\ Len(t) \in Nat
  OBVIOUS
<1>2. /\ s \o t \in Seq(Nat)
      /\ Len(s \o t) = Len(s) + Len(t)
  OBVIOUS
<1>3. ASSUME NEW i \in 1..Len(s \o t)
      PROVE  (s \o t)[i] = m + i
  <2>1. CASE i <= Len(s)
    <3>1. (s \o t)[i] = s[i]
      BY <1>1, <1>2, <2>1
    <3> QED BY <1>1, <2>1, <3>1 DEF Numbered
  <2>2. CASE i > Len(s)
    <3>1. (s \o t)[i] = t[i - Len(s)]
      BY <1>1, <1>2, <2>2
    <3>2. i - Len(s) \in 1..Len(t)
      BY <1>1, <1>2, <2>2
    <3>3. t[i - Len(s)] = m + Len(s) + (i - Len(s))
      BY <3>2 DEF Numbered
    <3> QED BY <1>1, <1>2, <3>1, <3>3
  <2> QED BY <1>1, <1>2, <2>1, <2>2
<1> QED BY <1>2, <1>3 DEF Numbered

\* Cutting off the first k bytes.
LEMMA CutNumbered ==
  ASSUME NEW s \in Seq(Nat), NEW m \in Nat, NEW k \in 0..Len(s), Numbered(s, m)
  PROVE  /\ SubSeq(s, 1, k) \in Seq(Nat) /\ Len(SubSeq(s, 1, k)) = k
         /\ Numbered(SubSeq(s, 1, k), m)
         /\ SubSeq(s, k + 1, Len(s)) \in Seq(Nat)
         /\ Len(SubSeq(s, k + 1, Len(s))) = Len(s) - k
         /\ Numbered(SubSeq(s, k + 1, Len(s)), m + k)
<1>1. Len(s) \in Nat /\ k \in Nat /\ k <= Len(s)
  OBVIOUS
<1>2. /\ SubSeq(s, 1, k) \in Seq(Nat) /\ Len(SubSeq(s, 1, k)) = k
      /\ \A i \in 1..k : SubSeq(s, 1, k)[i] = s[i]
  BY <1>1
<1>3. /\ SubSeq(s, k + 1, Len(s)) \in Seq(Nat)
      /\ Len(SubSeq(s, k + 1, Len(s))) = Len(s) - k
      /\ \A i \in 1..(Len(s) - k) : SubSeq(s, k + 1, Len(s))[i] = s[k + i]
  BY <1>1
<1>4. \A i \in 1..(Len(s) - k) : k + i \in 1..Len(s) /\ m + (k + i) = m + k + i
  BY <1>1
<1> QED BY <1>1, <1>2, <1>3, <1>4 DEF Numbered

\* All the bytes, and nothing else.
LEMMA NumberedIsBytes ==
  ASSUME NEW s \in Seq(Nat), Numbered(s, 0)
  PROVE  s = Bytes(0, Len(s))
<1> DEFINE n == Len(s)
<1>1. n \in Nat /\ 0 <= n /\ n - 0 = n
  OBVIOUS
<1>2. /\ Bytes(0, n) \in Seq(Nat) /\ Len(Bytes(0, n)) = n - 0
      /\ \A i \in 1..(n - 0) : Bytes(0, n)[i] = 0 + i
  BY <1>1, BytesType
<1>3. \A i \in 1..Len(s) : s[i] = Bytes(0, n)[i]
  BY <1>1, <1>2 DEF Numbered
<1> QED BY <1>1, <1>2, <1>3, SeqEqual

\* New data is numbered from what was written before.
LEMMA NewBytes ==
  ASSUME NEW w \in Nat, NEW n \in Nat
  PROVE  /\ Bytes(w, w + n) \in Seq(Nat)
         /\ Len(Bytes(w, w + n)) = n
         /\ Numbered(Bytes(w, w + n), w)
<1> DEFINE m == w + n
<1>1. m \in Nat /\ w <= m /\ m - w = n
  OBVIOUS
<1> HIDE DEF m
<1>2. /\ Bytes(w, m) \in Seq(Nat)
      /\ Len(Bytes(w, m)) = m - w
      /\ \A i \in 1..(m - w) : Bytes(w, m)[i] = w + i
  BY <1>1, BytesType
<1>3. /\ Bytes(w, m) \in Seq(Nat)
      /\ Len(Bytes(w, m)) = n
      /\ Numbered(Bytes(w, m), w)
  BY <1>1, <1>2 DEF Numbered
<1> QED BY <1>3 DEF m
-------------------------------------------------------------------------------
(***************************************************************************)
(* Every action keeps the order.                                           *)
(***************************************************************************)

\* What send() takes goes to the end of the wire and the rest follows it.
LEMMA SendOrder ==
  ASSUME TypeOK, NEW data \in Seq(Nat), Sent(data),
         Numbered(sock.wire, 0), Numbered(data, Len(sock.wire))
  PROVE  /\ Numbered(sock'.wire, 0)
         /\ Numbered(Unsent(data), Len(sock'.wire))
         /\ Len(sock'.wire) + Len(Unsent(data)) = Len(sock.wire) + Len(data)
<1> DEFINE k == Taken(data)
           w == sock.wire
<1>1. w \in Seq(Nat) /\ Len(w) \in Nat /\ 0 + Len(w) = Len(w)
  BY DEF TypeOK, Sockets
<1>2. k \in 0..Len(data)
  BY SendFacts
<1>3. /\ sock'.wire = w \o SubSeq(data, 1, k)
      /\ Unsent(data) = SubSeq(data, k + 1, Len(data))
  BY DEF Sent, Unsent, TypeOK, Sockets
<1>4. Numbered(w, 0) /\ Numbered(data, Len(w))
  OBVIOUS
<1> HIDE DEF k, w
<1>5. /\ SubSeq(data, 1, k) \in Seq(Nat) /\ Len(SubSeq(data, 1, k)) = k
      /\ Numbered(SubSeq(data, 1, k), Len(w))
      /\ Len(SubSeq(data, k + 1, Len(data))) = Len(data) - k
      /\ Numbered(SubSeq(data, k + 1, Len(data)), Len(w) + k)
  BY <1>1, <1>2, <1>4, CutNumbered
<1>6. /\ Len(w \o SubSeq(data, 1, k)) = Len(w) + k
      /\ Numbered(w \o SubSeq(data, 1, k), 0)
  BY <1>1, <1>4, <1>5, AppendNumbered
<1>7. Len(w) + k + (Len(data) - k) = Len(w) + Len(data)
  BY <1>1, <1>2
<1>8. Len(sock.wire) = Len(w)
  BY DEF w
<1> QED BY <1>3, <1>5, <1>6, <1>7, <1>8

\* Nothing that the order speaks of changes.
Kept ==
  /\ stream'.heap = stream.heap /\ stream'.out = stream.out
  /\ sock'.wire = sock.wire /\ log'.written = log.written

\* A step that leaves the output alone keeps its order.
LEMMA KeptOrder == Order /\ Kept => Order'
  BY DEF Order, Kept, Numbered

\* evn_stream_write keeps the order: it queues behind what is queued, and it
\* sends at once only when nothing is.
LEMMA WriteOrder ==
  ASSUME TypeOK, Order, Alive, NEW n \in Nat, Write(n)
  PROVE  Order'
<1> DEFINE data == Bytes(log.written, log.written + n)
<1>1. /\ log.written \in Nat /\ sock.wire \in Seq(Nat) /\ stream.out \in Seq(Nat)
      /\ Len(sock.wire) \in Nat /\ Len(stream.out) \in Nat
  BY DEF TypeOK, Logs, Sockets, Streams
<1>2. /\ data \in Seq(Nat) /\ Len(data) = n /\ Numbered(data, log.written)
  BY <1>1, NewBytes
<1>3. /\ stream.heap = "alive"
      /\ Len(sock.wire) + Len(stream.out) = log.written
      /\ Numbered(sock.wire, 0) /\ Numbered(stream.out, Len(sock.wire))
  BY DEF Order, Alive
<1>4. CASE stream.ready_state = "READ_ONLY"
  BY <1>4, KeptOrder DEF Write, Kept
<1>5. CASE stream.ready_state # "READ_ONLY" /\ stream.out # <<>>
  <2>1. /\ stream' = [stream EXCEPT !.out = stream.out \o data]
        /\ log' = [log EXCEPT !.written = log.written + n]
        /\ UNCHANGED sock
    BY <1>5 DEF Write
  <2>2. /\ stream'.heap = stream.heap /\ stream'.out = stream.out \o data
        /\ log'.written = log.written + n
    BY <2>1 DEF TypeOK, Streams, Logs
  <2> HIDE DEF data
  <2>3. /\ Len(stream.out \o data) = Len(stream.out) + Len(data)
        /\ Numbered(stream.out \o data, Len(sock.wire))
    BY <1>1, <1>2, <1>3, AppendNumbered
  <2>4. sock'.wire = sock.wire /\ stream'.heap = "alive"
    BY <1>3, <2>1, <2>2
  <2>5. Len(sock'.wire) + Len(stream'.out) = log'.written
    <3>1. Len(stream'.out) = Len(stream.out) + n
      BY ONLY <1>2, <2>2, <2>3
    <3>2. Len(sock'.wire) = Len(sock.wire)
      BY ONLY <2>4
    <3>3. /\ Len(sock.wire) + Len(stream.out) = log.written
          /\ log'.written = log.written + n
      BY <1>3, <2>2
    <3>4. Len(sock.wire) + (Len(stream.out) + n) = Len(sock.wire) + Len(stream.out) + n
      <4>1. \A a, b, c \in Nat : a + (b + c) = a + b + c
        OBVIOUS
      <4> QED BY <1>1, <4>1, Zenon
    <3> QED BY <3>1, <3>2, <3>3, <3>4, Zenon
  <2>6. Numbered(sock'.wire, 0) /\ Numbered(stream'.out, Len(sock'.wire))
    BY ONLY <1>3, <2>2, <2>3, <2>4
  <2> QED BY <2>4, <2>5, <2>6 DEF Order
<1>6. CASE stream.ready_state # "READ_ONLY" /\ stream.out = <<>> /\ n # 0 /\ ~CanSend
  <2>1. /\ log' = [log EXCEPT !.send_failed = TRUE]
        /\ UNCHANGED <<stream, sock>>
    BY <1>6 DEF Write, SendFails
  <2>2. Kept
    BY <2>1 DEF Kept, TypeOK, Logs
  <2> QED BY <2>2, KeptOrder
<1>7. CASE stream.ready_state # "READ_ONLY" /\ stream.out = <<>> /\ ~(n # 0 /\ ~CanSend)
  <2>1. /\ Sent(data)
        /\ stream' = [stream EXCEPT !.out = Unsent(data)]
        /\ log' = [log EXCEPT !.written = log.written + n]
    BY <1>7 DEF Write
  <2>2. /\ stream'.heap = stream.heap /\ stream'.out = Unsent(data)
        /\ log'.written = log.written + n
    BY <2>1 DEF TypeOK, Streams, Logs
  <2>3. Len(sock.wire) = log.written
    BY <1>1, <1>3, <1>7
  <2> HIDE DEF data
  <2>4. /\ Numbered(sock'.wire, 0)
        /\ Numbered(Unsent(data), Len(sock'.wire))
        /\ Len(sock'.wire) + Len(Unsent(data)) = Len(sock.wire) + Len(data)
    BY <1>2, <1>3, <2>1, <2>3, SendOrder
  <2> QED BY <1>2, <1>3, <2>2, <2>3, <2>4 DEF Order
<1> QED BY <1>4, <1>5, <1>6, <1>7

\* So does the writable event.
LEMMA WritableOrder ==
  ASSUME TypeOK, Order, OnWritable
  PROVE  Order'
<1>1. /\ sock.wire \in Seq(Nat) /\ stream.out \in Seq(Nat)
      /\ Len(sock.wire) \in Nat /\ Len(stream.out) \in Nat
  BY DEF TypeOK, Sockets, Streams
<1>2. CASE stream.out # <<>> /\ ~CanSend
  <2>1. /\ log' = [log EXCEPT !.send_failed = TRUE]
        /\ UNCHANGED <<stream, sock>>
    BY <1>2 DEF OnWritable, SendFails
  <2>2. Kept
    BY <2>1 DEF Kept, TypeOK, Logs
  <2> QED BY <2>2, KeptOrder
<1>3. CASE ~(stream.out # <<>> /\ ~CanSend)
  <2>1. /\ Sent(stream.out)
        /\ stream' = [stream EXCEPT !.out = Unsent(stream.out)]
        /\ UNCHANGED log
    BY <1>3 DEF OnWritable
  <2>2. stream'.heap = stream.heap /\ stream'.out = Unsent(stream.out)
    BY <2>1 DEF TypeOK, Streams
  <2>3. /\ Numbered(sock'.wire, 0)
        /\ Numbered(stream'.out, Len(sock'.wire))
        /\ Len(sock'.wire) + Len(stream'.out) = Len(sock.wire) + Len(stream.out)
    BY <1>1, <2>1, <2>2, SendOrder DEF Order
  <2>4. stream.out = << >> => stream'.out = << >> /\ sock'.wire = sock.wire
    <3>1. SUFFICES ASSUME stream.out = << >>
                   PROVE  stream'.out = << >> /\ sock'.wire = sock.wire
      OBVIOUS
    <3>2. sock.room \in Nat /\ Len(<< >>) = 0
      BY DEF TypeOK, Sockets
    <3>3. Taken(<< >>) = 0
      BY <3>2 DEF Taken, Least
    <3>4. SubSeq(<< >>, 1, 0) = << >> /\ SubSeq(<< >>, 0 + 1, 0) = << >>
      OBVIOUS
    <3>5. sock'.wire = sock.wire \o << >> /\ stream'.out = << >>
      BY <2>1, <2>2, <3>1, <3>2, <3>3, <3>4 DEF Sent, Unsent, TypeOK, Sockets
    <3> QED BY <1>1, <3>5
  <2> QED BY <2>1, <2>2, <2>3, <2>4 DEF Order
<1> QED BY <1>2, <1>3

\* Before the stream exists nothing was written, and after it nothing is queued.
LEMMA BirthAndDeathOrder ==
  ASSUME TypeOK, Order, Accept \/ Connect \/ ConnectFails \/ Free
  PROVE  Order'
<1>1. << >> \in Seq(Nat) /\ Len(<< >>) = 0
  OBVIOUS
<1>2. CASE Accept \/ Connect
  <2>1. PICK r \in States, o \in BOOLEAN :
          stream' = [stream EXCEPT !.heap = "alive", !.ready_state = r, !.oneshot = o]
    BY <1>2, StreamAssumption DEF Accept, Connect, States
  <2>2. stream'.heap = "alive" /\ stream'.out = stream.out
    BY <2>1 DEF TypeOK, Streams
  <2>3. sock'.wire = sock.wire /\ log' = log /\ stream.heap = "none"
    BY <1>2 DEF Accept, Connect, TypeOK, Sockets
  <2>4. stream'.out = << >> /\ sock'.wire = << >> /\ log'.written = 0
    BY <2>2, <2>3 DEF Order
  <2> QED BY <1>1, <2>2, <2>4 DEF Order, Numbered
<1>3. CASE ConnectFails
  <2>1. /\ stream'.heap = "freed" /\ stream'.out = stream.out
        /\ stream.heap = "none" /\ UNCHANGED <<sock, log>>
    BY <1>3 DEF ConnectFails, TypeOK, Streams
  <2> QED BY <2>1 DEF Order
<1>4. CASE Free
  <2>1. CASE Fault("free")
    <3>1. Kept
      BY <2>1 DEF Fault, Kept, TypeOK, Logs
    <3> QED BY <3>1, KeptOrder
  <2>2. CASE ~Fault("free")
    <3>1. /\ stream' = [stream EXCEPT !.heap = "freed", !.out = << >>,
                                      !.bufferlist = << >>, !.has_list = FALSE]
          /\ UNCHANGED <<sock, log>>
      BY <1>4, <2>2 DEF Free, At
    <3>2. stream'.heap = "freed" /\ stream'.out = << >>
      BY <3>1 DEF TypeOK, Streams
    <3> QED BY <1>1, <3>1, <3>2 DEF Order, Numbered
  <2> QED BY <2>1, <2>2
<1> QED BY <1>2, <1>3, <1>4

\* The rest of evn_stream_destroy, of the library and of the application
\* touches neither the output nor what was sent.
LEMMA LibraryKeeps ==
  ASSUME TypeOK, Library
  PROVE  Kept \/ Free \/ OnWritable
<1>1. \A p \in Points : Fault(p) => Kept
  BY DEF Fault, Kept, TypeOK, Logs
<1>2. \A clean, rest : Destroy(clean, rest) => Kept
  BY DEF Destroy, Kept, TypeOK, Logs, Streams, Sockets
<1>3. HalfClose /\ UNCHANGED <<sock, log>> => Kept
  BY DEF HalfClose, Kept, TypeOK, Streams
<1>4. {"accepted", "connected", "timed_out", "send_failed", "read_failed",
       "watch_writes", "check_closed", "fin_end", "fin_close"} \subseteq Points
  BY DEF Points
<1>5. CASE Accepted \/ Connected
  <2>1. \/ Kept
        \/ /\ stream' = [stream EXCEPT !.has_list = stream.oneshot]
           /\ UNCHANGED <<sock, log>>
    BY <1>1, <1>4, <1>5 DEF Accepted, Connected, At
  <2> QED BY <2>1 DEF Kept, TypeOK, Streams
<1>6. CASE ReadFailed \/ SendFailed
  BY <1>1, <1>2, <1>4, <1>6 DEF ReadFailed, SendFailed, At
<1>7. CASE WatchWritesAfterFailure \/ CheckClosed \/ TimedOut
  <2>1. Kept \/ UNCHANGED <<stream, sock, log>>
    BY <1>1, <1>4, <1>7 DEF WatchWritesAfterFailure, CheckClosed, TimedOut, At
  <2> QED BY <2>1 DEF Kept
<1>8. CASE FinEnd
  <2>1. \/ Kept
        \/ /\ log' = [log EXCEPT !.ended = log.ended + 1]
           /\ UNCHANGED <<stream, sock>>
    BY <1>1, <1>4, <1>8 DEF FinEnd, At
  <2> QED BY <2>1 DEF Kept, TypeOK, Logs
<1>9. CASE FinClose
  BY <1>1, <1>2, <1>3, <1>4, <1>9 DEF FinClose, At
<1>10. CASE OnConnect
  <2>1. stream' = [stream EXCEPT !.ready_state = "OPEN"] /\ UNCHANGED <<sock, log>>
    BY <1>10 DEF OnConnect
  <2> QED BY <2>1 DEF Kept, TypeOK, Streams
<1>11. \A data, rest : Deliver(data, rest) => log'.written = log.written
  BY DEF Deliver, TypeOK, Logs
<1>12. CASE OnData
  <2>1. PICK n, data :
          /\ sock' = [sock EXCEPT !.read = sock.read + n]
          /\ \/ stream' = [stream EXCEPT !.bufferlist = stream.bufferlist \o data]
                /\ UNCHANGED log
             \/ Deliver(data, << >>) /\ UNCHANGED stream
    BY <1>12 DEF OnData
  <2>2. sock'.wire = sock.wire
    BY <2>1 DEF TypeOK, Sockets
  <2>3. stream'.heap = stream.heap /\ stream'.out = stream.out
    BY <2>1 DEF TypeOK, Streams
  <2> QED BY <1>11, <2>1, <2>2, <2>3 DEF Kept
<1>13. CASE OnReadError \/ OnFin \/ OnTimer \/ Poll
  <2>1. UNCHANGED <<stream, sock>>
    BY <1>13 DEF OnReadError, OnFin, OnTimer, Poll
  <2>2. log'.written = log.written
    BY <1>11, <1>13 DEF OnReadError, OnFin, OnTimer, Poll
  <2> QED BY <2>1, <2>2 DEF Kept
<1> QED BY <1>5, <1>6, <1>7, <1>8, <1>9, <1>10, <1>12, <1>13 DEF Library

\* The same of the application's other calls, the kernel and the peer.
LEMMA OthersKeep ==
  ASSUME TypeOK,
         \/ AppEnds \/ AppDestroys \/ AppSetsTimeout \/ Return
         \/ Environment \/ UNCHANGED vars
  PROVE  Kept
<1>1. CASE AppEnds \/ AppDestroys
  <2>1. \A clean, rest : Destroy(clean, rest) => Kept
    BY DEF Destroy, Kept, TypeOK, Logs, Streams, Sockets
  <2>2. EndOutput /\ UNCHANGED log => Kept
    BY DEF EndOutput, Kept, TypeOK, Streams, Sockets
  <2> QED BY <1>1, <2>1, <2>2 DEF AppEnds, AppDestroys
<1>2. CASE AppSetsTimeout \/ Return \/ TimePasses \/ UNCHANGED vars
  BY <1>2 DEF AppSetsTimeout, Return, TimePasses, vars, Kept
<1>3. CASE PeerSends \/ PeerFins \/ Resets \/ KernelSends
  <2>1. UNCHANGED <<stream, log>> /\ sock'.wire = sock.wire
    BY <1>3 DEF PeerSends, PeerFins, Resets, KernelSends, Network, TypeOK, Sockets
  <2> QED BY <2>1 DEF Kept
<1> QED BY <1>1, <1>2, <1>3 DEF Environment

\* Every step keeps the order.
LEMMA NextOrder == TypeOK /\ Order /\ [Next]_vars => Order'
<1> SUFFICES ASSUME TypeOK, Order, [Next]_vars PROVE Order'
  OBVIOUS
<1>1. CASE AppWrites
  <2>1. PICK n \in 0..(MaxWritten - log.written) : Write(n)
    BY <1>1 DEF AppWrites
  <2>2. n \in Nat /\ Alive
    BY <1>1, StreamAssumption DEF AppWrites, AppMay, TypeOK, Logs
  <2> QED BY <2>1, <2>2, WriteOrder
<1>2. CASE Accept \/ Connect \/ ConnectFails
  BY <1>2, BirthAndDeathOrder
<1>3. CASE Library
  BY <1>3, LibraryKeeps, KeptOrder, BirthAndDeathOrder, WritableOrder
<1>4. CASE \/ AppEnds \/ AppDestroys \/ AppSetsTimeout \/ Return
           \/ Environment \/ UNCHANGED vars
  BY <1>4, OthersKeep, KeptOrder
<1> QED BY <1>1, <1>2, <1>3, <1>4 DEF Next, Application

\* Order says what SentInOrder says.
LEMMA OrderImplies == TypeOK /\ Order => SentInOrder
<1> SUFFICES ASSUME TypeOK, Order PROVE SentInOrder
  OBVIOUS
<1> DEFINE w == sock.wire
           q == stream.out
<1>1. w \in Seq(Nat) /\ q \in Seq(Nat) /\ 0 + Len(w) = Len(w)
  BY DEF TypeOK, Sockets, Streams
<1>2. Numbered(w, 0) /\ Numbered(q, Len(w))
  BY DEF Order
<1>3. Alive => Len(w) + Len(q) = log.written
  BY DEF Order, Alive
<1> HIDE DEF w, q
<1>4. w = Bytes(0, Len(w))
  BY <1>1, <1>2, NumberedIsBytes
<1>5. /\ w \o q \in Seq(Nat) /\ Len(w \o q) = Len(w) + Len(q)
      /\ Numbered(w \o q, 0)
  BY <1>1, <1>2, AppendNumbered
<1>6. w \o q = Bytes(0, Len(w) + Len(q))
  BY <1>5, NumberedIsBytes
<1> QED BY <1>3, <1>4, <1>6 DEF SentInOrder, w, q

\* Whatever the application writes, from wherever, and whatever the kernel
\* takes of it, the bytes of evn_stream_write are on the wire or queued, once
\* and in the order of the writes.
THEOREM OutputInOrder == Spec => []SentInOrder
<1>1. Init => Order
  BY DEF Init, Order, Numbered
<1>2. TypeOK /\ TypeOK' /\ Order /\ [Next]_vars => Order'
  BY NextOrder
<1> QED BY <1>1, <1>2, TypeCorrect, OrderImplies, PTL DEF Spec
-------------------------------------------------------------------------------
(***************************************************************************)
(* The watcher of queued output.                                           *)
(***************************************************************************)

\* A handler is suspended at the point after on_close.
Closing(s) == \E i \in 1..Len(s) : s[i] = "free"

\* The inductive form of QueuedIsWatched: a stream that does not exist is held
\* by nobody, one that is being destroyed will be freed before control returns
\* to the loop, and any other has a watcher for its queue at all times.
Watched ==
  /\ stream.heap = "none" =>
       /\ log.closed = 0 /\ stack = << >>
       /\ io.cb = "none" /\ ~io.active /\ ~timer.armed
  /\ Alive /\ log.closed > 0 => Closing(stack)
  /\ Alive /\ stream.out # << >> /\ log.closed = 0 =>
       io.active /\ "WRITE" \in io.events

\* Frames pushed on a stack, and a frame popped, leave the others.
LEMMA ClosingStack ==
  ASSUME NEW s \in Seq(Frames)
  PROVE  /\ \A t \in Seq(Frames) : Closing(s) => Closing(t \o s)
         /\ \A t \in Seq(Frames) : Closing(t \o <<"free">> \o s)
         /\ s # << >> /\ Head(s) # "free" /\ Closing(s) => Closing(Tail(s))
<1>1. ASSUME NEW t \in Seq(Frames), Closing(s)
      PROVE  Closing(t \o s)
  <2>1. PICK i \in 1..Len(s) : s[i] = "free"
    BY <1>1 DEF Closing
  <2>2. /\ Len(t) + i \in 1..Len(t \o s)
        /\ (t \o s)[Len(t) + i] = s[i]
    BY ConcatProperties
  <2> QED BY <2>1, <2>2 DEF Closing
<1>2. ASSUME NEW t \in Seq(Frames)
      PROVE  Closing(t \o <<"free">> \o s)
  <2> DEFINE u == t \o <<"free">>
  <2>1. <<"free">> \in Seq(Frames) /\ Len(<<"free">>) = 1
    BY DEF Frames, Points
  <2>2. u \in Seq(Frames) /\ Len(u) = Len(t) + 1 /\ u[Len(t) + 1] = "free"
    BY <2>1, ConcatProperties
  <2> HIDE DEF u
  <2>3. Len(t) + 1 \in 1..Len(u \o s) /\ (u \o s)[Len(t) + 1] = u[Len(t) + 1]
    BY <2>2, ConcatProperties
  <2>4. Closing(u \o s)
    BY <2>2, <2>3 DEF Closing
  <2> QED BY <2>4 DEF u
<1>3. ASSUME s # << >>, Head(s) # "free", Closing(s)
      PROVE  Closing(Tail(s))
  <2>1. PICK i \in 1..Len(s) : s[i] = "free"
    BY <1>3 DEF Closing
  <2>2. i # 1
    BY <1>3, <2>1
  <2>3. i - 1 \in 1..Len(Tail(s)) /\ Tail(s)[i - 1] = s[i]
    BY <1>3, <2>2
  <2> QED BY <2>1, <2>3 DEF Closing
<1> QED BY <1>1, <1>2, <1>3

\* A step that neither queues nor destroys nor stops watching.
Calm ==
  /\ stream'.heap = stream.heap /\ stream'.out = stream.out
  /\ log'.closed = log.closed
  /\ Closing(stack) => Closing(stack')
  /\ io.active /\ "WRITE" \in io.events => io'.active /\ "WRITE" \in io'.events

\* A calm step keeps the queue watched.
LEMMA CalmWatched ==
  Watched /\ stream.heap # "none" /\ Calm => Watched'
  BY DEF Watched, Calm, Alive

\* evn_stream_destroy will free the stream.
LEMMA DestroyWatched ==
  ASSUME TypeOK, Watched, stream.heap # "none", NEW clean \in BOOLEAN,
         NEW rest \in Seq(Frames), Destroy(clean, rest)
  PROVE  Watched'
<1>1. log'.closed = log.closed + 1 /\ log.closed \in Nat
  BY DEF Destroy, TypeOK, Logs
<1>2. stream'.heap = stream.heap
  BY DEF Destroy, TypeOK, Streams
<1>3. "on_close" \in Callbacks
  BY DEF Callbacks
<1>4. Closing(stack')
  BY <1>3, PushType, ClosingStack DEF Destroy
<1>5. log'.closed # 0
  BY <1>1
<1> QED BY <1>2, <1>4, <1>5 DEF Watched, Alive

\* What each change of the watcher does to a watched queue.
LEMMA WatcherKeeps ==
  ASSUME TypeOK
  PROVE  /\ WatchWrites => io'.active = TRUE /\ "WRITE" \in io'.events
         /\ Dispatched => io'.active = io.active /\ io'.events = io.events
         /\ HalfClose => io'.active = TRUE /\ ("WRITE" \in io.events => "WRITE" \in io'.events)
         /\ \A a \in BOOLEAN : io' = [io EXCEPT !.active = a] =>
              io'.active = a /\ io'.events = io.events
<1>1. /\ io.events \in SUBSET {"READ", "WRITE"}
      /\ \A a, e, p : LET w == [io EXCEPT !.active = a, !.events = e, !.pending = p]
                      IN  w.active = a /\ w.events = e
      /\ \A p : LET w == [io EXCEPT !.pending = p]
                IN  w.active = io.active /\ w.events = io.events
      /\ \A a : LET w == [io EXCEPT !.active = a]
                IN  w.active = a /\ w.events = io.events
  BY DEF TypeOK, Watchers
<1>2. WatchWrites => io'.active = TRUE /\ io'.events = io.events \cup {"WRITE"}
  BY <1>1 DEF WatchWrites
<1>3. HalfClose => io'.active = TRUE /\ io'.events = io.events \ {"READ"}
  BY <1>1 DEF HalfClose
<1>4. Dispatched => io'.active = io.active /\ io'.events = io.events
  BY <1>1 DEF Dispatched
<1>5. \A a \in BOOLEAN : io' = [io EXCEPT !.active = a] =>
        io'.active = a /\ io'.events = io.events
  BY <1>1
<1> QED BY <1>2, <1>3, <1>4, <1>5

\* A handler that goes on at point p and only pops its frame, or faults.
LEMMA FaultCalm ==
  ASSUME TypeOK, NEW p \in Points, Fault(p)
  PROVE  Calm
  BY DEF Fault, Calm, TypeOK, Logs

\* A handler that returns without touching the stream.
LEMMA PopCalm ==
  ASSUME TypeOK, stack # << >>, Head(stack) # "free", stack' = Tail(stack)
  PROVE  Closing(stack) => Closing(stack')
  BY ClosingStack DEF TypeOK, Frames

\* evn_stream_write keeps the queue watched.
LEMMA WriteWatched ==
  ASSUME TypeOK, Watched, Alive, NEW n \in Nat, Write(n)
  PROVE  Watched'
<1>1. stack \in Seq(Frames) /\ "on_error" \in Callbacks
      /\ "send_failed" \in Points /\ "watch_writes" \in Points
  BY DEF TypeOK, Frames, Callbacks, Points
<1>2. CASE stream.ready_state = "READ_ONLY"
  <2>1. stack' = Call("on_error") \o stack /\ UNCHANGED <<stream, io, log>>
    BY <1>2 DEF Write
  <2>2. Closing(stack) => Closing(stack')
    BY <1>1, <2>1, PushType, ClosingStack
  <2> QED BY <2>1, <2>2, CalmWatched DEF Calm, Alive
<1>3. CASE stream.ready_state # "READ_ONLY" /\ stream.out = <<>> /\ n # 0 /\ ~CanSend
  <2>1. /\ SendFails("watch_writes")
        /\ UNCHANGED <<stream, io>>
    BY <1>3 DEF Write
  <2>2. log'.closed = log.closed
    BY <2>1 DEF SendFails, TypeOK, Logs
  <2>3. Closing(stack) => Closing(stack')
    <3> DEFINE t == Call("on_error") \o <<"send_failed", "watch_writes">>
    <3>1. t \in Seq(Frames)
      <4>1. <<"send_failed", "watch_writes">> \in Seq(Frames)
        BY <1>1 DEF Frames
      <4>2. Call("on_error") \in Seq(Frames)
        BY <1>1, PushType
      <4> QED BY <4>1, <4>2, ConcatProperties
    <3>2. stack' = t \o stack
      BY <2>1 DEF SendFails
    <3> HIDE DEF t
    <3> QED BY <1>1, <3>1, <3>2, ClosingStack
  <2> QED BY <2>1, <2>2, <2>3, CalmWatched DEF Calm, Alive
<1>4. CASE stream.ready_state # "READ_ONLY" /\ ~(stream.out = <<>> /\ n # 0 /\ ~CanSend)
  <2>1. /\ stream'.out = << >> \/ WatchWrites
        /\ UNCHANGED stack
        /\ log' = [log EXCEPT !.written = log.written + n]
        /\ \E out : stream' = [stream EXCEPT !.out = out]
    BY <1>4 DEF Write, TypeOK, Streams
  <2>2. log'.closed = log.closed /\ stream'.heap = stream.heap
    BY <2>1 DEF TypeOK, Logs, Streams
  <2>3. stream'.out = << >> \/ (io'.active /\ "WRITE" \in io'.events)
    BY <2>1, WatcherKeeps
  <2> QED BY <2>1, <2>2, <2>3 DEF Watched, Alive
<1> QED BY <1>2, <1>3, <1>4

\* The writable event keeps what it could not send watched.
LEMMA WritableWatched ==
  ASSUME TypeOK, Watched, stream.heap # "none", OnWritable
  PROVE  Watched'
<1>1. stack = << >>
  BY DEF OnWritable, InLoop
<1>2. Alive => log.closed = 0
  <2>1. ~Closing(<< >>)
    BY DEF Closing
  <2>2. log.closed \in Nat
    BY DEF TypeOK, Logs
  <2> QED BY <1>1, <2>1, <2>2 DEF Watched
<1>3. CASE stream.out # <<>> /\ ~CanSend
  <2>1. SendFails("check_closed") /\ Dispatched /\ UNCHANGED stream
    BY <1>3 DEF OnWritable
  <2>2. log'.closed = log.closed
    BY <2>1 DEF SendFails, TypeOK, Logs
  <2>3. io'.active = io.active /\ io'.events = io.events
    BY <2>1, WatcherKeeps
  <2> QED BY <1>2, <2>1, <2>2, <2>3 DEF Watched, Alive
<1>4. CASE ~(stream.out # <<>> /\ ~CanSend)
  <2>1. /\ stream' = [stream EXCEPT !.out = Unsent(stream.out)]
        /\ Unsent(stream.out) = << >> \/ Dispatched
        /\ UNCHANGED log
    BY <1>4 DEF OnWritable
  <2>2. stream'.heap = stream.heap /\ stream'.out = Unsent(stream.out)
    BY <2>1 DEF TypeOK, Streams
  <2>3. Dispatched => io'.active = io.active /\ io'.events = io.events
    BY WatcherKeeps
  <2>4. stream.out = << >> => Unsent(stream.out) = << >>
    <3>1. << >> \in Seq(Nat) /\ Len(<< >>) = 0
      OBVIOUS
    <3>2. Taken(<< >>) \in 0..0 /\ Unsent(<< >>) \in Seq(Nat)
          /\ Len(Unsent(<< >>)) = 0 - Taken(<< >>)
      BY <3>1, SendFacts
    <3>3. Len(Unsent(<< >>)) = 0
      BY <3>2
    <3>4. Unsent(<< >>) = << >>
      BY <3>2, <3>3
    <3> QED BY <3>4
  <2> QED BY <1>2, <2>1, <2>2, <2>3, <2>4 DEF Watched, Alive
<1> QED BY <1>3, <1>4

\* A stream that does not exist is changed only by its creation.
LEMMA NothingBeforeBirth ==
  ASSUME Watched, stream.heap = "none", [Next]_vars
  PROVE  \/ Accept \/ Connect \/ ConnectFails
         \/ UNCHANGED <<stream, io, timer, stack, log>>
<1>1. /\ ~Alive /\ stack = << >> /\ io.cb = "none" /\ ~io.active /\ ~timer.armed
  BY DEF Watched, Alive
<1>2. ~Library
  BY <1>1 DEF Library, Accepted, Connected, Free, ReadFailed, SendFailed,
     WatchWritesAfterFailure, CheckClosed, FinEnd, FinClose, TimedOut, At,
     OnConnect, OnData, OnReadError, OnFin, ReadEvent, OnWritable, OnTimer,
     Fires, Poll
<1>3. ~(AppWrites \/ AppEnds \/ AppDestroys \/ AppSetsTimeout \/ Return)
  BY <1>1 DEF AppWrites, AppEnds, AppDestroys, AppSetsTimeout, AppMay, Return
<1>4. Environment => UNCHANGED <<stream, io, timer, stack, log>>
  BY <1>1 DEF Environment, PeerSends, PeerFins, Resets, KernelSends, TimePasses,
     Network
<1> QED BY <1>2, <1>3, <1>4 DEF Next, Application, vars

\* Creation, and freeing.
LEMMA BirthAndDeathWatched ==
  ASSUME TypeOK, Order, Watched, Accept \/ Connect \/ ConnectFails \/ Free
  PROVE  Watched'
<1>1. CASE Accept \/ Connect
  <2>1. PICK r \in States, o \in BOOLEAN :
          stream' = [stream EXCEPT !.heap = "alive", !.ready_state = r, !.oneshot = o]
    BY <1>1, StreamAssumption DEF Accept, Connect, States
  <2>2. stream'.heap = "alive" /\ stream'.out = stream.out
    BY <2>1 DEF TypeOK, Streams
  <2>3. stream.heap = "none" /\ log' = log
    BY <1>1 DEF Accept, Connect
  <2>4. stream'.out = << >> /\ log'.closed = 0
    BY <2>2, <2>3 DEF Order, Watched
  <2> QED BY <2>2, <2>4 DEF Watched, Alive
<1>2. CASE ConnectFails
  <2>1. stream'.heap = "freed"
    BY <1>2 DEF ConnectFails, TypeOK, Streams
  <2> QED BY <2>1 DEF Watched, Alive
<1>3. CASE Free
  <2>1. CASE Fault("free")
    <3>1. "free" \in Points /\ stack # << >> /\ stream.heap # "none"
      BY <1>3 DEF Free, At, Points, Watched
    <3> QED BY <2>1, <3>1, FaultCalm, CalmWatched
  <2>2. CASE ~Fault("free")
    <3>1. stream' = [stream EXCEPT !.heap = "freed", !.out = << >>,
                                   !.bufferlist = << >>, !.has_list = FALSE]
      BY <1>3, <2>2 DEF Free, At
    <3>2. stream'.heap = "freed"
      BY <3>1 DEF TypeOK, Streams
    <3> QED BY <3>2 DEF Watched, Alive
  <2> QED BY <2>1, <2>2
<1> QED BY <1>1, <1>2, <1>3

\* The library's other steps are calm, or destroy the stream.
LEMMA LibraryWatched ==
  ASSUME TypeOK, Order, Watched, stream.heap # "none", Library
  PROVE  Watched'
<1>1. {"accepted", "connected", "timed_out", "send_failed", "read_failed",
       "watch_writes", "check_closed", "fin_end", "fin_close"} \subseteq Points
  BY DEF Points
<1>2. \A p \in Points : Fault(p) => Watched'
  BY FaultCalm, CalmWatched
<1>3. /\ stack # << >> => Tail(stack) \in Seq(Frames)
      /\ Closing(stack) => stack # << >>
  BY TailType DEF Closing
<1>4. CASE Accepted \/ Connected
  <2>1. CASE Fault("accepted") \/ Fault("connected")
    BY <1>1, <1>2, <2>1
  <2>2. CASE ~Fault("accepted") /\ ~Fault("connected")
    <3>1. /\ stream' = [stream EXCEPT !.has_list = stream.oneshot]
          /\ io' = [io EXCEPT !.active = TRUE] \/ UNCHANGED io
          /\ stack # << >> /\ Head(stack) # "free" /\ stack' = Tail(stack)
          /\ UNCHANGED log
      BY <1>4, <2>2 DEF Accepted, Connected, At
    <3>2. stream'.heap = stream.heap /\ stream'.out = stream.out
      BY <3>1 DEF TypeOK, Streams
    <3>3. io.active /\ "WRITE" \in io.events => io'.active /\ "WRITE" \in io'.events
      BY <3>1, WatcherKeeps
    <3> QED BY <3>1, <3>2, <3>3, PopCalm, CalmWatched DEF Calm
  <2> QED BY <2>1, <2>2
<1>5. CASE ReadFailed \/ SendFailed
  BY <1>1, <1>2, <1>3, <1>5, DestroyWatched DEF ReadFailed, SendFailed, At
<1>6. CASE WatchWritesAfterFailure \/ CheckClosed \/ TimedOut
  <2>1. CASE \E p \in Points : Fault(p)
    BY <1>2, <2>1
  <2>2. CASE ~\E p \in Points : Fault(p)
    <3>1. /\ stack # << >> /\ Head(stack) # "free" /\ stack' = Tail(stack)
          /\ WatchWrites \/ UNCHANGED io
          /\ UNCHANGED <<stream, log>>
      BY <1>1, <1>6, <2>2 DEF WatchWritesAfterFailure, CheckClosed, TimedOut, At
    <3>2. io.active /\ "WRITE" \in io.events => io'.active /\ "WRITE" \in io'.events
      BY <3>1, WatcherKeeps
    <3> QED BY <3>1, <3>2, PopCalm, CalmWatched DEF Calm
  <2> QED BY <2>1, <2>2
<1>7. CASE FinEnd
  <2>1. CASE Fault("fin_end")
    BY <1>1, <1>2, <2>1
  <2>2. CASE ~Fault("fin_end")
    <3>1. /\ log' = [log EXCEPT !.ended = log.ended + 1]
          /\ stack # << >> /\ Head(stack) # "free"
          /\ stack' = Call("on_end") \o <<"fin_close">> \o Tail(stack)
          /\ UNCHANGED <<stream, io>>
      BY <1>7, <2>2 DEF FinEnd, At
    <3>2. log'.closed = log.closed
      BY <3>1 DEF TypeOK, Logs
    <3>3. "on_end" \in Callbacks /\ "fin_close" \in Points
      BY DEF Callbacks, Points
    <3>4. Closing(stack) => Closing(Tail(stack))
      BY <3>1, ClosingStack DEF TypeOK, Frames
    <3>5. Call("on_end") \o <<"fin_close">> \in Seq(Frames)
      BY <3>3, PushType
    <3>6. Closing(stack) => Closing(stack')
      BY <1>3, <3>1, <3>4, <3>5, ClosingStack
    <3> QED BY <3>1, <3>2, <3>6, CalmWatched DEF Calm
  <2> QED BY <2>1, <2>2
<1>8. CASE FinClose
  <2>1. CASE Fault("fin_close")
    BY <1>1, <1>2, <2>1
  <2>2. CASE ~Fault("fin_close") /\ stream.ready_state = "READ_ONLY"
    BY <1>3, <1>8, <2>2, DestroyWatched DEF FinClose, At
  <2>3. CASE ~Fault("fin_close") /\ stream.ready_state # "READ_ONLY"
    <3>1. /\ stack # << >> /\ Head(stack) # "free" /\ stack' = Tail(stack)
          /\ HalfClose /\ UNCHANGED log
      BY <1>8, <2>3 DEF FinClose, At
    <3>2. stream'.heap = stream.heap /\ stream'.out = stream.out
      BY <3>1 DEF HalfClose, TypeOK, Streams
    <3>3. io.active /\ "WRITE" \in io.events => io'.active /\ "WRITE" \in io'.events
      BY <3>1, WatcherKeeps
    <3> QED BY <3>1, <3>2, <3>3, PopCalm, CalmWatched DEF Calm
  <2> QED BY <2>1, <2>2, <2>3
<1>9. CASE OnConnect
  <2>1. /\ stream' = [stream EXCEPT !.ready_state = "OPEN"]
        /\ io'.active = TRUE /\ "WRITE" \in io'.events
        /\ stack = << >> /\ UNCHANGED log
    BY <1>9 DEF OnConnect, InLoop
  <2>2. stream'.heap = stream.heap /\ stream'.out = stream.out
    BY <2>1 DEF TypeOK, Streams
  <2> QED BY <1>3, <2>1, <2>2, CalmWatched DEF Calm
<1>10. CASE OnData \/ OnReadError \/ OnFin
  <2>1. stack = << >> /\ Dispatched
    BY <1>10 DEF OnData, OnReadError, OnFin, ReadEvent, InLoop
  <2>2. \A data, rest : Deliver(data, rest) => log'.closed = log.closed
    BY DEF Deliver, TypeOK, Logs
  <2>3. log'.closed = log.closed
    BY <1>10, <2>2 DEF OnData, OnReadError, OnFin
  <2>4. \/ UNCHANGED stream
        \/ \E list : stream' = [stream EXCEPT !.bufferlist = list]
    BY <1>10 DEF OnData, OnReadError, OnFin
  <2>5. stream'.heap = stream.heap /\ stream'.out = stream.out
    BY <2>4 DEF TypeOK, Streams
  <2> QED BY <1>3, <2>1, <2>3, <2>5, WatcherKeeps, CalmWatched DEF Calm
<1>11. CASE OnTimer
  <2>1. stack = << >> /\ UNCHANGED <<stream, io, log>>
    BY <1>11 DEF OnTimer, InLoop
  <2> QED BY <1>3, <2>1, CalmWatched DEF Calm
<1>12. CASE Poll
  <2>1. PICK ready : io' = [io EXCEPT !.pending = ready]
    BY <1>12 DEF Poll
  <2>2. io'.active = io.active /\ io'.events = io.events
    BY <2>1 DEF TypeOK, Watchers
  <2>3. UNCHANGED <<stream, stack, log>>
    BY <1>12 DEF Poll
  <2> QED BY <2>2, <2>3, CalmWatched DEF Calm
<1> QED BY <1>4, <1>5, <1>6, <1>7, <1>8, <1>9, <1>10, <1>11, <1>12,
        BirthAndDeathWatched, WritableWatched DEF Library

\* So are the application's other calls, the kernel and the peer.
LEMMA OthersWatched ==
  ASSUME TypeOK, Watched, stream.heap # "none",
         \/ AppEnds \/ AppDestroys \/ AppSetsTimeout \/ Return
         \/ Environment \/ UNCHANGED vars
  PROVE  Watched'
<1>1. stack \in Seq(Frames)
  BY DEF TypeOK, Frames
<1>2. CASE AppDestroys \/ (AppEnds /\ stream.ready_state = "WRITE_ONLY")
  BY <1>1, <1>2, DestroyWatched DEF AppDestroys, AppEnds
<1>3. CASE AppEnds /\ stream.ready_state # "WRITE_ONLY"
  <2>1. /\ stream' = [stream EXCEPT !.ready_state = "READ_ONLY"]
        /\ UNCHANGED <<io, stack, log>>
    BY <1>3 DEF AppEnds, EndOutput
  <2>2. stream'.heap = stream.heap /\ stream'.out = stream.out
    BY <2>1 DEF TypeOK, Streams
  <2> QED BY <2>1, <2>2, CalmWatched DEF Calm
<1>4. CASE Return
  <2>1. /\ stack # << >> /\ Head(stack) # "free" /\ stack' = Tail(stack)
        /\ UNCHANGED <<stream, io, log>>
    BY <1>4 DEF Return, Callbacks
  <2> QED BY <2>1, PopCalm, CalmWatched DEF Calm
<1>5. CASE AppSetsTimeout \/ Environment \/ UNCHANGED vars
  <2>1. UNCHANGED <<stream, io, stack, log>>
    BY <1>5 DEF AppSetsTimeout, Environment, PeerSends, PeerFins, Resets,
       KernelSends, TimePasses, Network, vars
  <2> QED BY <2>1, CalmWatched DEF Calm
<1> QED BY <1>2, <1>3, <1>4, <1>5

\* Every step keeps the queue watched.
LEMMA NextWatched == TypeOK /\ Order /\ Watched /\ [Next]_vars => Watched'
<1> SUFFICES ASSUME TypeOK, Order, Watched, [Next]_vars PROVE Watched'
  OBVIOUS
<1>1. CASE stream.heap = "none"
  <2>1. CASE Accept \/ Connect \/ ConnectFails
    BY <2>1, BirthAndDeathWatched
  <2>2. CASE UNCHANGED <<stream, io, timer, stack, log>>
    BY <2>2 DEF Watched, Alive
  <2> QED BY <1>1, <2>1, <2>2, NothingBeforeBirth
<1>2. CASE stream.heap # "none"
  <2>1. CASE AppWrites
    <3>1. PICK n \in 0..(MaxWritten - log.written) : Write(n)
      BY <2>1 DEF AppWrites
    <3>2. n \in Nat /\ Alive
      BY <2>1, StreamAssumption DEF AppWrites, AppMay, TypeOK, Logs
    <3> QED BY <3>1, <3>2, WriteWatched
  <2>2. CASE Accept \/ Connect \/ ConnectFails
    BY <2>2, BirthAndDeathWatched
  <2>3. CASE Library
    BY <1>2, <2>3, LibraryWatched
  <2>4. CASE \/ AppEnds \/ AppDestroys \/ AppSetsTimeout \/ Return
             \/ Environment \/ UNCHANGED vars
    BY <1>2, <2>4, OthersWatched
  <2> QED BY <2>1, <2>2, <2>3, <2>4 DEF Next, Application
<1> QED BY <1>1, <1>2

\* Whatever the application calls and in whichever callback, output that is
\* queued when control returns to the loop has an active watcher that looks
\* for EV_WRITE: writes, drains, half-closes and their errors never strand it.
THEOREM QueueAlwaysWatched == Spec => []QueuedIsWatched
<1>1. Init => Order /\ Watched
  BY DEF Init, Order, Numbered, Watched, Alive, NoTimer
<1>2. TypeOK /\ Order /\ Watched /\ [Next]_vars => Order' /\ Watched'
  BY NextOrder, NextWatched
<1>3. TypeOK /\ Watched => QueuedIsWatched
  <2>1. ~Closing(<< >>)
    BY DEF Closing
  <2> QED BY <2>1 DEF Watched, QueuedIsWatched, Idle, InLoop, TypeOK, Logs
<1> QED BY <1>1, <1>2, <1>3, TypeCorrect, PTL DEF Spec
===============================================================================
