------------------------- MODULE StreamClosingProofs -------------------------
(***************************************************************************)
(* The end of a stream, and its timer: an armed timer is never late, and   *)
(* once evn_stream_destroy has begun nothing of the stream runs any more.  *)
(***************************************************************************)
EXTENDS StreamProofs

-------------------------------------------------------------------------------
(***************************************************************************)
(* The timer is in time.                                                   *)
(***************************************************************************)

InTime(t) == t.armed => t.due <= t.timeout - t.idle

\* Every operation on a timer keeps it in time.
LEMMA OperationsInTime ==
  ASSUME NEW t \in TimerType(Timeouts), InTime(t)
  PROVE  /\ InTime(Stop(t)) /\ InTime(GiveUp(t)) /\ InTime(Rearm(t))
         /\ InTime(Touch(t)) /\ InTime(Tick(t))
         /\ \A timeout \in Timeouts : InTime(SetTimeout(t, timeout))
<1>1. t.timeout \in Nat /\ t.idle \in Nat /\ t.due \in Int
  BY TimerFields
<1>2. ASSUME NEW u \in TimerType(Timeouts)
      PROVE  /\ ~Stop(u).armed /\ ~GiveUp(u).armed
             /\ InTime(Rearm(u))
  <2>1. Stop(u).armed = FALSE /\ GiveUp(u).armed = FALSE
    BY DEF Stop, GiveUp, TimerType
  <2>2. u.timeout - u.idle \in Int
    BY TimerFields
  <2>3. InTime(Rearm(u))
    <3>1. CASE u.timeout - u.idle = 0
      <4>1. Rearm(u).armed = FALSE
        BY <3>1 DEF Rearm, Again, Stop, TimerType
      <4> QED BY <4>1 DEF InTime
    <3>2. CASE u.timeout - u.idle # 0
      <4>1. /\ Rearm(u).due = u.timeout - u.idle
            /\ Rearm(u).timeout = u.timeout /\ Rearm(u).idle = u.idle
        BY <3>2 DEF Rearm, Again, TimerType
      <4> QED BY <2>2, <4>1 DEF InTime
    <3> QED BY <3>1, <3>2
  <2> QED BY <2>1, <2>3
<1>3. InTime(Touch(t))
  <2> DEFINE u == [t EXCEPT !.idle = 0]
  <2>1. u \in TimerType(Timeouts)
    BY TimerUpdates
  <2>2. u.armed = t.armed /\ u.due = t.due /\ u.timeout = t.timeout /\ u.idle = 0
    BY DEF TimerType
  <2>3. InTime(u)
    BY <1>1, <2>2 DEF InTime
  <2>4. Touch(t) \in {u, Rearm(u)}
    BY DEF Touch
  <2> HIDE DEF u
  <2> QED BY <1>2, <2>1, <2>3, <2>4
<1>4. InTime(Tick(t))
  <2>1. /\ Tick(t).armed = t.armed /\ Tick(t).timeout = t.timeout
        /\ Tick(t).idle = IF t.idle > t.timeout THEN t.idle ELSE t.idle + 1
        /\ Tick(t).due = IF t.armed /\ t.due >= 0 THEN t.due - 1 ELSE t.due
    BY DEF Tick, TimerType
  <2> QED BY <1>1, <2>1 DEF InTime
<1>5. ASSUME NEW timeout \in Timeouts
      PROVE  InTime(SetTimeout(t, timeout))
  <2>1. CASE timeout = 0
    BY <1>2, <2>1 DEF SetTimeout, InTime
  <2>2. CASE timeout # 0
    <3> DEFINE u == [GiveUp(t) EXCEPT !.timeout = timeout, !.idle = 0]
    <3>1. u \in TimerType(Timeouts)
      BY GiveUpType, TimerUpdates
    <3>2. SetTimeout(t, timeout) = Rearm(u)
      BY <2>2 DEF SetTimeout
    <3> HIDE DEF u
    <3> QED BY <1>2, <3>1, <3>2
  <2> QED BY <2>1, <2>2
<1> QED BY <1>2, <1>3, <1>4, <1>5 DEF InTime

\* The operations on the timer, by the steps that make them: the timer is
\* stopped where the stream is destroyed, given up after on_timeout, and
\* re-armed for what is left where it was called too early.
LEMMA StepsOperate ==
  ASSUME [Next]_vars
  PROVE  \/ timer' \in {timer, Touch(timer), Tick(timer)}
         \/ timer' = Stop(timer) /\ \E clean, rest : Destroy(clean, rest)
         \/ timer' = GiveUp(timer) /\ TimedOut
         \/ timer' = Rearm(timer) /\ OnTimer
         \/ /\ timer' \in {SetTimeout(timer, timeout) : timeout \in Timeouts}
            /\ AppSetsTimeout
<1>1. CASE Library
  <2>1. CASE Accepted \/ Connected \/ Free \/ WatchWritesAfterFailure \/ CheckClosed \/ FinEnd
    BY <2>1 DEF Accepted, Connected, Free, WatchWritesAfterFailure, CheckClosed, FinEnd,
       At, Fault
  <2>2. CASE ReadFailed \/ SendFailed \/ FinClose
    <3>1. \/ UNCHANGED timer
          \/ \E clean \in BOOLEAN : Destroy(clean, Tail(stack))
      BY <2>2 DEF ReadFailed, SendFailed, FinClose, At, Fault
    <3> QED BY <3>1 DEF Destroy
  <2>3. CASE TimedOut
    BY <2>3 DEF TimedOut, At, Fault
  <2>4. CASE OnTimer
    BY <2>4 DEF OnTimer
  <2>5. CASE OnConnect \/ OnData \/ OnReadError \/ OnFin \/ OnWritable \/ Poll
    BY <2>5 DEF OnConnect, OnData, OnReadError, OnFin, ReadEvent, OnWritable, Poll
  <2> QED BY <1>1, <2>1, <2>2, <2>3, <2>4, <2>5 DEF Library
<1>2. CASE Application
  <2>1. CASE AppEnds \/ AppDestroys
    <3>1. \/ UNCHANGED timer
          \/ \E clean \in BOOLEAN : Destroy(clean, stack)
      BY <2>1 DEF AppEnds, AppDestroys
    <3> QED BY <3>1 DEF Destroy
  <2>2. CASE Accept \/ Connect \/ ConnectFails \/ AppWrites \/ Return
    BY <2>2 DEF Accept, Connect, ConnectFails, AppWrites, Write, Return
  <2>3. CASE AppSetsTimeout
    BY <2>3 DEF AppSetsTimeout
  <2> QED BY <1>2, <2>1, <2>2, <2>3 DEF Application
<1>3. CASE Environment \/ UNCHANGED vars
  BY <1>3 DEF Environment, PeerSends, PeerFins, Resets, KernelSends, TimePasses,
     Network, vars
<1> QED BY <1>1, <1>2, <1>3 DEF Next

\* An armed timer goes off as soon as the stream has been idle for its timeout,
\* for every timeout and whenever it is changed or the stream is active.
THEOREM AlwaysArmedInTime == Spec => []ArmedInTime
<1>1. Init => ArmedInTime
  BY DEF Init, NoTimer, ArmedInTime
<1>2. TypeOK /\ ArmedInTime /\ [Next]_vars => ArmedInTime'
  <2>1. TypeOK => timer \in TimerType(Timeouts)
    BY DEF TypeOK
  <2>2. /\ ArmedInTime <=> InTime(timer)
        /\ ArmedInTime' <=> InTime(timer')
    BY DEF ArmedInTime, InTime
  <2> QED BY <2>1, <2>2, StepsOperate, OperationsInTime
<1> QED BY <1>1, <1>2, TypeCorrect, PTL DEF Spec

\* What each operation does to the flag, to libev's timer, and to the times.
LEMMA OperationFields ==
  ASSUME NEW t \in TimerType(Timeouts)
  PROVE  /\ Stop(t).active = t.active /\ ~Stop(t).armed
         /\ Stop(t).timeout = t.timeout /\ Stop(t).idle = t.idle
         /\ ~GiveUp(t).active /\ ~GiveUp(t).armed
         /\ GiveUp(t).timeout = t.timeout /\ GiveUp(t).idle = t.idle
         /\ Rearm(t).active /\ (Rearm(t).armed <=> t.timeout # t.idle)
         /\ Rearm(t).timeout = t.timeout /\ Rearm(t).idle = t.idle
         /\ Tick(t).active = t.active /\ Tick(t).armed = t.armed
         /\ Tick(t).timeout = t.timeout
         /\ Tick(t).idle = IF t.idle > t.timeout THEN t.idle ELSE t.idle + 1
<1>1. t.timeout \in Nat /\ t.idle \in Nat /\ t.due \in Int
  BY TimerFields
<1>2. /\ Stop(t).active = t.active /\ Stop(t).armed = FALSE
      /\ Stop(t).timeout = t.timeout /\ Stop(t).idle = t.idle
  BY DEF Stop, TimerType
<1>3. /\ GiveUp(t).active = FALSE /\ GiveUp(t).armed = FALSE
      /\ GiveUp(t).timeout = t.timeout /\ GiveUp(t).idle = t.idle
  BY DEF GiveUp, Stop, TimerType
<1>4. /\ Tick(t).active = t.active /\ Tick(t).armed = t.armed
      /\ Tick(t).timeout = t.timeout
      /\ Tick(t).idle = IF t.idle > t.timeout THEN t.idle ELSE t.idle + 1
  BY DEF Tick, TimerType
<1>5. CASE t.timeout = t.idle
  <2>1. t.timeout - t.idle = 0
    BY <1>1, <1>5
  <2>2. /\ Rearm(t).active = TRUE /\ Rearm(t).armed = FALSE
        /\ Rearm(t).timeout = t.timeout /\ Rearm(t).idle = t.idle
    BY <2>1 DEF Rearm, Again, Stop, TimerType
  <2> QED BY <1>2, <1>3, <1>4, <1>5, <2>2
<1>6. CASE t.timeout # t.idle
  <2>1. t.timeout - t.idle # 0
    BY <1>1, <1>6
  <2>2. /\ Rearm(t).active = TRUE /\ Rearm(t).armed = TRUE
        /\ Rearm(t).timeout = t.timeout /\ Rearm(t).idle = t.idle
    BY <2>1 DEF Rearm, Again, TimerType
  <2> QED BY <1>2, <1>3, <1>4, <1>6, <2>2
<1> QED BY <1>5, <1>6

\* Activity and a new timeout leave the timer covered and armed.
LEMMA ActivityFields ==
  ASSUME NEW t \in TimerType(Timeouts)
  PROVE  /\ Touch(t).timeout = t.timeout
         /\ t.timeout # 0 => Touch(t).active
         /\ Touch(t).active /\ ~Touch(t).armed => t.active /\ ~t.armed
         /\ \A timeout \in Timeouts \ {0} :
              SetTimeout(t, timeout).active /\ SetTimeout(t, timeout).armed
<1>1. t.timeout \in Nat
  BY TimerFields
<1>2. /\ Touch(t).timeout = t.timeout
      /\ t.timeout # 0 => Touch(t).active
      /\ Touch(t).active /\ ~Touch(t).armed => t.active /\ ~t.armed
  <2> DEFINE u == [t EXCEPT !.idle = 0]
  <2>1. u \in TimerType(Timeouts)
    BY TimerUpdates
  <2>2. /\ u.timeout = t.timeout /\ u.idle = 0
        /\ u.active = t.active /\ u.armed = t.armed
    BY DEF TimerType
  <2>3. Touch(t) = IF ~t.active /\ t.timeout # 0 THEN Rearm(u) ELSE u
    BY DEF Touch
  <2> HIDE DEF u
  <2>4. /\ Rearm(u).active /\ (Rearm(u).armed <=> u.timeout # u.idle)
        /\ Rearm(u).timeout = u.timeout
    BY <2>1, OperationFields
  <2> QED BY <2>2, <2>3, <2>4
<1>3. ASSUME NEW timeout \in Timeouts \ {0}
      PROVE  SetTimeout(t, timeout).active /\ SetTimeout(t, timeout).armed
  <2> DEFINE g == GiveUp(t)
             u == [g EXCEPT !.timeout = timeout, !.idle = 0]
  <2>1. g \in TimerType(Timeouts)
    BY GiveUpType
  <2> HIDE DEF g
  <2>2. u \in TimerType(Timeouts)
    BY <2>1, TimerUpdates
  <2>3. u.timeout = timeout /\ u.idle = 0
    BY <2>1 DEF TimerType
  <2>4. SetTimeout(t, timeout) = Rearm(u)
    BY DEF SetTimeout, g
  <2> HIDE DEF u
  <2> QED BY <2>2, <2>3, <2>4, OperationFields
<1> QED BY <1>2, <1>3

\* Whatever the application does, with whatever timeouts: a stream that stays
\* idle is found out, unless the timer was called at the very tick its timeout
\* ends, on_timeout was active, or the application took the timeout back.
THEOREM TimeoutAlwaysCovered == Spec => TimeoutIsCovered
<1> DEFINE Step ==
      Unguarded' =>
        \/ Unguarded
        \/ log'.closed > log.closed
        \/ OnTimer /\ timer.idle = timer.timeout
        \/ TimedOut /\ ~Expired(timer)
        \/ AppSetsTimeout /\ ~timer'.active
<1>1. TypeOK /\ [Next]_vars => [Step]_vars
  <2> SUFFICES ASSUME TypeOK, [Next]_vars, Unguarded', ~Unguarded
               PROVE  \/ log'.closed > log.closed
                      \/ OnTimer /\ timer.idle = timer.timeout
                      \/ TimedOut /\ ~Expired(timer)
                      \/ AppSetsTimeout /\ ~timer'.active
    OBVIOUS
  <2>1. /\ timer \in TimerType(Timeouts) /\ log.closed \in Nat
        /\ timer.timeout \in Nat /\ timer.idle \in Nat
    BY TimerFields DEF TypeOK, Logs
  <2>2. /\ timer'.timeout # 0 /\ ~timer'.armed
        /\ timer'.active \/ ~(timer'.idle > timer'.timeout)
        /\ timer.timeout # 0 /\ ~timer.armed => ~timer.active /\ timer.idle > timer.timeout
    BY DEF Unguarded, Expired
  <2>3. timer' \notin {timer, Touch(timer), Tick(timer)}
    BY <2>1, <2>2, OperationFields, ActivityFields
  <2>4. CASE timer' = Stop(timer) /\ \E clean, rest : Destroy(clean, rest)
    <3>1. log'.closed = log.closed + 1
      BY <2>4 DEF Destroy, TypeOK, Logs
    <3> QED BY <2>1, <3>1
  <2>5. CASE timer' = GiveUp(timer) /\ TimedOut
    BY <2>1, <2>2, <2>5, OperationFields DEF Expired
  <2>6. CASE timer' = Rearm(timer) /\ OnTimer
    BY <2>1, <2>2, <2>6, OperationFields
  <2>7. CASE AppSetsTimeout
    <3>1. PICK timeout \in Timeouts : timer' = SetTimeout(timer, timeout)
      BY <2>7 DEF AppSetsTimeout
    <3>2. timeout = 0
      BY <2>1, <2>2, <3>1, ActivityFields
    <3> QED BY <2>1, <2>7, <3>1, <3>2, OperationFields DEF SetTimeout
  <2> QED BY <2>3, <2>4, <2>5, <2>6, <2>7, StepsOperate
<1> QED BY <1>1, TypeCorrect, PTL DEF Spec, TimeoutIsCovered

-------------------------------------------------------------------------------
(***************************************************************************)
(* Nothing runs after the end.                                             *)
(***************************************************************************)

\* An application that leaves the stream alone in its on_close.
Quiet == AppCalls["on_close"] = {}

Gone == log.closed > 0 \/ stream.heap = "freed"

\* A stream that is gone is known to nobody: it is being closed, on_close is
\* the last callback, and the freeing comes next.
Over ==
  /\ Gone => ~io.active /\ ~timer.armed
  /\ Alive /\ log.closed > 0 =>
       /\ stack # <<>>
       /\ \/ Head(stack) = "free"
          \/ Head(stack) = "on_close" /\ Len(stack) > 1 /\ Head(Tail(stack)) = "free"
  /\ Closing(stack) => log.closed > 0

\* Frames pushed on a stack that waits for no freeing.
LEMMA PushOthers ==
  ASSUME NEW s \in Seq(Frames), ~Closing(s), NEW c \in Callbacks,
         NEW p \in Points \ {"free"}, NEW q \in Points \ {"free"}
  PROVE  /\ ~Closing(Call(c) \o s)
         /\ ~Closing(Call(c) \o <<p>> \o s)
         /\ ~Closing(Call(c) \o <<p, q>> \o s)
         /\ ~Closing(Call(c) \o <<p>>)
         /\ ~Closing(Call(c))
         /\ ~Closing(<<p>>) /\ ~Closing(<<>>)
<1>1. ASSUME NEW t \in Seq(Frames), NEW u \in Seq(Frames), ~Closing(t), ~Closing(u)
      PROVE  ~Closing(t \o u)
  <2>1. SUFFICES ASSUME NEW i \in 1..Len(t \o u), (t \o u)[i] = "free"
                 PROVE  FALSE
    BY DEF Closing
  <2>2. Len(t \o u) = Len(t) + Len(u) /\ Len(t) \in Nat /\ Len(u) \in Nat
    BY ConcatProperties
  <2>3. CASE i <= Len(t)
    <3>1. (t \o u)[i] = t[i] /\ i \in 1..Len(t)
      BY <2>2, <2>3, ConcatProperties
    <3> QED BY <1>1, <2>1, <3>1 DEF Closing
  <2>4. CASE i > Len(t)
    <3>1. (t \o u)[i] = u[i - Len(t)] /\ i - Len(t) \in 1..Len(u)
      BY <2>2, <2>4, ConcatProperties
    <3> QED BY <1>1, <2>1, <3>1 DEF Closing
  <2> QED BY <2>2, <2>3, <2>4
<1>2. /\ <<p>> \in Seq(Frames) /\ <<p, q>> \in Seq(Frames)
      /\ ~Closing(<<p>>) /\ ~Closing(<<p, q>>) /\ ~Closing(<<>>)
  BY DEF Frames, Closing
<1>3. Call(c) \in Seq(Frames) /\ ~Closing(Call(c))
  <2>1. <<c>> \in Seq(Frames) /\ ~Closing(<<c>>)
    BY DEF Frames, Closing, Callbacks
  <2> QED BY <1>2, <2>1, PushType DEF Call
<1>4. /\ Call(c) \o <<p>> \in Seq(Frames) /\ ~Closing(Call(c) \o <<p>>)
      /\ Call(c) \o <<p, q>> \in Seq(Frames) /\ ~Closing(Call(c) \o <<p, q>>)
  BY <1>1, <1>2, <1>3, ConcatProperties
<1> QED BY <1>1, <1>2, <1>3, <1>4

\* Popping a frame adds none.
LEMMA PopOthers ==
  ASSUME NEW s \in Seq(Frames), ~Closing(s), s # <<>>
  PROVE  Tail(s) \in Seq(Frames) /\ ~Closing(Tail(s))
<1>1. /\ Tail(s) \in Seq(Frames) /\ Len(Tail(s)) = Len(s) - 1
      /\ \A i \in 1..Len(Tail(s)) : Tail(s)[i] = s[i + 1] /\ i + 1 \in 1..Len(s)
  BY HeadTailProperties
<1> QED BY <1>1 DEF Closing

\* Destroying a stream, from wherever.
Destroys == \E clean \in BOOLEAN, rest \in Seq(Frames) : Destroy(clean, rest)

\* A step that neither destroys nor frees.
Stays == stream'.heap # "freed" /\ log'.closed = log.closed /\ ~Closing(stack')

\* What a step can do to a stream that is gone: return from a callback, free.
LEMMA GoneStep ==
  ASSUME TypeOK, Watched, Over, Quiet, Gone, [Next]_vars
  PROVE  /\ UNCHANGED <<io, timer>> /\ log'.closed = log.closed
         /\ \/ stack' = stack /\ stream' = stream
            \/ /\ stack # <<>> /\ stack' = Tail(stack)
               /\ Head(stack) \in Callbacks /\ stream' = stream
            \/ /\ stack # <<>> /\ stack' = Tail(stack)
               /\ Head(stack) = "free" /\ stream'.heap = "freed"
<1>1. ~io.active /\ io.pending = {} /\ ~timer.armed
  BY DEF Over, TypeOK
<1>2. stream.heap # "none"
  BY DEF Gone, Watched
<1>3. ~InLoop \/ ~Alive
  BY DEF Over, Gone, InLoop, Alive
<1>4. Alive => stack # <<>> /\ Head(stack) \in {"free", "on_close"}
  BY DEF Over, Gone, Alive
<1>5. stream.heap \in {"alive", "freed"} /\ (Alive <=> stream.heap = "alive")
  BY <1>2 DEF TypeOK, Streams, Alive
<1>6. \A p \in Points : Fault(p) => UNCHANGED <<io, timer, stack, stream>>
                                     /\ log'.closed = log.closed
  BY DEF Fault, TypeOK, Logs
<1>7. CASE Library
  <2>1. ~(OnConnect \/ OnData \/ OnReadError \/ OnFin \/ OnWritable \/ OnTimer \/ Poll)
    BY <1>1 DEF OnConnect, OnData, OnReadError, OnFin, ReadEvent, OnWritable, OnTimer,
       Fires, Poll
  <2>2. ASSUME NEW p \in Points, p # "free", stack # <<>>, Head(stack) = p
        PROVE  stream.heap = "freed"
    <3>1. p # "on_close"
      BY DEF Points
    <3> QED BY <1>4, <1>5, <2>2, <3>1
  <2>3. {"accepted", "connected", "timed_out", "send_failed", "read_failed",
         "watch_writes", "check_closed", "fin_end", "fin_close", "free"} \subseteq Points
    BY DEF Points
  <2>4. CASE Accepted \/ Connected \/ ReadFailed \/ SendFailed
             \/ WatchWritesAfterFailure \/ CheckClosed \/ FinEnd \/ FinClose \/ TimedOut
    <3>1. \E p \in Points : Fault(p)
      BY <2>2, <2>3, <2>4 DEF Accepted, Connected, ReadFailed, SendFailed,
         WatchWritesAfterFailure, CheckClosed, FinEnd, FinClose, TimedOut, At
    <3> QED BY <1>6, <3>1
  <2>5. CASE Free
    <3>1. CASE Fault("free")
      BY <1>6, <2>3, <3>1
    <3>2. CASE ~Fault("free")
      <4>1. /\ stream' = [stream EXCEPT !.heap = "freed", !.out = <<>>,
                                        !.bufferlist = <<>>, !.has_list = FALSE]
            /\ stack # <<>> /\ Head(stack) = "free" /\ stack' = Tail(stack)
            /\ UNCHANGED <<io, sock, timer, log>>
        BY <2>5, <3>2 DEF Free, At
      <4>2. stream'.heap = "freed"
        BY <4>1 DEF TypeOK, Streams
      <4> QED BY <4>1, <4>2
    <3> QED BY <3>1, <3>2
  <2> QED BY <1>7, <2>1, <2>4, <2>5 DEF Library
<1>8. CASE Application
  <2>1. ~(Accept \/ Connect \/ ConnectFails)
    BY <1>2 DEF Accept, Connect, ConnectFails
  <2>2. ASSUME NEW call, AppMay(call) PROVE FALSE
    <3>1. Alive /\ Context \in Contexts /\ call \in AppCalls[Context]
      BY <2>2 DEF AppMay
    <3>2. Context = Head(stack)
      BY <1>4, <3>1 DEF Context
    <3>3. "free" \notin Contexts
      BY DEF Contexts, Callbacks
    <3> QED BY <1>4, <3>1, <3>2, <3>3 DEF Quiet
  <2>3. ~(AppWrites \/ AppEnds \/ AppDestroys \/ AppSetsTimeout)
    BY <2>2 DEF AppWrites, AppEnds, AppDestroys, AppSetsTimeout
  <2>4. Return
    BY <1>8, <2>1, <2>3 DEF Application
  <2> QED BY <2>4 DEF Return
<1>9. CASE Environment \/ UNCHANGED vars
  BY <1>3, <1>9 DEF Environment, PeerSends, PeerFins, Resets, KernelSends, TimePasses,
     Network, vars
<1> QED BY <1>7, <1>8, <1>9 DEF Next

\* What a step can do to a stream that is not gone.
LEMMA OpenStep ==
  ASSUME TypeOK, Watched, Over, ~Gone, [Next]_vars
  PROVE  Destroys \/ ConnectFails \/ Stays
<1>1. /\ stack \in Seq(Frames) /\ ~Closing(stack)
      /\ stream.heap # "freed" /\ log.closed = 0
      /\ stack # <<>> => Tail(stack) \in Seq(Frames) /\ ~Closing(Tail(stack))
  <2>1. stack \in Seq(Frames) /\ ~Closing(stack) /\ log.closed = 0
    BY DEF TypeOK, Frames, Over, Gone, Logs
  <2> QED BY <2>1, PopOthers DEF Gone
<1>2. /\ \A a : [stream EXCEPT !.ready_state = a].heap = stream.heap
      /\ \A a : [stream EXCEPT !.has_list = a].heap = stream.heap
      /\ \A a : [stream EXCEPT !.out = a].heap = stream.heap
      /\ \A a : [stream EXCEPT !.bufferlist = a].heap = stream.heap
      /\ \A a : [log EXCEPT !.written = a].closed = log.closed
      /\ \A a : [log EXCEPT !.ended = a].closed = log.closed
      /\ \A a : [log EXCEPT !.delivered = a].closed = log.closed
      /\ \A a : [log EXCEPT !.send_failed = a].closed = log.closed
  BY DEF TypeOK, Streams, Logs
<1>3. /\ \A c \in Callbacks : /\ ~Closing(Call(c)) /\ ~Closing(Call(c) \o stack)
                              /\ \A p \in Points \ {"free"} :
                                   /\ ~Closing(Call(c) \o <<p>>)
                                   /\ stack # <<>> => ~Closing(Call(c) \o <<p>> \o Tail(stack))
                              /\ \A p, q \in Points \ {"free"} :
                                   ~Closing(Call(c) \o <<p, q>> \o stack)
      /\ ~Closing(<<>>)
  <2>1. "accepted" \in Points \ {"free"} /\ "on_data" \in Callbacks
    BY DEF Points, Callbacks
  <2> QED BY <1>1, <2>1, PushOthers
<1>4. /\ {"accepted", "connected", "timed_out", "send_failed", "read_failed",
          "watch_writes", "check_closed", "fin_end", "fin_close"} \subseteq Points \ {"free"}
      /\ {"on_connection", "on_connect", "on_data", "on_end", "on_timeout", "on_drain",
          "on_error"} \subseteq Callbacks
  BY DEF Points, Callbacks
<1>5. ~\E p \in Points : /\ stack # <<>> /\ Head(stack) = p /\ stream.heap = "freed"
  BY <1>1
<1>6. CASE Accepted \/ Connected \/ WatchWritesAfterFailure \/ CheckClosed \/ TimedOut
  <2>1. /\ stack # <<>> /\ stack' = Tail(stack) /\ UNCHANGED log
        /\ stream' = stream \/ stream' = [stream EXCEPT !.has_list = stream.oneshot]
    BY <1>1, <1>6 DEF Accepted, Connected, WatchWritesAfterFailure, CheckClosed, TimedOut, At
  <2> QED BY <1>1, <1>2, <2>1 DEF Stays
<1>7. CASE ReadFailed \/ SendFailed
  BY <1>1, <1>7 DEF ReadFailed, SendFailed, At, Destroys
<1>8. ~Free
  <2>1. ASSUME stack # <<>>, Head(stack) = "free" PROVE FALSE
    <3>1. 1 \in 1..Len(stack) /\ stack[1] = "free"
      BY <1>1, <2>1
    <3> QED BY <1>1, <3>1 DEF Closing
  <2> QED BY <2>1 DEF Free, At
<1>9. CASE FinEnd
  <2>1. /\ stack # <<>> /\ stream' = stream
        /\ log' = [log EXCEPT !.ended = log.ended + 1]
        /\ stack' = Call("on_end") \o <<"fin_close">> \o Tail(stack)
    BY <1>1, <1>9 DEF FinEnd, At
  <2> QED BY <1>1, <1>2, <1>3, <1>4, <2>1 DEF Stays
<1>10. CASE FinClose
  <2>1. CASE stream.ready_state = "READ_ONLY"
    BY <1>1, <1>10, <2>1 DEF FinClose, At, Destroys
  <2>2. CASE stream.ready_state # "READ_ONLY"
    <3>1. /\ stack # <<>> /\ stack' = Tail(stack) /\ UNCHANGED log
          /\ stream' = [stream EXCEPT !.ready_state = "WRITE_ONLY"]
      BY <1>1, <1>10, <2>2 DEF FinClose, At, HalfClose
    <3> QED BY <1>1, <1>2, <3>1 DEF Stays
  <2> QED BY <2>1, <2>2
<1>11. CASE OnConnect
  <2>1. /\ stream' = [stream EXCEPT !.ready_state = "OPEN"] /\ UNCHANGED log
        /\ stack' = Call("on_connect") \o <<"connected">>
    BY <1>11 DEF OnConnect
  <2> QED BY <1>1, <1>2, <1>3, <1>4, <2>1 DEF Stays
<1>12. CASE OnData
  <2>1. stack = <<>>
    BY <1>12 DEF OnData, ReadEvent, InLoop
  <2>2. \/ /\ stream' = [stream EXCEPT !.bufferlist = stream'.bufferlist]
           /\ UNCHANGED <<stack, log>>
        \/ /\ UNCHANGED stream
           /\ stack' = Call("on_data") \o <<>>
           /\ log' = log \/ \E d : log' = [log EXCEPT !.delivered = d]
    <3>1. CASE stream.oneshot
      <4>1. \E l : stream' = [stream EXCEPT !.bufferlist = l]
        BY <1>12, <3>1 DEF OnData
      <4> QED BY <1>12, <3>1, <4>1 DEF OnData, TypeOK, Streams
    <3>2. CASE ~stream.oneshot
      BY <1>12, <3>2 DEF OnData, Deliver
    <3> QED BY <3>1, <3>2
  <2>3. Call("on_data") \o <<>> = Call("on_data")
    BY <1>4, PushType, ConcatEmptySeq
  <2> QED BY <1>1, <1>2, <1>3, <1>4, <2>2, <2>3 DEF Stays
<1>13. CASE OnReadError
  <2>1. stack' = Call("on_error") \o <<"read_failed">> /\ UNCHANGED <<stream, log>>
    BY <1>13 DEF OnReadError
  <2> QED BY <1>1, <1>3, <1>4, <2>1 DEF Stays
<1>14. CASE OnFin
  <2>1. ~Closing(<<"fin_end">>)
    BY <1>1, <1>4, PushOthers
  <2>2. /\ UNCHANGED stream
        /\ stack' \in {<<"fin_end">>, Call("on_data") \o <<"fin_end">>}
        /\ log' = log \/ \E d : log' = [log EXCEPT !.delivered = d]
    BY <1>14 DEF OnFin, Deliver
  <2> QED BY <1>1, <1>2, <1>3, <1>4, <2>1, <2>2, ZenonT(40) DEF Stays
<1>15. \A p \in Points \ {"free"} : SendFails(p) => log'.closed = 0 /\ ~Closing(stack')
  BY <1>1, <1>2, <1>3, <1>4 DEF SendFails
<1>16. CASE OnWritable
  <2>1. CASE stream.out # <<>> /\ ~CanSend
    <3>1. SendFails("check_closed") /\ UNCHANGED stream
      BY <1>16, <2>1 DEF OnWritable
    <3> QED BY <1>1, <1>4, <1>15, <3>1 DEF Stays
  <2>2. CASE ~(stream.out # <<>> /\ ~CanSend)
    <3>1. /\ stream' = [stream EXCEPT !.out = Unsent(stream.out)] /\ UNCHANGED log
          /\ stack' = Call("on_drain") \/ UNCHANGED stack
      BY <1>16, <2>2 DEF OnWritable
    <3> QED BY <1>1, <1>2, <1>3, <1>4, <3>1 DEF Stays
  <2> QED BY <2>1, <2>2
<1>17. CASE OnTimer
  <2>1. /\ UNCHANGED <<stream, log>>
        /\ stack' = Call("on_timeout") \o <<"timed_out">> \/ UNCHANGED stack
    BY <1>17 DEF OnTimer
  <2> QED BY <1>1, <1>3, <1>4, <2>1 DEF Stays
<1>18. CASE Accept \/ Connect
  <2>1. /\ stream'.heap = "alive" /\ UNCHANGED log
        /\ stack' = Call("on_connection") \o <<"accepted">> \/ UNCHANGED stack
    BY <1>18 DEF Accept, Connect, TypeOK, Streams
  <2> QED BY <1>1, <1>3, <1>4, <2>1 DEF Stays
<1>19. CASE AppWrites
  <2>1. PICK n \in 0..(MaxWritten - log.written) : Write(n)
    BY <1>19 DEF AppWrites
  <2>2. CASE UNCHANGED <<stream, log>> /\ stack' = Call("on_error") \o stack
    BY <1>1, <1>3, <1>4, <2>2 DEF Stays
  <2>3. CASE SendFails("watch_writes") /\ UNCHANGED stream
    BY <1>1, <1>4, <1>15, <2>3 DEF Stays
  <2>4. CASE /\ UNCHANGED stack
             /\ \E out : stream' = [stream EXCEPT !.out = out]
             /\ log' = [log EXCEPT !.written = log.written + n]
    BY <1>1, <1>2, <2>4 DEF Stays
  <2>5. \/ UNCHANGED <<stream, log>> /\ stack' = Call("on_error") \o stack
        \/ SendFails("watch_writes") /\ UNCHANGED stream
        \/ /\ UNCHANGED stack
           /\ \E out : stream' = [stream EXCEPT !.out = out]
           /\ log' = [log EXCEPT !.written = log.written + n]
    BY <2>1 DEF Write
  <2> QED BY <2>2, <2>3, <2>4, <2>5
<1>20. CASE AppEnds \/ AppDestroys
  <2>1. CASE \E clean \in BOOLEAN : Destroy(clean, stack)
    BY <1>1, <2>1 DEF Destroys
  <2>2. CASE EndOutput /\ UNCHANGED <<stack, log>>
    BY <1>1, <1>2, <2>2 DEF EndOutput, Stays
  <2> QED BY <1>20, <2>1, <2>2 DEF AppEnds, AppDestroys
<1>21. CASE Return
  BY <1>1, <1>21 DEF Return, Stays
<1>22. CASE Poll \/ AppSetsTimeout \/ Environment \/ UNCHANGED vars
  <2>1. UNCHANGED <<stream, stack, log>>
    BY <1>22 DEF Poll, AppSetsTimeout, Environment, PeerSends, PeerFins, Resets,
       KernelSends, TimePasses, Network, vars
  <2> QED BY <1>1, <2>1 DEF Stays
<1> QED BY <1>6, <1>7, <1>8, <1>9, <1>10, <1>11, <1>12, <1>13, <1>14, <1>16, <1>17,
        <1>18, <1>19, <1>20, <1>21, <1>22 DEF Next, Library, Application

\* Every step leaves a stream that is over to its own freeing.
LEMMA NextOver ==
  ASSUME TypeOK, Watched, Over, Quiet, [Next]_vars
  PROVE  Over'
<1>1. /\ stack \in Seq(Frames)
      /\ stack # <<>> => /\ Tail(stack) \in Seq(Frames)
                         /\ Len(Tail(stack)) = Len(stack) - 1
                         /\ Tail(stack) # <<>> => Len(stack) > 1
                         /\ Closing(Tail(stack)) => Closing(stack)
  <2>1. stack \in Seq(Frames)
    BY DEF TypeOK, Frames
  <2>2. stack # <<>> /\ ~Closing(stack) => ~Closing(Tail(stack))
    BY <2>1, PopOthers
  <2> QED BY <2>1, <2>2, HeadTailProperties
<1>2. CASE Gone
  <2>1. /\ UNCHANGED <<io, timer>> /\ log'.closed = log.closed
        /\ \/ stack' = stack /\ stream' = stream
           \/ /\ stack # <<>> /\ stack' = Tail(stack)
              /\ Head(stack) \in Callbacks /\ stream' = stream
           \/ /\ stack # <<>> /\ stack' = Tail(stack)
              /\ Head(stack) = "free" /\ stream'.heap = "freed"
    BY <1>2, GoneStep
  <2>2. CASE stack' = stack /\ stream' = stream
    BY <1>2, <2>1, <2>2 DEF Over, Gone, Alive
  <2>3. CASE /\ stack # <<>> /\ stack' = Tail(stack)
             /\ Head(stack) \in Callbacks /\ stream' = stream
    <3>1. "free" \notin Callbacks
      BY DEF Callbacks
    <3>2. Alive /\ log.closed > 0 => Tail(stack) # <<>> /\ Head(Tail(stack)) = "free"
      <4>1. Alive /\ log.closed > 0 => Len(stack) > 1 /\ Head(Tail(stack)) = "free"
        BY <2>3, <3>1 DEF Over
      <4>2. ASSUME Tail(stack) = <<>> PROVE Len(stack) = 1
        <5>1. Len(stack) \in Nat /\ Len(Tail(stack)) = Len(stack) - 1
          BY <1>1, <2>3
        <5>2. Len(<<>>) = 0
          OBVIOUS
        <5>3. Len(Tail(stack)) = 0
          BY <4>2, <5>2, Zenon
        <5> QED BY <5>1, <5>3
      <4> QED BY <4>1, <4>2
    <3> QED BY <1>1, <1>2, <2>1, <2>3, <3>2 DEF Over, Gone, Alive
  <2>4. CASE /\ stack # <<>> /\ stack' = Tail(stack)
             /\ Head(stack) = "free" /\ stream'.heap = "freed"
    BY <1>1, <1>2, <2>1, <2>4 DEF Over, Gone, Alive
  <2> QED BY <2>1, <2>2, <2>3, <2>4
<1>3. CASE ~Gone
  <2>1. CASE Destroys
    <3>1. PICK clean \in BOOLEAN, rest \in Seq(Frames) : Destroy(clean, rest)
      BY <2>1 DEF Destroys
    <3>2. ~io'.active
      BY <3>1 DEF Destroy, TypeOK, Watchers
    <3>3. ~timer'.armed
      BY <3>1 DEF Destroy, Stop, TypeOK, TimerType
    <3>4. log'.closed > 0
      BY <3>1 DEF Destroy, TypeOK, Logs
    <3>5. /\ stack' # <<>>
          /\ \/ Head(stack') = "free"
             \/ Head(stack') = "on_close" /\ Len(stack') > 1 /\ Head(Tail(stack')) = "free"
      <4>1. stack' = Call("on_close") \o <<"free">> \o rest
        BY <3>1 DEF Destroy
      <4>2. CASE "on_close" \in Installed
        <5>1. stack' = <<"on_close">> \o <<"free">> \o rest
          BY <4>1, <4>2 DEF Call
        <5> QED BY <5>1
      <4>3. CASE "on_close" \notin Installed
        <5>1. stack' = <<>> \o <<"free">> \o rest
          BY <4>1, <4>3 DEF Call
        <5> QED BY <5>1
      <4> QED BY <4>2, <4>3
    <3> QED BY <3>2, <3>3, <3>4, <3>5 DEF Over
  <2>2. CASE ConnectFails
    <3>1. /\ stream.heap = "none" /\ stream'.heap = "freed"
          /\ UNCHANGED <<io, timer, stack, log>>
      BY <2>2 DEF ConnectFails, TypeOK, Streams
    <3> QED BY <3>1 DEF Watched, Over, Gone, Alive
  <2>3. CASE Stays
    <3>1. ~(log'.closed > 0)
      BY <1>3, <2>3 DEF Stays, Gone
    <3> QED BY <2>3, <3>1 DEF Stays, Over, Gone
  <2> QED BY <1>3, <2>1, <2>2, <2>3, OpenStep
<1> QED BY <1>2, <1>3

\* The invariant behind the two theorems below.
LEMMA AlwaysOver == Quiet => (Spec => [](TypeOK /\ Watched /\ Over))
<1> SUFFICES ASSUME Quiet PROVE Spec => [](TypeOK /\ Watched /\ Over)
  OBVIOUS
<1>1. Init => Order /\ Watched /\ Over
  BY DEF Init, Order, Numbered, Watched, Over, Gone, Closing, Alive, NoTimer
<1>2. TypeOK /\ Order /\ Watched /\ Over /\ [Next]_vars => Order' /\ Watched' /\ Over'
  BY NextOrder, NextWatched, NextOver
<1> QED BY <1>1, <1>2, TypeCorrect, PTL DEF Spec

\* libev holds nothing of a freed stream: no path through destroy, with
\* whatever was suspended at the time, leaves the watcher or the timer running.
THEOREM FreedNeverWatched ==
  ASSUME Quiet PROVE Spec => []FreedIsUnwatched
<1>1. Over => FreedIsUnwatched
  BY DEF Over, Gone, FreedIsUnwatched
<1> QED BY <1>1, AlwaysOver, PTL

\* on_close is the last callback: once a stream has been destroyed its handlers
\* only return, and it is never destroyed a second time.
THEOREM CloseIsLast ==
  ASSUME Quiet PROVE Spec => NothingAfterClose
<1>1. TypeOK /\ Watched /\ Over /\ [Next]_vars =>
        [log.closed > 0 => Len(stack') <= Len(stack) /\ log'.closed = log.closed]_vars
  <2> SUFFICES ASSUME TypeOK, Watched, Over, [Next]_vars, log.closed > 0
               PROVE  Len(stack') <= Len(stack) /\ log'.closed = log.closed
    OBVIOUS
  <2>1. Gone
    BY DEF Gone
  <2>2. /\ log'.closed = log.closed
        /\ stack' = stack \/ (stack # <<>> /\ stack' = Tail(stack))
    BY <2>1, GoneStep
  <2>3. stack \in Seq(Frames)
    BY DEF TypeOK, Frames
  <2> QED BY <2>2, <2>3, HeadTailProperties
<1> QED BY <1>1, AlwaysOver, PTL DEF Spec, NothingAfterClose

===============================================================================
