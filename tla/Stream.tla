-------------------------------- MODULE Stream --------------------------------
(***************************************************************************)
(* One evn_stream (source/evn.c) from its creation to its destruction: the *)
(* struct, its libev watcher, its timer, its file descriptor, and the      *)
(* application's callbacks, which call back into the library.              *)
(*                                                                         *)
(* Everything runs on one thread inside ev_loop, so a handler is only ever *)
(* interrupted where it calls the application.  The variable stack is the  *)
(* C call stack cut at those points: a frame is either the name of a       *)
(* callback that is running or the point where the library goes on once    *)
(* the callback above it has returned.  An action runs the library from    *)
(* one such point to the next.  Peer and kernel move at any time.          *)
(*                                                                         *)
(* A byte is its position in the data written (or sent by the peer).       *)
(* Touching a freed stream is undefined behaviour: log.ub names the point, *)
(* and as the language promises nothing from there on, nothing follows.    *)
(***************************************************************************)
EXTENDS Integers, Sequences, StreamCalls, StreamTimer

\* Where the library goes on after a callback; see the action of that name.
Points == {"accepted", "connected", "timed_out", "send_failed", "read_failed",
           "watch_writes", "check_closed", "fin_end", "fin_close", "free"}

CONSTANTS
  Sides,       \* how the stream is created: "accepted", "connected" or both
  Oneshots,    \* the values the application may give to oneshot
  Installed,   \* the callbacks the application installs
  AppCalls,    \* the calls the application makes in each context
  EndsQueued,  \* whether it calls evn_stream_end while output is queued
  Timeouts,    \* what it passes to evn_stream_set_timeout
  CanReset,    \* whether the connection can be reset
  SndBuf,      \* room for bytes in the kernel's send buffer
  MaxRecv,     \* EVN_MAX_RECV
  MaxWritten,  \* bound of the model: bytes written in all
  MaxArrived,  \* bound of the model: bytes the peer sends in all
  MaxDepth     \* bound of the model: nesting at which the application calls

ASSUME StreamAssumption ==
  /\ Sides \subseteq {"accepted", "connected"}
  /\ Oneshots \subseteq BOOLEAN
  /\ Installed \subseteq Callbacks
  /\ AppCalls \in [Contexts -> SUBSET Calls]
  /\ EndsQueued \in BOOLEAN
  /\ Timeouts \subseteq Nat
  /\ CanReset \in BOOLEAN
  /\ SndBuf \in Nat \ {0}
  /\ MaxRecv \in Nat \ {0}
  /\ {MaxWritten, MaxArrived, MaxDepth} \subseteq Nat

VARIABLES
  stream,  \* the struct: heap, ready_state, oneshot, out (_priv_out_buffer),
           \* bufferlist and has_list (whether bufferlist is not NULL)
  io,      \* its ev_io: active, events, cb, and the pending events of libev
  sock,    \* the kernel's side of the connection
  timer,   \* the inactivity timer, see StreamTimer
  stack,   \* the running callbacks and suspended handlers, innermost first
  log      \* history: what was written, delivered, called; see Init

vars == <<stream, io, sock, timer, stack, log>>

Bytes(m, n) == [i \in 1..(n - m) |-> m + i]     \* bytes m+1 to n
Least(a, b) == IF a <= b THEN a ELSE b
-------------------------------------------------------------------------------
Init ==
  /\ stream = [heap |-> "none", ready_state |-> "CLOSED", oneshot |-> FALSE,
               out |-> <<>>, bufferlist |-> <<>>, has_list |-> FALSE]
  /\ io = [active |-> FALSE, events |-> {}, cb |-> "none", pending |-> {}]
  /\ sock = [open |-> FALSE, room |-> SndBuf, shut |-> FALSE, wire |-> <<>>,
             arrived |-> 0, read |-> 0, fin |-> FALSE, reset |-> FALSE]
  /\ timer = NoTimer
  /\ stack = <<>>
  /\ log = [written |-> 0, delivered |-> <<>>, ended |-> 0, closed |-> 0,
            had_error |-> FALSE, send_failed |-> FALSE, ub |-> "none"]

Defined == log.ub = "none"
InLoop == Defined /\ stack = <<>>
Alive == stream.heap = "alive"

\* if (stream->callback) { stream->callback(...); }
Call(callback) == IF callback \in Installed THEN <<callback>> ELSE <<>>

\* The stream is touched at point p after it was freed.
Fault(p) ==
  /\ log' = [log EXCEPT !.ub = p]
  /\ UNCHANGED <<stream, io, sock, timer, stack>>

\* The library goes on at point p, on a stream that must not be freed.
At(p, Resume) ==
  /\ Defined
  /\ stack # <<>> /\ Head(stack) = p
  /\ IF stream.heap = "freed" THEN Fault(p) ELSE Resume
-------------------------------------------------------------------------------
(***************************************************************************)
(* Creation.                                                               *)
(***************************************************************************)

\* evn_server_priv_on_connection accepts the connection, creates the stream
\* and hands it to the application, which chooses oneshot.
Accept ==
  /\ "accepted" \in Sides
  /\ stream.heap = "none"
  /\ \E oneshot \in Oneshots :
       stream' = [stream EXCEPT !.heap = "alive", !.ready_state = "OPEN",
                                !.oneshot = oneshot]
  /\ io' = [active |-> FALSE, events |-> {"READ", "WRITE"},
            cb |-> "on_activity", pending |-> {}]
  /\ sock' = [sock EXCEPT !.open = TRUE]
  /\ stack' = Call("on_connection") \o <<"accepted">>
  /\ UNCHANGED <<timer, log>>

\* After on_connection: the buffer of a oneshot stream, and the watcher.
Accepted ==
  At("accepted",
     /\ stream' = [stream EXCEPT !.has_list = stream.oneshot]
     /\ io' = [io EXCEPT !.active = TRUE]
     /\ stack' = Tail(stack)
     /\ UNCHANGED <<sock, timer, log>>)

\* evn_create_connection when connect returns 0: the stream waits for its
\* first writable event, and the application sets its callbacks and oneshot.
Connect ==
  /\ "connected" \in Sides
  /\ stream.heap = "none"
  /\ \E oneshot \in Oneshots :
       stream' = [stream EXCEPT !.heap = "alive", !.ready_state = "OPENING",
                                !.oneshot = oneshot]
  /\ io' = [active |-> TRUE, events |-> {"WRITE"}, cb |-> "on_connect", pending |-> {}]
  /\ sock' = [sock EXCEPT !.open = TRUE]
  /\ UNCHANGED <<timer, stack, log>>

\* evn_create_connection when connect returns -1 (EINPROGRESS included): the
\* stream is destroyed before the application could set any callback.
ConnectFails ==
  /\ "connected" \in Sides
  /\ stream.heap = "none"
  /\ stream' = [stream EXCEPT !.heap = "freed"]
  /\ UNCHANGED <<io, sock, timer, stack, log>>

\* A plausible slip in Connected: the buffer of a oneshot stream is forgotten.
ConnectedWithoutList ==
  At("connected",
     /\ timer' = Touch(timer)
     /\ stack' = Tail(stack)
     /\ UNCHANGED <<stream, io, sock, log>>)

\* After on_connect in evn_stream_priv_on_connect.
Connected ==
  At("connected",
     /\ stream' = [stream EXCEPT !.has_list = stream.oneshot]
     /\ timer' = Touch(timer)
     /\ stack' = Tail(stack)
     /\ UNCHANGED <<io, sock, log>>)
-------------------------------------------------------------------------------
(***************************************************************************)
(* evn_stream_destroy, up to the on_close callback and after it.           *)
(***************************************************************************)

\* A plausible slip in Destroy: the watcher is not stopped.
DestroyStillWatched(clean, rest) ==
  /\ \E close_failed \in {TRUE, ~sock.open} :
       log' = [log EXCEPT !.closed = @ + 1,
                          !.had_error = ~clean \/ close_failed]
  /\ stream' = [stream EXCEPT !.ready_state = "CLOSED"]
  /\ sock' = [sock EXCEPT !.open = FALSE]
  /\ timer' = Stop(timer)
  /\ stack' = Call("on_close") \o <<"free">> \o rest
  /\ UNCHANGED io

\* Another: the timer is not stopped.
DestroyStillTimed(clean, rest) ==
  /\ log' = [log EXCEPT !.closed = @ + 1, !.had_error = ~clean]
  /\ stream' = [stream EXCEPT !.ready_state = "CLOSED"]
  /\ sock' = [sock EXCEPT !.open = FALSE]
  /\ io' = [io EXCEPT !.active = FALSE, !.pending = {}]
  /\ stack' = Call("on_close") \o <<"free">> \o rest
  /\ UNCHANGED timer

\* Destroying a stream that rest is waiting for; clean if the state was
\* already CLOSED.  close() fails on a closed descriptor, and may fail anyway.
Destroy(clean, rest) ==
  /\ \E close_failed \in {TRUE, ~sock.open} :
       log' = [log EXCEPT !.closed = @ + 1,
                          !.had_error = ~clean \/ close_failed]
  /\ stream' = [stream EXCEPT !.ready_state = "CLOSED"]
  /\ sock' = [sock EXCEPT !.open = FALSE]
  /\ io' = [io EXCEPT !.active = FALSE, !.pending = {}]
  /\ timer' = Stop(timer)
  /\ stack' = Call("on_close") \o <<"free">> \o rest

Free ==
  At("free",
     /\ stream' = [stream EXCEPT !.heap = "freed", !.out = <<>>,
                                 !.bufferlist = <<>>, !.has_list = FALSE]
     /\ stack' = Tail(stack)
     /\ UNCHANGED <<io, sock, timer, log>>)

\* A plausible slip in ReadFailed: no return after evn_stream_destroy.
ReadFailedGoesOn == At("read_failed", Destroy(FALSE, <<"fin_close">> \o Tail(stack)))

\* The errors of recv and send end in evn_stream_destroy.
ReadFailed == At("read_failed", Destroy(FALSE, Tail(stack)))

SendFailed == At("send_failed", Destroy(FALSE, Tail(stack)))
-------------------------------------------------------------------------------
(***************************************************************************)
(* Output: evn_stream_write, evn_stream_priv_send and the writable event.  *)
(***************************************************************************)

\* send(): -1 on a closed, reset or shut down connection, and also (EAGAIN)
\* when the kernel has no room; otherwise it takes what there is room for.
CanSend == sock.open /\ ~sock.reset /\ ~sock.shut /\ sock.room > 0

Taken(data) == Least(Len(data), sock.room)

Sent(data) ==
  sock' = [sock EXCEPT !.wire = @ \o SubSeq(data, 1, Taken(data)),
                       !.room = @ - Taken(data)]

\* A plausible slip in Unsent: all of a partly sent chunk is queued.
UnsentAll(data) == IF Taken(data) < Len(data) THEN data ELSE <<>>

\* Another: what one send does not take is forgotten.
UnsentForgotten(data) == <<>>

Unsent(data) == SubSeq(data, Taken(data) + 1, Len(data))

\* evn_stream_priv_send after a failed send, called from the point caller.
SendFails(caller) ==
  /\ log' = [log EXCEPT !.send_failed = TRUE]
  /\ stack' = Call("on_error") \o <<"send_failed", caller>> \o stack

\* A plausible slip in WatchWrites: trusting that the watcher has EV_WRITE.
WatchAsIs == io' = [io EXCEPT !.active = TRUE]

\* Another: ev_io_set for EV_WRITE alone, on a watcher that is not stopped.
WatchWritesOnly ==
  io' = [io EXCEPT !.active = TRUE,
                   !.events = IF "WRITE" \in @ THEN @ ELSE {"WRITE"}]

\* "Ensure that we listen for EV_WRITE": ev_io_stop also clears what is
\* pending, and ev_io_start does nothing on a watcher that is active.
WatchWrites ==
  io' = [io EXCEPT !.active = TRUE, !.events = @ \cup {"WRITE"},
                   !.pending = IF "WRITE" \in io.events THEN @ ELSE {}]

\* evn_stream_write of n bytes.  It returns at once on a READ_ONLY stream, and
\* calls send() only if there is something to send.
Write(n) ==
  LET data == Bytes(log.written, log.written + n)
  IN  IF stream.ready_state = "READ_ONLY"
      THEN /\ stack' = Call("on_error") \o stack
           /\ UNCHANGED <<stream, io, sock, timer, log>>
      ELSE /\ timer' = Touch(timer)
           /\ IF stream.out # <<>>
              THEN /\ stream' = [stream EXCEPT !.out = @ \o data]
                   /\ WatchWrites
                   /\ log' = [log EXCEPT !.written = @ + n]
                   /\ UNCHANGED <<sock, stack>>
              ELSE IF n # 0 /\ ~CanSend
              THEN /\ SendFails("watch_writes")
                   /\ UNCHANGED <<stream, io, sock>>
              ELSE /\ Sent(data)
                   /\ stream' = [stream EXCEPT !.out = Unsent(data)]
                   /\ IF Unsent(data) = <<>> THEN UNCHANGED io ELSE WatchWrites
                   /\ log' = [log EXCEPT !.written = @ + n]
                   /\ UNCHANGED stack

\* The end of evn_stream_write when its send failed.
WatchWritesAfterFailure ==
  At("watch_writes",
     /\ WatchWrites
     /\ stack' = Tail(stack)
     /\ UNCHANGED <<stream, sock, timer, log>>)

\* Output is complete: stop listening for EV_WRITE.
UnwatchWrites == io' = [io EXCEPT !.events = @ \ {"WRITE"}, !.pending = {}]

\* The event that is dispatched; libev clears it before it calls back.
Dispatched == io' = [io EXCEPT !.pending = {}]

\* evn_stream_priv_on_writable: send what is queued, then drain if all is gone.
OnWritable ==
  /\ InLoop
  /\ io.cb = "on_activity" /\ "WRITE" \in io.pending /\ "READ" \notin io.pending
  /\ IF stream.out # <<>> /\ ~CanSend
     THEN /\ SendFails("check_closed")
          /\ timer' = Touch(timer)
          /\ Dispatched
          /\ UNCHANGED <<stream, sock>>
     ELSE /\ timer' = Touch(timer)
          /\ Sent(stream.out)
          /\ stream' = [stream EXCEPT !.out = Unsent(@)]
          /\ IF Unsent(stream.out) = <<>>
             THEN UnwatchWrites /\ stack' = Call("on_drain")
             ELSE Dispatched /\ UNCHANGED stack
          /\ UNCHANGED log

\* "we experienced a problem while writing, don't continue": after a failed
\* send the state is CLOSED, read from a stream that has been destroyed.
CheckClosed ==
  At("check_closed",
     /\ stack' = Tail(stack)
     /\ UNCHANGED <<stream, io, sock, timer, log>>)
-------------------------------------------------------------------------------
(***************************************************************************)
(* Input: the connect event and evn_stream_priv_on_readable.               *)
(***************************************************************************)

\* evn_stream_priv_on_connect, up to the callback.
OnConnect ==
  /\ InLoop
  /\ io.cb = "on_connect" /\ io.pending # {}
  /\ stream' = [stream EXCEPT !.ready_state = "OPEN"]
  /\ io' = [active |-> TRUE, events |-> {"READ", "WRITE"},
            cb |-> "on_activity", pending |-> {}]
  /\ stack' = Call("on_connect") \o <<"connected">>
  /\ UNCHANGED <<sock, timer, log>>

\* A read event on an open stream; READ goes before WRITE when both are due.
ReadEvent ==
  /\ InLoop
  /\ io.cb = "on_activity" /\ "READ" \in io.pending
  /\ timer' = Touch(timer)
  /\ Dispatched

Unread == Bytes(sock.read, sock.arrived)

\* on_data gets the bytes of data, if the application installed it.
Deliver(data, rest) ==
  /\ stack' = Call("on_data") \o rest
  /\ log' = IF "on_data" \in Installed
            THEN [log EXCEPT !.delivered = @ \o data] ELSE log

\* A plausible slip in OnData: oneshot is not looked at.
OnDataNow ==
  /\ ReadEvent
  /\ Unread # <<>>
  /\ sock' = [sock EXCEPT !.read = @ + Least(Len(Unread), MaxRecv)]
  /\ Deliver(SubSeq(Unread, 1, Least(Len(Unread), MaxRecv)), <<>>)
  /\ UNCHANGED stream

\* recv returns data: kept for later on a oneshot stream, or delivered now.
OnData ==
  /\ ReadEvent
  /\ Unread # <<>>
  /\ LET n    == Least(Len(Unread), MaxRecv)
         data == SubSeq(Unread, 1, n)
     IN  /\ sock' = [sock EXCEPT !.read = @ + n]
         /\ IF stream.oneshot
            THEN /\ stream' = [stream EXCEPT !.bufferlist = @ \o data]
                 /\ UNCHANGED <<stack, log>>
            ELSE /\ Deliver(data, <<>>)
                 /\ UNCHANGED stream

\* recv returns -1.
OnReadError ==
  /\ ReadEvent
  /\ Unread = <<>> /\ sock.reset
  /\ stack' = Call("on_error") \o <<"read_failed">>
  /\ UNCHANGED <<stream, sock, log>>

\* A plausible slip in OnFin: the kept data is not delivered.
FinWithoutData ==
  /\ ReadEvent
  /\ Unread = <<>> /\ ~sock.reset /\ sock.fin
  /\ stack' = <<"fin_end">>
  /\ UNCHANGED <<stream, sock, log>>

\* recv returns 0, the peer's FIN: a oneshot stream delivers all it has kept.
OnFin ==
  /\ ReadEvent
  /\ Unread = <<>> /\ ~sock.reset /\ sock.fin
  /\ IF stream.oneshot /\ stream.bufferlist # <<>>
     THEN Deliver(stream.bufferlist, <<"fin_end">>)
     ELSE stack' = <<"fin_end">> /\ UNCHANGED log
  /\ UNCHANGED <<stream, sock>>

FinEnd ==
  At("fin_end",
     /\ log' = [log EXCEPT !.ended = @ + 1]
     /\ stack' = Call("on_end") \o <<"fin_close">> \o Tail(stack)
     /\ UNCHANGED <<stream, io, sock, timer>>)

\* A plausible slip in HalfClose: the read side stays watched after the FIN.
HalfCloseStillReading ==
  /\ stream' = [stream EXCEPT !.ready_state = "WRITE_ONLY"]
  /\ io' = [io EXCEPT !.active = TRUE, !.pending = {}]

\* Another: ready_state does not tell that the peer has ended.
HalfCloseUntold ==
  /\ io' = [io EXCEPT !.active = TRUE, !.events = @ \ {"READ"}, !.pending = {}]
  /\ UNCHANGED stream

\* "leave the socket open so we can write to it, but stop listening for READ"
HalfClose ==
  /\ stream' = [stream EXCEPT !.ready_state = "WRITE_ONLY"]
  /\ io' = [io EXCEPT !.active = TRUE, !.events = @ \ {"READ"}, !.pending = {}]

\* Plausible slips in FinClose: the peer's FIN ends the whole stream, or never.
FinAlwaysCloses == At("fin_close", Destroy(TRUE, Tail(stack)))

FinNeverCloses ==
  At("fin_close", /\ HalfClose
                  /\ stack' = Tail(stack)
                  /\ UNCHANGED <<sock, timer, log>>)

\* After on_end: "if we've already sent to FIN packet, nothing left but to
\* close the stream entirely"; otherwise it stays open for writing.
FinClose ==
  At("fin_close",
     IF stream.ready_state = "READ_ONLY"
     THEN Destroy(TRUE, Tail(stack))
     ELSE /\ HalfClose
          /\ stack' = Tail(stack)
          /\ UNCHANGED <<sock, timer, log>>)
-------------------------------------------------------------------------------
(***************************************************************************)
(* The timer.                                                              *)
(***************************************************************************)

\* evn_stream_timer_priv_cb called by libev.
OnTimer ==
  /\ InLoop
  /\ Fires(timer)
  /\ IF Expired(timer)
     THEN stack' = Call("on_timeout") \o <<"timed_out">> /\ UNCHANGED timer
     ELSE timer' = Rearm(timer) /\ UNCHANGED stack
  /\ UNCHANGED <<stream, io, sock, log>>

TimedOut ==
  At("timed_out",
     /\ timer' = GiveUp(timer)
     /\ stack' = Tail(stack)
     /\ UNCHANGED <<stream, io, sock, log>>)

\* ev_now advances between two iterations of the loop.
TimePasses ==
  /\ InLoop /\ Alive /\ io.pending = {}
  /\ timer.timeout # 0
  /\ timer' = Tick(timer)
  /\ UNCHANGED <<stream, io, sock, stack, log>>
-------------------------------------------------------------------------------
(***************************************************************************)
(* The application: the calls it makes from its callbacks, and from other  *)
(* watchers of the same loop, on a stream it has not seen closed.          *)
(***************************************************************************)
Context == IF stack # <<>> THEN Head(stack)
           ELSE IF stream.ready_state = "OPENING" THEN "opening" ELSE "loop"

AppMay(call) ==
  /\ Defined /\ Alive
  /\ Context \in Contexts /\ call \in AppCalls[Context]
  /\ Len(stack) <= MaxDepth

AppWrites ==
  AppMay("write") /\ \E n \in 0..(MaxWritten - log.written) : Write(n)

\* A plausible slip in evn_stream_end: no FIN is sent.
EndWithoutFin == stream' = [stream EXCEPT !.ready_state = "READ_ONLY"] /\ UNCHANGED sock

\* The write side is closed: READ_ONLY, and the FIN packet is sent.
EndOutput ==
  /\ stream' = [stream EXCEPT !.ready_state = "READ_ONLY"]
  /\ sock' = [sock EXCEPT !.shut = TRUE]

\* evn_stream_end.
AppEnds ==
  /\ AppMay("end")
  /\ EndsQueued \/ stream.out = <<>>
  /\ IF stream.ready_state = "WRITE_ONLY"
     THEN Destroy(TRUE, stack)
     ELSE EndOutput /\ UNCHANGED <<io, timer, stack, log>>

AppDestroys == AppMay("destroy") /\ Destroy(FALSE, stack)

AppSetsTimeout ==
  /\ AppMay("set_timeout")
  /\ \E timeout \in Timeouts : timer' = SetTimeout(timer, timeout)
  /\ UNCHANGED <<stream, io, sock, stack, log>>

\* A callback returns.
Return ==
  /\ Defined
  /\ stack # <<>> /\ Head(stack) \in Callbacks
  /\ stack' = Tail(stack)
  /\ UNCHANGED <<stream, io, sock, timer, log>>
-------------------------------------------------------------------------------
(***************************************************************************)
(* The kernel, the peer and libev's poll.                                  *)
(***************************************************************************)
Readable == Unread # <<>> \/ sock.fin \/ sock.reset
Writable == sock.room > 0 \/ sock.shut \/ sock.reset

\* libev polls, level-triggered, and makes the watcher's events pending.
Poll ==
  /\ InLoop /\ io.active /\ io.pending = {}
  /\ LET ready == {e \in io.events : \/ e = "READ" /\ Readable
                                     \/ e = "WRITE" /\ Writable}
     IN  ready # {} /\ io' = [io EXCEPT !.pending = ready]
  /\ UNCHANGED <<stream, sock, timer, stack, log>>

\* The peer sends, ends its side, or the connection breaks; the kernel makes
\* room by sending what it holds.
Network(Change) ==
  /\ Defined /\ sock.open
  /\ Change
  /\ UNCHANGED <<stream, io, timer, stack, log>>

PeerSends ==
  Network(/\ ~sock.fin /\ ~sock.reset
          /\ \E n \in 1..(MaxArrived - sock.arrived) :
               sock' = [sock EXCEPT !.arrived = @ + n])

PeerFins ==
  Network(/\ ~sock.fin /\ ~sock.reset
          /\ sock' = [sock EXCEPT !.fin = TRUE])

Resets ==
  Network(/\ CanReset /\ ~sock.reset
          /\ sock' = [sock EXCEPT !.reset = TRUE])

KernelSends ==
  Network(/\ ~sock.reset
          /\ \E n \in 1..(SndBuf - sock.room) :
               sock' = [sock EXCEPT !.room = @ + n])
-------------------------------------------------------------------------------
Library ==
  \/ Accepted \/ Connected \/ Free \/ ReadFailed \/ SendFailed
  \/ WatchWritesAfterFailure \/ CheckClosed \/ FinEnd \/ FinClose \/ TimedOut
  \/ OnConnect \/ OnData \/ OnReadError \/ OnFin \/ OnWritable \/ OnTimer
  \/ Poll

Application ==
  \/ Accept \/ Connect \/ ConnectFails
  \/ AppWrites \/ AppEnds \/ AppDestroys \/ AppSetsTimeout \/ Return

Environment == PeerSends \/ PeerFins \/ Resets \/ KernelSends \/ TimePasses

Next == Library \/ Application \/ Environment

Spec == Init /\ [][Next]_vars

\* Callbacks return, ev_loop keeps polling and calling the handlers, and the
\* kernel keeps sending.
FairSpec == Spec /\ WF_vars(Return) /\ WF_vars(Library) /\ WF_vars(KernelSends)
-------------------------------------------------------------------------------
(***************************************************************************)
(* Properties.                                                             *)
(***************************************************************************)
States == {"CLOSED", "OPENING", "OPEN", "READ_ONLY", "WRITE_ONLY"}

Streams ==
  [heap : {"none", "alive", "freed"}, ready_state : States, oneshot : BOOLEAN,
   out : Seq(Nat), bufferlist : Seq(Nat), has_list : BOOLEAN]

Watchers ==
  [active : BOOLEAN, events : SUBSET {"READ", "WRITE"},
   cb : {"none", "on_connect", "on_activity"},
   pending : SUBSET {"READ", "WRITE"}]

Sockets ==
  [open : BOOLEAN, room : Nat, shut : BOOLEAN, wire : Seq(Nat),
   arrived : Nat, read : Nat, fin : BOOLEAN, reset : BOOLEAN]

Logs ==
  [written : Nat, delivered : Seq(Nat), ended : Nat, closed : Nat,
   had_error : BOOLEAN, send_failed : BOOLEAN, ub : Points \cup {"none"}]

\* The fields have their types; libev holds an event pending only for a watcher
\* that is started and watches that event; recv returns what has arrived.
TypeOK ==
  /\ stream \in Streams
  /\ io \in Watchers
  /\ io.pending \subseteq io.events /\ (io.pending # {} => io.active)
  /\ sock \in Sockets
  /\ sock.read <= sock.arrived
  /\ timer \in TimerType(Timeouts)
  /\ stack \in Seq(Callbacks \cup Points)
  /\ log \in Logs

\* Control is in the loop, and the stream has not been destroyed.
Idle == InLoop /\ Alive

\* Every byte evn_stream_write accepted is on the wire or in the output
\* buffer, once and in the order of the writes, until the stream is freed.
SentInOrder ==
  /\ Alive => sock.wire \o stream.out = Bytes(0, log.written)
  /\ sock.wire = Bytes(0, Len(sock.wire))

\* Output that is queued when control returns to the loop has a watcher that
\* will send it: no path through write, FIN and drain leaves it stranded.
QueuedIsWatched ==
  Idle /\ stream.out # <<>> => io.active /\ "WRITE" \in io.events

\* In the loop, the read side of a connected stream is watched until its FIN
\* has been handled and never after.
ReadsUntilFin ==
  Idle /\ io.cb = "on_activity" =>
    io.active /\ ("READ" \in io.events <=> log.ended = 0)

\* ready_state tells which directions are finished.
StateTellsDirections ==
  Idle /\ stream.ready_state # "OPENING" =>
    stream.ready_state = IF sock.shut THEN "READ_ONLY"
                         ELSE IF log.ended > 0 THEN "WRITE_ONLY" ELSE "OPEN"

\* "if we've already sent to FIN packet, nothing left but to close the stream
\* entirely": no stream outlives both FINs, whichever was first.
BothFinsClose == Idle => ~(sock.shut /\ log.ended > 0)

\* on_end comes after every byte the peer sent before its FIN was delivered,
\* in order, on oneshot streams as on others.
EndSeesAllData ==
  log.ended > 0 => log.ended = 1 /\ log.delivered = Bytes(0, sock.arrived)

\* A close reported without error is the end of a complete conversation: all
\* that was written is on the wire and all that the peer sent was delivered.
CleanCloseIsComplete ==
  log.closed > 0 /\ ~log.had_error =>
    /\ sock.wire = Bytes(0, log.written)
    /\ log.ended = 1
    /\ log.delivered = Bytes(0, sock.arrived)

\* A oneshot stream has its buffer list when the loop can hand it data.
OneshotHasBuffer ==
  Idle /\ io.cb = "on_activity" /\ stream.oneshot => stream.has_list

\* on_close is the last callback of a stream: none starts after it.
NothingAfterClose ==
  [][log.closed > 0 => Len(stack') <= Len(stack) /\ log'.closed = log.closed]_vars

\* Whatever a careful application does, the library touches a freed stream
\* only when a send has failed.
FreedTouchedOnlyAfterFailedSend == log.ub # "none" => log.send_failed

\* What libev holds of a freed stream is stopped: neither the watcher nor the
\* timer can call back into it.
FreedIsUnwatched == stream.heap = "freed" /\ Defined => ~io.active /\ ~timer.armed

\* "we experienced a problem while writing, don't continue": the state that
\* says so is read from a stream that is still there.
CheckedWhileAlive == log.ub # "check_closed"

\* on_timeout may destroy the stream, as the echo server does.
TimeoutMayDestroy == log.ub # "timed_out"

\* priv_send will "add the leftover data to priv_out_buffer if it doesn't send
\* everything": a full kernel buffer is not an error.
FullIsQueued == log.send_failed => sock.reset \/ sock.shut

\* A timeout is configured, and if the stream now stays idle nobody will tell:
\* libev does not run the timer, and the application has not been told yet.  A
\* flag that says active also keeps later activity from starting the timer.
Unguarded ==
  timer.timeout # 0 /\ ~timer.armed /\ (timer.active \/ ~Expired(timer))

\* An armed timer goes off as soon as the stream has been idle for timeout.
ArmedInTime == timer.armed => timer.due <= timer.timeout - timer.idle

\* A stream with a timeout that is idle for so long is found out: whatever the
\* application does, the timer is running, or has told it and starts again with
\* the next activity.  It is lost in three ways only, besides the destruction of
\* the stream: called at the very tick the timeout ends, it is re-armed with
\* nothing; activity in on_timeout restarts it, and on_timeout's return stops
\* it; a timeout of 0 stops it.
TimeoutIsCovered ==
  [][Unguarded' =>
       \/ Unguarded
       \/ log'.closed > log.closed
       \/ OnTimer /\ timer.idle = timer.timeout
       \/ TimedOut /\ ~Expired(timer)
       \/ AppSetsTimeout /\ ~timer'.active]_vars

\* Queued output is eventually drained, and the application told so, unless
\* the stream closes.
QueuedIsDrained ==
  stream.out # <<>> ~>
    (stack # <<>> /\ Head(stack) = "on_drain") \/ log.closed > 0

\* Once both sides have ended, the stream is closed.
BothEndedCloses ==
  Alive /\ sock.fin /\ sock.shut ~> log.closed > 0
===============================================================================
