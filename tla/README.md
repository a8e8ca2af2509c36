# A TLA+ model of libevn

libevn (`src/source/evn.c`) wraps sockets and libev into Node-style streams: an
application installs callbacks (`on_data`, `on_drain`, `on_timeout`, ...) and
calls `evn_stream_write`, `evn_stream_end` and `evn_stream_destroy`, often from
inside those callbacks. Everything runs on one thread inside `ev_loop`. What is
hard is not parallelism but re-entrancy: a handler that has called the
application goes on with a stream that may have changed, or may be gone; events
that libev found are handled after other handlers have run; and every counter,
watcher and timer has to agree with the kernel's view of the connection.

This directory holds TLA+ modules that model the code, TLC configurations that
check them, and proofs for TLAPS.

## Inventory

| Part | State | Operations | Correct when |
|---|---|---|---|
| output buffer, `evn-inbuf.c` | one allocation and the pointers start, bottom, top, end; a size field | create, add, peek, toss | it is a FIFO queue; size and pointers agree; it stays inside its allocation and grows only as needed |
| stream, `evn.c:230-370, 417-757` | ready_state, oneshot, watcher, output buffer, buffer list, file descriptor | accept/connect, connect event, readable and writable events, write, end, destroy | bytes are sent once and in order; queued output is watched; both half-closes in either order end in one close; nothing is called after on_close; nothing touches a freed stream |
| inactivity timer, `evn.c:372-415` | last_activity, timeout, active, the libev timer | set_timeout, activity, the timer's callback | a configured timeout is covered by a running timer, which goes off in time and never after the stream is gone |
| server, `evn.c:32-228` | listening descriptor and watcher, address | create, listen, accept loop, close/destroy | every connection is accepted or refused and every accepted stream started; a failure closes the descriptor and nothing else, and leaves nothing running; not used after it was freed |
| input buffer, `evn-buffer-list.c` | a growing array of blocks, index, used, block_size | create, add, concat, destroy | concat returns all bytes that were added, in order; only allocated blocks are freed |
| echo client and server, `echo-*.c` | two programs on the library | callbacks | the client receives what it sent, whole; neither ends a stream with output queued; both streams close |
| tests, JavaScript examples, headers, build files | none of the program's | | not modelled |

The parts interact by calls only. libev calls the server's accept handler, the
stream's connect or activity handler, or the timer's callback. The accept
handler makes streams; a stream owns one output buffer, at most one buffer list
and one timer; handlers call the application, which calls back in.

The behaviours that are hard to test are listed one by one, with the line where
each bites and the properties that watch it, under "hazards" in `PROJECT.json`.

## Modules

| Module | Models | Notes |
|---|---|---|
| `ByteQueue` | what both buffers promise | abstract specification: an unbounded FIFO queue |
| `Inbuf` | `evn-inbuf.c` | refines `ByteQueue` (`IsByteQueue`) |
| `MCInbuf` | | chunks for TLC |
| `InbufProofs` | | theorems about `Inbuf`, with its refinement |
| `BufferList` | `evn-buffer-list.c` | refines `ByteQueue` without tossing (`IsByteLog`) |
| `MCBufferList` | | chunks for TLC |
| `BufferListProofs` | | theorems about `BufferList` |
| `StreamCalls` | the callbacks of a stream and the calls on it | where library and application meet |
| `StreamTimer` | `struct evn_stream_timer` and what `evn.c` does with it | operators on a record, in relative time |
| `Stream` | one `evn_stream` from creation to `free`, its libev watcher, its socket | uses `StreamTimer` |
| `MCStream` | | the applications a stream is checked with |
| `StreamProofs` | | type correctness of `Stream`, order of the output, and the watcher of what is queued |
| `StreamClosingProofs` | | the timer in time and guarding an idle stream, and the end of a stream |
| `StreamEndingProofs` | | what the application is told, in which order, and what is watched meanwhile; a stream as one end of a connection |
| `Server` | one `evn_server` from creation to `free`, its failing calls, the accept loop | of each stream only whether it was started or destroyed |
| `MCServer` | | the applications a server is checked with |
| `ServerProofs` | | theorems about `Server` |
| `Pipe` | what one direction of a connection promises | abstract specification: a pipe of bytes that ends after the last one |
| `Connection` | a connected and an accepted stream in two processes, and the network | two instances of `Stream`; refines `Pipe` in both directions |
| `MCConnection` | | the applications at the two ends |
| `ConnectionProofs` | | both directions of a connection are pipes |
| `Echo` | `echo-client.c` and `echo-server.c` | `Connection` with the two programs for applications |
| `EchoProofs` | | the two programs never fail each other, and the message comes back |

### Inbuf

Pointers are offsets from `start`. An allocation is a function from offsets to
bytes, with `Junk` where nobody wrote, so that `realloc` and the compacting
`malloc`/`memcpy` are modelled by what they copy. `Add` has the three branches of
`evn_inbuf_add` (it fits, compact, grow) and its early return when `used` and
`size` disagree; the `do ... while` of the growth is `GrownTo`, the capacity at
which the loop stops. `Toss` is `evn_inbuf_toss` with its rewind. `Peek(size)` is what
the refinement to `ByteQueue` observes. `malloc` and `realloc` succeed, as the
code assumes, and sizes do not overflow.

### BufferList

A slot of the list is null (as `calloc` leaves it), junk (as `realloc` leaves it) or
a block with the bytes it holds. `Add` is `evn_bufferlist_add` with
`evn_bufferlist_next_buffer` and `evn_buffer_add`. The doubling of `block_size` is
`GrownTo`, the size at which that loop stops. The copying loop, `Filled`, is unfolded:
`block_size` has been raised to the length of the chunk, so what the current block does not
take fits in the next one, and the loop runs at most twice. `Concat` is what
`evn_bufferlist_concat` returns: `Joined` is its loop, as a recursive function, so
that it can be proved about. `IsByteLog` says that it grows by exactly the
bytes of each `Add`. `Destroy` frees the data of every slot; freeing junk
is undefined and shows as `heap = "corrupt"`.

### Stream

A handler is interrupted only where it calls the application, so the model cuts
the C call stack exactly there. `stack` holds, innermost first, the callbacks
that are running and the *points* at which suspended handlers go on: `accepted`,
`connected`, `timed_out`, `send_failed`, `read_failed`, `watch_writes`,
`check_closed`, `fin_end`, `fin_close`, `free`. One action runs the library from
one such place to the next. `Head(stack)` says who runs; an empty stack means
that control is in `ev_loop`.

| In the code | In the model |
|---|---|
| `evn_server_priv_on_connection` | `Accept`, `on_connection`, `Accepted` |
| `evn_create_connection_*` | `Connect`, `ConnectFails` |
| `evn_stream_priv_on_connect` | `OnConnect`, `on_connect`, `Connected` |
| `evn_stream_priv_on_activity` + `..._on_readable` | `OnData`, `OnReadError` / `ReadFailed`, `OnFin` / `FinEnd` / `FinClose` |
| `evn_stream_priv_on_activity` + `..._on_writable` + `priv_send` | `OnWritable`, `SendFailed`, `CheckClosed` |
| `evn_stream_write` + `priv_send` | `AppWrites` (`Write`), `SendFailed`, `WatchWritesAfterFailure` |
| `evn_stream_end` | `AppEnds` |
| `evn_stream_destroy` | `Destroy` (up to `on_close`), `Free` (after it) |
| `evn_stream_set_timeout`, `evn_stream_timer_priv_cb` | `AppSetsTimeout`, `OnTimer`, `TimedOut` |
| libev, kernel, peer, time | `Poll`, `KernelSends`, `PeerSends`, `PeerFins`, `Resets`, `TimePasses` |

A write that fails inside the writable handler, whose `on_error` writes again, is
a stack of five frames, and the model walks back through all of them.

*Undefined behaviour.* When the library goes on with a stream that was freed, C
promises nothing. The model records the point in `log.ub` and stops there: a
property about it says that this point is not reached. The application is never
assumed to touch a stream after its `on_close`.

*Data.* A byte is its position in what was written (or sent by the peer), so lost,
repeated and reordered bytes are visible and their values are not. A write may be
of no bytes, which sends nothing and still restarts the timeout. The output
buffer is the sequence `Inbuf` is shown to implement, and the buffer list of a
oneshot stream the one `BufferList` implements.

*libev*, as the code relies on it: polling is level-triggered; events found by one
poll are dispatched later, other handlers running in between (`io.pending`);
`ev_io_stop` and `ev_io_init` clear a pending event; `ev_io_start` on an active
watcher does nothing; `ev_timer_again` with a zero `repeat` stops the timer; a
timer fires only when its time has passed.

*The socket*: `send` takes what there is room for and fails on a full buffer
(EAGAIN), a closed, reset or shut down connection; `recv` returns data before it
returns an error, an error before a FIN; a reset makes the socket readable and
writable. `close` may fail. `recv` never returns EAGAIN, because it is called only for
a readable socket that nobody else reads.

### StreamTimer

Times are ticks relative to `ev_now`: `idle` is `ev_now - last_activity`, `due` what is
left until libev fires the timer. The code compares
`last_activity + timeout < now`, which is `idle > timeout`. Two doubles being equal
is the case of two tick counts being equal. Since only the comparison matters,
`idle` stops counting just past `timeout` and `due` just below zero, which keeps time
finite without cutting any behaviour. Time advances between iterations of the
loop, when no event is pending.

### Server

Like `Stream`, cut where the library calls the application: `on_connection`,
`on_error` and `on_close`, with the points `failed`, `accepted`, `accept` (the head of
the accept loop) and `free`.

| In the code | In the model |
|---|---|
| `evn_server_create` | `Create`; the descriptor is 0, as `calloc` leaves it |
| `evn_server_listen` | `AppListens` (`Listen`), with at most one of `socket`, `fcntl`, `bind`, `listen` failing; `Failed` after `on_error` |
| `evn_server_priv_on_connection` | `OnReadable`, `Accept` for each turn of the loop, `Accepted` after `on_connection` |
| `evn_server_close`, `evn_server_destroy` | `Close` (up to `on_close`), `Free` |
| kernel and libev | `Connects`, `Poll` |

The kernel's part is the listening socket, its backlog, and descriptor 0, because
that is what a server that never listened would close. `accept` fails with EAGAIN on an empty backlog and, if the
environment allows it, for any other reason at any time. Closing the socket
refuses what waits in the backlog. `log.ub` names the point at which freed or
uninitialised memory was used.

### Connection, Pipe and Echo

In `Connection` two instances of `Stream` share one variable each with the network:
what `Stream` leaves to `PeerSends`, `PeerFins`, `Resets` and `KernelSends` is done by the
other end. The network carries bytes from one send buffer to the other
receive queue (`Carries`), then the FIN (`CarriesFin`); a socket closed with unread
data resets its peer (`Refuses`), and the connection may break at any time
(`Breaks`). A close sends a FIN like a shutdown does. The two processes take turns
freely.

`Pipe` is what an application may expect of one direction: bytes in order, and
the end after the last of them. A broken pipe never ends. The refinement maps
what the reader got (`Got`, through the writer's wire) and both ends' ideas of
the end (`PipeState`).

`Echo` adds the programs. Each callback is a sequence of steps, because the library
runs between `evn_stream_write` and what follows it: `ClientSends`, then
`ClientSent` (end now, or install `on_drain`), `ClientDrained`; the same for the
server from `on_data`. Both read the result of the write as the code does: `true` is
an empty queue. A callback that is not installed yet is one that does
nothing. Timeouts are left out: the client sets none, and the server's four
seconds are longer than anything in this model.

## Runs

All state counts are of complete searches.

| Run | Checks | Shows |
|---|---|---|
| `inbuf` (121,119 states) | `TypeOK`, `SizeAgrees`, `QueuedIsWritten`, `CapacityFollowsPeak`, `IsByteQueue` | the output buffer is a FIFO queue; its size field never disagrees with its pointers; capacity stays below four times the peak |
| `bufferlist` (11,834) | `TypeOK`, `CountersAgree`, `BlocksAreFilled`, `BlockFollowsDemand`, `IsByteLog` | what a oneshot stream keeps is every byte received, in order; blocks are filled one after the other, and are of the size asked for or shorter than twice the longest chunk |
| `stream_safety` (57,566) | `TypeOK` and ten properties below | both sides, oneshot or not, an application that writes, ends and destroys from its callbacks |
| `stream_timeout` (25,774) | `ArmedInTime`, `FreedIsUnwatched`, `TimeoutIsCovered` | the timer is never late, is gone with the stream, and before that an idle stream is found out but for three named exceptions, under activity and timeouts set, changed and removed anywhere, `on_timeout` included |
| `stream_liveness` (8,968) | `QueuedIsDrained`, `BothEndedCloses` | queued output is drained or the stream closes; two ended sides close the stream |
| `server` (1,312) | `TypeOK` and the six properties below | every failure of `listen` and `accept`, connections at any time, a server closed from other watchers |
| `connection` (332,633) | `ToServerIsPipe`, `ToClientIsPipe`, `BothEndedBothClose` | each direction of a connection is a pipe: nothing lost, repeated or reordered, and no end before the last byte, also when the connection breaks or one side destroys its stream; once both ends have sent their FIN, by a half-close or a close and in either order, both streams close |
| `echo` (1,105) | `EchoMatches`, `NothingFails`, `EchoCompletes` | the two programs do what they say, with kernel buffers smaller than the message |
| `bufferlist_destroy` | `DestroyFreesBlocksOnly` violated | a list that `realloc` has grown frees uninitialised pointers (`evn-buffer-list.c:126`, against the comment at 212) |
| `full_is_fatal` | `FullIsQueued` violated | EAGAIN destroys the stream (`evn.c:441` says the data is queued) |
| `write_failure` | `CheckedWhileAlive` violated | `ready_state` is read from a freed stream (`evn.c:590-592`) |
| `timeout_destroy` | `TimeoutMayDestroy` violated | `echo-server.c:71` destroys in `on_timeout`; `evn.c:405` then uses the stream |

The properties of `stream_safety`:

- `SentInOrder`: every byte `evn_stream_write` accepted is on the wire or queued, once, in order.
- `QueuedIsWatched`: in the loop, queued output has an active watcher with EV_WRITE.
- `ReadsUntilFin`: EV_READ is watched until the FIN was handled and never after.
- `StateTellsDirections`, `BothFinsClose`: `ready_state` says which directions are finished, and no stream outlives both.
- `EndSeesAllData`: `on_end` comes once, after all the peer's data was delivered in order; on a oneshot stream after all that was kept.
- `CleanCloseIsComplete`: a close reported without error ends a complete conversation.
- `OneshotHasBuffer`: the buffer list exists before the loop can hand a oneshot stream data.
- `FreedTouchedOnlyAfterFailedSend`: for a careful application, only a failed send makes the library touch a freed stream. This is the scope of the two findings about failed sends: there is no third way.
- `NothingAfterClose`: no callback starts after `on_close`, and it is called once.

The properties of `stream_timeout`:

- `ArmedInTime`: an armed timer is never due later than the end of the timeout.
- `FreedIsUnwatched`: neither watcher nor timer of a freed stream is left with libev.
- `TimeoutIsCovered`: an idle stream is found out. `Unguarded` is a stream with a timeout whose timer libev does not run (`armed`, not the flag `active`) although `on_timeout` has not been called for it, or whose flag keeps later activity from starting it. A step makes a stream unguarded only by destroying it or in one of the three ways listed under *Where the code and its applications can disagree*; without any one of them the property fails.

The properties of `server`:

- `ClosesItsDescriptor`: a server that is gone has closed its own descriptor, whichever step failed, and no other.
- `NothingAfterClose`: `on_close` is the server's last callback and comes once; neither an event that was pending nor an accept loop that failed starts a handler after it.
- `NoneLeftBehind`: every stream that was accepted has been started when control returns to the loop, also those before an `accept` that failed.
- `FailureIsFatal`: after any failure the server is closed once, freed, and no connection waits for it.
- `UsedWhileAlive`: for an application that calls only from other watchers, the library never uses a freed server or stream.
- `ConnectionsAreServed`: what is in the backlog is accepted, or refused by a close.

The properties of `echo`:

- `EchoMatches`: the client's `on_data` gets the message, whole and in one piece ("received data matches what was sent"), or is not called.
- `NothingFails`: no send fails, because neither program ends a stream with output queued, and nothing freed is touched, as long as the connection holds.
- `EchoCompletes`: a message of at least one byte comes back, and both streams close.

### Bounds, and why they are enough

The applications (`MCStream`) are sets of calls per callback. `Careful` writes and ends
from nearly every callback and destroys where the library is done with the
stream; `Timed` is about the timer; `Destroying` and `Writing` are the smallest applications
that do one thing (destroy in `on_timeout`, write). They choose nondeterministically at every
opportunity, so each stands for all programs that make these calls.

- `SndBuf = 1`, `MaxWritten = 3`: a write can be sent whole, in part, or fail; a queue can be drained in several events with further writes behind it.
- `MaxArrived = 3`, `MaxRecv = 2`: data read in one or several events, and data left over when the FIN arrives.
- `MaxDepth = 3`: the application calls from a callback of a call of a callback. Frames below do not grow with it, and a fourth level repeats the third.
- `Timeouts = {0, 2, 3}`: activity can fall before, at and after half of a timeout, and a timeout can be replaced by a shorter and a longer one, or taken back.
- `InitSize = 1`, chunks of 1 and 3, `MaxQueued = 5`: a chunk fits, compacts, grows once and twice in one call. The chunk of three has different bytes in one order, so that a chunk copied wrongly is not another chunk, which `IsByteQueue` would accept; the same holds of all chunks of `MCBufferList`.
- `BlockSize = 2`, `Slots = 1`, chunks of 1, 2, 3 and 5, `MaxUsed = 8`: a chunk ends inside a block, at its end or in the next one; the block size doubles once and twice, also while a smaller block is current; the list doubles twice, and is left partly unused.

- `Server`: three connections and a queue of two, so that a connection waits, several are accepted in one event, and one comes while the loop runs.
- `Connection`: `SndBuf = 1` and two bytes in each direction, so that a write is sent whole, or in part with the rest queued and sent later, and two writes can be queued one behind the other; the server's stream is oneshot and the client's is not.
- `Echo`: a message of four bytes through buffers of two and reads of two: both writes are partial, both sides drain, and what is kept comes in several reads.

The safety run keeps `EndsQueued = FALSE`: the application ends the stream only when
nothing is queued, as the repository's programs do (they end from `on_drain` or
after a write that returned true). With `TRUE` the FIN overtakes the queue, the next
`send` fails, and the stream closes with an error; that is part of the liveness run.
`CHECK_DEADLOCK FALSE` in the stream runs, because a stream comes to an end: it is
freed and the model has one stream. The buffer list ends likewise, when it is
destroyed, and so do the server, the connection and the two echo programs.

The application of `server` calls the library only outside the server's callbacks
(`Careful`), and closes a server only after listening. Otherwise the properties
fail as the code does: `on_connection` closing the server or destroying its stream
is a use after free (`evn.c:179`, 199), and closing before listening closes
descriptor 0. No text of the repository says that an application may do either.

### Where the code and its applications can disagree

Four disagreements of the code with its own texts are runs that expect a
violation. The following ones are in the model too. The first are named as exceptions
by a property; the others the applications and environments of the passing runs
leave out, and each names what to change to see it.

- Three ways to lose the timer, the exceptions of `TimeoutIsCovered`, which the application of `stream_timeout` (`Timed`) all reaches. A timer called when `timeout` equals `now` takes the branch for "not timed out" with nothing left to wait for; `ev_timer_again` then stops it, `active` says that it runs, and later activity does not start it (`evn.c:401`, 410-412). The message there says that the callback "with occur again" (413). `evn_stream_write` and `evn_stream_set_timeout` restart the timer (`evn.c:431-436`, 386-390); called from `on_timeout` this is undone when the callback returns (405-406). And `evn_stream_set_timeout(0)` stops the timer but keeps `timeout`, so that the next activity starts it again (381).
- `evn_stream_end` before the connect event sends the FIN and is then forgotten, because `evn.c:348` stores OPEN: `BothFinsClose` fails for an application that ends in `opening`.
- The first writable event calls `on_drain` although nothing was ever queued (`evn.c:596-610`). The echo programs live with it because they install `on_drain` only when they need it; with `EchoInitEager` the client ends before it has sent everything.
- When `socket` or `fcntl` fails, `setsockopt` on descriptor -1 overwrites `errno` before it is reported (`evn.c:65`, 76), and for a unix address `strlen` reads a `sun_path` that nobody wrote (`evn.c:55`). The second is the outcome `sun_path` of `Listen`.

### Fairness

`FairSpec` asks for three things. Callbacks return (`WF(Return)`): they are ordinary
functions, and the application takes only finitely many calls since each is
bounded by the model. The library keeps running (`WF(Library)`): the handlers have
no unbounded loop, and `ev_loop` polls and dispatches as long as watchers are
active. The kernel keeps sending (`WF(KernelSends)`): a peer that never reads would
block TCP for good, and then the queue rightly stays. Nothing is assumed of the
peer or of what the application calls. In the liveness run the application
installs no `on_error`, so that a refused write is a step that changes nothing
and not an endless sequence of error callbacks.

`Server` asks the same of `Return` and `Library`: the accept loop ends because the backlog
does. `Connection` asks it of both processes, of the network (it delivers, or
breaks) and of the server's accept, which `ConnectionsAreServed` shows to follow from the
server's loop. `Echo` adds that the programs' callbacks run on, being straight
code. The environment is fair to the network as a whole, not to a break.

## Proofs

The theorems hold for every value of the constants that satisfies the named
assumptions (`InbufAssumption`, `BufferListAssumption`, `StreamAssumption`, `ServerAssumption`,
`ConnectionAssumption`, `EchoAssumption`): every application, size and bound, unless a theorem
names an assumption of its own.

- `InbufProofs`: the four invariants of `Inbuf` are inductive together with the
  order of the pointers, `bottom <= top`, and `EmptyIsRewound`, that an empty buffer starts
  at the front; that needs `SizeAgrees` to see that `Add` never takes its early return, and
  the facts about the three branches are lemmas of their own. `CapacityAlwaysFollowsPeak`
  rests on the half-of-the-allocation test of the compacting branch and on where the
  doubling stops. `ImplementsByteQueue` is the refinement, `IsByteQueue`, for every
  chunk and size. What is queued is a `Window` of the allocation; `WindowAppend` says
  when a window of a new allocation is the old one with a chunk behind it, and
  `AddAppends` shows that each of the three branches is such a case. `TossDrops`
  is the same for the front. A call that the pointers rewind in is no different.
- `BufferListProofs`: `IInv` says of a list that its slots up to `index` are blocks with
  no more bytes than room, that all but the current one are full and that one is not
  empty, and that `size - used` is the room left. One lemma for each function of the code
  (`NextBufferGood`, `AddToCurrentGood`, `FilledGood`) says what it does to such a list:
  `NextBufferGood` needs the current block to be full, which `AddToCurrentGood` provides
  exactly when the chunk did not fit. That the rest fits in one block, which the
  unfolded loop takes for granted, is part of `FilledGood`. What a list holds
  (`Held`, which is `Concat`) is defined by recursion over its blocks. The induction
  that needs is a proof by least counterexample, from `LeastOne`; with it
  `JoinsExists` shows that the recursive function exists, `JoinsAgree` that it depends on
  the blocks it joins only, and `JoinedStep` that a block more appends what it
  holds. `NextBufferHolds`, `AddToCurrentHolds` and `FilledHolds` follow the
  code again: a new block holds nothing, and the parts of a chunk copied into two
  blocks are the chunk. From these come the counters (`CountersAlwaysAgree`: concat
  allocates as much as it copies) and the refinement (`ImplementsByteLog`).
- `StreamProofs`: `TypeCorrect`. Record updates and sequence facts are lemmas at the
  start; one lemma per group of actions follows, and `NextTypeOK` combines them.

  `OutputInOrder` is `SentInOrder` for every application. The
  inductive form, `Order`, counts instead of concatenating: wire and queue are
  numbered consecutively and their lengths add up to what was written, with
  what is known before the stream exists (nothing was written) and after it is
  freed (nothing is queued). `Kept` is what every action but the four that
  send, queue, create or free leaves alone.

  `QueueAlwaysWatched` is `QueuedIsWatched` for every application. Its inductive form,
  `Watched`, must hold in the middle of handlers too: an alive stream with queued
  output is watched for EV_WRITE at every point, unless a suspended `free` in
  the stack says that it is about to go (`Closing`). Most steps are `Calm`: they add nothing
  to the queue and take nothing from the watcher. `watch_writes` and the writable
  event are the cases that are not. Before the stream is born nothing
  can have been queued, which `Order` provides.
- `StreamClosingProofs`: `AlwaysArmedInTime` shows that each operation on a timer keeps it
  in time and that every step is one of them or none. `FreedNeverWatched` and
  `CloseIsLast` assume `Quiet`, an application that makes no call in `on_close` (it would
  destroy the stream again). Their invariant, `Over`, says of a stream that is
  closing or freed that the watcher and timer are stopped and that the stack goes
  from `on_close` straight to `free`; `GoneStep` is what a step can do from there (return,
  or free), and `OpenStep` that every step before is a destruction, a failed connect
  or none of both. `TimeoutAlwaysCovered` is about every application and
  every timeout: `StepsOperate` names the step that makes each operation on the timer,
  `OperationFields` and `ActivityFields` say what each does to the flag and to libev's timer, and only
  the three exceptions and a destruction can leave a stream unguarded.
- `StreamEndingProofs`: the seven invariants about the two directions of a stream share one
  inductive invariant, `Whole`. `Shapes` lists the stacks that a stream in use can have, and
  `Phase` tells which suspended point matters (`accepted`, `connected`, `fin_end`, `fin_close`).
  For each phase, `StateAgrees` says what `ready_state` is, in terms of the socket and of
  what `on_end` was told; `WatcherAgrees` when READ is watched and the buffer list exists;
  `DataAgrees` that what was read is delivered or kept; and `OutputAgrees` that nothing is
  queued behind a FIN. They cannot be stated without the phase: between the arrival of a
  FIN and the return of `on_end` the watcher, `ready_state` and the
  log change at different points, with the application running in between.
  `Course` says where control is once a send has failed or the stream is being closed, and
  `Heard` and `Complete` keep what came before `on_end` and `on_close`. Most steps are
  `Steady` and disturb none of it; the others have a lemma each (`OpenReads`, `OpenFins`,
  `OpenEnds`, ...).

  These theorems assume `Considerate`: no call in `on_close` and none but `set_timeout` in
  `on_error`, `destroy` only outside callbacks or in `on_drain`, no `end` before the stream
  is connected or in `on_timeout`. After the other callbacks the library goes on
  with the stream, and would touch one that was destroyed; `on_error` of a failed
  send or read runs in a stream that is about to be destroyed, which a `destroy`
  there, or a write that fails in turn, would do twice; `evn.c:348` forgets a
  FIN sent before the connect event; and `evn_stream_end` after the peer's FIN is a destruction,
  which `on_timeout` must not make. The repository's programs keep to this, but for
  `echo-server.c:71`, which is a finding. `EndAlwaysSeesAllData` and
  `CleanCloseAlwaysComplete` are for streams with an `on_data`, without which nothing is
  delivered, and the second for an application that ends a stream only when nothing is
  queued, since otherwise the FIN overtakes the queue. `MCStream`'s `Careful` and `Patient` are
  `Considerate`.

  The last section is about a stream as one end of a connection. `Known` is all the
  invariants together with two more: `Accounts` (output is left behind only by a
  connection that was reset, and `on_data` got the first bytes that were read, in order) and
  `Ready` (no event is pending while a handler runs, and while EV_WRITE is pending the
  kernel has room or can take nothing any more). `LocalKnown` shows that a step of the process keeps `Known` and
  does to the socket only what `Effects` allows, `OutsideKnown` that the network keeps it.
  `Smooth` is such an end at which nothing goes wrong: no reset, no failed send, closed
  only after the FIN was handled, and a oneshot stream, whose `on_data` is called once
  at most and then with all that the peer sent. `PlainSmooth` shows
  that the library and `evn_stream_end` keep it, `FirstWrite` that the first write does
  while the kernel's buffer is empty (a second one could find it full and fail), and
  `DrainedIsSent` that nothing is queued in an `on_drain` in which the
  application does not write. `OneOnData` says that an `on_data` has no other below it.
- `ConnectionProofs`: `ToServerAlwaysPipe` and `ToClientAlwaysPipe` are the refinement of
  `Connection` to `Pipe`, for any amount of data, any size of the kernel's buffers, with and
  without breaking connections. `ClientStream` and `ServerStream` relate the actions of the
  two processes to those of `Stream`; `ClientSteps` and `ServerSteps` show that what a process does
  is a step of its `Stream`, so that the results of `StreamEndingProofs` hold of both
  ends. What joins the ends is `Linked`: what has arrived at the reader and what is in
  transit (`SndBuf - room`) is what is on the wire, and a FIN has arrived only after the
  whole of what was written. The writer, the reader and the network keep it (`WriterLinked`,
  `ReaderLinked`, `NetworkLinked`), and with it the writer's and the reader's
  steps are those of a pipe (`WriterPipes`, `ReaderPipes`). Definitions and lemmas are about
  the socket and the log of an end, so that each serves both directions.

  The theorems assume that both applications are `Careful`, as `Talking` and `Leaving` of
  `MCConnection` are, that they end a stream only when nothing is queued, and that the
  reader installs `on_data`. `Careful` is `Considerate` and two things more. Writes are made from
  callbacks: one from another watcher can take the room that a pending EV_WRITE
  reported, also the EV_WRITE that every new connection reports with nothing queued, and
  the library then takes the `EAGAIN` of its own send for a broken connection (`evn.c:628-637`)
  and drops what is queued. With such a writer TLC finds a pipe that ends early. And a
  stream is destroyed only where its output has drained, in an `on_drain` that does not write: `evn_stream_destroy`
  drops what is queued and sends a FIN all the same.

  `StepPipes` needs no more than that a step is a `Turn` (of one process, which ends a stream only
  when nothing is queued, of the network, or of nobody), so that `EchoProofs` can use it for
  programs that see to this themselves.
- `EchoProofs`: the two safety properties of `Echo`, `EchoNeverFails` and `EchoAlwaysMatches`, for
  every length of the message, every size of the kernel's buffers and of `recv`. The
  hypothesis `Programs` is what `Echo.cfg` says: the callbacks and calls of the two
  programs, both oneshot, and bounds of the model that leave room for the message.
  `EndsQueued` may be either, since nothing but the programs keeps them from ending early.

  The inductive invariant, `EchoInv`, is `Known` of the connection, `Smooth` of both ends
  and a line about each program. `ClientStands`: it has written its message, or nothing.
  `ServerStands`: it has written exactly what it was given, and once it has, `on_data` is not
  called again, which is why its step may go back to `start`. That the programs end their streams
  only with an empty queue, which the theorems on `Connection` assume, is here a
  consequence: in the callback that writes, of the test of the write's result; in
  `on_drain`, of `DrainedIsSent`. So every step is a `Turn` (`EchoKeeps`), and the
  programs also use the connection as a pipe in each direction
  (`EchoToServerIsPipe`, `EchoToClientIsPipe`).

  Three things can go wrong with a oneshot stream whose connection holds. A write
  fails if the kernel's buffer is full: each program writes once, and until then the buffer is
  empty (`RoomFirst`). A queued byte is cut off by a FIN: ruled out by the
  above. And the network resets an end whose peer was closed with data unread
  (`Refuses`): a `Smooth` end is closed only after the FIN and with everything read, and a
  FIN arrives last (`NothingRefused`, from `Linked`). `EchoMatches` is then counting: if the
  client was given anything it was given all that the server wrote, which is all that the
  server was given, which is all that the client wrote (`EchoLengths`), and each stage
  keeps the order.
- `ServerProofs`: type correctness and the five safety properties of `Server` for any
  set of connections, any queue length and any failures, of an application that is
  `Disciplined`: no calls from the server's callbacks and no close before listening. The
  inductive invariant lists the shapes the stack can have (`Where`) and, for each, what
  the descriptor, the backlog, the stream being handed over and the failure
  being reported are. `CloseIsLast` follows from it with `ClosedStep`, which says what a
  step can still do to a server that is closing.

Only model-checked: the liveness properties (`QueuedIsDrained`, `BothEndedCloses`,
`ConnectionsAreServed`, `BothEndedBothClose`, `EchoCompletes`), which are outside the prover. Every invariant, action property and
refinement that a run checks is also a theorem. The four properties that runs find
violated are of course not.

## Not modelled

- `evn_buffer_create`, `_create_copy` and `_destroy` on their own (only the tests use them), and
  the defaults of `evn_bufferlist_create` for arguments below 1.
- Listening twice on one server, which leaks the first socket, and the `unlink` of the
  socket's path before it is bound.
- `socket()` failing in `evn_create_connection`: it returns NULL and changes nothing.
- An application that sets `oneshot` later than the repository's programs do: the buffer
  list is then missing and `evn.c:527` or 571 dereferences NULL.
- How the echo client reads its message, the copy the server writes to a file, the
  server's timeout, and a message of no bytes, which leaves the server waiting for
  that timeout.
- Time in `Connection` and `Echo`: the timer is checked in `stream_timeout`.
- Allocation failure: the code does not handle it ("TODO don't assume that malloc worked").
- Integer overflow of buffer sizes.
- `evn_stream_get_timeout`, `index`, `type`, `send_data` and `on_secure`:
  none of them changes or reads the state the model has.
- A peer that never stops sending, which would starve queued output since READ is
  handled before WRITE (`evn.c:483-490`).

## Plan

All components with state of their own are modelled, and every safety property that a run
checks is proved. What is left is a run that needs an application of its own: a stream made oneshot
late.
