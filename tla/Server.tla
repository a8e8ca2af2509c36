-------------------------------- MODULE Server --------------------------------
(***************************************************************************)
(* One evn_server (source/evn.c): creation, evn_server_listen with each of *)
(* its failures, the accept loop, and closing.  Of a stream it accepts it  *)
(* knows only whether the stream was started or destroyed; the rest of its *)
(* life is module Stream.                                                  *)
(*                                                                         *)
(* As there, stack is the C call stack cut where the library calls the     *)
(* application, an action runs the library from one such point to the      *)
(* next, and log.ub names the point at which freed or uninitialised memory *)
(* was used, after which nothing follows.                                  *)
(***************************************************************************)
EXTENDS Integers, Sequences

Callbacks == {"on_connection", "on_error", "on_close"}

\* Where the library goes on after a callback; see the action of that name.
\* accept is the head of the accept loop.
Points == {"failed", "accepted", "accept", "free"}

\* Where the application runs: in a callback of the server, or in main or
\* another watcher, before it listens and afterwards.
Contexts == Callbacks \cup {"created", "loop"}
Calls == {"listen", "close", "destroy_stream"}

\* The calls of the library that can fail.
Failing == {"socket", "fcntl", "bind", "listen", "accept"}

CONSTANTS
  Clients,    \* the connections that are made
  Families,   \* "unix" for port 0, "tcp" for others
  Failures,   \* the calls that fail in this environment
  Installed,  \* the callbacks the application installs
  AppCalls,   \* the calls the application makes in each context
  MaxQueue    \* max_queue of evn_server_listen

ASSUME ServerAssumption ==
  /\ Families \subseteq {"unix", "tcp"}
  /\ Failures \subseteq Failing
  /\ Installed \subseteq Callbacks
  /\ AppCalls \in [Contexts -> SUBSET Calls]
  /\ MaxQueue \in Nat \ {0}

VARIABLES
  server,   \* the struct: heap, address (what socket points to) and of its
            \* ev_io fd, active, pending
  os,       \* the kernel: stdin (descriptor 0), listener, backlog
  streams,  \* what became of each connection
  stack,    \* the running callbacks and suspended handlers, innermost first
  log       \* history: accepted, the call that failed, closes; see Init

vars == <<server, os, streams, stack, log>>

Fd == 3  \* the descriptor socket() returns
-------------------------------------------------------------------------------
Init ==
  /\ server = [heap |-> "none", address |-> "null", fd |-> 0,
               active |-> FALSE, pending |-> FALSE]
  /\ os = [stdin |-> "open", listener |-> "none", backlog |-> <<>>]
  /\ streams = [c \in Clients |-> "none"]
  /\ stack = <<>>
  /\ log = [accepted |-> <<>>, failed |-> "none", closed |-> 0,
            ub |-> "none"]

Defined == log.ub = "none"
InLoop == Defined /\ stack = <<>>
Alive == server.heap = "alive"

\* if (server->callback) { server->callback(...); }
Call(callback) == IF callback \in Installed THEN <<callback>> ELSE <<>>

Fault(p) ==
  /\ log' = [log EXCEPT !.ub = p]
  /\ UNCHANGED <<server, os, streams, stack>>

\* The library goes on at point p, where it touches the server, or the stream.
At(p, freed, Resume) ==
  /\ Defined
  /\ stack # <<>> /\ Head(stack) = p
  /\ IF freed THEN Fault(p) ELSE Resume

Freed == server.heap = "freed"
-------------------------------------------------------------------------------
(***************************************************************************)
(* evn_server_create, evn_server_listen and evn_server_close.              *)
(***************************************************************************)

\* calloc: the watcher's descriptor is 0 until evn_server_listen.
Create ==
  /\ server.heap = "none"
  /\ server' = [server EXCEPT !.heap = "alive"]
  /\ UNCHANGED <<os, streams, stack, log>>

\* socket and fcntl: the server's descriptor, or -1 with the socket closed.
Opened(failure) == failure \notin {"socket", "fcntl"}

\* A plausible slip in InitWatcher: it comes after the tests for errors.
InitWatcherLate(failure) ==
  [server EXCEPT !.fd = IF failure = "none" THEN Fd ELSE @,
                 !.address = IF Opened(failure) THEN "set" ELSE "unset",
                 !.active = failure = "none"]

\* ev_io_init, before the errors are handled "so that if we need to destroy the
\* server on error, the fd will be available", and at the end ev_io_start.
InitWatcher(failure) ==
  [server EXCEPT !.fd = IF Opened(failure) THEN Fd ELSE -1,
                 !.address = IF Opened(failure) THEN "set" ELSE "unset",
                 !.active = failure = "none"]

Listener(failure) ==
  CASE failure = "none"   -> "listening"
    [] failure = "socket" -> "none"
    [] failure = "fcntl"  -> "closed"
    [] OTHER              -> "open"

\* on_error is called, and the server is destroyed afterwards.
Fails(failure, rest) ==
  /\ log' = [log EXCEPT !.failed = failure]
  /\ stack' = Call("on_error") \o <<"failed">> \o rest

\* evn_server_listen.  Of a unix socket the length of the address is taken
\* whether or not it was written; from uninitialised memory strlen returns
\* something or crashes.
Listen(family, failure) ==
  /\ server' = InitWatcher(failure)
  /\ os' = [os EXCEPT !.listener = Listener(failure)]
  /\ \/ /\ family = "unix" /\ ~Opened(failure)
        /\ log' = [log EXCEPT !.ub = "sun_path"]
        /\ UNCHANGED stack
     \/ IF failure = "none" THEN UNCHANGED <<stack, log>>
        ELSE Fails(failure, stack)
  /\ UNCHANGED streams

\* close(): the kernel refuses what waits in the backlog.
CloseDescriptor ==
  /\ os' = CASE server.fd = 0  -> [os EXCEPT !.stdin = "closed"]
             [] server.fd = Fd -> [os EXCEPT !.listener = "closed", !.backlog = <<>>]
             [] OTHER          -> os
  /\ streams' = [c \in Clients |->
       IF server.fd = Fd /\ streams[c] = "queued" THEN "refused" ELSE streams[c]]

\* A plausible slip in Close: closing the descriptor is taken to be enough.
CloseStillWatched(rest) ==
  /\ CloseDescriptor
  /\ log' = [log EXCEPT !.closed = @ + 1]
  /\ stack' = Call("on_close") \o <<"free">> \o rest
  /\ UNCHANGED server

\* evn_server_close (and _destroy) up to on_close.
Close(rest) ==
  /\ CloseDescriptor
  /\ server' = [server EXCEPT !.active = FALSE, !.pending = FALSE]
  /\ log' = [log EXCEPT !.closed = @ + 1]
  /\ stack' = Call("on_close") \o <<"free">> \o rest

Free ==
  At("free", Freed,
     /\ server' = [server EXCEPT !.heap = "freed", !.address = "null"]
     /\ stack' = Tail(stack)
     /\ UNCHANGED <<os, streams, log>>)

\* A plausible slip in Failed: the server goes on after an error.
FailedGoesOn ==
  At("failed", Freed, /\ stack' = Tail(stack)
                      /\ UNCHANGED <<server, os, streams, log>>)

\* After on_error: evn_server_destroy, whatever failed.
Failed == At("failed", Freed, Close(Tail(stack)))
-------------------------------------------------------------------------------
(***************************************************************************)
(* evn_server_priv_on_connection.                                          *)
(***************************************************************************)

\* A plausible slip in OnReadable: the watcher is stopped and not started again.
OnReadableOnce ==
  /\ InLoop
  /\ server.pending
  /\ server' = [server EXCEPT !.pending = FALSE, !.active = FALSE]
  /\ stack' = <<"accept">>
  /\ UNCHANGED <<os, streams, log>>

OnReadable ==
  /\ InLoop
  /\ server.pending
  /\ server' = [server EXCEPT !.pending = FALSE]
  /\ stack' = <<"accept">>
  /\ UNCHANGED <<os, streams, log>>

\* accept() returns a connection: a stream is made and handed over.
AcceptOne ==
  LET c == Head(os.backlog)
  IN  /\ os' = [os EXCEPT !.backlog = Tail(@)]
      /\ streams' = [streams EXCEPT ![c] = "handed"]
      /\ log' = [log EXCEPT !.accepted = Append(@, c)]
      /\ stack' = Call("on_connection") \o <<"accepted">> \o stack
      /\ UNCHANGED server

\* One turn of the accept loop: a connection, EAGAIN, or any other error, from
\* which evn_server_destroy returns to rest.
AcceptTurn(rest) ==
  \/ os.backlog # <<>> /\ AcceptOne
  \/ /\ os.backlog = <<>>
     /\ stack' = Tail(stack)
     /\ UNCHANGED <<server, os, streams, log>>
  \/ /\ "accept" \in Failures
     /\ Fails("accept", rest)
     /\ UNCHANGED <<server, os, streams>>

\* A plausible slip in Accept: no return after an abnormal error.
AcceptGoesOn == At("accept", Freed, AcceptTurn(stack))

\* EAGAIN ends the loop, any other error the server.
Accept == At("accept", Freed, AcceptTurn(Tail(stack)))

\* The connection accepted last.
Newest == log.accepted[Len(log.accepted)]

\* A plausible slip in Accepted: the stream is not started if more are waiting.
AcceptedInHaste ==
  At("accepted", streams[Newest] = "destroyed",
     /\ streams' = IF os.backlog = <<>> THEN [streams EXCEPT ![Newest] = "watched"] ELSE streams
     /\ stack' = Tail(stack)
     /\ UNCHANGED <<server, os, log>>)

\* After on_connection: the stream's watcher is started.
Accepted ==
  At("accepted", streams[Newest] = "destroyed",
     /\ streams' = [streams EXCEPT ![Newest] = "watched"]
     /\ stack' = Tail(stack)
     /\ UNCHANGED <<server, os, log>>)
-------------------------------------------------------------------------------
(***************************************************************************)
(* The application, libev and the clients.                                 *)
(***************************************************************************)
Context == IF stack # <<>> THEN Head(stack)
           ELSE IF server.fd = 0 THEN "created" ELSE "loop"

AppMay(call) ==
  /\ Defined /\ Alive /\ log.closed = 0
  /\ Context \in Contexts /\ call \in AppCalls[Context]

AppListens ==
  /\ AppMay("listen") /\ server.fd = 0
  /\ \E family \in Families, failure \in (Failures \ {"accept"}) \cup {"none"} :
       Listen(family, failure)

\* evn_server_close or evn_server_destroy.
AppCloses == AppMay("close") /\ Close(stack)

\* evn_stream_destroy on a stream of the server: the one being handed over, or
\* from the loop any other, also after the server is gone.
AppDestroysStream ==
  /\ Defined /\ Context \in Contexts /\ "destroy_stream" \in AppCalls[Context]
  /\ \E c \in Clients :
       /\ streams[c] \in {"handed", "watched"}
       /\ streams' = [streams EXCEPT ![c] = "destroyed"]
  /\ UNCHANGED <<server, os, stack, log>>

Return ==
  /\ Defined
  /\ stack # <<>> /\ Head(stack) \in Callbacks
  /\ stack' = Tail(stack)
  /\ UNCHANGED <<server, os, streams, log>>

\* libev finds the listening socket readable, and forgets what is pending on a
\* watcher that is stopped.
Poll ==
  /\ InLoop /\ server.active /\ ~server.pending
  /\ os.backlog # <<>>
  /\ server' = [server EXCEPT !.pending = TRUE]
  /\ UNCHANGED <<os, streams, stack, log>>

Connects(c) ==
  /\ Defined
  /\ os.listener = "listening" /\ Len(os.backlog) < MaxQueue
  /\ streams[c] = "none"
  /\ streams' = [streams EXCEPT ![c] = "queued"]
  /\ os' = [os EXCEPT !.backlog = Append(@, c)]
  /\ UNCHANGED <<server, stack, log>>
-------------------------------------------------------------------------------
Library == Free \/ Failed \/ OnReadable \/ Accept \/ Accepted \/ Poll

Application == Create \/ AppListens \/ AppCloses \/ AppDestroysStream \/ Return

Next == Library \/ Application \/ \E c \in Clients : Connects(c)

Spec == Init /\ [][Next]_vars

\* Callbacks return, and ev_loop keeps polling and calling the handlers.
FairSpec == Spec /\ WF_vars(Return) /\ WF_vars(Library)
-------------------------------------------------------------------------------
(***************************************************************************)
(* Properties.                                                             *)
(***************************************************************************)
Servers ==
  [heap : {"none", "alive", "freed"}, address : {"null", "unset", "set"},
   fd : {-1, 0, Fd}, active : BOOLEAN, pending : BOOLEAN]

Kernels ==
  [stdin : {"open", "closed"}, listener : {"none", "open", "listening", "closed"},
   backlog : Seq(Clients)]

Fates == {"none", "queued", "handed", "watched", "destroyed", "refused"}

Logs ==
  [accepted : Seq(Clients), failed : Failing \cup {"none"}, closed : Nat,
   ub : Points \cup {"none", "sun_path"}]

\* The fields have their types, and an event is pending only on a watcher that
\* is started on the listening socket.
TypeOK ==
  /\ server \in Servers
  /\ server.pending => server.active
  /\ server.active => server.fd = Fd /\ os.listener = "listening"
  /\ os \in Kernels
  /\ streams \in [Clients -> Fates]
  /\ stack \in Seq(Callbacks \cup Points)
  /\ log \in Logs

\* "so that if we need to destroy the server on error, the fd will be available
\* in io so we can close it": a server that is gone leaves no descriptor open,
\* whichever step of listen or accept failed, and closed none but its own.
ClosesItsDescriptor ==
  /\ os.stdin = "open"
  /\ Freed => os.listener \in {"none", "closed"}

\* on_close is the last callback of a server, and comes once: no handler starts
\* after it, neither for an event that was pending when another watcher's
\* callback closed the server nor for the connections of an accept loop that
\* failed.
NothingAfterClose ==
  [][log.closed > 0 => Len(stack') <= Len(stack) /\ log'.closed = log.closed]_vars

\* When control is back in the loop every stream that was accepted has been
\* started or destroyed, also those accepted just before an accept failed.
NoneLeftBehind == InLoop => \A c \in Clients : streams[c] # "handed"

\* Whatever fails, the server has been closed, once, and freed when control is
\* back in the loop, and no connection is left waiting for it.
FailureIsFatal ==
  InLoop /\ log.failed # "none" =>
    Freed /\ log.closed = 1 /\ \A c \in Clients : streams[c] # "queued"

\* An application that closes the server and destroys streams only outside the
\* server's callbacks never makes the library use what was freed.
UsedWhileAlive == log.ub \notin Points

\* A connection in the backlog is accepted, or refused when the server closes.
ConnectionsAreServed ==
  \A c \in Clients : streams[c] = "queued" ~> streams[c] # "queued"
===============================================================================
