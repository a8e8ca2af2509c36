------------------------------ MODULE Connection ------------------------------
(***************************************************************************)
(* A connection: the stream that evn_create_connection makes in one        *)
(* process and the one that evn_server_priv_on_connection makes in         *)
(* another, joined by the network.  Each process has its own ev_loop, so   *)
(* the two take turns in any order.  What was left open in Stream, when    *)
(* the peer sends, ends or resets, is what the other stream does here.     *)
(***************************************************************************)
EXTENDS Integers, Sequences, StreamCalls

CONSTANTS
  ClientCalls, ServerCalls,          \* AppCalls of each side
  ClientInstalled, ServerInstalled,  \* the callbacks each side installs
  ClientWrites, ServerWrites,        \* bounds of the model: bytes written in all
  ClientOneshots, ServerOneshots,    \* the values each side may give to oneshot
  EndsQueued,  \* whether they call evn_stream_end while output is queued
  CanReset,    \* whether the network can break the connection
  SndBuf,      \* room for bytes in the network, in each direction
  MaxRecv,     \* EVN_MAX_RECV
  MaxDepth     \* bound of the model: nesting at which an application calls

ASSUME ConnectionAssumption ==
  /\ {ClientCalls, ServerCalls} \subseteq [Contexts -> SUBSET Calls]
  /\ ClientInstalled \subseteq Callbacks /\ ServerInstalled \subseteq Callbacks
  /\ ClientOneshots \subseteq BOOLEAN /\ ServerOneshots \subseteq BOOLEAN
  /\ EndsQueued \in BOOLEAN /\ CanReset \in BOOLEAN
  /\ {SndBuf, MaxRecv} \subseteq Nat \ {0}
  /\ {ClientWrites, ServerWrites, MaxDepth} \subseteq Nat

VARIABLES
  cstream, cio, csock, ctimer, cstack, clog,  \* the client's Stream
  sstream, sio, ssock, stimer, sstack, slog   \* the server's

cvars == <<cstream, cio, csock, ctimer, cstack, clog>>
svars == <<sstream, sio, ssock, stimer, sstack, slog>>
vars == <<cvars, svars>>

Client == INSTANCE Stream WITH
  stream <- cstream, io <- cio, sock <- csock, timer <- ctimer, stack <- cstack,
  log <- clog, Sides <- {"connected"}, Oneshots <- ClientOneshots,
  Installed <- ClientInstalled, AppCalls <- ClientCalls,
  MaxWritten <- ClientWrites, MaxArrived <- 0, Timeouts <- {}

Server == INSTANCE Stream WITH
  stream <- sstream, io <- sio, sock <- ssock, timer <- stimer, stack <- sstack,
  log <- slog, Sides <- {"accepted"}, Oneshots <- ServerOneshots,
  Installed <- ServerInstalled, AppCalls <- ServerCalls,
  MaxWritten <- ServerWrites, MaxArrived <- 0, Timeouts <- {}
-------------------------------------------------------------------------------
Init == Client!Init /\ Server!Init

\* What either process does by itself.
ClientLibrary == Client!Library /\ UNCHANGED svars
ServerLibrary == Server!Library /\ UNCHANGED cvars

ClientReturns == Client!Return /\ UNCHANGED svars
ServerReturns == Server!Return /\ UNCHANGED cvars

ClientApplication ==
  /\ Client!AppWrites \/ Client!AppEnds \/ Client!AppDestroys
  /\ UNCHANGED svars

ServerApplication ==
  /\ Server!AppWrites \/ Server!AppEnds \/ Server!AppDestroys
  /\ UNCHANGED cvars

Connect == (Client!Connect \/ Client!ConnectFails) /\ UNCHANGED svars

\* The server accepts a connection that was made, be it closed again by now.
Accept ==
  /\ cstream.heap = "alive" \/ clog.closed > 0
  /\ Server!Accept
  /\ UNCHANGED cvars
-------------------------------------------------------------------------------
(***************************************************************************)
(* The network, from the socket from to the socket to, which is closed     *)
(* when closed > 0.                                                        *)
(***************************************************************************)
InTransit(from) == SndBuf - from.room

Ends(from, closed) == from.shut \/ closed > 0

\* Bytes arrive, and leave room for others.
Carries(from, to) ==
  /\ ~from.reset /\ ~to.reset
  /\ \E n \in 1..InTransit(from) :
       /\ from' = [from EXCEPT !.room = @ + n]
       /\ to' = [to EXCEPT !.arrived = @ + n]

\* The FIN arrives after them.
CarriesFin(from, fromClosed, to) ==
  /\ Ends(from, fromClosed) /\ InTransit(from) = 0
  /\ ~from.reset /\ ~to.reset /\ ~to.fin
  /\ to' = [to EXCEPT !.fin = TRUE]
  /\ UNCHANGED from

\* A socket closed with data that nobody will read resets the other end.
Refuses(from, to, toClosed) ==
  /\ toClosed > 0 /\ from.open /\ ~from.reset
  /\ InTransit(from) > 0 \/ to.read < to.arrived
  /\ from' = [from EXCEPT !.reset = TRUE]
  /\ UNCHANGED to

Network ==
  /\ \/ clog.closed = 0 /\ Carries(ssock, csock)
     \/ slog.closed = 0 /\ Carries(csock, ssock)
     \/ CarriesFin(ssock, slog.closed, csock)
     \/ CarriesFin(csock, clog.closed, ssock)
     \/ Refuses(csock, ssock, slog.closed)
     \/ Refuses(ssock, csock, clog.closed)
  /\ UNCHANGED <<cstream, cio, ctimer, cstack, clog, sstream, sio, stimer, sstack, slog>>

\* The connection breaks: both ends notice sooner or later.
Breaks ==
  /\ CanReset
  /\ cstream.heap # "none"
  /\ csock' = [csock EXCEPT !.reset = TRUE]
  /\ ssock' = [ssock EXCEPT !.reset = TRUE]
  /\ UNCHANGED <<cstream, cio, ctimer, cstack, clog, sstream, sio, stimer, sstack, slog>>
-------------------------------------------------------------------------------
\* Nothing is said of what follows undefined behaviour of either process.
Defined == Client!Defined /\ Server!Defined

Next ==
  /\ Defined
  /\ \/ Connect \/ Accept
     \/ ClientLibrary \/ ClientReturns \/ ClientApplication
     \/ ServerLibrary \/ ServerReturns \/ ServerApplication
     \/ Network \/ Breaks

Spec == Init /\ [][Next]_vars

\* Both loops run, callbacks return, the network delivers and the server accepts.
FairSpec ==
  /\ Spec
  /\ WF_vars(Defined /\ ClientLibrary) /\ WF_vars(Defined /\ ClientReturns)
  /\ WF_vars(Defined /\ ServerLibrary) /\ WF_vars(Defined /\ ServerReturns)
  /\ WF_vars(Defined /\ Network) /\ WF_vars(Defined /\ Accept)
-------------------------------------------------------------------------------
(***************************************************************************)
(* Properties.                                                             *)
(***************************************************************************)

\* The bytes a reader got, as positions in what the writer wrote: byte k that
\* it received is byte k of the writer's wire.
Got(readerLog, writerSock) ==
  [i \in DOMAIN readerLog.delivered |-> writerSock.wire[readerLog.delivered[i]]]

PipeState(writerSock, writerLog, readerLog) ==
  IF readerLog.ended > 0 THEN "ended"
  ELSE IF Ends(writerSock, writerLog.closed) THEN "finished" ELSE "open"

ToServer == INSTANCE Pipe WITH
  written <- clog.written, received <- Got(slog, csock),
  state <- PipeState(csock, clog, slog)

ToClient == INSTANCE Pipe WITH
  written <- slog.written, received <- Got(clog, ssock),
  state <- PipeState(ssock, slog, clog)

\* Each direction of a connection is a pipe: what one application writes in any
\* pieces reaches the other in order, through both queues, partial sends and
\* half-closes, and on_end comes only after all of it.
ToServerIsPipe == ToServer!Spec
ToClientIsPipe == ToClient!Spec

\* When both ends have sent their FIN, in whichever order and by a half-close
\* or a close, both streams close.
BothEndedBothClose ==
  Ends(csock, clog.closed) /\ Ends(ssock, slog.closed) ~>
    (clog.closed > 0 /\ slog.closed > 0) \/ ~Defined
===============================================================================
