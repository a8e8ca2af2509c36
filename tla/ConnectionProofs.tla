--------------------------- MODULE ConnectionProofs ---------------------------
(***************************************************************************)
(* Each direction of a connection is a pipe, for every pair of careful     *)
(* applications, every amount of data, every size of the kernel's buffer   *)
(* and every interleaving of the two processes and the network.            *)
(***************************************************************************)
EXTENDS Connection, SequenceTheorems, TLAPS

\* What was proved of one stream, for each end, and of an application that ends
\* a stream only when nothing is queued.
C == INSTANCE StreamEndingProofs WITH
  stream <- cstream, io <- cio, sock <- csock, timer <- ctimer, stack <- cstack,
  log <- clog, Sides <- {"connected"}, Oneshots <- ClientOneshots,
  Installed <- ClientInstalled, AppCalls <- ClientCalls, EndsQueued <- FALSE,
  MaxWritten <- ClientWrites, MaxArrived <- 0, Timeouts <- {}

S == INSTANCE StreamEndingProofs WITH
  stream <- sstream, io <- sio, sock <- ssock, timer <- stimer, stack <- sstack,
  log <- slog, Sides <- {"accepted"}, Oneshots <- ServerOneshots,
  Installed <- ServerInstalled, AppCalls <- ServerCalls, EndsQueued <- FALSE,
  MaxWritten <- ServerWrites, MaxArrived <- 0, Timeouts <- {}

-------------------------------------------------------------------------------
(***************************************************************************)
(* The two processes.                                                      *)
(***************************************************************************)

\* The assumptions of Stream hold of both.
LEMMA Assumptions == C!StreamAssumption /\ S!StreamAssumption
  BY ConnectionAssumption
     DEF C!StreamAssumption, S!StreamAssumption, Callbacks, C!Callbacks, S!Callbacks,
         Contexts, C!Contexts, S!Contexts, Calls, C!Calls, S!Calls

\* What the client does by itself, as a step of its stream.
LEMMA ClientStream ==
  /\ Client!Library => C!Library
  /\ Client!Return => C!Return
  /\ Client!AppMay("write") => C!AppMay("write")
  /\ \A n : Client!Write(n) => C!Write(n)
  /\ Client!AppWrites => C!AppWrites
  /\ Client!AppEnds => C!AppMay("end")
  /\ Client!AppEnds /\ (~EndsQueued \/ cstream.out = <<>>) => C!AppEnds
  /\ Client!AppDestroys => C!AppDestroys
  /\ Client!Accept => C!Accept
  /\ Client!Connect => C!Connect
  /\ Client!ConnectFails => C!ConnectFails
<1>1. Client!Library => C!Library
  BY DEF Client!Library, C!Library, Client!Accepted, C!Accepted, Client!Connected,
         C!Connected, Client!Free, C!Free, Client!ReadFailed, C!ReadFailed,
         Client!SendFailed, C!SendFailed, Client!WatchWritesAfterFailure,
         C!WatchWritesAfterFailure, Client!CheckClosed, C!CheckClosed, Client!FinEnd,
         C!FinEnd, Client!FinClose, C!FinClose, Client!TimedOut, C!TimedOut,
         Client!OnConnect, C!OnConnect, Client!OnData, C!OnData, Client!OnReadError,
         C!OnReadError, Client!OnFin, C!OnFin, Client!OnWritable, C!OnWritable,
         Client!OnTimer, C!OnTimer, Client!Poll, C!Poll, Client!At, C!At, Client!Fault,
         C!Fault, Client!Defined, C!Defined, Client!InLoop, C!InLoop, Client!Destroy,
         C!Destroy, Client!Call, C!Call, Client!HalfClose, C!HalfClose,
         Client!ReadEvent, C!ReadEvent, Client!Touch, C!Touch, Client!Rearm, C!Rearm,
         Client!Again, C!Again, Client!Stop, C!Stop, Client!GiveUp, C!GiveUp,
         Client!Dispatched, C!Dispatched, Client!Unread, C!Unread, Client!Bytes,
         C!Bytes, Client!Least, C!Least, Client!Deliver, C!Deliver, Client!CanSend,
         C!CanSend, Client!SendFails, C!SendFails, Client!Sent, C!Sent, Client!Taken,
         C!Taken, Client!Unsent, C!Unsent, Client!UnwatchWrites, C!UnwatchWrites,
         Client!WatchWrites, C!WatchWrites, Client!Readable, C!Readable,
         Client!Writable, C!Writable, Client!Fires, C!Fires, Client!Expired, C!Expired
<1>2. /\ Client!AppMay("write") => C!AppMay("write")
      /\ Client!AppMay("end") => C!AppMay("end")
      /\ Client!AppMay("destroy") => C!AppMay("destroy")
  BY DEF Client!AppMay, C!AppMay, Client!Context, C!Context, Client!Defined, C!Defined,
         Client!Alive, C!Alive, Client!Contexts, C!Contexts, Client!Callbacks, C!Callbacks
<1>3. ASSUME NEW n, Client!Write(n) PROVE C!Write(n)
  BY <1>3 DEF Client!Write, C!Write, Client!Bytes, C!Bytes, Client!Least, C!Least,
         Client!CanSend, C!CanSend, Client!SendFails, C!SendFails, Client!Sent, C!Sent,
         Client!Taken, C!Taken, Client!Unsent, C!Unsent, Client!WatchWrites,
         C!WatchWrites, Client!Touch, C!Touch, Client!Rearm, C!Rearm, Client!Again,
         C!Again, Client!Stop, C!Stop, Client!Call, C!Call
<1>4. /\ Client!AppWrites => C!AppWrites
      /\ Client!AppEnds => C!AppMay("end")
      /\ Client!AppEnds /\ (~EndsQueued \/ cstream.out = <<>>) => C!AppEnds
      /\ Client!AppDestroys => C!AppDestroys
  BY <1>2, <1>3
     DEF Client!AppWrites, C!AppWrites, Client!AppEnds, C!AppEnds, Client!AppDestroys,
         C!AppDestroys, Client!EndOutput, C!EndOutput, Client!Destroy, C!Destroy,
         Client!Call, C!Call, Client!Stop, C!Stop
<1>5. /\ Client!Return => C!Return
      /\ Client!Accept => C!Accept
      /\ Client!Connect => C!Connect
      /\ Client!ConnectFails => C!ConnectFails
  BY DEF Client!Return, C!Return, Client!Accept, C!Accept, Client!Connect, C!Connect,
         Client!ConnectFails, C!ConnectFails, Client!Defined, C!Defined, Client!Call,
         C!Call, Client!Callbacks, C!Callbacks
<1> QED BY <1>1, <1>2, <1>3, <1>4, <1>5

LEMMA ClientSteps ==
  ASSUME ~EndsQueued, Connect \/ ClientLibrary \/ ClientReturns \/ ClientApplication
  PROVE  C!Local /\ UNCHANGED svars
  BY ClientStream DEF Connect, ClientLibrary, ClientReturns, ClientApplication, C!Local

\* What the server does by itself, as a step of its stream.
LEMMA ServerStream ==
  /\ Server!Library => S!Library
  /\ Server!Return => S!Return
  /\ Server!AppMay("write") => S!AppMay("write")
  /\ \A n : Server!Write(n) => S!Write(n)
  /\ Server!AppWrites => S!AppWrites
  /\ Server!AppEnds => S!AppMay("end")
  /\ Server!AppEnds /\ (~EndsQueued \/ sstream.out = <<>>) => S!AppEnds
  /\ Server!AppDestroys => S!AppDestroys
  /\ Server!Accept => S!Accept
  /\ Server!Connect => S!Connect
  /\ Server!ConnectFails => S!ConnectFails
<1>1. Server!Library => S!Library
  BY DEF Server!Library, S!Library, Server!Accepted, S!Accepted, Server!Connected,
         S!Connected, Server!Free, S!Free, Server!ReadFailed, S!ReadFailed,
         Server!SendFailed, S!SendFailed, Server!WatchWritesAfterFailure,
         S!WatchWritesAfterFailure, Server!CheckClosed, S!CheckClosed, Server!FinEnd,
         S!FinEnd, Server!FinClose, S!FinClose, Server!TimedOut, S!TimedOut,
         Server!OnConnect, S!OnConnect, Server!OnData, S!OnData, Server!OnReadError,
         S!OnReadError, Server!OnFin, S!OnFin, Server!OnWritable, S!OnWritable,
         Server!OnTimer, S!OnTimer, Server!Poll, S!Poll, Server!At, S!At, Server!Fault,
         S!Fault, Server!Defined, S!Defined, Server!InLoop, S!InLoop, Server!Destroy,
         S!Destroy, Server!Call, S!Call, Server!HalfClose, S!HalfClose,
         Server!ReadEvent, S!ReadEvent, Server!Touch, S!Touch, Server!Rearm, S!Rearm,
         Server!Again, S!Again, Server!Stop, S!Stop, Server!GiveUp, S!GiveUp,
         Server!Dispatched, S!Dispatched, Server!Unread, S!Unread, Server!Bytes,
         S!Bytes, Server!Least, S!Least, Server!Deliver, S!Deliver, Server!CanSend,
         S!CanSend, Server!SendFails, S!SendFails, Server!Sent, S!Sent, Server!Taken,
         S!Taken, Server!Unsent, S!Unsent, Server!UnwatchWrites, S!UnwatchWrites,
         Server!WatchWrites, S!WatchWrites, Server!Readable, S!Readable,
         Server!Writable, S!Writable, Server!Fires, S!Fires, Server!Expired, S!Expired
<1>2. /\ Server!AppMay("write") => S!AppMay("write")
      /\ Server!AppMay("end") => S!AppMay("end")
      /\ Server!AppMay("destroy") => S!AppMay("destroy")
  BY DEF Server!AppMay, S!AppMay, Server!Context, S!Context, Server!Defined, S!Defined,
         Server!Alive, S!Alive, Server!Contexts, S!Contexts, Server!Callbacks, S!Callbacks
<1>3. ASSUME NEW n, Server!Write(n) PROVE S!Write(n)
  BY <1>3 DEF Server!Write, S!Write, Server!Bytes, S!Bytes, Server!Least, S!Least,
         Server!CanSend, S!CanSend, Server!SendFails, S!SendFails, Server!Sent, S!Sent,
         Server!Taken, S!Taken, Server!Unsent, S!Unsent, Server!WatchWrites,
         S!WatchWrites, Server!Touch, S!Touch, Server!Rearm, S!Rearm, Server!Again,
         S!Again, Server!Stop, S!Stop, Server!Call, S!Call
<1>4. /\ Server!AppWrites => S!AppWrites
      /\ Server!AppEnds => S!AppMay("end")
      /\ Server!AppEnds /\ (~EndsQueued \/ sstream.out = <<>>) => S!AppEnds
      /\ Server!AppDestroys => S!AppDestroys
  BY <1>2, <1>3
     DEF Server!AppWrites, S!AppWrites, Server!AppEnds, S!AppEnds, Server!AppDestroys,
         S!AppDestroys, Server!EndOutput, S!EndOutput, Server!Destroy, S!Destroy,
         Server!Call, S!Call, Server!Stop, S!Stop
<1>5. /\ Server!Return => S!Return
      /\ Server!Accept => S!Accept
      /\ Server!Connect => S!Connect
      /\ Server!ConnectFails => S!ConnectFails
  BY DEF Server!Return, S!Return, Server!Accept, S!Accept, Server!Connect, S!Connect,
         Server!ConnectFails, S!ConnectFails, Server!Defined, S!Defined, Server!Call,
         S!Call, Server!Callbacks, S!Callbacks
<1> QED BY <1>1, <1>2, <1>3, <1>4, <1>5

LEMMA ServerSteps ==
  ASSUME ~EndsQueued, Accept \/ ServerLibrary \/ ServerReturns \/ ServerApplication
  PROVE  S!Local /\ UNCHANGED cvars
  BY ServerStream DEF Accept, ServerLibrary, ServerReturns, ServerApplication, S!Local
-------------------------------------------------------------------------------
(***************************************************************************)
(* One end: what it knows, and what its steps and the network's change of  *)
(* it, as operators on its socket and its log.                             *)
(***************************************************************************)

\* The bytes 1, 2, 3, ... in this order.
InOrder(s) == s \in Seq(Nat) /\ \A i \in 1..Len(s) : s[i] = i

LEMMA Lengths ==
  /\ SndBuf \in Nat
  /\ \A s : InOrder(s) => Len(s) \in Nat
<1>1. SndBuf \in Nat
  BY ConnectionAssumption
<1>2. ASSUME NEW s, InOrder(s) PROVE Len(s) \in Nat
  <2>1. s \in Seq(Nat)
    BY <1>2 DEF InOrder
  <2> QED BY <2>1
<1> QED BY <1>1, <1>2

\* What KnownFacts says of one end.
End(sock, log) ==
  /\ InOrder(sock.wire) /\ Len(sock.wire) <= log.written
  /\ sock.room \in Nat /\ log.written \in Nat /\ sock.arrived \in Nat
  /\ log.closed \in Nat /\ log.ended \in {0, 1}
  /\ InOrder(log.delivered) /\ Len(log.delivered) <= sock.arrived
  /\ Ends(sock, log.closed) /\ ~sock.reset => Len(sock.wire) = log.written

\* An end that was told of the FIN has been given all that arrived.
Told(sock, log) ==
  log.ended > 0 => sock.fin /\ Len(log.delivered) = sock.arrived

\* What its process can do to it.
Moves(sock, log, sock2, log2) ==
  /\ Len(sock2.wire) + sock2.room = Len(sock.wire) + sock.room
  /\ Len(sock.wire) <= Len(sock2.wire)
  /\ log.written <= log2.written
  /\ sock.shut => sock2.shut
  /\ log.closed <= log2.closed
  /\ sock.shut \/ sock2.shut \/ log2.closed > 0 =>
       log2.written = log.written /\ sock2.wire = sock.wire /\ sock2.room = sock.room
  /\ sock2.arrived = sock.arrived /\ sock2.fin = sock.fin
  /\ \/ log2.delivered = log.delivered /\ log2.ended = log.ended
     \/ log2.delivered = log.delivered /\ log.ended = 0 /\ log2.ended = 1
     \/ /\ log2.ended = 0 /\ log.ended = 0
        /\ Len(log.delivered) <= Len(log2.delivered)

\* All that is known of an end, in these terms.
LEMMA EndsKnown ==
  /\ C!Known => End(csock, clog) /\ ("on_data" \in ClientInstalled => Told(csock, clog))
  /\ S!Known => End(ssock, slog) /\ ("on_data" \in ServerInstalled => Told(ssock, slog))
<1>1. ASSUME C!Known
      PROVE  End(csock, clog) /\ ("on_data" \in ClientInstalled => Told(csock, clog))
  <2>1. ASSUME NEW s \in Seq(Nat), C!Numbered(s, 0) PROVE InOrder(s)
    BY <2>1 DEF C!Numbered, InOrder
  <2>2. /\ csock.wire \in Seq(Nat) /\ C!Numbered(csock.wire, 0)
        /\ clog.delivered \in Seq(Nat) /\ C!Numbered(clog.delivered, 0)
        /\ Len(csock.wire) <= clog.written /\ Len(clog.delivered) <= csock.arrived
        /\ csock.room \in Nat /\ clog.written \in Nat /\ csock.arrived \in Nat
        /\ clog.closed \in Nat /\ clog.ended \in {0, 1}
        /\ clog.ended > 0 /\ "on_data" \in ClientInstalled =>
             csock.fin /\ Len(clog.delivered) = csock.arrived
        /\ (csock.shut \/ clog.closed > 0) /\ ~csock.reset =>
             Len(csock.wire) = clog.written
    BY <1>1, Assumptions, C!KnownFacts
  <2>3. InOrder(csock.wire) /\ InOrder(clog.delivered)
    BY <2>1, <2>2
  <2> QED BY <2>2, <2>3 DEF End, Told, Ends
<1>2. ASSUME S!Known
      PROVE  End(ssock, slog) /\ ("on_data" \in ServerInstalled => Told(ssock, slog))
  <2>1. ASSUME NEW s \in Seq(Nat), S!Numbered(s, 0) PROVE InOrder(s)
    BY <2>1 DEF S!Numbered, InOrder
  <2>2. /\ ssock.wire \in Seq(Nat) /\ S!Numbered(ssock.wire, 0)
        /\ slog.delivered \in Seq(Nat) /\ S!Numbered(slog.delivered, 0)
        /\ Len(ssock.wire) <= slog.written /\ Len(slog.delivered) <= ssock.arrived
        /\ ssock.room \in Nat /\ slog.written \in Nat /\ ssock.arrived \in Nat
        /\ slog.closed \in Nat /\ slog.ended \in {0, 1}
        /\ slog.ended > 0 /\ "on_data" \in ServerInstalled =>
             ssock.fin /\ Len(slog.delivered) = ssock.arrived
        /\ (ssock.shut \/ slog.closed > 0) /\ ~ssock.reset =>
             Len(ssock.wire) = slog.written
    BY <1>2, Assumptions, S!KnownFacts
  <2>3. InOrder(ssock.wire) /\ InOrder(slog.delivered)
    BY <2>1, <2>2
  <2> QED BY <2>2, <2>3 DEF End, Told, Ends
<1> QED BY <1>1, <1>2

-------------------------------------------------------------------------------
(***************************************************************************)
(* The link between the end that writes and the end that reads.            *)
(***************************************************************************)

\* What is on the wire has arrived or is in transit, and the FIN comes after it.
Linked(from, fromLog, to) ==
  /\ from.room <= SndBuf
  /\ to.arrived + InTransit(from) = Len(from.wire)
  /\ to.fin => /\ Ends(from, fromLog.closed)
               /\ InTransit(from) = 0 /\ Len(from.wire) = fromLog.written

\* The writer's steps keep the link.
LEMMA WriterLinked ==
  ASSUME NEW from, NEW fromLog, NEW from2, NEW fromLog2, NEW to,
         End(from, fromLog), End(from2, fromLog2), Moves(from, fromLog, from2, fromLog2),
         Linked(from, fromLog, to), to.arrived \in Nat
  PROVE  Linked(from2, fromLog2, to)
<1>1. /\ Len(from.wire) \in Nat /\ Len(from2.wire) \in Nat
      /\ from.room \in Nat /\ from2.room \in Nat /\ SndBuf \in Nat
      /\ fromLog.closed \in Nat /\ fromLog2.closed \in Nat
  BY Lengths DEF End
<1>2. from2.room <= SndBuf /\ to.arrived + InTransit(from2) = Len(from2.wire)
  <2> DEFINE w == Len(from.wire)
             w2 == Len(from2.wire)
             r == from.room
             r2 == from2.room
             a == to.arrived
  <2>1. w \in Nat /\ w2 \in Nat /\ r \in Nat /\ r2 \in Nat /\ a \in Nat
    BY <1>1
  <2>2. w2 + r2 = w + r /\ w <= w2
    BY DEF Moves
  <2>3. r <= SndBuf /\ a + (SndBuf - r) = w
    BY DEF Linked, InTransit
  <2> HIDE DEF w, w2, r, r2, a
  <2>4. r2 <= SndBuf /\ a + (SndBuf - r2) = w2
    BY <1>1, <2>1, <2>2, <2>3
  <2> QED BY <2>4 DEF InTransit, w2, r2, a
<1>3. Ends(from, fromLog.closed) =>
        /\ Ends(from2, fromLog2.closed) /\ fromLog2.written = fromLog.written
        /\ from2.wire = from.wire /\ from2.room = from.room
  BY <1>1 DEF Moves, Ends
<1> QED BY <1>1, <1>2, <1>3 DEF Linked, InTransit

\* The reader's steps keep it.
LEMMA ReaderLinked ==
  ASSUME NEW from, NEW fromLog, NEW to, NEW toLog, NEW to2, NEW toLog2,
         Moves(to, toLog, to2, toLog2), Linked(from, fromLog, to)
  PROVE  Linked(from, fromLog, to2)
  BY DEF Moves, Linked

\* The network: it changes nothing of the link, or brings the FIN, or bytes.
Passes(from, fromLog, to, from2, to2) ==
  /\ from2.wire = from.wire /\ from2.shut = from.shut
  /\ \/ /\ from2.room = from.room /\ to2.arrived = to.arrived
        /\ \/ to2.fin = to.fin
           \/ ~from.reset /\ Ends(from, fromLog.closed) /\ InTransit(from) = 0
     \/ \E n \in 1..InTransit(from) :
          /\ from2.room = from.room + n /\ to2.arrived = to.arrived + n
          /\ to2.fin = to.fin

\* The network keeps it.
LEMMA NetworkLinked ==
  ASSUME NEW from, NEW fromLog, NEW to, NEW from2, NEW to2,
         End(from, fromLog), Linked(from, fromLog, to), to.arrived \in Nat,
         Passes(from, fromLog, to, from2, to2)
  PROVE  Linked(from2, fromLog, to2)
<1>1. /\ Len(from.wire) \in Nat /\ from.room \in Nat /\ SndBuf \in Nat
      /\ fromLog.closed \in Nat
  BY Lengths DEF End
<1>2. from2.wire = from.wire /\ from2.shut = from.shut
  BY DEF Passes
<1>3. CASE /\ from2.room = from.room /\ to2.arrived = to.arrived
           /\ \/ to2.fin = to.fin
              \/ ~from.reset /\ Ends(from, fromLog.closed) /\ InTransit(from) = 0
  BY <1>1, <1>2, <1>3 DEF Linked, InTransit, Ends, End
<1>4. ASSUME NEW n \in 1..InTransit(from), from2.room = from.room + n,
             to2.arrived = to.arrived + n, to2.fin = to.fin
      PROVE  Linked(from2, fromLog, to2)
  <2>1. n \in Nat /\ n > 0 /\ n <= SndBuf - from.room /\ ~to.fin
    BY <1>1, <1>4 DEF InTransit, Linked
  <2> QED BY <1>1, <1>2, <1>4, <2>1 DEF Linked, InTransit
<1> QED BY <1>3, <1>4 DEF Passes

-------------------------------------------------------------------------------
(***************************************************************************)
(* A pipe from one end to the other.                                       *)
(***************************************************************************)

\* The first n bytes.
Count(n) == [i \in 1..n |-> i]

\* A step of Pipe, or none, from one state of it to another.
PipeStep(written, received, state, written2, received2, state2) ==
  \/ state = "open" /\ written2 > written /\ received2 = received /\ state2 = state
  \/ /\ state # "ended" /\ written2 = written /\ state2 = state
     /\ \E n \in 1..(written - Len(received)) :
          received2 = received \o [i \in 1..n |-> Len(received) + i]
  \/ /\ state = "open" /\ state2 = "finished"
     /\ written2 = written /\ received2 = received
  \/ /\ state = "finished" /\ Len(received) = written /\ state2 = "ended"
     /\ written2 = written /\ received2 = received
  \/ written2 = written /\ received2 = received /\ state2 = state

\* What a reader got are the first bytes that were written.
LEMMA GotFirst ==
  ASSUME NEW from, NEW fromLog, NEW to, NEW toLog,
         End(from, fromLog), End(to, toLog), Linked(from, fromLog, to)
  PROVE  /\ Len(toLog.delivered) \in Nat
         /\ Len(toLog.delivered) <= Len(from.wire)
         /\ Got(toLog, from) = Count(Len(toLog.delivered))
<1>1. /\ Len(from.wire) \in Nat /\ from.room \in Nat /\ SndBuf \in Nat
      /\ Len(toLog.delivered) \in Nat /\ to.arrived \in Nat
  BY Lengths DEF End
<1>2. Len(toLog.delivered) <= Len(from.wire)
  <2> DEFINE d == Len(toLog.delivered)
             w == Len(from.wire)
  <2>1. d \in Nat /\ w \in Nat /\ d <= to.arrived
    BY <1>1 DEF End
  <2>2. from.room <= SndBuf /\ to.arrived + (SndBuf - from.room) = w
    BY DEF Linked, InTransit
  <2> HIDE DEF d, w
  <2>3. d <= w
    BY <1>1, <2>1, <2>2
  <2> QED BY <2>3 DEF d, w
<1>3. DOMAIN toLog.delivered = 1..Len(toLog.delivered)
  BY DEF End, InOrder
<1>4. ASSUME NEW i \in 1..Len(toLog.delivered)
      PROVE  from.wire[toLog.delivered[i]] = i
  <2>1. toLog.delivered[i] = i
    BY DEF End, InOrder
  <2>2. i \in 1..Len(from.wire)
    BY <1>1, <1>2
  <2>3. from.wire[i] = i
    BY <2>2 DEF End, InOrder
  <2> QED BY <2>1, <2>3
<1>5. Got(toLog, from) = [i \in 1..Len(toLog.delivered) |-> from.wire[toLog.delivered[i]]]
  BY <1>3 DEF Got
<1> QED BY <1>1, <1>2, <1>4, <1>5 DEF Count

\* Counting on.
LEMMA CountOn ==
  ASSUME NEW k \in Nat, NEW n \in Nat
  PROVE  /\ Len(Count(k)) = k
         /\ Count(k) \o [i \in 1..n |-> k + i] = Count(k + n)
<1> DEFINE s == Count(k)
           t == [i \in 1..n |-> k + i]
           u == Count(k + n)
<1>1. s \in Seq(Nat) /\ Len(s) = k /\ \A i \in 1..k : s[i] = i
  <2>1. s \in [1..k -> Nat]
    BY DEF Count
  <2> QED BY <2>1 DEF Count
<1>2. t \in Seq(Nat) /\ Len(t) = n /\ \A i \in 1..n : t[i] = k + i
  <2>1. t \in [1..n -> Nat]
    OBVIOUS
  <2> QED BY <2>1
<1>3. u \in Seq(Nat) /\ Len(u) = k + n /\ \A i \in 1..(k + n) : u[i] = i
  <2>1. u \in [1..(k + n) -> Nat]
    BY DEF Count
  <2> QED BY <2>1 DEF Count
<1> HIDE DEF s, t, u
<1>4. /\ s \o t \in Seq(Nat) /\ Len(s \o t) = k + n
      /\ \A i \in 1..(k + n) : (s \o t)[i] = IF i <= k THEN s[i] ELSE t[i - k]
  BY <1>1, <1>2, ConcatProperties
<1>5. ASSUME NEW i \in 1..(k + n) PROVE (s \o t)[i] = u[i]
  <2>1. CASE i <= k
    BY <1>1, <1>3, <1>4, <2>1
  <2>2. CASE ~(i <= k)
    <3>1. i - k \in 1..n /\ k + (i - k) = i
      BY <2>2
    <3> QED BY <1>2, <1>3, <1>4, <2>2, <3>1
  <2> QED BY <2>1, <2>2
<1>6. s \o t = u
  BY <1>3, <1>4, <1>5, SeqEqual
<1> QED BY <1>1, <1>6 DEF s, t, u

\* The writer's steps are steps of the pipe.
LEMMA WriterPipes ==
  ASSUME NEW from, NEW fromLog, NEW from2, NEW fromLog2, NEW to, NEW toLog,
         End(from, fromLog), End(from2, fromLog2), Moves(from, fromLog, from2, fromLog2),
         End(to, toLog), Told(to, toLog), Linked(from, fromLog, to)
  PROVE  PipeStep(fromLog.written, Got(toLog, from), PipeState(from, fromLog, toLog),
                  fromLog2.written, Got(toLog, from2), PipeState(from2, fromLog2, toLog))
<1>1. Linked(from2, fromLog2, to)
  BY WriterLinked DEF End
<1>2. Got(toLog, from2) = Got(toLog, from)
  BY <1>1, GotFirst
<1>3. /\ fromLog.written \in Nat /\ fromLog2.written \in Nat
      /\ fromLog.closed \in Nat /\ fromLog2.closed \in Nat
      /\ toLog.ended > 0 => Ends(from, fromLog.closed)
  BY DEF End, Told, Linked
<1>4. /\ Ends(from, fromLog.closed) => Ends(from2, fromLog2.closed)
      /\ Ends(from2, fromLog2.closed) => fromLog2.written = fromLog.written
      /\ fromLog.written <= fromLog2.written
  BY <1>3 DEF Moves, Ends
<1> QED BY <1>2, <1>3, <1>4 DEF PipeStep, PipeState

\* The reader's steps are steps of the pipe.
LEMMA ReaderPipes ==
  ASSUME NEW from, NEW fromLog, NEW to, NEW toLog, NEW to2, NEW toLog2,
         End(from, fromLog), End(to, toLog), End(to2, toLog2), Told(to2, toLog2),
         Moves(to, toLog, to2, toLog2), Linked(from, fromLog, to)
  PROVE  PipeStep(fromLog.written, Got(toLog, from), PipeState(from, fromLog, toLog),
                  fromLog.written, Got(toLog2, from), PipeState(from, fromLog, toLog2))
<1> DEFINE k == Len(toLog.delivered)
           k2 == Len(toLog2.delivered)
<1>1. Linked(from, fromLog, to2)
  BY ReaderLinked
<1>2. /\ k \in Nat /\ Got(toLog, from) = Count(k)
      /\ k2 \in Nat /\ Got(toLog2, from) = Count(k2)
      /\ k2 <= Len(from.wire) /\ Len(from.wire) \in Nat
      /\ Len(from.wire) <= fromLog.written /\ fromLog.written \in Nat
  <2>1. k \in Nat /\ Got(toLog, from) = Count(k)
    BY GotFirst
  <2>2. k2 \in Nat /\ Got(toLog2, from) = Count(k2) /\ k2 <= Len(from.wire)
    BY <1>1, GotFirst
  <2>3. Len(from.wire) \in Nat
    BY Lengths DEF End
  <2>4. Len(from.wire) <= fromLog.written /\ fromLog.written \in Nat
    BY DEF End
  <2> HIDE DEF k, k2
  <2> QED BY <2>1, <2>2, <2>3, <2>4
<1> HIDE DEF k, k2
<1>3. CASE toLog2.delivered = toLog.delivered /\ toLog2.ended = toLog.ended
  BY <1>3 DEF PipeStep, PipeState, Got
<1>4. CASE toLog2.delivered = toLog.delivered /\ toLog.ended = 0 /\ toLog2.ended = 1
  <2>1. to2.fin /\ k2 = to2.arrived /\ k2 = k
    BY <1>4 DEF Told, k, k2
  <2>2. Ends(from, fromLog.closed) /\ InTransit(from) = 0 /\ Len(from.wire) = fromLog.written
    BY <1>1, <2>1 DEF Linked
  <2>3. k = fromLog.written
    BY <1>1, <1>2, <2>1, <2>2 DEF Linked
  <2>4. Len(Got(toLog, from)) = fromLog.written
    BY <1>2, <2>3, CountOn
  <2> QED BY <1>2, <1>4, <2>1, <2>2, <2>4 DEF PipeStep, PipeState
<1>5. CASE toLog2.ended = 0 /\ toLog.ended = 0 /\ k <= k2
  <2>1. CASE k = k2
    BY <1>2, <1>5, <2>1 DEF PipeStep, PipeState
  <2>2. CASE k < k2
    <3>1. k2 - k \in Nat /\ k2 - k > 0 /\ k + (k2 - k) = k2 /\ k2 - k <= fromLog.written - k
      BY <1>2, <2>2
    <3>2. Len(Count(k)) = k /\ Count(k2) = Count(k) \o [i \in 1..(k2 - k) |-> k + i]
      BY <1>2, <3>1, CountOn
    <3>3. k2 - k \in 1..(fromLog.written - Len(Got(toLog, from)))
      BY <1>2, <3>1, <3>2
    <3>4. Got(toLog2, from)
            = Got(toLog, from) \o [i \in 1..(k2 - k) |-> Len(Got(toLog, from)) + i]
      BY <1>2, <3>2
    <3>5. /\ PipeState(from, fromLog, toLog) # "ended"
          /\ PipeState(from, fromLog, toLog2) = PipeState(from, fromLog, toLog)
      BY <1>5 DEF PipeState
    <3> QED BY <3>3, <3>4, <3>5 DEF PipeStep
  <2> QED BY <1>2, <1>5, <2>1, <2>2
<1> QED BY <1>3, <1>4, <1>5 DEF Moves, k, k2
-------------------------------------------------------------------------------
(***************************************************************************)
(* The steps of both processes and of the network.                         *)
(***************************************************************************)

\* What is known of a connection.
Known ==
  /\ C!Known /\ S!Known
  /\ Linked(csock, clog, ssock) /\ Linked(ssock, slog, csock)

\* What the network may change of one socket.
Disturbed(sock, sock2) ==
  /\ sock2 \in C!Sockets
  /\ sock2.open = sock.open /\ sock2.shut = sock.shut
  /\ sock2.wire = sock.wire /\ sock2.read = sock.read
  /\ sock.room <= sock2.room /\ sock.arrived <= sock2.arrived
  /\ sock.fin => sock2.fin /\ sock2.arrived = sock.arrived
  /\ sock.reset => sock2.reset

\* What it may do to both.
Together(from, fromLog, to, toLog, from2, to2) ==
  /\ Disturbed(from, from2) /\ Disturbed(to, to2)
  /\ Passes(from, fromLog, to, from2, to2)
  /\ Passes(to, toLog, from, to2, from2)

\* It brings bytes.
LEMMA CarriesDisturbs ==
  ASSUME NEW from \in C!Sockets, NEW fromLog, NEW to \in C!Sockets, NEW toLog,
         Linked(from, fromLog, to), NEW n \in 1..InTransit(from),
         NEW from2, from2 = [from EXCEPT !.room = @ + n],
         NEW to2, to2 = [to EXCEPT !.arrived = @ + n]
  PROVE  Together(from, fromLog, to, toLog, from2, to2)
<1>1. from.room \in Nat /\ to.arrived \in Nat /\ SndBuf \in Nat
  BY Lengths DEF C!Sockets
<1>2. n \in Nat /\ n > 0
  BY <1>1 DEF InTransit
<1>3. ~to.fin
  BY <1>1, <1>2 DEF Linked
<1>4. from.room + n \in Nat /\ to.arrived + n \in Nat
  BY <1>1, <1>2
<1>5. /\ from2 \in C!Sockets /\ from2.room = from.room + n
      /\ from2.open = from.open /\ from2.shut = from.shut /\ from2.wire = from.wire
      /\ from2.arrived = from.arrived /\ from2.read = from.read /\ from2.fin = from.fin
      /\ from2.reset = from.reset
  BY <1>4 DEF C!Sockets
<1>6. /\ to2 \in C!Sockets /\ to2.arrived = to.arrived + n
      /\ to2.open = to.open /\ to2.shut = to.shut /\ to2.wire = to.wire
      /\ to2.room = to.room /\ to2.read = to.read /\ to2.fin = to.fin
      /\ to2.reset = to.reset
  BY <1>4 DEF C!Sockets
<1>7. to.room \in Nat /\ from.arrived \in Nat
  BY DEF C!Sockets
<1>8. Disturbed(from, from2) /\ Disturbed(to, to2)
  BY <1>1, <1>2, <1>3, <1>5, <1>6, <1>7 DEF Disturbed
<1> QED BY <1>5, <1>6, <1>8 DEF Passes, Together

\* It brings the FIN.
LEMMA FinDisturbs ==
  ASSUME NEW from \in C!Sockets, NEW fromLog, NEW to \in C!Sockets, NEW toLog,
         Ends(from, fromLog.closed), InTransit(from) = 0, ~from.reset,
         NEW to2, to2 = [to EXCEPT !.fin = TRUE]
  PROVE  Together(from, fromLog, to, toLog, from, to2)
<1>1. /\ from.room \in Nat /\ from.arrived \in Nat /\ to.room \in Nat
      /\ to.arrived \in Nat
  BY DEF C!Sockets
<1>2. /\ to2 \in C!Sockets /\ to2.fin
      /\ to2.open = to.open /\ to2.shut = to.shut /\ to2.wire = to.wire
      /\ to2.room = to.room /\ to2.read = to.read /\ to2.arrived = to.arrived
      /\ to2.reset = to.reset
  BY DEF C!Sockets
<1>3. from.room <= from.room /\ from.arrived <= from.arrived
      /\ to.room <= to2.room /\ to.arrived <= to2.arrived
  BY <1>1, <1>2
<1>4. Disturbed(from, from) /\ Disturbed(to, to2)
  BY <1>2, <1>3 DEF Disturbed
<1> QED BY <1>2, <1>4 DEF Passes, Together

\* Connections are reset, or left alone.
LEMMA ResetDisturbs ==
  ASSUME NEW from \in C!Sockets, NEW to \in C!Sockets, NEW fromLog, NEW toLog,
         NEW from2, from2 \in {from, [from EXCEPT !.reset = TRUE]},
         NEW to2, to2 \in {to, [to EXCEPT !.reset = TRUE]}
  PROVE  Together(from, fromLog, to, toLog, from2, to2)
<1>1. ASSUME NEW s \in C!Sockets, NEW s2, s2 \in {s, [s EXCEPT !.reset = TRUE]}
      PROVE  /\ s2.shut = s.shut /\ s2.wire = s.wire /\ s2.room = s.room
             /\ s2.arrived = s.arrived /\ s2.fin = s.fin /\ Disturbed(s, s2)
  <2>1. /\ s2 \in C!Sockets /\ s2.open = s.open /\ s2.shut = s.shut
        /\ s2.wire = s.wire /\ s2.room = s.room /\ s2.read = s.read
        /\ s2.arrived = s.arrived /\ s2.fin = s.fin /\ (s.reset => s2.reset)
    BY <1>1 DEF C!Sockets
  <2>2. s.room <= s.room /\ s.arrived <= s.arrived
    BY DEF C!Sockets
  <2> QED BY <2>1, <2>2 DEF Disturbed
<1>2. /\ from2.shut = from.shut /\ from2.wire = from.wire /\ from2.room = from.room
      /\ from2.arrived = from.arrived /\ from2.fin = from.fin /\ Disturbed(from, from2)
  BY <1>1
<1>3. /\ to2.shut = to.shut /\ to2.wire = to.wire /\ to2.room = to.room
      /\ to2.arrived = to.arrived /\ to2.fin = to.fin /\ Disturbed(to, to2)
  BY <1>1
<1> QED BY <1>2, <1>3 DEF Passes, Together

\* The network and the breaking of a connection.
LEMMA NetworkSteps ==
  ASSUME csock \in C!Sockets, ssock \in C!Sockets,
         Linked(csock, clog, ssock), Linked(ssock, slog, csock), Network \/ Breaks
  PROVE  /\ UNCHANGED <<cstream, cio, ctimer, cstack, clog>>
         /\ UNCHANGED <<sstream, sio, stimer, sstack, slog>>
         /\ Together(csock, clog, ssock, slog, csock', ssock')
<1>1. /\ UNCHANGED <<cstream, cio, ctimer, cstack, clog>>
      /\ UNCHANGED <<sstream, sio, stimer, sstack, slog>>
  BY DEF Network, Breaks
<1> SUFFICES Together(csock, clog, ssock, slog, csock', ssock')
  BY <1>1
<1>2. Together(ssock, slog, csock, clog, ssock', csock')
        => Together(csock, clog, ssock, slog, csock', ssock')
  BY DEF Together
<1>3. CASE Carries(ssock, csock)
  <2>1. PICK n \in 1..InTransit(ssock) :
          /\ ssock' = [ssock EXCEPT !.room = @ + n]
          /\ csock' = [csock EXCEPT !.arrived = @ + n]
    BY <1>3 DEF Carries
  <2>2. Together(ssock, slog, csock, clog, ssock', csock')
    BY <2>1, CarriesDisturbs
  <2> QED BY <1>2, <2>2
<1>4. CASE Carries(csock, ssock)
  <2>1. PICK n \in 1..InTransit(csock) :
          /\ csock' = [csock EXCEPT !.room = @ + n]
          /\ ssock' = [ssock EXCEPT !.arrived = @ + n]
    BY <1>4 DEF Carries
  <2> QED BY <2>1, CarriesDisturbs
<1>5. CASE CarriesFin(ssock, slog.closed, csock)
  <2>1. /\ Ends(ssock, slog.closed) /\ InTransit(ssock) = 0 /\ ~ssock.reset
        /\ ssock' = ssock /\ csock' = [csock EXCEPT !.fin = TRUE]
    BY <1>5 DEF CarriesFin
  <2>2. Together(ssock, slog, csock, clog, ssock', csock')
    BY <2>1, FinDisturbs
  <2> QED BY <1>2, <2>2
<1>6. CASE CarriesFin(csock, clog.closed, ssock)
  <2>1. /\ Ends(csock, clog.closed) /\ InTransit(csock) = 0 /\ ~csock.reset
        /\ csock' = csock /\ ssock' = [ssock EXCEPT !.fin = TRUE]
    BY <1>6 DEF CarriesFin
  <2> QED BY <2>1, FinDisturbs
<1>7. CASE \/ Refuses(csock, ssock, slog.closed) \/ Refuses(ssock, csock, clog.closed)
           \/ Breaks
  <2>1. /\ csock' \in {csock, [csock EXCEPT !.reset = TRUE]}
        /\ ssock' \in {ssock, [ssock EXCEPT !.reset = TRUE]}
    BY <1>7 DEF Refuses, Breaks
  <2> QED BY <2>1, ResetDisturbs
<1> QED BY <1>3, <1>4, <1>5, <1>6, <1>7 DEF Network
-------------------------------------------------------------------------------
(***************************************************************************)
(* What is known of a connection holds always, and each direction of it    *)
(* is a pipe.                                                              *)
(***************************************************************************)

\* The same of the state after a step.
LEMMA EndsKnownNext ==
  /\ C!Known' => End(csock', clog') /\ ("on_data" \in ClientInstalled => Told(csock', clog'))
  /\ S!Known' => End(ssock', slog') /\ ("on_data" \in ServerInstalled => Told(ssock', slog'))
<1>1. /\ C!Known' => (End(csock, clog) /\ ("on_data" \in ClientInstalled => Told(csock, clog)))'
      /\ S!Known' => (End(ssock, slog) /\ ("on_data" \in ServerInstalled => Told(ssock, slog)))'
  BY EndsKnown, PTL
<1> QED BY <1>1 DEF End, Told

\* The network keeps what is known of both ends; so does staying as it is.
LEMMA DisturbedKnown ==
  /\ C!Known /\ Disturbed(csock, csock') /\ UNCHANGED <<cstream, cio, ctimer, cstack, clog>>
       => C!Known' /\ C!Outside
  /\ S!Known /\ Disturbed(ssock, ssock') /\ UNCHANGED <<sstream, sio, stimer, sstack, slog>>
       => S!Known' /\ S!Outside
<1>1. /\ Disturbed(csock, csock') /\ UNCHANGED <<cstream, cio, ctimer, cstack, clog>>
           => C!Outside
      /\ Disturbed(ssock, ssock') /\ UNCHANGED <<sstream, sio, stimer, sstack, slog>>
           => S!Outside
  BY DEF Disturbed, C!Outside, S!Outside, C!Sockets, S!Sockets
<1> QED BY <1>1, Assumptions, C!OutsideKnown, S!OutsideKnown

LEMMA UndisturbedKnown ==
  /\ C!Known /\ UNCHANGED cvars => C!Known'
  /\ S!Known /\ UNCHANGED svars => S!Known'
<1>1. C!Known => Disturbed(csock, csock)
  BY DEF Disturbed, C!Known, C!TypeOK, C!Sockets
<1>2. S!Known => Disturbed(ssock, ssock)
  BY DEF Disturbed, S!Known, S!TypeOK, C!Sockets, S!Sockets
<1> QED BY <1>1, <1>2, DisturbedKnown DEF cvars, svars

\* A step of the client: its end, and what the other end may notice.
LEMMA ClientMoves ==
  ASSUME Known, C!Tidy, C!Local, UNCHANGED svars
  PROVE  Known' /\ Moves(csock, clog, csock', clog')
<1>1. C!Effects /\ C!Known'
  BY Assumptions, C!LocalKnown DEF Known
<1>2. Moves(csock, clog, csock', clog')
  BY <1>1 DEF C!Effects, Moves
<1>3. S!Known' /\ ssock' = ssock /\ slog' = slog
  BY UndisturbedKnown DEF Known, svars
<1>4. /\ End(csock, clog) /\ End(csock', clog') /\ End(ssock, slog)
  BY <1>1, EndsKnown, EndsKnownNext DEF Known
<1>5. Linked(csock', clog', ssock)
  BY <1>2, <1>4, WriterLinked DEF Known, End
<1>6. Linked(ssock, slog, csock')
  BY <1>2, ReaderLinked DEF Known
<1> QED BY <1>1, <1>2, <1>3, <1>5, <1>6 DEF Known

\* A step of the server.
LEMMA ServerMoves ==
  ASSUME Known, S!Tidy, S!Local, UNCHANGED cvars
  PROVE  Known' /\ Moves(ssock, slog, ssock', slog')
<1>1. S!Effects /\ S!Known'
  BY Assumptions, S!LocalKnown DEF Known
<1>2. Moves(ssock, slog, ssock', slog')
  BY <1>1 DEF S!Effects, Moves
<1>3. C!Known' /\ csock' = csock /\ clog' = clog
  BY UndisturbedKnown DEF Known, cvars
<1>4. /\ End(ssock, slog) /\ End(ssock', slog') /\ End(csock, clog)
  BY <1>1, EndsKnown, EndsKnownNext DEF Known
<1>5. Linked(ssock', slog', csock)
  BY <1>2, <1>4, WriterLinked DEF Known, End
<1>6. Linked(csock, clog, ssock')
  BY <1>2, ReaderLinked DEF Known
<1> QED BY <1>1, <1>2, <1>3, <1>5, <1>6 DEF Known

\* A step of the network.
LEMMA NetworkMoves ==
  ASSUME Known, Network \/ Breaks
  PROVE  /\ Known' /\ C!Outside /\ S!Outside
         /\ UNCHANGED <<clog, slog>> /\ csock'.wire = csock.wire /\ csock'.shut = csock.shut
         /\ ssock'.wire = ssock.wire /\ ssock'.shut = ssock.shut
<1>1. csock \in C!Sockets /\ ssock \in C!Sockets
  BY DEF Known, C!Known, S!Known, C!TypeOK, S!TypeOK, C!Sockets, S!Sockets
<1>2. /\ UNCHANGED <<cstream, cio, ctimer, cstack, clog>>
      /\ UNCHANGED <<sstream, sio, stimer, sstack, slog>>
      /\ Together(csock, clog, ssock, slog, csock', ssock')
  BY <1>1, NetworkSteps DEF Known
<1>3. C!Known' /\ C!Outside /\ S!Known' /\ S!Outside
  BY <1>2, DisturbedKnown DEF Known, Together
<1>4. End(csock, clog) /\ End(ssock, slog)
  BY EndsKnown DEF Known
<1>5. Linked(csock', clog, ssock') /\ Linked(ssock', slog, csock')
  BY <1>2, <1>4, NetworkLinked DEF Known, Together, End
<1> QED BY <1>2, <1>3, <1>5 DEF Known, Together, Disturbed

\* The pipe to the server, and the pipe to the client, from a state to the next.
ServerPipeStep ==
  PipeStep(clog.written, Got(slog, csock), PipeState(csock, clog, slog),
           clog'.written, Got(slog', csock'), PipeState(csock', clog', slog'))

ClientPipeStep ==
  PipeStep(slog.written, Got(clog, ssock), PipeState(ssock, slog, clog),
           slog'.written, Got(clog', ssock'), PipeState(ssock', slog', clog'))

\* A step of one process, of the network, or of neither.
Turn ==
  \/ C!Local /\ UNCHANGED svars
  \/ S!Local /\ UNCHANGED cvars
  \/ Network \/ Breaks \/ UNCHANGED vars

LEMMA NextTurn == ~EndsQueued /\ [Next]_vars => Turn
  BY ClientSteps, ServerSteps DEF Next, Turn

\* Every step of a connection keeps what is known, and is a step of each pipe.
LEMMA StepPipes ==
  ASSUME Known, C!Tidy, S!Tidy, Turn
  PROVE  /\ Known'
         /\ "on_data" \in ServerInstalled => ServerPipeStep
         /\ "on_data" \in ClientInstalled => ClientPipeStep
<1>1. /\ End(csock, clog) /\ ("on_data" \in ClientInstalled => Told(csock, clog))
      /\ End(ssock, slog) /\ ("on_data" \in ServerInstalled => Told(ssock, slog))
  BY EndsKnown DEF Known
<1>2. CASE C!Local /\ UNCHANGED svars
  <2>1. Known' /\ Moves(csock, clog, csock', clog') /\ ssock' = ssock /\ slog' = slog
    BY <1>2, ClientMoves DEF svars
  <2>2. End(csock', clog') /\ ("on_data" \in ClientInstalled => Told(csock', clog'))
    BY <2>1, EndsKnownNext DEF Known
  <2>3. "on_data" \in ServerInstalled => ServerPipeStep
    BY <1>1, <2>1, <2>2, WriterPipes DEF Known, ServerPipeStep
  <2>4. "on_data" \in ClientInstalled => ClientPipeStep
    BY <1>1, <2>1, <2>2, ReaderPipes DEF Known, ClientPipeStep
  <2> QED BY <2>1, <2>3, <2>4
<1>3. CASE S!Local /\ UNCHANGED cvars
  <2>1. Known' /\ Moves(ssock, slog, ssock', slog') /\ csock' = csock /\ clog' = clog
    BY <1>3, ServerMoves DEF cvars
  <2>2. End(ssock', slog') /\ ("on_data" \in ServerInstalled => Told(ssock', slog'))
    BY <2>1, EndsKnownNext DEF Known
  <2>3. "on_data" \in ClientInstalled => ClientPipeStep
    BY <1>1, <2>1, <2>2, WriterPipes DEF Known, ClientPipeStep
  <2>4. "on_data" \in ServerInstalled => ServerPipeStep
    BY <1>1, <2>1, <2>2, ReaderPipes DEF Known, ServerPipeStep
  <2> QED BY <2>1, <2>3, <2>4
<1>4. CASE Network \/ Breaks
  BY <1>4, NetworkMoves
     DEF ServerPipeStep, ClientPipeStep, PipeStep, PipeState, Got, Ends
<1>5. CASE UNCHANGED vars
  <2>1. UNCHANGED cvars /\ UNCHANGED svars
    BY <1>5 DEF vars
  <2>2. csock' = csock /\ clog' = clog /\ ssock' = ssock /\ slog' = slog
    BY <2>1 DEF cvars, svars
  <2>3. Known'
    BY <2>1, <2>2, UndisturbedKnown DEF Known
  <2> QED BY <2>2, <2>3 DEF ServerPipeStep, ClientPipeStep, PipeStep
<1> QED BY <1>2, <1>3, <1>4, <1>5 DEF Turn

\* PipeStep is what Pipe says.
LEMMA PipeSteps ==
  /\ ServerPipeStep => [ToServer!Next]_(ToServer!vars)
  /\ ClientPipeStep => [ToClient!Next]_(ToClient!vars)
<1>1. ServerPipeStep => [ToServer!Next]_(ToServer!vars)
  BY DEF ServerPipeStep, PipeStep, ToServer!Next, ToServer!vars, ToServer!Write,
         ToServer!Receive, ToServer!Finish, ToServer!End
<1>2. ClientPipeStep => [ToClient!Next]_(ToClient!vars)
  BY DEF ClientPipeStep, PipeStep, ToClient!Next, ToClient!vars, ToClient!Write,
         ToClient!Receive, ToClient!Finish, ToClient!End
<1> QED BY <1>1, <1>2

\* A connection begins with nothing known against it, and with empty pipes.
LEMMA InitPipes == Init => Known /\ ToServer!Init /\ ToClient!Init
<1> SUFFICES ASSUME Init PROVE Known /\ ToServer!Init /\ ToClient!Init
  OBVIOUS
<1>1. C!Init /\ S!Init
  BY DEF Init, Client!Init, Server!Init, C!Init, S!Init, Client!NoTimer, Server!NoTimer,
         C!NoTimer, S!NoTimer
<1>2. C!Known /\ S!Known
  BY <1>1, Assumptions, C!InitKnown, S!InitKnown
<1>3. /\ csock.room = SndBuf /\ csock.arrived = 0 /\ csock.wire = <<>> /\ ~csock.fin
      /\ ssock.room = SndBuf /\ ssock.arrived = 0 /\ ssock.wire = <<>> /\ ~ssock.fin
      /\ ~csock.shut /\ ~ssock.shut
      /\ clog.written = 0 /\ clog.delivered = <<>> /\ clog.ended = 0 /\ clog.closed = 0
      /\ slog.written = 0 /\ slog.delivered = <<>> /\ slog.ended = 0 /\ slog.closed = 0
  BY <1>1 DEF C!Init, S!Init
<1>4. Linked(csock, clog, ssock) /\ Linked(ssock, slog, csock)
  BY <1>3, Lengths DEF Linked, InTransit
<1>5. Got(slog, csock) = <<>> /\ Got(clog, ssock) = <<>>
  BY <1>3 DEF Got
<1>6. PipeState(csock, clog, slog) = "open" /\ PipeState(ssock, slog, clog) = "open"
  BY <1>3 DEF PipeState, Ends
<1> QED BY <1>2, <1>3, <1>4, <1>5, <1>6 DEF Known, ToServer!Init, ToClient!Init
-------------------------------------------------------------------------------
(***************************************************************************)
(* The theorems.                                                           *)
(***************************************************************************)

\* An application that makes its calls from its callbacks, ends no stream with
\* output queued (~EndsQueued), and destroys one, if at all, in an on_drain in
\* which it does not write.
Careful(calls) ==
  /\ calls["on_close"] = {} /\ calls["on_error"] \subseteq {"set_timeout"}
  /\ calls["opening"] \subseteq {"set_timeout"}
  /\ calls["loop"] \subseteq {"end", "set_timeout"}
  /\ "end" \notin calls["on_timeout"]
  /\ \A c \in Callbacks \ {"on_drain"} : "destroy" \notin calls[c]
  /\ "destroy" \in calls["on_drain"] => "write" \notin calls["on_drain"]

LEMMA CarefulTidy ==
  /\ Careful(ClientCalls) => C!Tidy
  /\ Careful(ServerCalls) => S!Tidy
  BY DEF Careful, C!Tidy, S!Tidy, C!Considerate, S!Considerate, C!Quiet, S!Quiet,
         Callbacks, C!Callbacks, S!Callbacks

\* What the client writes reaches the server in order and whole before the server
\* is told of its end, through both queues, partial sends, the network and
\* half-closes, if both applications are careful and the server's installs on_data.
THEOREM ToServerAlwaysPipe ==
  ASSUME Careful(ClientCalls), Careful(ServerCalls), ~EndsQueued,
         "on_data" \in ServerInstalled
  PROVE  Spec => ToServerIsPipe
<1>1. C!Tidy /\ S!Tidy
  BY CarefulTidy
<1>2. Init => Known /\ ToServer!Init
  BY InitPipes
<1>3. Known /\ [Next]_vars => Known' /\ [ToServer!Next]_(ToServer!vars)
  BY <1>1, NextTurn, StepPipes, PipeSteps
<1> QED BY <1>2, <1>3, PTL DEF Spec, ToServerIsPipe, ToServer!Spec

\* So does what the server writes reach the client, if the client installs on_data.
THEOREM ToClientAlwaysPipe ==
  ASSUME Careful(ClientCalls), Careful(ServerCalls), ~EndsQueued,
         "on_data" \in ClientInstalled
  PROVE  Spec => ToClientIsPipe
<1>1. C!Tidy /\ S!Tidy
  BY CarefulTidy
<1>2. Init => Known /\ ToClient!Init
  BY InitPipes
<1>3. Known /\ [Next]_vars => Known' /\ [ToClient!Next]_(ToClient!vars)
  BY <1>1, NextTurn, StepPipes, PipeSteps
<1> QED BY <1>2, <1>3, PTL DEF Spec, ToClientIsPipe, ToClient!Spec
===============================================================================
