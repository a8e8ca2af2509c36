------------------------------ MODULE EchoProofs ------------------------------
(***************************************************************************)
(* The echo client and server, for every length of the message, every size *)
(* of the kernel's buffer and of recv, and every interleaving of the two   *)
(* programs and the network: as long as the connection holds nothing fails *)
(* and the client gets back what it sent.                                  *)
(***************************************************************************)
EXTENDS Echo, ConnectionProofs

\* The two programs, both with oneshot set, at the ends of the connection; the
\* bounds of the model leave room for their message.
Programs ==
  /\ ClientCalls = EchoClientCalls /\ ServerCalls = EchoServerCalls
  /\ ClientInstalled = EchoClientInstalled /\ ServerInstalled = EchoServerInstalled
  /\ ClientOneshots = {TRUE} /\ ServerOneshots = {TRUE}
  /\ Message <= ClientWrites /\ Message <= ServerWrites

\* What that says of their calls.
LEMMA ProgramCalls ==
  ASSUME Programs
  PROVE  /\ C!Tidy /\ S!Tidy
         /\ "write" \notin ClientCalls["on_drain"] /\ "write" \notin ServerCalls["on_drain"]
         /\ "on_data" \in ClientInstalled /\ "on_data" \in ServerInstalled
         /\ ClientOneshots \subseteq {TRUE} /\ ServerOneshots \subseteq {TRUE}
<1>1. \A c \in Contexts :
        /\ ClientCalls[c] \subseteq {"write", "end"} /\ ServerCalls[c] \subseteq {"write", "end"}
        /\ c \notin {"on_connect", "on_drain"} => ClientCalls[c] = {}
        /\ c \notin {"on_data", "on_drain"} => ServerCalls[c] = {}
        /\ c = "on_drain" => ClientCalls[c] = {"end"} /\ ServerCalls[c] = {"end"}
  BY DEF Programs, EchoClientCalls, EchoServerCalls, Only
<1>2. {"on_close", "on_error", "opening", "loop", "on_timeout", "on_drain"} \subseteq Contexts
      /\ Callbacks \subseteq Contexts
  BY DEF Contexts, Callbacks
<1>3. Careful(ClientCalls) /\ Careful(ServerCalls)
  BY <1>1, <1>2 DEF Careful
<1>4. "on_data" \in ClientInstalled /\ "on_data" \in ServerInstalled
  BY DEF Programs, EchoClientInstalled, EchoServerInstalled, Callbacks
<1> QED BY <1>1, <1>2, <1>3, <1>4, CarefulTidy DEF Programs

-------------------------------------------------------------------------------
(***************************************************************************)
(* The inductive invariant: what is known of a connection, that nothing    *)
(* has failed at either end, and where each program is.                    *)
(***************************************************************************)
ProgramStates == [step : {"start", "sent", "done"}, drain : BOOLEAN]

\* The client has written its message, or has done nothing.
ClientStands ==
  /\ client \in ProgramStates
  /\ IF client.step = "start"
     THEN clog.written = 0 /\ ~client.drain /\ ~csock.shut
     ELSE clog.written = Message

\* The server has written what it was given, for which on_data is called once,
\* or has done nothing.
ServerStands ==
  /\ server \in ProgramStates
  /\ IF slog.written = 0
     THEN server.step = "start" /\ ~server.drain /\ ~ssock.shut
     ELSE /\ slog.written = Len(slog.delivered)
          /\ server.step = "start" => sstack \in S!Without

EchoInv == Known /\ C!Smooth /\ S!Smooth /\ ClientStands /\ ServerStands

\* An end that has written nothing has all the room of the kernel's buffer.
LEMMA RoomFirst ==
  ASSUME NEW from, NEW fromLog, NEW to, NEW toLog, End(from, fromLog), End(to, toLog),
         Linked(from, fromLog, to), fromLog.written = 0
  PROVE  from.room > 0
<1> DEFINE w == Len(from.wire)
           r == from.room
           a == to.arrived
<1>1. w \in Nat /\ r \in Nat /\ a \in Nat /\ SndBuf \in Nat /\ SndBuf > 0
  BY Lengths, ConnectionAssumption DEF End
<1>2. w <= 0 /\ r <= SndBuf /\ a + (SndBuf - r) = w
  BY DEF End, Linked, InTransit
<1> HIDE DEF w, r, a
<1>3. r > 0
  BY <1>1, <1>2
<1> QED BY <1>3 DEF r

\* The facts of both ends that the steps need.
LEMMA EchoFacts ==
  ASSUME EchoInv
  PROVE  /\ C!Known /\ S!Known /\ End(csock, clog) /\ End(ssock, slog)
         /\ clog.written \in Nat /\ slog.written \in Nat /\ Len(slog.delivered) \in Nat
         /\ clog.written = 0 => csock.room > 0
         /\ slog.written = 0 => ssock.room > 0
         /\ clog.written <= Message /\ Len(slog.delivered) <= Message
         /\ ~clog.send_failed /\ ~slog.send_failed
<1>1. C!Known /\ S!Known /\ End(csock, clog) /\ End(ssock, slog)
      /\ Linked(csock, clog, ssock) /\ Linked(ssock, slog, csock)
  BY EndsKnown DEF EchoInv, Known
<1>2. /\ clog.written \in Nat /\ slog.written \in Nat /\ Len(slog.delivered) \in Nat
      /\ Len(csock.wire) \in Nat /\ Len(csock.wire) <= clog.written
  BY <1>1, Lengths DEF End
<1>3. clog.written <= Message /\ Message \in Nat
  BY <1>2, EchoAssumption DEF EchoInv, ClientStands
<1>4. Len(slog.delivered) <= Len(csock.wire)
  BY <1>1, GotFirst
<1> QED BY <1>1, <1>2, <1>3, <1>4, RoomFirst DEF EchoInv, C!Smooth, S!Smooth

-------------------------------------------------------------------------------
(***************************************************************************)
(* The client's process.                                                   *)
(***************************************************************************)

\* Its library, and the return of a callback.
LEMMA ClientRoutine ==
  ASSUME Programs, EchoInv, C!Routine, client' = client
  PROVE  C!Local /\ C!Smooth' /\ ClientStands'
<1>1. C!Plain /\ C!Local
  BY DEF C!Plain, C!Routine, C!Local
<1>2. C!Smooth' /\ clog'.written = clog.written /\ csock'.shut = csock.shut
  BY <1>1, Assumptions, ProgramCalls, C!PlainSmooth DEF EchoInv, Known
<1> QED BY <1>1, <1>2 DEF EchoInv, ClientStands

\* on_connect writes the message.
LEMMA ClientSending ==
  ASSUME Programs, EchoInv, ClientSends
  PROVE  C!Local /\ C!Smooth' /\ ClientStands'
<1>1. C!AppMay("write") /\ C!Write(Message)
  BY ClientStream DEF ClientSends
<1>2. client.step = "start" /\ client' = [client EXCEPT !.step = "sent"]
  BY DEF ClientSends
<1>3. clog.written = 0 /\ ~csock.shut /\ csock.room > 0 /\ Message \in Nat /\ Message # 0
  BY <1>2, EchoFacts, EchoAssumption DEF EchoInv, ClientStands
<1>4. C!Local
  <2>1. Message \in 0..(ClientWrites - clog.written)
    BY <1>3, ConnectionAssumption DEF Programs
  <2>2. C!AppWrites
    BY <1>1, <2>1 DEF C!AppWrites
  <2> QED BY <2>2 DEF C!Local
<1>5. C!Smooth' /\ clog'.written = Message
  BY <1>1, <1>3, Assumptions, ProgramCalls, EchoFacts, C!FirstWrite DEF EchoInv
<1>6. client' \in ProgramStates /\ client'.step = "sent"
  BY <1>2 DEF EchoInv, ClientStands, ProgramStates
<1> QED BY <1>4, <1>5, <1>6 DEF ClientStands

\* It ends the stream, at once or from on_drain, with nothing queued.
LEMMA ClientEnding ==
  ASSUME Programs, EchoInv, C!AppEnds, client.step # "start",
         client' \in ProgramStates, client'.step # "start"
  PROVE  C!Local /\ C!Smooth' /\ ClientStands'
<1>1. C!Plain /\ C!Local
  BY DEF C!Plain, C!Local
<1>2. C!Smooth' /\ clog'.written = clog.written
  BY <1>1, Assumptions, ProgramCalls, C!PlainSmooth DEF EchoInv, Known
<1> QED BY <1>1, <1>2 DEF EchoInv, ClientStands

\* Every step of the client.
LEMMA ClientTurns ==
  ASSUME Programs, EchoInv,
         EchoClient \/ ((Connect \/ ClientLibrary) /\ UNCHANGED <<client, server>>)
  PROVE  /\ C!Local \/ UNCHANGED cvars
         /\ C!Smooth' /\ ClientStands' /\ UNCHANGED <<svars, server>>
<1>1. client \in ProgramStates
  BY DEF EchoInv, ClientStands
<1>2. CASE (Connect \/ ClientLibrary) /\ UNCHANGED <<client, server>>
  <2>1. C!Routine /\ UNCHANGED svars
    BY <1>2, ClientStream DEF Connect, ClientLibrary, C!Routine
  <2> QED BY <1>2, <2>1, ClientRoutine
<1>3. CASE ClientSends
  BY <1>3, ClientSending DEF ClientSends
<1>4. CASE ClientSent
  <2>1. CASE cstream.out = <<>>
    <3>1. C!AppEnds
      BY <1>4, <2>1, ClientStream DEF ClientSent
    <3>2. client.step = "sent" /\ client' = [client EXCEPT !.step = "done"]
      BY <1>4, <2>1 DEF ClientSent
    <3>3. client' \in ProgramStates /\ client'.step = "done"
      BY <1>1, <3>2 DEF ProgramStates
    <3> QED BY <1>4, <3>1, <3>2, <3>3, ClientEnding DEF ClientSent
  <2>2. CASE cstream.out # <<>>
    <3>1. client.step = "sent" /\ client' = [step |-> "done", drain |-> TRUE]
          /\ UNCHANGED cvars
      BY <1>4, <2>2 DEF ClientSent
    <3>2. client' \in ProgramStates /\ client'.step = "done"
      BY <3>1 DEF ProgramStates
    <3>3. C!Smooth' /\ clog' = clog
      BY <3>1 DEF EchoInv, C!Smooth, C!Alive, cvars
    <3> QED BY <1>4, <3>1, <3>2, <3>3 DEF ClientSent, EchoInv, ClientStands
  <2> QED BY <2>1, <2>2
<1>5. CASE ClientDrained
  <2>1. /\ Client!AppEnds /\ cstack # <<>> /\ Head(cstack) = "on_drain" /\ client.drain
        /\ client' = [client EXCEPT !.step = "sent"]
    BY <1>5 DEF ClientDrained, On
  <2>2. C!AppMay("end")
    BY <2>1, ClientStream
  <2>3. cstream.out = <<>>
    BY <2>1, <2>2, Assumptions, ProgramCalls, EchoFacts, C!DrainedIsSent
  <2>4. C!AppEnds
    BY <2>1, <2>3, ClientStream
  <2>5. client.step # "start" /\ client' \in ProgramStates /\ client'.step = "sent"
    BY <1>1, <2>1 DEF EchoInv, ClientStands, ProgramStates
  <2> QED BY <1>5, <2>4, <2>5, ClientEnding DEF ClientDrained
<1>6. CASE ClientDone
  <2>1. C!Return /\ clog' = clog /\ csock' = csock
    BY <1>6, ClientStream DEF ClientDone, C!Return
  <2>2. client' = client \/ (client.drain /\ client' = [client EXCEPT !.step = "done"])
    <3>1. \/ client' = [client EXCEPT !.step = "done"] /\ client.drain
          \/ client' = [client EXCEPT !.step = client.step]
      BY <1>6 DEF ClientDone
    <3>2. [client EXCEPT !.step = client.step] = client
      BY <1>1 DEF ProgramStates
    <3> QED BY <3>1, <3>2
  <2>3. C!Plain /\ C!Local /\ C!Routine
    BY <2>1 DEF C!Plain, C!Local, C!Routine
  <2>4. C!Smooth'
    BY <2>3, Assumptions, ProgramCalls, C!PlainSmooth DEF EchoInv, Known
  <2>5. ClientStands'
    BY <2>1, <2>2 DEF EchoInv, ClientStands, ProgramStates
  <2> QED BY <1>6, <2>3, <2>4, <2>5 DEF ClientDone
<1> QED BY <1>2, <1>3, <1>4, <1>5, <1>6 DEF EchoClient

-------------------------------------------------------------------------------
(***************************************************************************)
(* The server's process.                                                   *)
(***************************************************************************)

\* A server that has written was given something; its log grows no more.
LEMMA ServerPlain ==
  ASSUME Programs, EchoInv, S!Plain
  PROVE  /\ S!Local /\ S!Smooth' /\ slog'.written = slog.written
         /\ slog.written = 0 /\ S!Routine => ~ssock'.shut
         /\ slog.written # 0 => /\ slog'.written = Len(slog'.delivered)
                                /\ sstack \in S!Without => sstack' \in S!Without
<1>1. S!Local
  BY DEF S!Plain, S!Routine, S!Local
<1>2. /\ S!Smooth' /\ slog'.written = slog.written
      /\ S!Routine => ssock'.shut = ssock.shut
      /\ slog.delivered # <<>> =>
           /\ slog'.delivered = slog.delivered
           /\ sstack \in S!Without => sstack' \in S!Without
  BY Assumptions, ProgramCalls, S!PlainSmooth DEF EchoInv, Known
<1>3. slog.written # 0 => slog.written = Len(slog.delivered) /\ slog.delivered # <<>>
  <2>1. Len(<<>>) = 0
    OBVIOUS
  <2> QED BY <2>1 DEF EchoInv, ServerStands
<1> QED BY <1>1, <1>2, <1>3 DEF EchoInv, ServerStands

\* Its library.
LEMMA ServerRoutine ==
  ASSUME Programs, EchoInv, S!Routine, server' = server
  PROVE  S!Local /\ S!Smooth' /\ ServerStands'
<1>1. S!Plain
  BY DEF S!Plain
<1> QED BY <1>1, ServerPlain DEF EchoInv, ServerStands

\* on_data writes back what it was given.
LEMMA ServerEchoing ==
  ASSUME Programs, EchoInv, ServerEchoes
  PROVE  S!Local /\ S!Smooth' /\ ServerStands'
<1> DEFINE n == Len(slog.delivered) - slog.written
<1>1. /\ S!AppMay("write") /\ S!Write(n)
      /\ sstack # <<>> /\ Head(sstack) = "on_data"
      /\ server.step = "start" /\ server' = [server EXCEPT !.step = "sent"]
  BY ServerStream DEF ServerEchoes, On
<1>2. sstack \notin S!Without
  <2>1. ASSUME sstack \in S!Without PROVE Head(sstack) # "on_data"
    <3>1. Head(sstack) \in S!Frames \ {"on_data"}
      BY <1>1, <2>1, HeadTailProperties DEF S!Without
    <3> QED BY <3>1
  <2> QED BY <1>1, <2>1
<1>3. slog.written = 0 /\ ~ssock.shut /\ ssock.room > 0
  BY <1>1, <1>2, EchoFacts DEF EchoInv, ServerStands
<1>4. slog.delivered # <<>> /\ slog.delivered \in Seq(Nat)
  BY <1>2, EchoFacts DEF EchoInv, S!Smooth, End, InOrder
<1>5. n \in Nat /\ n # 0 /\ n = Len(slog.delivered) /\ n <= Message
  <2>1. Len(slog.delivered) # 0
    BY <1>4, EmptySeq
  <2> QED BY <1>3, <2>1, EchoFacts
<1> HIDE DEF n
<1>6. S!Local
  <2>1. n \in 0..(ServerWrites - slog.written)
    BY <1>3, <1>5, ConnectionAssumption, EchoAssumption DEF Programs
  <2>2. S!AppWrites
    BY <1>1, <2>1 DEF S!AppWrites
  <2> QED BY <2>2 DEF S!Local
<1>7. S!Smooth' /\ slog'.written = n /\ slog'.delivered = slog.delivered
  BY <1>1, <1>3, <1>5, Assumptions, ProgramCalls, EchoFacts, S!FirstWrite DEF EchoInv
<1>8. server' \in ProgramStates /\ server'.step = "sent"
  BY <1>1 DEF EchoInv, ServerStands, ProgramStates
<1> QED BY <1>5, <1>6, <1>7, <1>8 DEF ServerStands

\* It ends the stream, at once or from on_drain, with nothing queued.
LEMMA ServerEnding ==
  ASSUME Programs, EchoInv, S!AppEnds, slog.written # 0,
         server' \in ProgramStates, server'.step # "start"
  PROVE  S!Local /\ S!Smooth' /\ ServerStands'
<1>1. S!Plain
  BY DEF S!Plain
<1> QED BY <1>1, ServerPlain DEF ServerStands

\* Every step of the server.
LEMMA ServerTurns ==
  ASSUME Programs, EchoInv,
         EchoServer \/ ((Accept \/ ServerLibrary) /\ UNCHANGED <<client, server>>)
  PROVE  /\ S!Local \/ UNCHANGED svars
         /\ S!Smooth' /\ ServerStands' /\ UNCHANGED <<cvars, client>>
<1>1. server \in ProgramStates /\ (server.step # "start" \/ server.drain => slog.written # 0)
  BY DEF EchoInv, ServerStands
<1>2. CASE (Accept \/ ServerLibrary) /\ UNCHANGED <<client, server>>
  <2>1. S!Routine /\ UNCHANGED cvars
    BY <1>2, ServerStream DEF Accept, ServerLibrary, S!Routine
  <2> QED BY <1>2, <2>1, ServerRoutine
<1>3. CASE ServerEchoes
  BY <1>3, ServerEchoing DEF ServerEchoes
<1>4. CASE ServerEchoed
  <2>1. CASE sstream.out = <<>>
    <3>1. S!AppEnds
      BY <1>4, <2>1, ServerStream DEF ServerEchoed
    <3>2. server.step = "sent" /\ server' = [server EXCEPT !.step = "done"]
      BY <1>4, <2>1 DEF ServerEchoed
    <3>3. server' \in ProgramStates /\ server'.step = "done"
      BY <1>1, <3>2 DEF ProgramStates
    <3> QED BY <1>1, <1>4, <3>1, <3>2, <3>3, ServerEnding DEF ServerEchoed
  <2>2. CASE sstream.out # <<>>
    <3>1. server.step = "sent" /\ server' = [step |-> "done", drain |-> TRUE]
          /\ UNCHANGED svars
      BY <1>4, <2>2 DEF ServerEchoed
    <3>2. server' \in ProgramStates /\ server'.step = "done"
      BY <3>1 DEF ProgramStates
    <3>3. S!Smooth' /\ slog' = slog
      BY <3>1 DEF EchoInv, S!Smooth, S!Alive, svars
    <3> QED BY <1>1, <1>4, <3>1, <3>2, <3>3 DEF ServerEchoed, EchoInv, ServerStands
  <2> QED BY <2>1, <2>2
<1>5. CASE ServerDrained
  <2>1. /\ Server!AppEnds /\ sstack # <<>> /\ Head(sstack) = "on_drain" /\ server.drain
        /\ server' = [server EXCEPT !.step = "sent"]
    BY <1>5 DEF ServerDrained, On
  <2>2. S!AppMay("end")
    BY <2>1, ServerStream
  <2>3. sstream.out = <<>>
    BY <2>1, <2>2, Assumptions, ProgramCalls, EchoFacts, S!DrainedIsSent
  <2>4. S!AppEnds
    BY <2>1, <2>3, ServerStream
  <2>5. slog.written # 0 /\ server' \in ProgramStates /\ server'.step = "sent"
    BY <1>1, <2>1 DEF ProgramStates
  <2> QED BY <1>5, <2>4, <2>5, ServerEnding DEF ServerDrained
<1>6. CASE ServerDone
  <2>1. /\ S!Return /\ sstack # <<>> /\ sstack' = Tail(sstack)
        /\ UNCHANGED <<slog, ssock, cvars, client>>
    BY <1>6, ServerStream DEF ServerDone, S!Return
  <2>2. S!Plain /\ S!Routine
    BY <2>1 DEF S!Plain, S!Routine
  <2>3. S!Local /\ S!Smooth'
        /\ (slog.written # 0 /\ sstack \in S!Without => sstack' \in S!Without)
    BY <2>2, ServerPlain
  <2>4. CASE Head(sstack) = "on_data"
    <3>1. server.step = "done" /\ server' = [server EXCEPT !.step = "start"]
      BY <1>6, <2>1, <2>4 DEF ServerDone, On
    <3>2. sstack' \in S!Without
      BY <2>1, <2>4, EchoFacts, Assumptions, S!OneOnData DEF EchoInv
    <3>3. server' \in ProgramStates /\ slog.written # 0
      BY <1>1, <3>1 DEF ProgramStates
    <3> QED BY <2>1, <2>3, <3>2, <3>3 DEF EchoInv, ServerStands
  <2>5. CASE Head(sstack) # "on_data"
    <3>1. server' = server \/ (server.drain /\ server' = [server EXCEPT !.step = "done"])
      <4>1. \/ server' = [server EXCEPT !.step = "done"] /\ server.drain
            \/ server' = [server EXCEPT !.step = server.step]
        BY <1>6, <2>1, <2>5 DEF ServerDone, On
      <4>2. [server EXCEPT !.step = server.step] = server
        BY <1>1 DEF ProgramStates
      <4> QED BY <4>1, <4>2
    <3>2. CASE server' = server
      BY <2>1, <2>3, <3>2 DEF EchoInv, ServerStands
    <3>3. CASE server.drain /\ server' = [server EXCEPT !.step = "done"]
      <4>1. server' \in ProgramStates /\ server'.step = "done" /\ slog.written # 0
        BY <1>1, <3>3 DEF ProgramStates
      <4> QED BY <2>1, <2>3, <4>1 DEF EchoInv, ServerStands
    <3> QED BY <3>1, <3>2, <3>3
  <2> QED BY <2>4, <2>5
<1> QED BY <1>2, <1>3, <1>4, <1>5, <1>6 DEF EchoServer
-------------------------------------------------------------------------------
(***************************************************************************)
(* The network, and every step.                                            *)
(***************************************************************************)

\* The network has no reason to refuse: a stream is closed only when all that
\* there will be has arrived and was read.
LEMMA NothingRefused ==
  ASSUME Programs, EchoInv, Network
  PROVE  ~csock'.reset /\ ~ssock'.reset
<1>1. /\ csock \in C!Sockets /\ ssock \in C!Sockets
      /\ Linked(csock, clog, ssock) /\ Linked(ssock, slog, csock)
  BY DEF EchoInv, Known, C!Known, S!Known, C!TypeOK, S!TypeOK, C!Sockets, S!Sockets
<1>2. ~csock.reset /\ ~ssock.reset
  BY DEF EchoInv, C!Smooth, S!Smooth
<1>3. ASSUME Refuses(csock, ssock, slog.closed) PROVE FALSE
  <2>1. slog.closed > 0 /\ (InTransit(csock) > 0 \/ ssock.read < ssock.arrived)
    BY <1>3 DEF Refuses
  <2>2. ssock.fin /\ ssock.read = ssock.arrived /\ ssock.arrived \in Nat
    BY <1>1, <2>1, Assumptions, S!SmoothFacts DEF EchoInv, Known, C!Sockets
  <2>3. InTransit(csock) = 0
    BY <1>1, <2>2 DEF Linked
  <2> QED BY <2>1, <2>2, <2>3
<1>4. ASSUME Refuses(ssock, csock, clog.closed) PROVE FALSE
  <2>1. clog.closed > 0 /\ (InTransit(ssock) > 0 \/ csock.read < csock.arrived)
    BY <1>4 DEF Refuses
  <2>2. csock.fin /\ csock.read = csock.arrived /\ csock.arrived \in Nat
    BY <1>1, <2>1, Assumptions, C!SmoothFacts DEF EchoInv, Known, C!Sockets
  <2>3. InTransit(ssock) = 0
    BY <1>1, <2>2 DEF Linked
  <2> QED BY <2>1, <2>2, <2>3
<1>5. \/ Carries(ssock, csock) \/ Carries(csock, ssock)
      \/ CarriesFin(ssock, slog.closed, csock) \/ CarriesFin(csock, clog.closed, ssock)
  BY <1>3, <1>4 DEF Network
<1> QED BY <1>1, <1>2, <1>5 DEF Carries, CarriesFin, C!Sockets

\* So its steps disturb neither program.
LEMMA NetworkTurns ==
  ASSUME Programs, EchoInv, Network, UNCHANGED <<client, server>>
  PROVE  C!Smooth' /\ S!Smooth' /\ ClientStands' /\ ServerStands'
<1>1. /\ C!Outside /\ S!Outside /\ UNCHANGED <<clog, slog>>
      /\ csock'.shut = csock.shut /\ ssock'.shut = ssock.shut
  BY NetworkMoves DEF EchoInv
<1>2. C!Smooth' /\ S!Smooth'
  BY <1>1, Assumptions, NothingRefused, C!OutsideSmooth, S!OutsideSmooth DEF EchoInv
<1>3. sstack' = sstack
  BY DEF Network
<1> QED BY <1>1, <1>2, <1>3 DEF EchoInv, ClientStands, ServerStands

\* Every step keeps the invariant.
LEMMA EchoKeeps ==
  ASSUME Programs, EchoInv, [EchoNext]_evars
  PROVE  EchoInv' /\ Turn
<1> SUFFICES /\ Turn
             /\ C!Smooth' /\ S!Smooth' /\ ClientStands' /\ ServerStands'
  BY ProgramCalls, StepPipes DEF EchoInv
<1>1. UNCHANGED <<cvars, client>> => C!Smooth' /\ ClientStands'
  BY DEF EchoInv, ClientStands, C!Smooth, C!Alive, cvars
<1>2. UNCHANGED <<svars, server>> => S!Smooth' /\ ServerStands'
  BY DEF EchoInv, ServerStands, S!Smooth, S!Alive, svars
<1>3. CASE EchoClient \/ ((Connect \/ ClientLibrary) /\ UNCHANGED <<client, server>>)
  <2>1. C!Local \/ UNCHANGED cvars
    BY <1>3, ClientTurns
  <2>2. C!Smooth' /\ ClientStands' /\ UNCHANGED svars /\ UNCHANGED server
    BY <1>3, ClientTurns
  <2> QED BY <1>2, <2>1, <2>2 DEF Turn, vars
<1>4. CASE EchoServer \/ ((Accept \/ ServerLibrary) /\ UNCHANGED <<client, server>>)
  <2>1. S!Local \/ UNCHANGED svars
    BY <1>4, ServerTurns
  <2>2. S!Smooth' /\ ServerStands' /\ UNCHANGED cvars /\ UNCHANGED client
    BY <1>4, ServerTurns
  <2> QED BY <1>1, <2>1, <2>2 DEF Turn, vars
<1>5. CASE Network /\ UNCHANGED <<client, server>>
  BY <1>5, NetworkTurns DEF Turn
<1>6. CASE UNCHANGED evars
  <2>1. UNCHANGED vars /\ UNCHANGED cvars /\ UNCHANGED svars
        /\ UNCHANGED client /\ UNCHANGED server
    BY <1>6 DEF evars, vars
  <2> QED BY <1>1, <1>2, <2>1 DEF Turn
<1> QED BY <1>3, <1>4, <1>5, <1>6 DEF EchoNext, Machinery

\* The invariant holds at first.
LEMMA EchoBegins == EchoInit => EchoInv
<1> SUFFICES ASSUME EchoInit PROVE EchoInv
  OBVIOUS
<1>1. Init /\ client = [step |-> "start", drain |-> FALSE]
           /\ server = [step |-> "start", drain |-> FALSE]
  BY DEF EchoInit
<1>2. C!Init /\ S!Init
  BY <1>1 DEF Init, Client!Init, Server!Init, C!Init, S!Init, Client!NoTimer,
              Server!NoTimer, C!NoTimer, S!NoTimer
<1>3. Known /\ C!Smooth /\ S!Smooth
  BY <1>1, <1>2, InitPipes, Assumptions, C!InitSmooth, S!InitSmooth
<1>4. client \in ProgramStates /\ server \in ProgramStates
  BY <1>1 DEF ProgramStates
<1>5. clog.written = 0 /\ ~csock.shut /\ slog.written = 0 /\ ~ssock.shut
  BY <1>2 DEF C!Init, S!Init
<1> QED BY <1>1, <1>3, <1>4, <1>5 DEF EchoInv, ClientStands, ServerStands

-------------------------------------------------------------------------------
(***************************************************************************)
(* What it says.                                                           *)
(***************************************************************************)

\* Neither end has used a freed stream or had a send fail.
LEMMA EchoFails == EchoInv => NothingFails
<1>1. EchoInv => /\ C!Defined /\ ~clog.send_failed
                 /\ S!Defined /\ ~slog.send_failed
  BY Assumptions, C!SmoothFacts, S!SmoothFacts DEF EchoInv, Known
<1> QED BY <1>1 DEF NothingFails, Defined, Client!Defined, Server!Defined,
                    C!Defined, S!Defined

\* What the client was given is all that the server wrote, which is all that it
\* was given, which is all that the client wrote: the message.
LEMMA EchoLengths ==
  ASSUME EchoInv, clog.delivered # <<>>
  PROVE  /\ Len(clog.delivered) = Message /\ Len(ssock.wire) = Message
         /\ Len(slog.delivered) = Message /\ Len(csock.wire) = Message
<1>1. /\ End(csock, clog) /\ End(ssock, slog)
      /\ Linked(csock, clog, ssock) /\ Linked(ssock, slog, csock)
  BY EndsKnown DEF EchoInv, Known
<1>2. clog.delivered \in Seq(Nat) /\ Len(clog.delivered) # 0 /\ Len(<<>>) = 0
  BY <1>1, EmptySeq DEF End, InOrder
<1>3. csock.fin /\ Len(clog.delivered) = csock.arrived
  BY DEF EchoInv, C!Smooth
<1>4. Len(ssock.wire) = csock.arrived /\ Len(ssock.wire) = slog.written
  BY <1>1, <1>3 DEF Linked, End
<1>5. slog.written # 0 /\ slog.written = Len(slog.delivered)
  BY <1>2, <1>3, <1>4 DEF EchoInv, ServerStands
<1>6. ssock.fin /\ Len(slog.delivered) = ssock.arrived
  BY <1>2, <1>5 DEF EchoInv, S!Smooth
<1>7. Len(csock.wire) = ssock.arrived /\ Len(csock.wire) = clog.written
  BY <1>1, <1>6 DEF Linked, End
<1>8. clog.written = Message
  BY <1>5, <1>6, <1>7 DEF EchoInv, ClientStands
<1> QED BY <1>3, <1>4, <1>5, <1>6, <1>7, <1>8

LEMMA EchoWhole == EchoInv => EchoMatches
<1> SUFFICES ASSUME EchoInv, clog.delivered # <<>>
             PROVE  Echoed = Client!Bytes(0, Message)
  BY DEF EchoMatches
<1>1. /\ InOrder(csock.wire) /\ InOrder(clog.delivered)
      /\ InOrder(ssock.wire) /\ InOrder(slog.delivered)
  BY EndsKnown DEF EchoInv, Known, End
<1>2. Message \in Nat
  BY EchoAssumption
<1>3. DOMAIN clog.delivered = 1..Message
  BY <1>1, EchoLengths DEF InOrder
<1>4. ASSUME NEW i \in 1..Message
      PROVE  csock.wire[slog.delivered[ssock.wire[clog.delivered[i]]]] = 0 + i
  <2>1. /\ clog.delivered[i] = i /\ ssock.wire[i] = i
        /\ slog.delivered[i] = i /\ csock.wire[i] = i
    BY <1>1, EchoLengths DEF InOrder
  <2> QED BY <1>2, <2>1
<1> QED BY <1>2, <1>3, <1>4 DEF Echoed, Client!Bytes
-------------------------------------------------------------------------------
(***************************************************************************)
(* The theorems.                                                           *)
(***************************************************************************)

\* As long as the connection holds, no send fails in either program and neither
\* library uses a stream it has freed, whatever evn_stream_write takes at once:
\* all_sent and on_drain mean what the programs take them for.
THEOREM EchoNeverFails ==
  ASSUME Programs
  PROVE  EchoSpec => []NothingFails
<1>1. EchoInv /\ [EchoNext]_evars => EchoInv'
  BY EchoKeeps
<1> QED BY <1>1, EchoBegins, EchoFails, PTL DEF EchoSpec

\* What the client's on_data is given is its message, whole and in order, however
\* the two queues, partial sends and the network cut it up on its way there and
\* back.
THEOREM EchoAlwaysMatches ==
  ASSUME Programs
  PROVE  EchoSpec => []EchoMatches
<1>1. EchoInv /\ [EchoNext]_evars => EchoInv'
  BY EchoKeeps
<1> QED BY <1>1, EchoBegins, EchoWhole, PTL DEF EchoSpec

\* What the client program writes reaches the server program in order, and whole
\* before its on_end: when on_connect leaves output queued, the end of the stream
\* is left to on_drain.
THEOREM EchoToServerIsPipe ==
  ASSUME Programs
  PROVE  EchoSpec => ToServerIsPipe
<1>1. EchoInit => EchoInv /\ ToServer!Init
  BY EchoBegins, InitPipes DEF EchoInit
<1>2. EchoInv /\ [EchoNext]_evars => EchoInv' /\ [ToServer!Next]_(ToServer!vars)
  BY EchoKeeps, ProgramCalls, StepPipes, PipeSteps DEF EchoInv
<1> QED BY <1>1, <1>2, PTL DEF EchoSpec, ToServerIsPipe, ToServer!Spec

\* So does what the server program echoes reach the client program.
THEOREM EchoToClientIsPipe ==
  ASSUME Programs
  PROVE  EchoSpec => ToClientIsPipe
<1>1. EchoInit => EchoInv /\ ToClient!Init
  BY EchoBegins, InitPipes DEF EchoInit
<1>2. EchoInv /\ [EchoNext]_evars => EchoInv' /\ [ToClient!Next]_(ToClient!vars)
  BY EchoKeeps, ProgramCalls, StepPipes, PipeSteps DEF EchoInv
<1> QED BY <1>1, <1>2, PTL DEF EchoSpec, ToClientIsPipe, ToClient!Spec
===============================================================================
