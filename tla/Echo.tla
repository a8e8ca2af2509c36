--------------------------------- MODULE Echo ---------------------------------
(***************************************************************************)
(* The repository's two programs, source/echo-client.c and                 *)
(* source/echo-server.c, at the two ends of a connection.  The client      *)
(* sends its message and ends; the server keeps what it receives until the *)
(* FIN (oneshot), sends it back and ends.  Each ends at once if its write  *)
(* took everything, and otherwise from on_drain.                           *)
(*                                                                         *)
(* A callback that a program has not installed yet is one that does        *)
(* nothing: both set on_drain only when something was queued.  Time stands *)
(* still: the server's timeout is module Stream's business.                *)
(***************************************************************************)
EXTENDS Connection

CONSTANT Message  \* how many bytes the client sends

ASSUME EchoAssumption == Message \in Nat \ {0}

VARIABLES
  client,  \* the client program: the step it has reached in its callback, and
  server   \* whether on_drain is set; the same of the server program

\* The calls of the programs, and the callbacks they install.
EchoClientCalls == Only([on_connect |-> {"write", "end"}, on_drain |-> {"end"}])
EchoServerCalls == Only([on_data |-> {"write", "end"}, on_drain |-> {"end"}])

EchoClientInstalled == Callbacks
EchoServerInstalled == Callbacks \ {"on_error"}

On(stack, callback) == stack # <<>> /\ Head(stack) = callback

\* A plausible slip in EchoInit: on_drain is installed from the start.
EchoInitEager ==
  /\ Init
  /\ client = [step |-> "start", drain |-> TRUE]
  /\ server = [step |-> "start", drain |-> TRUE]

EchoInit ==
  /\ Init
  /\ client = [step |-> "start", drain |-> FALSE]
  /\ server = [step |-> "start", drain |-> FALSE]
-------------------------------------------------------------------------------
(***************************************************************************)
(* echo-client.c.                                                          *)
(***************************************************************************)

\* on_connect writes the message ...
ClientSends ==
  /\ On(cstack, "on_connect") /\ client.step = "start"
  /\ Client!AppMay("write") /\ Client!Write(Message)
  /\ client' = [client EXCEPT !.step = "sent"]
  /\ UNCHANGED <<svars, server>>

\* A plausible slip in ClientSent: it does not wait for the queue to drain.
ClientEndsAnyway ==
  /\ On(cstack, "on_connect") /\ client.step = "sent"
  /\ client' = [client EXCEPT !.step = "done"] /\ Client!AppEnds
  /\ UNCHANGED <<svars, server>>

\* ... and ends if all was sent, or else leaves that to on_drain.
ClientSent ==
  /\ On(cstack, "on_connect") /\ client.step = "sent"
  /\ IF cstream.out = <<>>
     THEN client' = [client EXCEPT !.step = "done"] /\ Client!AppEnds
     ELSE client' = [step |-> "done", drain |-> TRUE] /\ UNCHANGED cvars
  /\ UNCHANGED <<svars, server>>

\* on_drain ends the stream.
ClientDrained ==
  /\ On(cstack, "on_drain") /\ client.drain /\ client.step # "sent"
  /\ Client!AppEnds
  /\ client' = [client EXCEPT !.step = "sent"]
  /\ UNCHANGED <<svars, server>>

\* A callback returns once it has run through; the others do nothing.
ClientDone ==
  /\ CASE On(cstack, "on_connect") -> client.step = "done"
       [] On(cstack, "on_drain")   -> client.drain => client.step = "sent"
       [] OTHER                    -> TRUE
  /\ Client!Return
  /\ client' = [client EXCEPT !.step =
                  IF On(cstack, "on_drain") /\ client.drain THEN "done" ELSE @]
  /\ UNCHANGED <<svars, server>>
-------------------------------------------------------------------------------
(***************************************************************************)
(* echo-server.c.                                                          *)
(***************************************************************************)

\* on_data writes back what it was given ...
ServerEchoes ==
  /\ On(sstack, "on_data") /\ server.step = "start"
  /\ Server!AppMay("write") /\ Server!Write(Len(slog.delivered) - slog.written)
  /\ server' = [server EXCEPT !.step = "sent"]
  /\ UNCHANGED <<cvars, client>>

\* ... and ends if all was sent, or else leaves that to on_drain.
ServerEchoed ==
  /\ On(sstack, "on_data") /\ server.step = "sent"
  /\ IF sstream.out = <<>>
     THEN server' = [server EXCEPT !.step = "done"] /\ Server!AppEnds
     ELSE server' = [step |-> "done", drain |-> TRUE] /\ UNCHANGED svars
  /\ UNCHANGED <<cvars, client>>

ServerDrained ==
  /\ On(sstack, "on_drain") /\ server.drain /\ server.step # "sent"
  /\ Server!AppEnds
  /\ server' = [server EXCEPT !.step = "sent"]
  /\ UNCHANGED <<cvars, client>>

ServerDone ==
  /\ CASE On(sstack, "on_data")  -> server.step = "done"
       [] On(sstack, "on_drain") -> server.drain => server.step = "sent"
       [] OTHER                  -> TRUE
  /\ Server!Return
  /\ server' = [server EXCEPT !.step =
                  CASE On(sstack, "on_data")  -> "start"
                    [] On(sstack, "on_drain") /\ server.drain -> "done"
                    [] OTHER                  -> @]
  /\ UNCHANGED <<cvars, client>>
-------------------------------------------------------------------------------
EchoClient == ClientSends \/ ClientSent \/ ClientDrained \/ ClientDone

EchoServer == ServerEchoes \/ ServerEchoed \/ ServerDrained \/ ServerDone

Machinery == Connect \/ Accept \/ ClientLibrary \/ ServerLibrary \/ Network

EchoNext ==
  /\ Defined
  /\ \/ EchoClient \/ EchoServer
     \/ Machinery /\ UNCHANGED <<client, server>>

evars == <<vars, client, server>>

EchoSpec ==
  /\ EchoInit /\ [][EchoNext]_evars
  /\ WF_evars(Defined /\ EchoClient)
  /\ WF_evars(Defined /\ EchoServer)
  /\ WF_evars(Defined /\ ClientLibrary /\ UNCHANGED <<client, server>>)
  /\ WF_evars(Defined /\ ServerLibrary /\ UNCHANGED <<client, server>>)
  /\ WF_evars(Defined /\ Network /\ UNCHANGED <<client, server>>)
  /\ WF_evars(Defined /\ Accept /\ UNCHANGED <<client, server>>)
-------------------------------------------------------------------------------
(***************************************************************************)
(* Properties.                                                             *)
(***************************************************************************)

\* What the client's on_data gets, as bytes of its message: through the
\* server's wire, what the server was given, and the client's wire.
Echoed ==
  [i \in DOMAIN clog.delivered |->
     csock.wire[slog.delivered[ssock.wire[clog.delivered[i]]]]]

\* "received data matches what was sent": the client gets its message, whole
\* and in one piece, or nothing.
EchoMatches ==
  clog.delivered # <<>> => Echoed = Client!Bytes(0, Message)

\* As long as the connection holds, no send fails, because both programs end a
\* stream only when nothing is queued (all_sent and on_drain mean what they take
\* them for), and the library is never made to use a stream it has freed.
NothingFails ==
  Defined /\ ~clog.send_failed /\ ~slog.send_failed

\* A message that was connected for comes back, and both streams close.
EchoCompletes ==
  Client!Alive ~>
    /\ Len(clog.delivered) = Message
    /\ clog.closed = 1 /\ slog.closed = 1
===============================================================================
