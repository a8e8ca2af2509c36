----------------------------- MODULE ServerProofs -----------------------------
(***************************************************************************)
(* Safety of a server for every set of connections, every failure and any  *)
(* length of the queue.                                                    *)
(***************************************************************************)
EXTENDS Server, SequenceTheorems, TLAPS

Frames == Callbacks \cup Points

\* What echo-server.c does: no call of the library from the server's callbacks
\* (on a stream that is handed over it only sets fields and the timeout), and
\* no evn_server_close before evn_server_listen.
Disciplined ==
  /\ \A c \in Callbacks : AppCalls[c] = {}
  /\ "close" \notin AppCalls["created"]

-------------------------------------------------------------------------------
(***************************************************************************)
(* The inductive invariant.                                                *)
(***************************************************************************)

\* What the stack can be: an accept loop, with or without a stream that is
\* being handed over, an error that is being reported, or a server on its way
\* to being freed.
Handing == {<<"on_connection", "accepted", "accept">>, <<"accepted", "accept">>}
Accepting == Handing \cup {<<"accept">>}
Reporting == {<<"on_error", "failed">>, <<"failed">>}
Closing == {<<"on_close", "free">>, <<"free">>}

\* A handler runs on a server that is alive, and that only Closing has closed.
Where ==
  \/ stack = <<>>
  \/ stack \in Accepting \cup Reporting /\ Alive /\ log.closed = 0 /\ server.fd # 0
  \/ stack \in Closing /\ Alive /\ log.closed = 1

\* A server is closed at most once, unwatched from then on, and soon freed.
Lifetime ==
  /\ server.heap = "none" => /\ stack = <<>> /\ server.fd = 0 /\ log.closed = 0
                             /\ log.failed = "none" /\ log.ub = "none"
                             /\ ~server.active
  /\ Freed => stack = <<>> /\ log.closed = 1
  /\ log.closed > 0 => /\ log.closed = 1
                       /\ ~server.active /\ ~server.pending
                       /\ Freed \/ stack \in Closing

\* The watcher knows the descriptor of every socket that is open.
Descriptor ==
  /\ os.stdin = "open"
  /\ server.fd = 0 => os.listener = "none"
  /\ os.listener \in {"open", "listening"} => server.fd = Fd
  /\ log.closed > 0 => os.listener \in {"none", "closed"}

\* A connection waits only at a socket that listens.
Waiting == \A c \in Clients : streams[c] = "queued" => os.listener = "listening"

\* The stream accepted last is the one that is being handed over.
HandedOver ==
  /\ \A c \in Clients : streams[c] = "handed" => stack \in Handing /\ c = Newest
  /\ stack \in Handing => log.accepted # <<>> /\ streams[Newest] = "handed"

\* A failure is being reported, or the server has been closed for it.
Ending == log.failed # "none" => log.closed = 1 \/ stack \in Reporting

Inv ==
  /\ TypeOK /\ Where /\ Lifetime /\ Descriptor /\ Waiting /\ HandedOver
  /\ Ending /\ UsedWhileAlive
-------------------------------------------------------------------------------
(***************************************************************************)
(* Lemmas about the stack.                                                 *)
(***************************************************************************)

\* The first frame of a stack tells the whole of it.
LEMMA HeadTells ==
  ASSUME Where
  PROVE  /\ stack # <<>> /\ Head(stack) = "accept" => stack = <<"accept">>
         /\ stack # <<>> /\ Head(stack) = "accepted" => stack = <<"accepted", "accept">>
         /\ stack # <<>> /\ Head(stack) = "failed" => stack = <<"failed">>
         /\ stack # <<>> /\ Head(stack) = "free" => stack = <<"free">>
         /\ stack # <<>> /\ Head(stack) \in Callbacks =>
              stack \in {<<"on_connection", "accepted", "accept">>,
                         <<"on_error", "failed">>, <<"on_close", "free">>}
  BY DEF Where, Handing, Accepting, Reporting, Closing, Callbacks

\* Tuples joined.
LEMMA Joined ==
  ASSUME NEW a \in Frames, NEW b \in Frames, NEW c \in Frames
  PROVE  /\ <<a>> \o <<b>> = <<a, b>>
         /\ <<a, b>> \o <<c>> = <<a, b, c>>
         /\ \A s \in Seq(Frames) : s \o <<>> = s /\ <<>> \o s = s
<1>1. /\ <<a>> \in Seq(Frames) /\ <<b>> \in Seq(Frames) /\ <<c>> \in Seq(Frames)
      /\ <<a, b>> \in Seq(Frames) /\ <<a, b, c>> \in Seq(Frames)
  OBVIOUS
<1>2. <<a>> \o <<b>> = <<a, b>>
  <2> DEFINE s == <<a>> \o <<b>>
  <2>1. s \in Seq(Frames) /\ Len(s) = 2 /\ s[1] = a /\ s[2] = b
    BY <1>1, ConcatProperties
  <2> HIDE DEF s
  <2>2. s = <<a, b>>
    BY <1>1, <2>1, SeqEqual
  <2> QED BY <2>2 DEF s
<1>3. <<a, b>> \o <<c>> = <<a, b, c>>
  <2> DEFINE s == <<a, b>> \o <<c>>
  <2>1. s \in Seq(Frames) /\ Len(s) = 3 /\ s[1] = a /\ s[2] = b /\ s[3] = c
    BY <1>1, ConcatProperties
  <2> HIDE DEF s
  <2>2. s = <<a, b, c>>
    BY <1>1, <2>1, SeqEqual
  <2> QED BY <2>2 DEF s
<1> QED BY <1>2, <1>3, ConcatEmptySeq

\* Calling back, and returning from a callback or a point.
LEMMA Steps ==
  /\ Call("on_connection") \o <<"accepted">> \o <<"accept">> \in Handing
  /\ Call("on_error") \o <<"failed">> \o <<>> \in Reporting
  /\ Call("on_close") \o <<"free">> \o <<>> \in Closing
  /\ Tail(<<"on_connection", "accepted", "accept">>) = <<"accepted", "accept">>
  /\ Tail(<<"accepted", "accept">>) = <<"accept">>
  /\ Tail(<<"on_error", "failed">>) = <<"failed">>
  /\ Tail(<<"on_close", "free">>) = <<"free">>
  /\ Tail(<<"accept">>) = <<>> /\ Tail(<<"failed">>) = <<>> /\ Tail(<<"free">>) = <<>>
<1> USE DEF Frames, Callbacks, Points
<1>1. /\ <<"on_connection">> \o <<"accepted">> \o <<"accept">>
           = <<"on_connection", "accepted", "accept">>
      /\ <<>> \o <<"accepted">> \o <<"accept">> = <<"accepted", "accept">>
  <2>1. <<>> \o <<"accepted">> = <<"accepted">>
    BY ConcatEmptySeq
  <2> QED BY <2>1, Joined
<1>2. /\ <<"on_error">> \o <<"failed">> \o <<>> = <<"on_error", "failed">>
      /\ <<>> \o <<"failed">> \o <<>> = <<"failed">>
  <2>1. <<"on_error", "failed">> \in Seq(Frames) /\ <<"failed">> \in Seq(Frames)
    OBVIOUS
  <2> QED BY <2>1, Joined
<1>3. /\ <<"on_close">> \o <<"free">> \o <<>> = <<"on_close", "free">>
      /\ <<>> \o <<"free">> \o <<>> = <<"free">>
  <2>1. <<"on_close", "free">> \in Seq(Frames) /\ <<"free">> \in Seq(Frames)
    OBVIOUS
  <2> QED BY <2>1, Joined
<1>4. Call("on_connection") \o <<"accepted">> \o <<"accept">> \in Handing
  BY <1>1 DEF Call, Handing
<1>5. Call("on_error") \o <<"failed">> \o <<>> \in Reporting
  BY <1>2 DEF Call, Reporting
<1>6. Call("on_close") \o <<"free">> \o <<>> \in Closing
  BY <1>3 DEF Call, Closing
<1>7. Tail(<<"on_connection", "accepted", "accept">>) = <<"accepted", "accept">>
  OBVIOUS
<1>8. /\ Tail(<<"accepted", "accept">>) = <<"accept">>
      /\ Tail(<<"on_error", "failed">>) = <<"failed">>
      /\ Tail(<<"on_close", "free">>) = <<"free">>
  OBVIOUS
<1>9. Tail(<<"accept">>) = <<>> /\ Tail(<<"failed">>) = <<>> /\ Tail(<<"free">>) = <<>>
  OBVIOUS
<1> QED BY <1>4, <1>5, <1>6, <1>7, <1>8, <1>9

\* The stacks differ.
LEMMA Distinct ==
  /\ <<>> \notin Handing \cup Accepting \cup Reporting \cup Closing
  /\ <<"accept">> \notin Handing \cup Reporting \cup Closing
  /\ \A s \in Accepting : s \notin Reporting \cup Closing
  /\ \A s \in Reporting : s \notin Accepting \cup Closing
  /\ \A s \in Closing : s \notin Accepting \cup Reporting
  /\ Handing \subseteq Accepting
  BY DEF Handing, Accepting, Reporting, Closing

\* Every stack is a sequence of frames.
LEMMA StacksType ==
  Accepting \cup Reporting \cup Closing \cup {<<>>} \subseteq Seq(Frames)
  BY DEF Handing, Accepting, Reporting, Closing, Frames, Callbacks, Points

\* The application calls only from the loop, and closes only a server that has
\* its descriptor.
LEMMA CallsFromLoop ==
  ASSUME Disciplined, Where, NEW call \in Calls, Context \in Contexts,
         call \in AppCalls[Context]
  PROVE  /\ stack = <<>>
         /\ call = "close" => server.fd # 0
<1>1. stack = <<>>
  <2>1. SUFFICES ASSUME stack # <<>> PROVE FALSE
    OBVIOUS
  <2>2. Context = Head(stack)
    BY <2>1 DEF Context
  <2>3. Head(stack) \notin {"created", "loop"}
    BY <2>1 DEF Where, Handing, Accepting, Reporting, Closing
  <2>4. Context \in Callbacks
    BY <2>2, <2>3 DEF Contexts
  <2> QED BY <2>4 DEF Disciplined
<1> QED BY <1>1 DEF Context, Disciplined
-------------------------------------------------------------------------------
(***************************************************************************)
(* Every action keeps the invariant.                                       *)
(***************************************************************************)

LEMMA InitInv ==
  ASSUME Init
  PROVE  Inv
<1>1. TypeOK
  BY DEF Init, TypeOK, Servers, Kernels, Fates, Logs, Fd
<1> QED BY <1>1, Distinct DEF Init, Inv, Where, Lifetime, Descriptor, Waiting,
           HandedOver, Ending, UsedWhileAlive, Freed, Points

LEMMA CreateInv ==
  ASSUME Inv, Create
  PROVE  Inv'
<1>1. TypeOK'
  BY DEF Create, Inv, TypeOK, Servers
<1> QED BY <1>1, Distinct DEF Create, Inv, TypeOK, Servers, Where, Lifetime, Descriptor,
           Waiting, HandedOver, Ending, UsedWhileAlive, Freed, Alive, Newest

\* Closing a server from the loop, or when an error has been reported.
LEMMA CloseInv ==
  ASSUME Inv, stack \in {<<>>, <<"failed">>}, Alive, log.closed = 0, server.fd # 0,
         Close(<<>>)
  PROVE  Inv'
<1> USE DEF Inv
<1>1. stack' \in Closing /\ stack' \in Seq(Frames)
  BY Steps, StacksType DEF Close
<1>2. /\ server' = [server EXCEPT !.active = FALSE, !.pending = FALSE]
      /\ log' = [log EXCEPT !.closed = log.closed + 1]
      /\ server'.heap = "alive" /\ server'.fd = server.fd
      /\ ~server'.active /\ ~server'.pending
      /\ log'.closed = 1 /\ log'.ub = log.ub /\ log'.accepted = log.accepted
  BY DEF Close, TypeOK, Servers, Logs, Alive
<1>3. /\ streams' \in [Clients -> Fates]
      /\ \A c \in Clients : streams'[c] # "queued"
      /\ \A c \in Clients : streams'[c] = "handed" => streams[c] = "handed"
  BY DEF Close, CloseDescriptor, TypeOK, Fates, Waiting, Descriptor
<1>4. /\ os' \in Kernels
      /\ os'.stdin = "open" /\ os'.listener \in {"none", "closed"}
  <2>1. CASE server.fd = Fd
    <3>1. os' = [os EXCEPT !.listener = "closed", !.backlog = <<>>]
      BY <2>1 DEF Close, CloseDescriptor, Fd
    <3>2. <<>> \in Seq(Clients)
      OBVIOUS
    <3>3. os' \in Kernels
      BY <3>1, <3>2 DEF TypeOK, Kernels
    <3> QED BY <3>1, <3>3 DEF TypeOK, Kernels, Descriptor
  <2>2. CASE server.fd # Fd
    <3>1. os' = os
      BY <2>2 DEF Close, CloseDescriptor, Fd
    <3> QED BY <2>2, <3>1 DEF TypeOK, Kernels, Descriptor
  <2> QED BY <2>1, <2>2
<1>5. TypeOK'
  <2>1. server' \in Servers
    BY <1>2 DEF TypeOK, Servers
  <2>2. log' \in Logs
    BY <1>2, SMTT(30) DEF TypeOK, Logs
  <2> QED BY <1>1, <1>2, <1>3, <1>4, <2>1, <2>2 DEF TypeOK, Frames
<1>6. stack \notin Handing
  BY Distinct DEF Reporting
<1>7. HandedOver'
  BY <1>1, <1>3, <1>6, Distinct DEF HandedOver
<1> QED BY <1>1, <1>2, <1>3, <1>4, <1>5, <1>7, Distinct DEF Where, Lifetime, Descriptor,
           Waiting, Ending, UsedWhileAlive, Alive, Freed

LEMMA FreeInv ==
  ASSUME Inv, Free
  PROVE  Inv'
<1> USE DEF Inv
<1>1. stack = <<"free">> /\ ~Freed
  BY HeadTells, Distinct DEF Free, At, Lifetime, Freed
<1>2. /\ server' = [server EXCEPT !.heap = "freed", !.address = "null"]
      /\ stack' = <<>>
      /\ UNCHANGED <<os, streams, log>>
  BY <1>1, Steps DEF Free, At
<1>3. Alive /\ log.closed = 1
  BY <1>1, Distinct DEF Where, Closing, Accepting, Reporting
<1>4. TypeOK'
  BY <1>2, StacksType DEF TypeOK, Servers, Frames
<1>5. stack \notin Handing /\ stack \notin Reporting /\ stack' \notin Handing
  BY <1>1, <1>2, Distinct DEF Closing
<1>6. HandedOver'
  BY <1>2, <1>5 DEF HandedOver
<1> QED BY <1>2, <1>3, <1>4, <1>5, <1>6 DEF TypeOK, Servers, Where, Lifetime, Descriptor,
           Waiting, Ending, UsedWhileAlive, Alive, Freed

LEMMA FailedInv ==
  ASSUME Inv, Failed
  PROVE  Inv'
<1> USE DEF Inv
<1>1. stack = <<"failed">>
  BY HeadTells DEF Failed, At
<1>2. Alive /\ log.closed = 0 /\ server.fd # 0
  BY <1>1, Distinct DEF Where, Reporting
<1>3. Close(<<>>)
  BY <1>1, <1>2, Steps DEF Failed, At, Alive, Freed
<1> QED BY <1>1, <1>2, <1>3, CloseInv

LEMMA OnReadableInv ==
  ASSUME Inv, OnReadable
  PROVE  Inv'
<1> USE DEF Inv
<1>1. /\ server' = [server EXCEPT !.pending = FALSE]
      /\ stack = <<>> /\ stack' = <<"accept">>
      /\ server.active /\ UNCHANGED <<os, streams, log>>
  BY DEF OnReadable, InLoop, TypeOK
<1>2. Alive /\ log.closed = 0 /\ server.fd = Fd
  BY <1>1 DEF TypeOK, Servers, Logs, Lifetime, Alive, Freed
<1>3. TypeOK' /\ server'.fd # 0 /\ server'.heap = "alive"
  <2>1. server' \in Servers /\ ~server'.pending /\ server'.active = server.active
        /\ server'.fd = server.fd /\ server'.heap = server.heap
    BY <1>1 DEF TypeOK, Servers
  <2>2. stack' \in Seq(Frames)
    BY <1>1, StacksType DEF Accepting
  <2> QED BY <1>1, <1>2, <2>1, <2>2 DEF TypeOK, Frames, Fd, Alive
<1>4. stack' \in Accepting /\ stack' \notin Handing /\ stack' \notin Reporting
  BY <1>1, Distinct DEF Accepting
<1>5. stack \notin Handing /\ stack \notin Reporting
  BY <1>1, Distinct
<1>6. HandedOver'
  BY <1>1, <1>4, <1>5 DEF HandedOver
<1> QED BY <1>1, <1>2, <1>3, <1>4, <1>5, <1>6 DEF TypeOK, Servers, Where, Lifetime,
           Descriptor, Waiting, Ending, UsedWhileAlive, Alive, Freed

\* An error is reported on a server that is alive, from within log and stack.
LEMMA ReportInv ==
  ASSUME Inv, Alive, log.closed = 0, server.fd # 0, stack \notin Handing,
         NEW failure \in Failing, Fails(failure, <<>>)
  PROVE  /\ log' \in Logs
         /\ log'.closed = 0 /\ log'.ub = log.ub /\ log'.accepted = log.accepted
         /\ log'.failed = failure
         /\ stack' \in Reporting /\ stack' \in Seq(Frames)
  BY Steps, StacksType DEF Fails, Inv, TypeOK, Logs

LEMMA AcceptInv ==
  ASSUME Inv, Accept
  PROVE  Inv'
<1> USE DEF Inv
<1>1. stack = <<"accept">>
  BY HeadTells DEF Accept, At
<1>2. /\ Alive /\ ~Freed /\ log.closed = 0 /\ server.fd # 0
      /\ stack \notin Handing /\ stack \notin Reporting
      /\ \A c \in Clients : streams[c] # "handed"
      /\ log.failed = "none"
  BY <1>1, Distinct DEF Where, Freed, Alive, HandedOver, Ending
<1>3. CASE os.backlog # <<>> /\ AcceptOne
  <2> DEFINE c == Head(os.backlog)
  <2>1. /\ os' = [os EXCEPT !.backlog = Tail(os.backlog)]
        /\ streams' = [streams EXCEPT ![c] = "handed"]
        /\ log' = [log EXCEPT !.accepted = Append(log.accepted, c)]
        /\ stack' = Call("on_connection") \o <<"accepted">> \o <<"accept">>
        /\ server' = server
    BY <1>1, <1>3 DEF AcceptOne
  <2>2. c \in Clients /\ Tail(os.backlog) \in Seq(Clients)
    BY <1>3 DEF TypeOK, Kernels
  <2> HIDE DEF c
  <2>3. /\ os' \in Kernels /\ os'.stdin = os.stdin /\ os'.listener = os.listener
    BY <2>1, <2>2 DEF TypeOK, Kernels
  <2>4. /\ log' \in Logs
        /\ log'.accepted # <<>> /\ Newest' = c
        /\ log'.closed = log.closed /\ log'.ub = log.ub /\ log'.failed = log.failed
    <3>1. /\ log.accepted \in Seq(Clients)
          /\ Append(log.accepted, c) \in Seq(Clients)
          /\ Len(Append(log.accepted, c)) = Len(log.accepted) + 1
          /\ Append(log.accepted, c)[Len(log.accepted) + 1] = c
      BY <2>2 DEF TypeOK, Logs
    <3>2. /\ log' \in Logs /\ log'.accepted = Append(log.accepted, c)
          /\ log'.closed = log.closed /\ log'.ub = log.ub /\ log'.failed = log.failed
      BY <2>1, <3>1 DEF TypeOK, Logs
    <3> QED BY <3>1, <3>2 DEF Newest
  <2>5. stack' \in Handing /\ stack' \in Accepting /\ stack' \in Seq(Frames)
    BY <2>1, Steps, Distinct, StacksType
  <2>6. /\ streams' \in [Clients -> Fates]
        /\ streams'[c] = "handed"
        /\ \A d \in Clients : d # c => streams'[d] = streams[d]
    BY <2>1, <2>2 DEF TypeOK, Fates
  <2>7. TypeOK'
    BY <2>1, <2>3, <2>4, <2>5, <2>6 DEF TypeOK, Frames
  <2>8. HandedOver'
    BY <1>2, <2>4, <2>5, <2>6 DEF HandedOver
  <2>9. Waiting'
    BY <2>3, <2>6 DEF Waiting
  <2> QED BY <1>2, <2>1, <2>3, <2>4, <2>5, <2>7, <2>8, <2>9 DEF Where, Lifetime,
             Descriptor, Ending, UsedWhileAlive, Alive, Freed
<1>4. CASE /\ os.backlog = <<>> /\ stack' = Tail(stack)
           /\ UNCHANGED <<server, os, streams, log>>
  <2>1. stack' = <<>>
    BY <1>1, <1>4, Steps
  <2>2. stack' \in Seq(Frames) /\ stack' \notin Handing
    BY <2>1, StacksType, Distinct
  <2>3. TypeOK'
    BY <1>4, <2>2 DEF TypeOK, Frames
  <2>4. HandedOver'
    BY <1>2, <1>4, <2>2 DEF HandedOver
  <2> QED BY <1>2, <1>4, <2>1, <2>3, <2>4 DEF Where, Lifetime, Descriptor,
             Waiting, Ending, UsedWhileAlive, Alive, Freed
<1>5. CASE /\ Fails("accept", Tail(stack))
           /\ UNCHANGED <<server, os, streams>>
  <2>1. Fails("accept", <<>>)
    BY <1>1, <1>5, Steps
  <2>2. /\ log' \in Logs
        /\ log'.closed = 0 /\ log'.ub = log.ub
        /\ stack' \in Reporting /\ stack' \in Seq(Frames)
    BY <1>2, <2>1, ReportInv DEF Failing
  <2>3. TypeOK'
    BY <1>5, <2>2 DEF TypeOK, Frames
  <2>4. HandedOver'
    BY <1>2, <1>5, <2>2, Distinct DEF HandedOver
  <2> QED BY <1>2, <1>5, <2>2, <2>3, <2>4, Distinct DEF Where, Lifetime,
             Descriptor, Waiting, Ending, UsedWhileAlive, Alive, Freed
<1> QED BY <1>2, <1>3, <1>4, <1>5 DEF Accept, AcceptTurn, At

LEMMA AcceptedInv ==
  ASSUME Inv, Accepted
  PROVE  Inv'
<1> USE DEF Inv
<1>1. stack = <<"accepted", "accept">>
  BY HeadTells DEF Accepted, At
<1>2. /\ stack \in Handing /\ stack \notin Reporting
      /\ Alive /\ ~Freed /\ log.closed = 0 /\ server.fd # 0
      /\ log.accepted # <<>> /\ streams[Newest] = "handed"
      /\ log.failed = "none"
  BY <1>1, Distinct DEF Handing, Where, Freed, Alive, HandedOver, Ending
<1>3. /\ streams' = [streams EXCEPT ![Newest] = "watched"]
      /\ stack' = <<"accept">>
      /\ UNCHANGED <<server, os, log>>
  BY <1>1, <1>2, Steps DEF Accepted, At
<1>4. /\ stack' \in Accepting /\ stack' \notin Handing /\ stack' \in Seq(Frames)
  BY <1>3, Distinct, StacksType DEF Accepting
<1>5. /\ streams' \in [Clients -> Fates]
      /\ \A c \in Clients : streams'[c] \in {streams[c], "watched"}
      /\ \A c \in Clients : streams'[c] # "handed"
  BY <1>3 DEF TypeOK, Fates, HandedOver
<1>6. TypeOK'
  BY <1>3, <1>4, <1>5 DEF TypeOK, Frames
<1>7. HandedOver' /\ Waiting'
  BY <1>3, <1>4, <1>5 DEF HandedOver, Waiting
<1> QED BY <1>2, <1>3, <1>4, <1>6, <1>7 DEF Where, Lifetime, Descriptor, Ending,
           UsedWhileAlive, Alive, Freed

\* evn_server_listen, with or without a failure.
LEMMA AppListensInv ==
  ASSUME Inv, Disciplined, AppListens
  PROVE  Inv'
<1> USE DEF Inv
<1>1. PICK family \in Families, failure \in (Failures \ {"accept"}) \cup {"none"} :
        Listen(family, failure)
  BY DEF AppListens
<1>2. Alive /\ log.closed = 0 /\ server.fd = 0 /\ os.listener = "none" /\ Defined
  BY DEF AppListens, AppMay, Descriptor
<1>3. stack = <<>>
  BY CallsFromLoop DEF AppListens, AppMay, Calls
<1>4. /\ stack \notin Handing /\ stack \notin Reporting
      /\ \A c \in Clients : streams[c] # "handed" /\ streams[c] # "queued"
  BY <1>2, <1>3, Distinct DEF HandedOver, Waiting
<1>5. failure \in Failing \cup {"none"} /\ failure # "accept"
  BY ServerAssumption DEF Failing
<1>6. /\ server' = InitWatcher(failure)
      /\ os' = [os EXCEPT !.listener = Listener(failure)]
      /\ streams' = streams
  BY <1>1 DEF Listen
<1>7. /\ server' \in Servers
      /\ server'.heap = "alive" /\ server'.fd # 0 /\ ~server'.pending
      /\ server'.active => server'.fd = Fd /\ failure = "none"
      /\ failure \notin {"socket", "fcntl"} => server'.fd = Fd
  <2>1. ~server.pending
    BY <1>2 DEF TypeOK, Fd
  <2>2. PICK fd \in {-1, Fd}, address \in {"unset", "set"}, active \in BOOLEAN :
          /\ server' = [server EXCEPT !.fd = fd, !.address = address, !.active = active]
          /\ failure \notin {"socket", "fcntl"} => fd = Fd
          /\ active <=> failure = "none"
    BY <1>5, <1>6 DEF InitWatcher, Opened
  <2>3. /\ server' \in Servers /\ server'.heap = server.heap /\ server'.fd = fd
        /\ server'.pending = server.pending /\ server'.active = active
    BY <2>2 DEF TypeOK, Servers
  <2> QED BY <1>2, <2>1, <2>2, <2>3 DEF Fd, Alive
<1>8. Listener(failure) \in {"none", "open", "listening", "closed"}
      /\ (failure = "none" <=> Listener(failure) = "listening")
      /\ (Listener(failure) = "open" => failure \notin {"socket", "fcntl"})
  BY <1>5 DEF Listener, Failing
<1>9. /\ os' \in Kernels /\ os'.stdin = "open"
      /\ os'.listener = Listener(failure)
  BY <1>6, <1>8 DEF TypeOK, Kernels, Descriptor
<1>10. /\ log' \in Logs /\ log'.closed = 0 /\ log'.ub \notin Points
       /\ stack' \in Seq(Frames)
       /\ (stack' = <<>> /\ log'.failed = "none") \/ stack' \in Reporting
  <2>1. CASE UNCHANGED <<stack, log>>
    BY <1>2, <1>3, <2>1, StacksType, Distinct DEF TypeOK, Ending, UsedWhileAlive
  <2>2. CASE log' = [log EXCEPT !.ub = "sun_path"] /\ UNCHANGED stack
    BY <1>2, <1>3, <2>2, StacksType, Distinct DEF TypeOK, Logs, Ending, Points
  <2>3. CASE failure # "none" /\ Fails(failure, stack)
    <3>1. Fails(failure, <<>>)
      BY <1>3, <2>3
    <3>2. log' = [log EXCEPT !.failed = failure]
      BY <3>1 DEF Fails
    <3>3. log' \in Logs /\ log'.closed = 0 /\ log'.ub = log.ub
      BY <1>2, <1>5, <2>3, <3>2 DEF TypeOK, Logs
    <3>4. stack' \in Reporting
      BY <3>1, Steps DEF Fails
    <3> QED BY <3>3, <3>4, StacksType DEF UsedWhileAlive
  <2> QED BY <1>1, <2>1, <2>2, <2>3 DEF Listen
<1>11. stack' \notin Handing
  BY <1>10, Distinct
<1>12. TypeOK'
  BY <1>6, <1>7, <1>8, <1>9, <1>10 DEF TypeOK, Frames
<1> QED BY <1>4, <1>6, <1>7, <1>8, <1>9, <1>10, <1>11, <1>12, Distinct DEF Where,
           Lifetime, Descriptor, Waiting, HandedOver, Ending, UsedWhileAlive, Alive, Freed

LEMMA AppClosesInv ==
  ASSUME Inv, Disciplined, AppCloses
  PROVE  Inv'
<1>1. Alive /\ log.closed = 0 /\ Context \in Contexts /\ "close" \in AppCalls[Context]
  BY DEF AppCloses, AppMay
<1>2. stack = <<>> /\ server.fd # 0
  BY <1>1, CallsFromLoop DEF Inv, Calls
<1>3. Close(<<>>)
  BY <1>2 DEF AppCloses
<1> QED BY <1>1, <1>2, <1>3, CloseInv

LEMMA AppDestroysStreamInv ==
  ASSUME Inv, Disciplined, AppDestroysStream
  PROVE  Inv'
<1> USE DEF Inv
<1>1. stack = <<>>
  BY CallsFromLoop DEF AppDestroysStream, Calls
<1>2. PICK c \in Clients : /\ streams[c] \in {"handed", "watched"}
                           /\ streams' = [streams EXCEPT ![c] = "destroyed"]
  BY DEF AppDestroysStream
<1>3. UNCHANGED <<server, os, stack, log>>
  BY DEF AppDestroysStream
<1>4. /\ streams' \in [Clients -> Fates]
      /\ \A d \in Clients : streams'[d] \in {streams[d], "destroyed"}
  BY <1>2 DEF TypeOK, Fates
<1>5. TypeOK'
  BY <1>3, <1>4 DEF TypeOK
<1>6. stack \notin Handing
  BY <1>1, Distinct
<1>7. HandedOver' /\ Waiting'
  BY <1>3, <1>4, <1>6 DEF HandedOver, Waiting
<1> QED BY <1>3, <1>5, <1>7 DEF Where, Lifetime, Descriptor, Ending, UsedWhileAlive,
           Alive, Freed

LEMMA ReturnInv ==
  ASSUME Inv, Return
  PROVE  Inv'
<1> USE DEF Inv
<1>1. stack \in {<<"on_connection", "accepted", "accept">>, <<"on_error", "failed">>,
                 <<"on_close", "free">>}
  BY HeadTells DEF Return
<1>2. stack' = Tail(stack) /\ UNCHANGED <<server, os, streams, log>>
  BY DEF Return
<1>3. \/ stack = <<"on_connection", "accepted", "accept">> /\ stack' = <<"accepted", "accept">>
      \/ stack = <<"on_error", "failed">> /\ stack' = <<"failed">>
      \/ stack = <<"on_close", "free">> /\ stack' = <<"free">>
  BY <1>1, <1>2, Steps
<1>4. /\ stack' \in Seq(Frames) /\ stack' # <<>> /\ stack # <<>>
      /\ stack' \in Handing <=> stack \in Handing
      /\ stack' \in Accepting <=> stack \in Accepting
      /\ stack' \in Reporting <=> stack \in Reporting
      /\ stack' \in Closing <=> stack \in Closing
  BY <1>3, StacksType, Distinct DEF Handing, Accepting, Reporting, Closing
<1>5. TypeOK'
  BY <1>2, <1>4 DEF TypeOK, Frames
<1>6. HandedOver'
  BY <1>2, <1>4 DEF HandedOver, Newest
<1> QED BY <1>2, <1>4, <1>5, <1>6 DEF Where, Lifetime, Descriptor, Waiting, Ending,
           UsedWhileAlive, Alive, Freed

LEMMA PollInv ==
  ASSUME Inv, Poll
  PROVE  Inv'
<1> USE DEF Inv
<1>1. /\ server' = [server EXCEPT !.pending = TRUE] /\ server.active
      /\ UNCHANGED <<os, streams, stack, log>>
  BY DEF Poll
<1>2. /\ server' \in Servers /\ server'.heap = server.heap /\ server'.fd = server.fd
      /\ server'.active = server.active
  BY <1>1 DEF TypeOK, Servers
<1>3. ~(log.closed > 0)
  BY <1>1 DEF Lifetime
<1>4. TypeOK'
  BY <1>1, <1>2 DEF TypeOK
<1> QED BY <1>1, <1>2, <1>3, <1>4 DEF Where, Lifetime, Descriptor, Waiting, HandedOver,
           Newest, Ending, UsedWhileAlive, Alive, Freed

LEMMA ConnectsInv ==
  ASSUME Inv, NEW c \in Clients, Connects(c)
  PROVE  Inv'
<1> USE DEF Inv
<1>1. /\ os.listener = "listening" /\ streams[c] = "none"
      /\ streams' = [streams EXCEPT ![c] = "queued"]
      /\ os' = [os EXCEPT !.backlog = Append(os.backlog, c)]
      /\ UNCHANGED <<server, stack, log>>
  BY DEF Connects
<1>2. os' \in Kernels /\ os'.stdin = os.stdin /\ os'.listener = os.listener
  <2>1. Append(os.backlog, c) \in Seq(Clients)
    BY DEF TypeOK, Kernels
  <2> QED BY <1>1, <2>1 DEF TypeOK, Kernels
<1>3. /\ streams' \in [Clients -> Fates] /\ streams'[c] = "queued"
      /\ \A d \in Clients : d # c => streams'[d] = streams[d]
  BY <1>1 DEF TypeOK, Fates
<1>4. TypeOK'
  BY <1>1, <1>2, <1>3 DEF TypeOK
<1>5. Waiting'
  BY <1>1, <1>2 DEF Waiting
<1>6. HandedOver'
  <2>1. stack \in Handing => Newest \in Clients
    BY DEF HandedOver, Newest, TypeOK, Logs
  <2> QED BY <1>1, <1>3, <2>1 DEF HandedOver, Newest
<1> QED BY <1>1, <1>2, <1>4, <1>5, <1>6 DEF Where, Lifetime, Descriptor, Ending,
           UsedWhileAlive, Alive, Freed

LEMMA StepInv ==
  ASSUME Inv, Disciplined, [Next]_vars
  PROVE  Inv'
<1>1. CASE Next
  <2>1. CASE Library
    BY <2>1, FreeInv, FailedInv, OnReadableInv, AcceptInv, AcceptedInv, PollInv DEF Library
  <2>2. CASE Application
    BY <2>2, CreateInv, AppListensInv, AppClosesInv, AppDestroysStreamInv, ReturnInv
    DEF Application
  <2>3. CASE \E c \in Clients : Connects(c)
    BY <2>3, ConnectsInv
  <2> QED BY <1>1, <2>1, <2>2, <2>3 DEF Next
<1>2. CASE UNCHANGED vars
  BY <1>2 DEF vars, Inv, TypeOK, Where, Lifetime, Descriptor, Waiting, HandedOver, Newest,
     Ending, UsedWhileAlive, Alive, Freed
<1> QED BY <1>1, <1>2

\* The invariant holds always.
LEMMA Always ==
  ASSUME Disciplined
  PROVE  Spec => []Inv
<1>1. Inv /\ [Next]_vars => Inv'
  BY StepInv
<1> QED BY InitInv, <1>1, PTL DEF Spec

-------------------------------------------------------------------------------
(***************************************************************************)
(* Theorems, for a disciplined application.                                *)
(***************************************************************************)

\* The fields of a server have their types, and events are pending only on a
\* started watcher of the listening socket.
THEOREM TypeCorrect ==
  ASSUME Disciplined
  PROVE  Spec => []TypeOK
BY Always, PTL DEF Inv

\* Whichever step of listen or accept fails, a server that is gone has closed
\* its descriptor, and nobody else's.
THEOREM DescriptorClosed ==
  ASSUME Disciplined
  PROVE  Spec => []ClosesItsDescriptor
<1>1. Inv => ClosesItsDescriptor
  BY DEF Inv, Descriptor, Lifetime, ClosesItsDescriptor, Freed
<1> QED BY <1>1, Always, PTL

\* What a step can do to a server that is closing or freed: return from
\* on_close, and free it.
LEMMA ClosedStep ==
  ASSUME Inv, [Next]_vars, log.closed > 0
  PROVE  log'.closed = log.closed /\ (stack' = stack \/ (stack # <<>> /\ stack' = Tail(stack)))
<1>1. /\ ~server.active /\ ~server.pending
      /\ stack \in {<<>>, <<"on_close", "free">>, <<"free">>}
      /\ server.heap # "none" /\ log \in Logs
  BY DEF Inv, Lifetime, Closing, Freed, TypeOK
<1>2. stack # <<>> => Head(stack) \notin {"failed", "accept", "accepted"}
  BY <1>1
<1>3. CASE Library
  <2>1. Free
    BY <1>1, <1>2, <1>3 DEF Library, Failed, OnReadable, Accept, Accepted, Poll, At
  <2> QED BY <1>1, <2>1 DEF Free, At, Fault, Logs
<1>4. CASE Application
  <2>1. ~AppListens /\ ~AppCloses
    BY <1>1 DEF AppListens, AppCloses, AppMay, Logs
  <2> QED BY <1>4, <2>1 DEF Application, Create, AppDestroysStream, Return
<1>5. CASE (\E c \in Clients : Connects(c)) \/ UNCHANGED vars
  BY <1>5 DEF Connects, vars
<1> QED BY <1>3, <1>4, <1>5 DEF Next

\* on_close is the last callback of a server and comes once: a pending event, a
\* backlog or an accept loop that failed start no handler after it.
THEOREM CloseIsLast ==
  ASSUME Disciplined
  PROVE  Spec => NothingAfterClose
<1>1. Inv /\ [Next]_vars =>
        [log.closed > 0 => Len(stack') <= Len(stack) /\ log'.closed = log.closed]_vars
  <2> SUFFICES ASSUME Inv, [Next]_vars, log.closed > 0
               PROVE  Len(stack') <= Len(stack) /\ log'.closed = log.closed
    OBVIOUS
  <2>1. stack \in Seq(Frames)
    BY DEF Inv, TypeOK, Frames
  <2> QED BY <2>1, ClosedStep, HeadTailProperties
<1> QED BY <1>1, Always, PTL DEF Spec, NothingAfterClose

\* No stream that was accepted is left without its watcher.
THEOREM NothingLeftBehind ==
  ASSUME Disciplined
  PROVE  Spec => []NoneLeftBehind
<1>1. Inv => NoneLeftBehind
  BY Distinct DEF Inv, HandedOver, NoneLeftBehind, InLoop
<1> QED BY <1>1, Always, PTL

\* After a failure the server is closed, once, and freed, and the connections
\* that waited have been refused.
THEOREM FailureEndsServer ==
  ASSUME Disciplined
  PROVE  Spec => []FailureIsFatal
<1>1. Inv => FailureIsFatal
  BY Distinct DEF Inv, Ending, Lifetime, Descriptor, Waiting, FailureIsFatal, InLoop, Freed
<1> QED BY <1>1, Always, PTL

\* The library never touches a server or a stream that was freed.
THEOREM NoUseAfterFree ==
  ASSUME Disciplined
  PROVE  Spec => []UsedWhileAlive
BY Always, PTL DEF Inv
===============================================================================
