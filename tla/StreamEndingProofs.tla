-------------------------- MODULE StreamEndingProofs --------------------------
(***************************************************************************)
(* How a conversation ends: what the application is told of the data, of   *)
(* the peer's FIN and of the close, in which order, and what is watched    *)
(* meanwhile. An inductive invariant relates ready_state, the watcher, the *)
(* socket and the bytes handed over to the point at which the library is.  *)
(***************************************************************************)
EXTENDS StreamClosingProofs

-------------------------------------------------------------------------------
(***************************************************************************)
(* The stacks of a stream in use, and what a step does to them.            *)
(***************************************************************************)

\* A callback and the point at which the library goes on after it, with the
\* on_error of a refused write on top of the callback.
Bracket(callback, point) ==
  {<<"on_error", callback, point>>, <<callback, point>>, <<point>>}

\* The stacks of a stream that is neither failing nor being closed.
Shapes ==
  {<<>>, <<"on_error">>, <<"on_data">>, <<"on_error", "on_data">>,
   <<"on_drain">>, <<"on_error", "on_drain">>,
   <<"on_error", "read_failed">>, <<"read_failed">>}
  \cup Bracket("on_connection", "accepted") \cup Bracket("on_connect", "connected")
  \cup Bracket("on_data", "fin_end") \cup Bracket("on_end", "fin_close")
  \cup Bracket("on_timeout", "timed_out")

Marks == {"accepted", "connected", "fin_end", "fin_close"}

\* Where the handler at the bottom of the stack will go on, if it matters.
Phase(s) == IF s # <<>> /\ s[Len(s)] \in Marks THEN s[Len(s)] ELSE "other"

\* The phase of a stack of each length.
LEMMA PhaseOf ==
  ASSUME NEW p, NEW q, NEW r
  PROVE  /\ Phase(<<>>) = "other"
         /\ Phase(<<p>>) = IF p \in Marks THEN p ELSE "other"
         /\ Phase(<<q, p>>) = IF p \in Marks THEN p ELSE "other"
         /\ Phase(<<r, q, p>>) = IF p \in Marks THEN p ELSE "other"
<1>1. Phase(<<>>) = "other"
  BY DEF Phase
<1>2. <<p>> # <<>> /\ Len(<<p>>) = 1 /\ <<p>>[1] = p
  OBVIOUS
<1>3. <<q, p>> # <<>> /\ Len(<<q, p>>) = 2 /\ <<q, p>>[2] = p
  OBVIOUS
<1>4. <<r, q, p>> # <<>> /\ Len(<<r, q, p>>) = 3 /\ <<r, q, p>>[3] = p
  OBVIOUS
<1> QED BY <1>1, <1>2, <1>3, <1>4 DEF Phase

\* The stacks of handlers after which nothing remains to be done.
LEMMA LooseStacks ==
  \A s \in {<<>>, <<"on_data">>, <<"on_drain">>, <<"on_timeout", "timed_out">>, <<"timed_out">>,
            <<"on_error", "read_failed">>, <<"read_failed">>} :
    s \in Shapes /\ Phase(s) = "other"
<1>1. \A p \in {"on_data", "on_drain", "timed_out", "read_failed"} : p \notin Marks
  BY DEF Marks
<1>2. \A p \in {"on_data", "on_drain", "timed_out", "read_failed"} :
        Phase(<<p>>) = "other" /\ \A q : Phase(<<q, p>>) = "other"
  BY <1>1, PhaseOf
<1>3. Phase(<<>>) = "other"
  BY PhaseOf
<1> QED BY <1>2, <1>3 DEF Shapes, Bracket

\* Taking stacks apart.
LEMMA Frame ==
  ASSUME NEW p, NEW q, NEW r
  PROVE  /\ <<p>> # <<>> /\ Head(<<p>>) = p /\ Tail(<<p>>) = <<>>
         /\ <<q, p>> # <<>> /\ Head(<<q, p>>) = q /\ Tail(<<q, p>>) = <<p>>
         /\ <<r, q, p>> # <<>> /\ Head(<<r, q, p>>) = r /\ Tail(<<r, q, p>>) = <<q, p>>
<1>1. <<p>> # <<>> /\ Head(<<p>>) = p /\ Tail(<<p>>) = <<>>
  OBVIOUS
<1>2. <<q, p>> # <<>> /\ Head(<<q, p>>) = q /\ Tail(<<q, p>>) = <<p>>
  OBVIOUS
<1>3. <<r, q, p>> # <<>> /\ Head(<<r, q, p>>) = r /\ Tail(<<r, q, p>>) = <<q, p>>
  OBVIOUS
<1> QED BY <1>1, <1>2, <1>3

\* Putting them together.
LEMMA Joined ==
  ASSUME NEW S, NEW s \in Seq(S), NEW t \in Seq(S), NEW u \in Seq(S),
         Len(u) = Len(s) + Len(t),
         \A i \in 1..Len(s) : u[i] = s[i],
         \A i \in 1..Len(t) : u[Len(s) + i] = t[i]
  PROVE  s \o t = u
<1>1. /\ s \o t \in Seq(S) /\ Len(s \o t) = Len(s) + Len(t)
      /\ \A i \in 1..(Len(s) + Len(t)) :
           (s \o t)[i] = IF i <= Len(s) THEN s[i] ELSE t[i - Len(s)]
  BY ConcatProperties
<1>2. Len(s) \in Nat /\ Len(t) \in Nat
  OBVIOUS
<1>3. ASSUME NEW i \in 1..Len(s \o t) PROVE (s \o t)[i] = u[i]
  <2>1. CASE i <= Len(s)
    BY <1>1, <1>2, <2>1
  <2>2. CASE i > Len(s)
    <3>1. i - Len(s) \in 1..Len(t) /\ Len(s) + (i - Len(s)) = i
      BY <1>1, <1>2, <2>2
    <3>2. u[Len(s) + (i - Len(s))] = t[i - Len(s)]
      BY <3>1
    <3> QED BY <1>1, <1>2, <2>2, <3>1, <3>2
  <2> QED BY <1>1, <1>2, <2>1, <2>2
<1> QED BY <1>1, <1>3, SeqEqual

\* Pushing frames, and nothing, on short stacks.
LEMMA OnTop ==
  \A p, q, r : /\ <<r>> \o <<q, p>> = <<r, q, p>>
               /\ <<q>> \o <<p>> = <<q, p>>
               /\ <<r, q>> \o <<p>> = <<r, q, p>>
               /\ <<p>> \o <<>> = <<p>> /\ <<q, p>> \o <<>> = <<q, p>>
               /\ <<>> \o <<p>> = <<p>> /\ <<>> \o <<q, p>> = <<q, p>>
               /\ <<>> \o <<>> = <<>>
<1> SUFFICES ASSUME NEW p, NEW q, NEW r
             PROVE  /\ <<r>> \o <<q, p>> = <<r, q, p>>
                    /\ <<q>> \o <<p>> = <<q, p>>
                    /\ <<r, q>> \o <<p>> = <<r, q, p>>
                    /\ <<p>> \o <<>> = <<p>> /\ <<q, p>> \o <<>> = <<q, p>>
                    /\ <<>> \o <<p>> = <<p>> /\ <<>> \o <<q, p>> = <<q, p>>
                    /\ <<>> \o <<>> = <<>>
  OBVIOUS
<1> DEFINE S == {p, q, r}
<1>1. /\ <<>> \in Seq(S) /\ <<p>> \in Seq(S) /\ <<q>> \in Seq(S) /\ <<r>> \in Seq(S)
      /\ <<q, p>> \in Seq(S) /\ <<r, q>> \in Seq(S) /\ <<r, q, p>> \in Seq(S)
  OBVIOUS
<1>2. \A i \in 1..1 : i = 1
  OBVIOUS
<1>3. \A i \in 1..2 : i = 1 \/ i = 2
  OBVIOUS
<1>4. <<r>> \o <<q, p>> = <<r, q, p>>
  <2> DEFINE s == <<r>>
             t == <<q, p>>
             u == <<r, q, p>>
  <2>1. /\ s \in Seq(S) /\ t \in Seq(S) /\ u \in Seq(S)
        /\ Len(s) = 1 /\ Len(t) = 2 /\ Len(u) = 3
    BY <1>1
  <2>2. \A i \in 1..1 : u[i] = s[i]
    BY <1>2
  <2>3. \A i \in 1..2 : u[1 + i] = t[i]
    BY <1>3
  <2> HIDE DEF S, s, t, u
  <2>4. /\ Len(u) = Len(s) + Len(t)
        /\ \A i \in 1..Len(s) : u[i] = s[i]
        /\ \A i \in 1..Len(t) : u[Len(s) + i] = t[i]
    BY <2>1, <2>2, <2>3
  <2>5. s \o t = u
    BY <2>1, <2>4, Joined
  <2> QED BY <2>5 DEF s, t, u
<1>5. <<q>> \o <<p>> = <<q, p>>
  <2> DEFINE s == <<q>>
             t == <<p>>
             u == <<q, p>>
  <2>1. /\ s \in Seq(S) /\ t \in Seq(S) /\ u \in Seq(S)
        /\ Len(s) = 1 /\ Len(t) = 1 /\ Len(u) = 2
    BY <1>1
  <2>2. \A i \in 1..1 : u[i] = s[i]
    BY <1>2
  <2>3. \A i \in 1..1 : u[1 + i] = t[i]
    BY <1>2
  <2> HIDE DEF S, s, t, u
  <2>4. /\ Len(u) = Len(s) + Len(t)
        /\ \A i \in 1..Len(s) : u[i] = s[i]
        /\ \A i \in 1..Len(t) : u[Len(s) + i] = t[i]
    BY <2>1, <2>2, <2>3
  <2>5. s \o t = u
    BY <2>1, <2>4, Joined
  <2> QED BY <2>5 DEF s, t, u
<1>6. <<r, q>> \o <<p>> = <<r, q, p>>
  <2> DEFINE s == <<r, q>>
             t == <<p>>
             u == <<r, q, p>>
  <2>1. /\ s \in Seq(S) /\ t \in Seq(S) /\ u \in Seq(S)
        /\ Len(s) = 2 /\ Len(t) = 1 /\ Len(u) = 3
    BY <1>1
  <2>2. \A i \in 1..2 : u[i] = s[i]
    BY <1>3
  <2>3. \A i \in 1..1 : u[2 + i] = t[i]
    BY <1>2
  <2> HIDE DEF S, s, t, u
  <2>4. /\ Len(u) = Len(s) + Len(t)
        /\ \A i \in 1..Len(s) : u[i] = s[i]
        /\ \A i \in 1..Len(t) : u[Len(s) + i] = t[i]
    BY <2>1, <2>2, <2>3
  <2>5. s \o t = u
    BY <2>1, <2>4, Joined
  <2> QED BY <2>5 DEF s, t, u
<1>7. \A s \in Seq(S) : s \o <<>> = s /\ <<>> \o s = s
  BY ConcatEmptySeq
<1> HIDE DEF S
<1> QED BY <1>1, <1>4, <1>5, <1>6, <1>7

\* They are stacks.
LEMMA ShapesAreStacks == Shapes \subseteq Seq(Frames)
<1>1. \A p, q, r \in Frames : /\ <<>> \in Seq(Frames) /\ <<p>> \in Seq(Frames)
                              /\ <<q, p>> \in Seq(Frames)
                              /\ <<r, q, p>> \in Seq(Frames)
  OBVIOUS
<1>2. /\ {"on_connection", "on_connect", "on_data", "on_end", "on_timeout", "on_drain",
          "on_error"} \subseteq Frames
      /\ {"accepted", "connected", "fin_end", "fin_close", "timed_out", "read_failed"}
           \subseteq Frames
  BY DEF Frames, Callbacks, Points
<1> QED BY <1>1, <1>2 DEF Shapes, Bracket

\* A point is met at the bottom of the stack only.
LEMMA PointIsBottom ==
  ASSUME NEW s \in Shapes, s # <<>>, Head(s) \in Points
  PROVE  /\ s = <<Head(s)>> /\ Tail(s) = <<>>
         /\ Phase(s) = IF Head(s) \in Marks THEN Head(s) ELSE "other"
         /\ Head(s) \in Marks \cup {"read_failed", "timed_out"}
<1>1. {"on_connection", "on_connect", "on_data", "on_end", "on_timeout", "on_drain",
       "on_error"} \cap Points = {}
  BY DEF Points
<1>2. s \in {<<"read_failed">>, <<"accepted">>, <<"connected">>, <<"fin_end">>,
             <<"fin_close">>, <<"timed_out">>}
  BY <1>1, Frame DEF Shapes, Bracket
<1>3. PICK p \in Marks \cup {"read_failed", "timed_out"} : s = <<p>>
  BY <1>2 DEF Marks
<1>4. Head(s) = p /\ Tail(s) = <<>>
  BY <1>3, Frame
<1> QED BY <1>3, <1>4, PhaseOf

\* A callback returns to a stack of the same phase.
LEMMA CallbackReturns ==
  ASSUME NEW s \in Shapes, s # <<>>, Head(s) \in Callbacks
  PROVE  Tail(s) \in Shapes /\ Phase(Tail(s)) = Phase(s)
<1>1. "read_failed" \notin Marks /\ "timed_out" \notin Marks /\ "on_data" \notin Marks
      /\ "on_drain" \notin Marks /\ "on_error" \notin Marks
  BY DEF Marks
<1>2. {"read_failed", "timed_out", "accepted", "connected", "fin_end", "fin_close"}
        \cap Callbacks = {}
  BY DEF Callbacks
<1>3. CASE s \in {<<"on_error">>, <<"on_data">>, <<"on_drain">>}
  <2>1. PICK p \in {"on_error", "on_data", "on_drain"} : s = <<p>>
    BY <1>3
  <2>2. Tail(s) = <<>> /\ p \notin Marks
    BY <1>1, <2>1, Frame
  <2>3. <<>> \in Shapes
    BY DEF Shapes
  <2> QED BY <2>1, <2>2, <2>3, PhaseOf
<1>4. CASE s \in {<<"on_error", "on_data">>, <<"on_error", "on_drain">>,
                  <<"on_error", "read_failed">>}
  <2>1. PICK p \in {"on_data", "on_drain", "read_failed"} : s = <<"on_error", p>>
    BY <1>4
  <2>2. Tail(s) = <<p>> /\ p \notin Marks
    BY <1>1, <2>1, Frame
  <2>3. <<p>> \in Shapes
    BY <2>1 DEF Shapes
  <2> QED BY <2>1, <2>2, <2>3, PhaseOf
<1>5. ASSUME NEW c, NEW p, Bracket(c, p) \subseteq Shapes,
             p \notin Callbacks, s \in Bracket(c, p)
      PROVE  Tail(s) \in Shapes /\ Phase(Tail(s)) = Phase(s)
  <2>1. s # <<p>>
    BY <1>5, Frame
  <2>2. CASE s = <<c, p>>
    <3>1. Tail(s) = <<p>> /\ <<p>> \in Shapes
      BY <1>5, <2>2, Frame DEF Bracket
    <3> QED BY <2>2, <3>1, PhaseOf
  <2>3. CASE s = <<"on_error", c, p>>
    <3>1. Tail(s) = <<c, p>> /\ <<c, p>> \in Shapes
      BY <1>5, <2>3, Frame DEF Bracket
    <3> QED BY <2>3, <3>1, PhaseOf
  <2> QED BY <1>5, <2>1, <2>2, <2>3 DEF Bracket
<1>6. /\ Bracket("on_connection", "accepted") \subseteq Shapes
      /\ Bracket("on_connect", "connected") \subseteq Shapes
      /\ Bracket("on_data", "fin_end") \subseteq Shapes
      /\ Bracket("on_end", "fin_close") \subseteq Shapes
      /\ Bracket("on_timeout", "timed_out") \subseteq Shapes
  BY DEF Shapes
<1>7. s # <<"read_failed">>
  BY <1>2, Frame
<1>8. \/ s \in {<<"on_error">>, <<"on_data">>, <<"on_drain">>}
      \/ s \in {<<"on_error", "on_data">>, <<"on_error", "on_drain">>,
                <<"on_error", "read_failed">>}
      \/ s \in Bracket("on_connection", "accepted")
      \/ s \in Bracket("on_connect", "connected")
      \/ s \in Bracket("on_data", "fin_end")
      \/ s \in Bracket("on_end", "fin_close")
      \/ s \in Bracket("on_timeout", "timed_out")
  BY <1>7 DEF Shapes
<1> QED BY <1>2, <1>3, <1>4, <1>5, <1>6, <1>8

\* A refused write calls on_error on top of any callback but on_error.
LEMMA ErrorOnTop ==
  ASSUME NEW s \in Shapes, s = <<>> \/ Head(s) \notin Points \cup {"on_error"}
  PROVE  /\ Call("on_error") \o s \in Shapes
         /\ Phase(Call("on_error") \o s) = Phase(s)
<1>1. <<"on_error">> \o s \in Shapes /\ Phase(<<"on_error">> \o s) = Phase(s)
  <2>1. "on_data" \notin Marks /\ "on_drain" \notin Marks /\ "on_error" \notin Marks
    BY DEF Marks
  <2>2. CASE s = <<>>
    <3>1. <<"on_error">> \o s = <<"on_error">>
      BY <2>2, OnTop
    <3> QED BY <2>1, <2>2, <3>1, PhaseOf DEF Shapes
  <2>3. CASE s \in {<<"on_data">>, <<"on_drain">>}
    <3>1. PICK p \in {"on_data", "on_drain"} : s = <<p>>
      BY <2>3
    <3>2. <<"on_error">> \o s = <<"on_error", p>>
      BY <3>1, OnTop
    <3> QED BY <2>1, <3>1, <3>2, PhaseOf DEF Shapes
  <2>4. ASSUME NEW c, NEW p, Bracket(c, p) \subseteq Shapes, s = <<c, p>>
        PROVE  <<"on_error">> \o s \in Shapes /\ Phase(<<"on_error">> \o s) = Phase(s)
    <3>1. <<"on_error">> \o <<c, p>> = <<"on_error", c, p>>
      BY OnTop
    <3> QED BY <2>4, <3>1, PhaseOf DEF Bracket
  <2>5. /\ Bracket("on_connection", "accepted") \subseteq Shapes
        /\ Bracket("on_connect", "connected") \subseteq Shapes
        /\ Bracket("on_data", "fin_end") \subseteq Shapes
        /\ Bracket("on_end", "fin_close") \subseteq Shapes
        /\ Bracket("on_timeout", "timed_out") \subseteq Shapes
    BY DEF Shapes
  <2>6. {"accepted", "connected", "fin_end", "fin_close", "timed_out", "read_failed"}
          \subseteq Points
    BY DEF Points
  <2>7. \A p, q, r : /\ <<p>> # <<>> /\ Head(<<p>>) = p
                     /\ <<q, p>> # <<>> /\ Head(<<q, p>>) = q
                     /\ <<r, q, p>> # <<>> /\ Head(<<r, q, p>>) = r
    OBVIOUS
  <2>8. \/ s \in {<<>>, <<"on_data">>, <<"on_drain">>}
        \/ s = <<"on_connection", "accepted">> \/ s = <<"on_connect", "connected">>
        \/ s = <<"on_data", "fin_end">> \/ s = <<"on_end", "fin_close">>
        \/ s = <<"on_timeout", "timed_out">>
    BY <2>6, <2>7 DEF Shapes, Bracket
  <2> QED BY <2>2, <2>3, <2>4, <2>5, <2>8
<1>2. <<>> \o s = s
  <2>1. s \in Seq(Frames)
    BY ShapesAreStacks
  <2> QED BY <2>1, ConcatEmptySeq
<1> QED BY <1>1, <1>2 DEF Call

\* The callbacks in which the library waits for nothing.
LEMMA LooseCallback ==
  ASSUME NEW s \in Shapes, s # <<>>, Head(s) \notin Points \cup {"on_error", "on_timeout"}
  PROVE  /\ Phase(s) = "other" => s \in {<<"on_data">>, <<"on_drain">>}
         /\ Head(s) = "on_drain" => s = <<"on_drain">>
<1>1. {"accepted", "connected", "fin_end", "fin_close", "timed_out", "read_failed"}
        \subseteq Points
  BY DEF Points
<1>2. \A p, q, r : /\ <<p>> # <<>> /\ Head(<<p>>) = p
                   /\ <<q, p>> # <<>> /\ Head(<<q, p>>) = q
                   /\ <<r, q, p>> # <<>> /\ Head(<<r, q, p>>) = r
  OBVIOUS
<1>3. \/ s \in {<<"on_data">>, <<"on_drain">>}
      \/ s = <<"on_connection", "accepted">> \/ s = <<"on_connect", "connected">>
      \/ s = <<"on_data", "fin_end">> \/ s = <<"on_end", "fin_close">>
  BY <1>1, <1>2 DEF Shapes, Bracket
<1>4. ASSUME NEW q \in {"on_connection", "on_connect", "on_data", "on_end"},
             NEW p \in Marks, s = <<q, p>>
      PROVE  Phase(s) # "other" /\ Head(s) # "on_drain"
  <2>1. Phase(s) = p /\ Head(s) = q
    BY <1>2, <1>4, PhaseOf
  <2> QED BY <2>1 DEF Marks
<1>5. {"accepted", "connected", "fin_end", "fin_close"} \subseteq Marks
  BY DEF Marks
<1>6. s = <<"on_data">> => Head(s) # "on_drain"
  BY <1>2
<1> QED BY <1>3, <1>4, <1>5, <1>6

-------------------------------------------------------------------------------
(***************************************************************************)
(* What is known of a stream, and the steps that disturb none of it.       *)
(***************************************************************************)

\* An application that leaves the stream alone in on_close, and at most sets
\* its timeout in on_error; that destroys it in no callback but on_drain; and
\* that does not end it before it is connected or in on_timeout.
Considerate ==
  /\ Quiet
  /\ AppCalls["on_error"] \subseteq {"set_timeout"}
  /\ \A c \in Callbacks \ {"on_drain"} : "destroy" \notin AppCalls[c]
  /\ "end" \notin AppCalls["opening"] /\ "end" \notin AppCalls["on_timeout"]

\* A stream in use: no send has failed, and nobody has destroyed it.
Open == Alive /\ log.closed = 0 /\ ~log.send_failed

\* Nothing was said on a stream that does not exist yet.
Fresh ==
  stream.heap = "none" =>
    /\ stream.bufferlist = <<>> /\ ~sock.shut /\ sock.read = 0
    /\ log.ended = 0 /\ log.delivered = <<>> /\ ~log.send_failed

\* on_error, and then the destruction of the stream.
SendFailing(s) ==
  /\ s # <<>>
  /\ \/ Head(s) = "send_failed"
     \/ Head(s) = "on_error" /\ Tail(s) # <<>> /\ Head(Tail(s)) = "send_failed"

\* The stacks on which a stream may be destroyed, and those of its destruction:
\* no point of the library is below it.
Leaving == {<<>>, <<"on_data">>, <<"on_drain">>}
Freeing ==
  {<<"free">>, <<"free", "on_data">>, <<"free", "on_drain">>, <<"on_close", "free">>,
   <<"on_close", "free", "on_data">>, <<"on_close", "free", "on_drain">>}

\* The stacks of a stream that is not connected yet: only its timer can call.
Waiting == {<<>>, <<"on_timeout", "timed_out">>, <<"timed_out">>}

\* Where control can be.
Course ==
  /\ Open => stack \in Shapes
  /\ Alive /\ log.closed = 0 /\ log.send_failed => SendFailing(stack)
  /\ Alive /\ log.closed > 0 /\ ~log.send_failed => stack \in Freeing
  /\ stream.heap = "freed" /\ ~log.send_failed => stack \in Leaving
  /\ log.ub # "none" => log.send_failed

\* The peer's FIN has been handled.
Ended == log.ended > 0 /\ Phase(stack) # "fin_close"

\* ready_state tells what was ended, and the FIN is handled on a connected
\* stream, once.
StateAgrees ==
  /\ io.cb \in {"on_connect", "on_activity"}
  /\ stream.ready_state = IF sock.shut THEN "READ_ONLY"
                          ELSE IF Ended THEN "WRITE_ONLY"
                          ELSE IF io.cb = "on_connect" THEN "OPENING" ELSE "OPEN"
  /\ ~(sock.shut /\ Ended)
  /\ io.cb = "on_connect" => ~sock.shut /\ log.ended = 0 /\ stack \in Waiting
  /\ Phase(stack) = "fin_close" => log.ended = 1
  /\ Phase(stack) \in {"accepted", "connected", "fin_end"} =>
       log.ended = 0 /\ io.cb = "on_activity"

\* Once connected, the stream is watched for READ until the FIN is handled,
\* and has its buffer list.
WatcherAgrees ==
  io.cb = "on_activity" =>
    /\ "READ" \in io.events <=> ~Ended
    /\ Phase(stack) # "accepted" => io.active
    /\ Phase(stack) \notin {"accepted", "connected"} => stream.has_list = stream.oneshot

\* The application was given these bytes, if it asked for any.
Told(bytes) == "on_data" \in Installed => log.delivered = bytes

\* What was read was delivered, on a oneshot stream once the FIN is there.
DataAgrees ==
  /\ log.ended = 0 /\ Phase(stack) # "fin_end" =>
       IF stream.oneshot
       THEN log.delivered = <<>> /\ stream.bufferlist = Bytes(0, sock.read)
       ELSE Told(Bytes(0, sock.read))
  /\ Phase(stack) = "fin_end" =>
       sock.fin /\ sock.read = sock.arrived /\ Told(Bytes(0, sock.read))

\* Nothing is queued behind evn_stream_end.
OutputAgrees == ~EndsQueued /\ sock.shut => stream.out = <<>>

Conversing == Open => StateAgrees /\ WatcherAgrees /\ DataAgrees /\ OutputAgrees

\* on_end was called once, and after all the data.
Heard ==
  log.ended > 0 =>
    log.ended = 1 /\ sock.fin /\ sock.read = sock.arrived /\ Told(Bytes(0, sock.read))

\* A clean close came after everything was sent, and heard.
Complete ==
  log.closed > 0 /\ ~log.had_error /\ ~EndsQueued =>
    Len(sock.wire) = log.written /\ log.ended = 1

Whole == Fresh /\ Course /\ Conversing /\ Heard /\ Complete

-------------------------------------------------------------------------------

\* A step of a stream in use that ends nothing and hands over no data.
Steady ==
  /\ stack' \in Shapes /\ Phase(stack') = Phase(stack)
  /\ io.cb = "on_connect" => stack' \in Waiting
  /\ stream'.heap = stream.heap /\ stream'.ready_state = stream.ready_state
  /\ stream'.oneshot = stream.oneshot /\ stream'.has_list = stream.has_list
  /\ stream'.bufferlist = stream.bufferlist
  /\ sock.shut /\ stream.out = <<>> => stream'.out = <<>>
  /\ sock'.shut = sock.shut /\ sock'.read = sock.read
  /\ sock.fin => sock'.fin /\ sock'.arrived = sock.arrived
  /\ io'.cb = io.cb /\ ("READ" \in io'.events <=> "READ" \in io.events)
  /\ io.active => io'.active
  /\ log'.ended = log.ended /\ log'.delivered = log.delivered
  /\ log'.closed = log.closed /\ log'.send_failed = log.send_failed
  /\ log'.ub = log.ub

\* It changes nothing of what is known.
LEMMA SteadyKeeps ==
  ASSUME Open, Whole, Steady
  PROVE  Whole'
<1>1. /\ Open' /\ stream'.heap = "alive" /\ log'.closed = 0 /\ ~log'.send_failed
      /\ Ended' <=> Ended
  BY DEF Open, Steady, Alive, Ended
<1>2. Course' /\ Fresh'
  BY <1>1 DEF Whole, Course, Fresh, Steady, Open, Alive
<1>3. StateAgrees' /\ WatcherAgrees' /\ OutputAgrees'
  <2>1. StateAgrees /\ WatcherAgrees /\ OutputAgrees
    BY DEF Whole, Conversing
  <2>2. StateAgrees'
    BY <1>1, <2>1 DEF StateAgrees, Steady
  <2>3. WatcherAgrees'
    BY <1>1, <2>1 DEF WatcherAgrees, Steady
  <2>4. OutputAgrees'
    BY <2>1 DEF OutputAgrees, Steady
  <2> QED BY <2>2, <2>3, <2>4
<1>4. DataAgrees'
  <2>1. DataAgrees
    BY DEF Whole, Conversing
  <2> QED BY <2>1 DEF DataAgrees, Steady, Told
<1>5. Heard'
  <2>1. Heard
    BY DEF Whole
  <2> QED BY <2>1 DEF Heard, Steady, Told
<1>6. Complete'
  BY <1>1 DEF Complete
<1> QED BY <1>2, <1>3, <1>4, <1>5, <1>6 DEF Whole, Conversing

\* A failed send suspends its caller, and nothing else is known to change.
LEMMA FailureKeeps ==
  ASSUME TypeOK, Open, Whole, NEW caller \in Points, SendFails(caller),
         stream'.heap = stream.heap, UNCHANGED sock
  PROVE  Whole'
<1>1. /\ log'.send_failed = TRUE /\ log'.closed = log.closed /\ log'.ended = log.ended
      /\ log'.delivered = log.delivered /\ log'.ub = log.ub
  BY DEF SendFails, TypeOK, Logs
<1>2. SendFailing(stack')
  <2>1. stack' = Call("on_error") \o <<"send_failed", caller>> \o stack
        /\ stack \in Seq(Frames) /\ <<"send_failed", caller>> \in Seq(Frames)
        /\ <<"on_error", "send_failed", caller>> \in Seq(Frames)
    BY DEF SendFails, TypeOK, Frames, Callbacks, Points
  <2>2. CASE "on_error" \in Installed
    <3>1. stack' = <<"on_error", "send_failed", caller>> \o stack
      BY <2>1, <2>2, OnTop DEF Call
    <3>2. /\ stack' \in Seq(Frames) /\ Len(stack') = 3 + Len(stack) /\ Len(stack) \in Nat
          /\ stack'[1] = "on_error" /\ stack'[2] = "send_failed"
      <4> DEFINE u == <<"on_error", "send_failed", caller>>
      <4>1. u \in Seq(Frames) /\ Len(u) = 3 /\ u[1] = "on_error" /\ u[2] = "send_failed"
        BY <2>1
      <4>2. stack \in Seq(Frames) /\ Len(stack) \in Nat /\ stack' = u \o stack
        BY <2>1, <3>1
      <4> HIDE DEF u
      <4>3. /\ u \o stack \in Seq(Frames) /\ Len(u \o stack) = Len(u) + Len(stack)
            /\ \A i \in 1..Len(u) + Len(stack) :
                 (u \o stack)[i] = IF i <= Len(u) THEN u[i] ELSE stack[i - Len(u)]
        BY <4>1, <4>2, ConcatProperties
      <4>4. 1 \in 1..Len(u) + Len(stack) /\ 2 \in 1..Len(u) + Len(stack)
        BY <4>1, <4>2
      <4>5. (u \o stack)[1] = u[1] /\ (u \o stack)[2] = u[2]
        BY <4>1, <4>3, <4>4
      <4> QED BY <4>1, <4>2, <4>3, <4>5
    <3>3. stack' # <<>>
      BY <3>2
    <3>4. /\ Head(stack') = stack'[1] /\ Tail(stack') \in Seq(Frames)
          /\ Len(Tail(stack')) = Len(stack') - 1
          /\ \A i \in 1..Len(Tail(stack')) : Tail(stack')[i] = stack'[i + 1]
      BY <3>2, <3>3, HeadTailProperties
    <3>5. Tail(stack') # <<>> /\ Head(Tail(stack')) = stack'[2]
      <4>1. 1 \in 1..Len(Tail(stack'))
        BY <3>2, <3>4
      <4>2. Tail(stack')[1] = stack'[2]
        BY <3>4, <4>1
      <4>3. Tail(stack') # <<>>
        BY <4>1
      <4> QED BY <3>4, <4>2, <4>3
    <3> QED BY <3>2, <3>3, <3>4, <3>5 DEF SendFailing
  <2>3. CASE "on_error" \notin Installed
    <3>1. stack' = <<"send_failed", caller>> \o stack
      BY <2>1, <2>3, OnTop DEF Call
    <3>2. Head(stack') = "send_failed" /\ stack' # <<>>
      BY <2>1, <3>1
    <3> QED BY <3>2 DEF SendFailing
  <2> QED BY <2>2, <2>3
<1>3. Course' /\ Fresh' /\ Conversing' /\ Complete'
  BY <1>1, <1>2 DEF Open, Alive, Course, Fresh, Conversing, Complete
<1>4. Heard'
  BY <1>1 DEF Whole, Heard, Told
<1> QED BY <1>3, <1>4 DEF Whole

\* The stream is destroyed with no point of the library below.
LEMMA DestroyKeeps ==
  ASSUME TypeOK, Order, Open, Whole, NEW clean \in BOOLEAN, NEW rest \in Leaving,
         Destroy(clean, rest),
         clean /\ ~EndsQueued => stream.out = <<>> /\ log.ended = 1
  PROVE  Whole'
<1>1. /\ log'.send_failed = log.send_failed /\ log'.closed = log.closed + 1
      /\ log'.ended = log.ended /\ log'.written = log.written
      /\ log'.delivered = log.delivered /\ log'.ub = log.ub
      /\ ~clean => log'.had_error = TRUE
      /\ log.closed \in Nat
  BY DEF Destroy, TypeOK, Logs
<1>2. /\ stream'.heap = stream.heap /\ sock'.fin = sock.fin /\ sock'.read = sock.read
      /\ sock'.arrived = sock.arrived /\ sock'.wire = sock.wire
  BY DEF Destroy, TypeOK, Streams, Sockets
<1>3. stack' \in Freeing
  <2>1. stack' = Call("on_close") \o <<"free">> \o rest
    BY DEF Destroy
  <2>2. ASSUME NEW s \in {<<"free">>, <<"on_close", "free">>}
        PROVE  s \o rest \in Freeing
    <3>1. CASE rest = <<>>
      BY <3>1, OnTop DEF Freeing
    <3>2. ASSUME NEW p \in {"on_data", "on_drain"}, rest = <<p>>
          PROVE  s \o rest \in Freeing
      <4>1. /\ <<"free">> \o <<p>> = <<"free", p>>
            /\ <<"on_close", "free">> \o <<p>> = <<"on_close", "free", p>>
        <5>1. \A q, r : <<r>> \o <<q>> = <<r, q>>
          BY OnTop, ZenonT(30)
        <5>2. \A q, r, t : <<r, q>> \o <<t>> = <<r, q, t>>
          BY OnTop, ZenonT(30)
        <5> QED BY <5>1, <5>2, ZenonT(30)
      <4>2. s \o rest \in {<<"free", p>>, <<"on_close", "free", p>>}
        BY <3>2, <4>1, Zenon
      <4> QED BY <4>2 DEF Freeing
    <3> QED BY <3>1, <3>2 DEF Leaving
  <2>3. Call("on_close") \o <<"free">> \in {<<"free">>, <<"on_close", "free">>}
    BY OnTop DEF Call
  <2> QED BY <2>1, <2>2, <2>3
<1>4. Course' /\ Fresh' /\ Conversing'
  BY <1>1, <1>2, <1>3 DEF Open, Alive, Course, Fresh, Conversing, Whole
<1>5. Heard'
  BY <1>1, <1>2 DEF Whole, Heard, Told
<1>6. Complete'
  <2>1. CASE clean /\ ~EndsQueued
    <3>1. Len(sock.wire) + Len(stream.out) = log.written /\ Len(stream.out) = 0
      BY <2>1 DEF Order, Open, Alive
    <3>2. Len(sock.wire) \in Nat
      BY DEF TypeOK, Sockets
    <3> QED BY <1>1, <1>2, <2>1, <3>1, <3>2 DEF Complete
  <2>2. CASE ~(clean /\ ~EndsQueued)
    BY <1>1, <2>2 DEF Complete
  <2> QED BY <2>1, <2>2
<1> QED BY <1>4, <1>5, <1>6 DEF Whole

-------------------------------------------------------------------------------
(***************************************************************************)
(* The steps that only read or write.                                      *)
(***************************************************************************)

\* No change of what is watched for writing touches the rest of the watcher.
LEMMA WatcherSteady ==
  ASSUME TypeOK, WatchWrites \/ UnwatchWrites \/ Dispatched \/ UNCHANGED io
  PROVE  /\ io'.cb = io.cb /\ ("READ" \in io'.events <=> "READ" \in io.events)
         /\ io.active => io'.active
<1>1. io \in Watchers
  BY DEF TypeOK
<1>2. CASE WatchWrites
  <2>1. io'.cb = io.cb /\ io'.events = io.events \cup {"WRITE"} /\ io'.active = TRUE
    BY <1>1, <1>2 DEF WatchWrites, Watchers
  <2> QED BY <2>1
<1>3. CASE UnwatchWrites
  <2>1. io'.cb = io.cb /\ io'.events = io.events \ {"WRITE"} /\ io'.active = io.active
    BY <1>1, <1>3 DEF UnwatchWrites, Watchers
  <2> QED BY <2>1
<1>4. CASE Dispatched
  <2>1. io'.cb = io.cb /\ io'.events = io.events /\ io'.active = io.active
    BY <1>1, <1>4 DEF Dispatched, Watchers
  <2> QED BY <2>1
<1> QED BY <1>2, <1>3, <1>4

\* Sending touches the wire and the room.
LEMMA SentSteady ==
  ASSUME TypeOK, NEW data, Sent(data) \/ UNCHANGED sock
  PROVE  /\ sock'.shut = sock.shut /\ sock'.read = sock.read
         /\ sock'.fin = sock.fin /\ sock'.arrived = sock.arrived
  BY DEF Sent, TypeOK, Sockets

\* Peer, kernel and clock.
LEMMA EnvironmentSteady ==
  ASSUME TypeOK, Environment \/ UNCHANGED vars
  PROVE  /\ UNCHANGED <<stream, io, stack, log>>
         /\ sock'.shut = sock.shut /\ sock'.read = sock.read /\ sock'.wire = sock.wire
         /\ sock.fin => sock'.fin /\ sock'.arrived = sock.arrived
  BY DEF Environment, PeerSends, PeerFins, Resets, KernelSends, TimePasses, Network,
     vars, TypeOK, Sockets

\* What a stream in use knows of its stack and its records.
LEMMA OpenFacts ==
  ASSUME TypeOK, Open, Whole
  PROVE  /\ stack \in Shapes /\ StateAgrees /\ WatcherAgrees /\ DataAgrees /\ OutputAgrees
         /\ stream.heap = "alive" /\ stream.heap # "freed" /\ stream.heap # "none"
         /\ log.closed = 0 /\ ~log.send_failed
         /\ stack # <<>> => Tail(stack) \in Seq(Frames)
         /\ stream \in Streams /\ io \in Watchers /\ sock \in Sockets /\ log \in Logs
         /\ stack \in Seq(Frames)
  BY ShapesAreStacks, HeadTailProperties
     DEF Open, Whole, Course, Conversing, Alive, TypeOK, Frames

\* evn_stream_write on a stream in use.
LEMMA OpenWrites ==
  ASSUME TypeOK, Open, Whole, Considerate, AppWrites
  PROVE  Whole'
<1>1. PICK n \in 0..(MaxWritten - log.written) : Write(n)
  BY DEF AppWrites
<1>2. stack = <<>> \/ Head(stack) \notin Points \cup {"on_error"}
  <2>1. stack # <<>> => Head(stack) \in Contexts /\ "write" \in AppCalls[Head(stack)]
    BY DEF AppWrites, AppMay, Context
  <2>2. Contexts \cap Points = {}
    BY DEF Contexts, Callbacks, Points
  <2> QED BY <2>1, <2>2 DEF Considerate
<1>3. CASE stream.ready_state = "READ_ONLY"
  <2>1. stack' = Call("on_error") \o stack /\ UNCHANGED <<stream, io, sock, timer, log>>
    BY <1>1, <1>3 DEF Write
  <2>2. stack' \in Shapes /\ Phase(stack') = Phase(stack)
    BY <1>2, <2>1, ErrorOnTop, OpenFacts
  <2>3. io.cb # "on_connect"
    BY <1>3, OpenFacts DEF StateAgrees
  <2> QED BY <2>1, <2>2, <2>3, SteadyKeeps DEF Steady
<1>4. CASE stream.ready_state # "READ_ONLY"
  <2>1. ~sock.shut
    BY <1>4, OpenFacts DEF StateAgrees
  <2>2. CASE SendFails("watch_writes") /\ UNCHANGED <<stream, sock>>
    <3>1. "watch_writes" \in Points
      BY DEF Points
    <3> QED BY <2>2, <3>1, FailureKeeps
  <2>3. ASSUME NEW out, NEW data, stream' = [stream EXCEPT !.out = out],
               Sent(data) \/ UNCHANGED sock, WatchWrites \/ UNCHANGED io,
               log' = [log EXCEPT !.written = log.written + n], UNCHANGED stack
        PROVE  Whole'
    <3>1. /\ stream'.heap = stream.heap /\ stream'.ready_state = stream.ready_state
          /\ stream'.oneshot = stream.oneshot /\ stream'.has_list = stream.has_list
          /\ stream'.bufferlist = stream.bufferlist
      BY <2>3 DEF TypeOK, Streams
    <3>2. /\ log'.ended = log.ended /\ log'.delivered = log.delivered
          /\ log'.closed = log.closed /\ log'.send_failed = log.send_failed
          /\ log'.ub = log.ub
      BY <2>3 DEF TypeOK, Logs
    <3>3. /\ sock'.shut = sock.shut /\ sock'.read = sock.read
          /\ sock'.fin = sock.fin /\ sock'.arrived = sock.arrived
      BY <2>3, SentSteady
    <3>4. /\ io'.cb = io.cb /\ ("READ" \in io'.events <=> "READ" \in io.events)
          /\ io.active => io'.active
      BY <2>3, WatcherSteady
    <3>5. /\ stack' \in Shapes /\ Phase(stack') = Phase(stack)
          /\ io.cb = "on_connect" => stack' \in Waiting
      BY <2>3, OpenFacts DEF StateAgrees
    <3>6. Steady
      BY <2>1, <3>1, <3>2, <3>3, <3>4, <3>5 DEF Steady
    <3> QED BY <3>6, SteadyKeeps
  <2>4. \/ SendFails("watch_writes") /\ UNCHANGED <<stream, sock>>
        \/ /\ \E out : stream' = [stream EXCEPT !.out = out]
           /\ (\E data : Sent(data)) \/ UNCHANGED sock
           /\ WatchWrites \/ UNCHANGED io
           /\ log' = [log EXCEPT !.written = log.written + n] /\ UNCHANGED stack
    BY <1>1, <1>4 DEF Write
  <2> QED BY <2>2, <2>3, <2>4
<1> QED BY <1>3, <1>4

\* evn_stream_end and evn_stream_destroy on a stream in use.
LEMMA OpenEnds ==
  ASSUME TypeOK, Order, Open, Whole, Considerate, AppEnds \/ AppDestroys
  PROVE  Whole'
<1>1. Contexts \cap Points = {} /\ "on_error" # "on_drain" /\ "on_timeout" # "on_drain"
  BY DEF Contexts, Callbacks, Points
<1>2. CASE AppDestroys
  <2>1. AppMay("destroy") /\ Destroy(FALSE, stack)
    BY <1>2 DEF AppDestroys
  <2>2. stack # <<>> => Head(stack) = "on_drain"
    <3>1. stack # <<>> => Head(stack) \in Contexts /\ "destroy" \in AppCalls[Head(stack)]
      BY <2>1 DEF AppMay, Context
    <3>2. \A c \in Contexts : c = "opening" \/ c = "loop" \/ c \in Callbacks
      BY DEF Contexts
    <3>3. stack # <<>> => Head(stack) \in Callbacks
      <4>1. \A c \in Frames : c # "opening" /\ c # "loop"
        BY DEF Frames, Callbacks, Points
      <4>2. stack # <<>> => Head(stack) \in Frames
        BY TailType
      <4> QED BY <3>1, <3>2, <4>1, <4>2
    <3> QED BY <3>1, <3>3 DEF Considerate
  <2>3. stack \in Leaving
    <3>1. CASE stack = <<>>
      BY <3>1 DEF Leaving
    <3>2. CASE stack # <<>>
      <4>1. Head(stack) \notin Points \cup {"on_error", "on_timeout"}
        BY <2>2, <3>2 DEF Points
      <4> QED BY <2>2, <3>2, <4>1, LooseCallback, OpenFacts DEF Leaving
    <3> QED BY <3>1, <3>2
  <2> QED BY <2>1, <2>3, DestroyKeeps
<1>3. CASE AppEnds
  <2>1. AppMay("end") /\ (EndsQueued \/ stream.out = <<>>)
    BY <1>3 DEF AppEnds
  <2>2. stack # <<>> => Head(stack) \notin Points \cup {"on_error", "on_timeout"}
    <3>1. stack # <<>> => Head(stack) \in Contexts /\ "end" \in AppCalls[Head(stack)]
      BY <2>1 DEF AppMay, Context
    <3> QED BY <1>1, <3>1 DEF Considerate
  <2>3. CASE stream.ready_state = "WRITE_ONLY"
    <3>1. Destroy(TRUE, stack)
      BY <1>3, <2>3 DEF AppEnds
    <3>2. Ended /\ log.ended > 0
      BY <2>3, OpenFacts DEF StateAgrees, Ended
    <3>3. Phase(stack) = "other"
      <4>1. log.ended # 0
        BY <3>2
      <4>2. Phase(stack) \notin {"accepted", "connected", "fin_end", "fin_close"}
        BY <3>2, <4>1, OpenFacts DEF StateAgrees, Ended
      <4> QED BY <4>2 DEF Phase, Marks
    <3>4. stack \in Leaving
      <4>1. CASE stack = <<>>
        BY <4>1 DEF Leaving
      <4>2. CASE stack # <<>>
        BY <2>2, <3>3, <4>2, LooseCallback, OpenFacts DEF Leaving
      <4> QED BY <4>1, <4>2
    <3>5. log.ended = 1
      BY <3>2 DEF Whole, Heard
    <3> QED BY <2>1, <3>1, <3>4, <3>5, DestroyKeeps
  <2>4. CASE stream.ready_state # "WRITE_ONLY"
    <3>1. EndOutput /\ UNCHANGED <<io, timer, stack, log>>
      BY <1>3, <2>4 DEF AppEnds
    <3>2. /\ stream'.ready_state = "READ_ONLY" /\ stream'.heap = stream.heap
          /\ stream'.oneshot = stream.oneshot /\ stream'.has_list = stream.has_list
          /\ stream'.bufferlist = stream.bufferlist /\ stream'.out = stream.out
          /\ sock'.shut = TRUE /\ sock'.read = sock.read /\ sock'.fin = sock.fin
          /\ sock'.arrived = sock.arrived
      BY <3>1 DEF EndOutput, TypeOK, Streams, Sockets
    <3>3. io.cb = "on_activity"
      <4>1. ASSUME io.cb = "on_connect", stack = <<>> PROVE FALSE
        <5>1. stream.ready_state # "OPENING"
          BY <2>1, <4>1 DEF AppMay, Context, Considerate
        <5>2. ~sock.shut /\ ~Ended
          BY <4>1, OpenFacts DEF StateAgrees, Ended, TypeOK, Logs
        <5> QED BY <4>1, <5>1, <5>2, OpenFacts DEF StateAgrees
      <4>2. ASSUME io.cb = "on_connect", stack # <<>> PROVE FALSE
        <5>1. stack \in {<<"on_timeout", "timed_out">>, <<"timed_out">>}
          BY <4>2, OpenFacts DEF StateAgrees, Waiting
        <5>2. Head(stack) \in {"on_timeout", "timed_out"}
          BY <5>1, Frame
        <5> QED BY <2>2, <4>2, <5>2 DEF Points
      <4> QED BY <4>1, <4>2, OpenFacts DEF StateAgrees
    <3>4. ~Ended /\ (Ended' <=> Ended) /\ log.ended \in Nat
      BY <2>4, <3>1, OpenFacts DEF StateAgrees, Ended, TypeOK, Logs
    <3>5. StateAgrees'
      BY <3>1, <3>2, <3>3, <3>4, OpenFacts DEF StateAgrees
    <3>6. WatcherAgrees'
      BY <3>1, <3>2, <3>4, OpenFacts DEF WatcherAgrees
    <3>7. DataAgrees'
      BY <3>1, <3>2, OpenFacts DEF DataAgrees, Told
    <3>8. OutputAgrees'
      BY <2>1, <3>2 DEF OutputAgrees
    <3>9. Fresh' /\ Course' /\ Heard' /\ Complete'
      BY <3>1, <3>2, OpenFacts DEF Whole, Fresh, Course, Heard, Complete, Open, Alive, Told
    <3> QED BY <3>5, <3>6, <3>7, <3>8, <3>9 DEF Whole, Conversing
  <2> QED BY <2>3, <2>4
<1> QED BY <1>2, <1>3

-------------------------------------------------------------------------------
(***************************************************************************)
(* Waiting, and the points at which the library goes on.                   *)
(***************************************************************************)

\* Returning from a callback, setting the timeout, and what happens outside.
LEMMA OpenRests ==
  ASSUME TypeOK, Open, Whole,
         Return \/ AppSetsTimeout \/ Poll \/ Environment \/ UNCHANGED vars
  PROVE  Whole'
<1>1. /\ stack' \in Shapes /\ Phase(stack') = Phase(stack)
      /\ io.cb = "on_connect" => stack' \in Waiting
  <2>1. CASE Return
    <3>1. /\ stack # <<>> /\ Head(stack) \in Callbacks /\ stack' = Tail(stack)
          /\ stack \in Shapes
      BY <2>1, OpenFacts DEF Return
    <3>2. stack' \in Shapes /\ Phase(stack') = Phase(stack)
      BY <3>1, CallbackReturns
    <3>3. io.cb = "on_connect" => stack' \in Waiting
      <4>1. io.cb = "on_connect" => stack \in Waiting
        BY OpenFacts DEF StateAgrees
      <4>2. /\ Tail(<<"timed_out">>) = <<>>
            /\ Tail(<<"on_timeout", "timed_out">>) = <<"timed_out">>
        BY Frame
      <4> QED BY <3>1, <4>1, <4>2 DEF Waiting
    <3> QED BY <3>2, <3>3
  <2>2. CASE AppSetsTimeout \/ Poll \/ Environment \/ UNCHANGED vars
    <3>1. UNCHANGED stack
      BY <2>2, EnvironmentSteady DEF AppSetsTimeout, Poll
    <3> QED BY <3>1, OpenFacts DEF StateAgrees
  <2> QED BY <2>1, <2>2
<1>2. /\ UNCHANGED <<stream, log>>
      /\ sock'.shut = sock.shut /\ sock'.read = sock.read
      /\ sock.fin => sock'.fin /\ sock'.arrived = sock.arrived
  BY EnvironmentSteady DEF Return, AppSetsTimeout, Poll
<1>3. /\ io'.cb = io.cb /\ ("READ" \in io'.events <=> "READ" \in io.events)
      /\ io.active => io'.active
  <2>1. CASE Poll
    <3>1. \E ready : io' = [io EXCEPT !.pending = ready]
      BY <2>1 DEF Poll
    <3> QED BY <3>1 DEF TypeOK, Watchers
  <2>2. CASE Return \/ AppSetsTimeout \/ Environment \/ UNCHANGED vars
    <3>1. UNCHANGED io
      BY <2>2, EnvironmentSteady DEF Return, AppSetsTimeout
    <3> QED BY <3>1
  <2> QED BY <2>1, <2>2
<1>4. Steady
  BY <1>1, <1>2, <1>3 DEF Steady
<1> QED BY <1>4, SteadyKeeps

\* The points at which a handler of a stream in use can go on.
LEMMA OpenPoint ==
  ASSUME TypeOK, Open, Whole, stack # <<>>, Head(stack) \in Points
  PROVE  /\ Head(stack) \in {"accepted", "connected", "fin_end", "fin_close",
                             "read_failed", "timed_out"}
         /\ Tail(stack) = <<>>
         /\ Phase(stack) = IF Head(stack) \in Marks THEN Head(stack) ELSE "other"
  BY PointIsBottom, OpenFacts DEF Marks

\* The end of the handlers that read nothing: the stream is accepted, connected,
\* or idle for too long.
LEMMA OpenSettles ==
  ASSUME TypeOK, Open, Whole, Accepted \/ Connected \/ TimedOut
  PROVE  Whole'
<1>1. stack # <<>> /\ stack' = Tail(stack)
      /\ Head(stack) \in {"accepted", "connected", "timed_out"}
  BY OpenFacts DEF Accepted, Connected, TimedOut, At
<1>2. Tail(stack) = <<>> /\ Phase(stack) = IF Head(stack) \in Marks THEN Head(stack) ELSE "other"
  <2>1. Head(stack) \in Points
    BY <1>1 DEF Points
  <2> QED BY <1>1, <2>1, OpenPoint
<1>3. stack' \in Shapes /\ Phase(stack') = "other" /\ stack' \in Waiting
  BY <1>1, <1>2, PhaseOf DEF Shapes, Waiting
<1>4. UNCHANGED <<sock, log>>
  BY OpenFacts DEF Accepted, Connected, TimedOut, At
<1>5. CASE TimedOut
  <2>1. UNCHANGED <<stream, io>> /\ Head(stack) = "timed_out"
    BY <1>5, OpenFacts DEF TimedOut, At
  <2>2. Phase(stack') = Phase(stack)
    BY <1>2, <1>3, <2>1 DEF Marks
  <2>3. Steady
    BY <1>3, <1>4, <2>1, <2>2 DEF Steady
  <2> QED BY <2>3, SteadyKeeps
<1>6. CASE Accepted \/ Connected
  <2>1. /\ stream' = [stream EXCEPT !.has_list = stream.oneshot]
        /\ io' = [io EXCEPT !.active = TRUE] \/ (Connected /\ UNCHANGED io)
        /\ Head(stack) \in {"accepted", "connected"}
        /\ Connected => Head(stack) = "connected"
    BY <1>6, OpenFacts DEF Accepted, Connected, At
  <2>2. /\ stream'.heap = stream.heap /\ stream'.ready_state = stream.ready_state
        /\ stream'.oneshot = stream.oneshot /\ stream'.has_list = stream.oneshot
        /\ stream'.bufferlist = stream.bufferlist /\ stream'.out = stream.out
    BY <2>1 DEF TypeOK, Streams
  <2>3. /\ io'.cb = io.cb /\ io'.events = io.events
        /\ io'.active = TRUE \/ (Connected /\ io'.active = io.active)
    BY <2>1 DEF TypeOK, Watchers
  <2>4. Phase(stack) = Head(stack)
    BY <1>2, <2>1 DEF Marks
  <2>5. log.ended = 0 /\ io.cb = "on_activity" /\ ~Ended /\ ~Ended'
    <3>1. log.ended = 0 /\ io.cb = "on_activity"
      BY <2>1, <2>4, OpenFacts DEF StateAgrees
    <3> QED BY <1>4, <3>1 DEF Ended
  <2>6. StateAgrees'
    BY <1>3, <1>4, <2>2, <2>3, <2>5, OpenFacts DEF StateAgrees
  <2>7. WatcherAgrees'
    <3>1. io'.active
      BY <2>1, <2>3, <2>4, <2>5, OpenFacts DEF WatcherAgrees
    <3> QED BY <2>2, <2>3, <2>5, <3>1, OpenFacts DEF WatcherAgrees
  <2>8. DataAgrees'
    <3>1. Phase(stack) # "fin_end"
      BY <2>1, <2>4
    <3> QED BY <1>3, <1>4, <2>2, <2>5, <3>1, OpenFacts DEF DataAgrees, Told
  <2>9. OutputAgrees'
    BY <1>4, <2>2, OpenFacts DEF OutputAgrees
  <2>10. Fresh' /\ Course' /\ Heard' /\ Complete'
    BY <1>3, <1>4, <2>2, OpenFacts
       DEF Whole, Fresh, Course, Heard, Complete, Open, Alive, Told
  <2> QED BY <2>6, <2>7, <2>8, <2>9, <2>10 DEF Whole, Conversing
<1> QED BY <1>5, <1>6

\* The end of the handlers that read the peer's FIN, or an error.
LEMMA OpenFinishes ==
  ASSUME TypeOK, Order, Open, Whole, FinEnd \/ FinClose \/ ReadFailed
  PROVE  Whole'
<1>1. stack # <<>> /\ Head(stack) \in {"fin_end", "fin_close", "read_failed"}
  BY DEF FinEnd, FinClose, ReadFailed, At
<1>2. Tail(stack) = <<>> /\ Phase(stack) = IF Head(stack) \in Marks THEN Head(stack) ELSE "other"
  <2>1. Head(stack) \in Points
    BY <1>1 DEF Points
  <2> QED BY <1>1, <2>1, OpenPoint
<1>3. <<>> \in Leaving /\ <<>> \in Shapes /\ Phase(<<>>) = "other"
  BY PhaseOf DEF Leaving, Shapes
<1>4. CASE ReadFailed
  <2>1. Destroy(FALSE, <<>>)
    BY <1>2, <1>4, OpenFacts DEF ReadFailed, At
  <2> QED BY <1>3, <2>1, DestroyKeeps
<1>5. CASE FinEnd
  <2>1. /\ log' = [log EXCEPT !.ended = log.ended + 1]
        /\ stack' = Call("on_end") \o <<"fin_close">> \o <<>>
        /\ UNCHANGED <<stream, io, sock, timer>> /\ Head(stack) = "fin_end"
    BY <1>2, <1>5, OpenFacts DEF FinEnd, At
  <2>2. stack' \in {<<"on_end", "fin_close">>, <<"fin_close">>}
    BY <2>1, OnTop DEF Call
  <2>3. stack' \in Shapes /\ Phase(stack') = "fin_close"
    BY <2>2, PhaseOf DEF Shapes, Bracket, Marks
  <2>4. Phase(stack) = "fin_end"
    BY <1>2, <2>1 DEF Marks
  <2>5. /\ log.ended = 0 /\ io.cb = "on_activity" /\ ~Ended /\ ~Ended'
        /\ sock.fin /\ sock.read = sock.arrived /\ Told(Bytes(0, sock.read))
    <3>1. log.ended = 0 /\ io.cb = "on_activity"
      BY <2>4, OpenFacts DEF StateAgrees
    <3>2. sock.fin /\ sock.read = sock.arrived /\ Told(Bytes(0, sock.read))
      BY <2>4, OpenFacts DEF DataAgrees
    <3> QED BY <2>3, <3>1, <3>2 DEF Ended
  <2>6. /\ log'.ended = 1 /\ log'.delivered = log.delivered /\ log'.closed = log.closed
        /\ log'.send_failed = log.send_failed /\ log'.ub = log.ub
    BY <2>1, <2>5 DEF TypeOK, Logs
  <2>7. StateAgrees'
    BY <2>1, <2>3, <2>5, <2>6, OpenFacts DEF StateAgrees
  <2>8. WatcherAgrees'
    BY <2>1, <2>3, <2>4, <2>5, OpenFacts DEF WatcherAgrees
  <2>9. DataAgrees' /\ OutputAgrees'
    BY <2>1, <2>3, <2>6, OpenFacts DEF DataAgrees, OutputAgrees
  <2>10. Fresh' /\ Course' /\ Heard' /\ Complete'
    BY <2>1, <2>3, <2>5, <2>6, OpenFacts
       DEF Whole, Fresh, Course, Heard, Complete, Open, Alive, Told
  <2> QED BY <2>7, <2>8, <2>9, <2>10 DEF Whole, Conversing
<1>6. CASE FinClose
  <2>1. Head(stack) = "fin_close" /\ Phase(stack) = "fin_close"
    BY <1>2, <1>6 DEF FinClose, At, Marks
  <2>2. log.ended = 1 /\ ~Ended
    BY <2>1, OpenFacts DEF StateAgrees, Ended
  <2>3. CASE stream.ready_state = "READ_ONLY"
    <3>1. Destroy(TRUE, <<>>)
      BY <1>2, <1>6, <2>3, OpenFacts DEF FinClose, At
    <3>2. sock.shut
      BY <2>3, OpenFacts DEF StateAgrees
    <3>3. ~EndsQueued => stream.out = <<>>
      BY <3>2, OpenFacts DEF OutputAgrees
    <3> QED BY <1>3, <2>2, <3>1, <3>3, DestroyKeeps
  <2>4. CASE stream.ready_state # "READ_ONLY"
    <3>1. HalfClose /\ stack' = <<>> /\ UNCHANGED <<sock, timer, log>>
      BY <1>2, <1>6, <2>4, OpenFacts DEF FinClose, At
    <3>2. /\ stream'.heap = stream.heap /\ stream'.ready_state = "WRITE_ONLY"
          /\ stream'.oneshot = stream.oneshot /\ stream'.has_list = stream.has_list
          /\ stream'.bufferlist = stream.bufferlist /\ stream'.out = stream.out
      BY <3>1 DEF HalfClose, TypeOK, Streams
    <3>3. io'.cb = io.cb /\ io'.events = io.events \ {"READ"} /\ io'.active = TRUE
      BY <3>1 DEF HalfClose, TypeOK, Watchers
    <3>4. ~sock.shut /\ io.cb = "on_activity"
      <4>1. ~sock.shut
        BY <2>4, OpenFacts DEF StateAgrees
      <4> QED BY <2>2, <4>1, OpenFacts DEF StateAgrees
    <3>5. Ended' /\ Phase(stack') = "other"
      BY <1>3, <2>2, <3>1 DEF Ended
    <3>6. StateAgrees'
      BY <3>1, <3>2, <3>3, <3>4, <3>5, OpenFacts DEF StateAgrees
    <3>7. WatcherAgrees'
      <4>1. stream.has_list = stream.oneshot
        BY <2>1, <3>4, OpenFacts DEF WatcherAgrees
      <4> QED BY <3>2, <3>3, <3>5, <4>1 DEF WatcherAgrees
    <3>8. DataAgrees' /\ OutputAgrees'
      BY <2>2, <3>1, <3>2, <3>5, OpenFacts DEF DataAgrees, OutputAgrees
    <3>9. Fresh' /\ Course' /\ Heard' /\ Complete'
      BY <1>3, <3>1, <3>2, OpenFacts
         DEF Whole, Fresh, Course, Heard, Complete, Open, Alive, Told
    <3> QED BY <3>6, <3>7, <3>8, <3>9 DEF Whole, Conversing
  <2> QED BY <2>3, <2>4
<1> QED BY <1>4, <1>5, <1>6

-------------------------------------------------------------------------------
(***************************************************************************)
(* Reading, the FIN, and the timer.                                        *)
(***************************************************************************)

\* What recv returns follows what was read.
LEMMA ReadOn ==
  ASSUME TypeOK, NEW n \in 0..Len(Unread)
  PROVE  Bytes(0, sock.read) \o SubSeq(Unread, 1, n) = Bytes(0, sock.read + n)
<1> DEFINE r == sock.read
           a == sock.arrived
           s == Bytes(0, r)
           t == SubSeq(Unread, 1, n)
<1>1. r \in Nat /\ a \in Nat /\ r <= a
  BY DEF TypeOK, Sockets
<1>2. Unread \in Seq(Nat) /\ Len(Unread) = a - r /\ n \in Nat
  BY UnreadFacts
<1>3. Numbered(Unread, r)
  <2>1. a - r \in Nat /\ r + (a - r) = a
    BY <1>1
  <2>2. Numbered(Bytes(r, r + (a - r)), r)
    BY <1>1, <2>1, NewBytes
  <2> QED BY <2>1, <2>2 DEF Unread
<1>4. s \in Seq(Nat) /\ Len(s) = r /\ Numbered(s, 0)
  <2>1. Bytes(0, 0 + r) \in Seq(Nat) /\ Len(Bytes(0, 0 + r)) = r
        /\ Numbered(Bytes(0, 0 + r), 0)
    BY <1>1, NewBytes
  <2>2. 0 + r = r
    BY <1>1
  <2> QED BY <2>1, <2>2
<1>5. t \in Seq(Nat) /\ Len(t) = n /\ Numbered(t, r)
  BY <1>1, <1>2, <1>3, CutNumbered
<1> HIDE DEF s, t
<1>6. s \o t \in Seq(Nat) /\ Len(s \o t) = r + n /\ Numbered(s \o t, 0)
  <2>1. 0 + Len(s) = r /\ 0 \in Nat
    BY <1>1, <1>4
  <2> QED BY <1>4, <1>5, <2>1, AppendNumbered
<1>7. s \o t = Bytes(0, r + n)
  BY <1>6, NumberedIsBytes
<1> QED BY <1>7 DEF s, t

\* A stream in the loop: nothing is suspended.
LEMMA IdleFacts ==
  ASSUME TypeOK, Open, Whole, stack = <<>>
  PROVE  /\ Phase(stack) = "other" /\ (Ended <=> log.ended > 0)
         /\ io.cb = "on_activity" =>
              /\ "READ" \in io.events <=> log.ended = 0
              /\ io.active /\ stream.has_list = stream.oneshot
         /\ log.ended = 0 =>
              IF stream.oneshot
              THEN log.delivered = <<>> /\ stream.bufferlist = Bytes(0, sock.read)
              ELSE Told(Bytes(0, sock.read))
<1>1. Phase(stack) = "other"
  BY PhaseOf
<1>2. log.ended \in Nat
  BY DEF TypeOK, Logs
<1> QED BY <1>1, <1>2, OpenFacts DEF Ended, WatcherAgrees, DataAgrees

\* The timer calls, or is armed again.
LEMMA OpenTimes ==
  ASSUME TypeOK, Open, Whole, OnTimer
  PROVE  Whole'
<1>1. stack = <<>> /\ UNCHANGED <<stream, io, sock, log>>
  BY DEF OnTimer, InLoop
<1>2. stack' \in Waiting
  <2>1. stack' = Call("on_timeout") \o <<"timed_out">> \/ UNCHANGED stack
    BY DEF OnTimer
  <2> QED BY <1>1, <2>1, OnTop DEF Call, Waiting
<1>3. /\ stack' \in Shapes /\ Phase(stack') = Phase(stack)
      /\ io.cb = "on_connect" => stack' \in Waiting
  BY <1>1, <1>2, LooseStacks DEF Waiting
<1>4. Steady
  BY <1>1, <1>3 DEF Steady
<1> QED BY <1>4, SteadyKeeps

\* evn_stream_priv_on_writable.
LEMMA OpenDrains ==
  ASSUME TypeOK, Open, Whole, OnWritable
  PROVE  Whole'
<1>1. stack = <<>> /\ io.cb = "on_activity"
  BY DEF OnWritable, InLoop
<1>2. CASE stream.out # <<>> /\ ~CanSend
  <2>1. SendFails("check_closed") /\ UNCHANGED <<stream, sock>> /\ "check_closed" \in Points
    BY <1>2 DEF OnWritable, Points
  <2> QED BY <2>1, FailureKeeps
<1>3. CASE ~(stream.out # <<>> /\ ~CanSend)
  <2>1. /\ Sent(stream.out) /\ stream' = [stream EXCEPT !.out = Unsent(stream.out)]
        /\ UnwatchWrites \/ Dispatched
        /\ stack' = Call("on_drain") \/ UNCHANGED stack
        /\ UNCHANGED log
    BY <1>3 DEF OnWritable
  <2>2. /\ stream'.heap = stream.heap /\ stream'.ready_state = stream.ready_state
        /\ stream'.oneshot = stream.oneshot /\ stream'.has_list = stream.has_list
        /\ stream'.bufferlist = stream.bufferlist /\ stream'.out = Unsent(stream.out)
    BY <2>1 DEF TypeOK, Streams
  <2>3. stream.out = <<>> => stream'.out = <<>>
    <3>1. ASSUME stream.out = <<>> PROVE Unsent(stream.out) = <<>>
      <4>1. <<>> \in Seq(Nat) /\ Len(<<>>) = 0
        OBVIOUS
      <4>2. Taken(<<>>) \in 0..0 /\ Unsent(<<>>) \in Seq(Nat)
            /\ Len(Unsent(<<>>)) = 0 - Taken(<<>>)
        BY <4>1, SendFacts
      <4>3. Len(Unsent(<<>>)) = 0
        BY <4>2
      <4> QED BY <3>1, <4>2, <4>3, EmptySeq
    <3> QED BY <2>2, <3>1
  <2>4. stack' \in Shapes /\ Phase(stack') = Phase(stack)
    <3>1. stack' \in {<<>>, <<"on_drain">>}
      BY <1>1, <2>1 DEF Call
    <3> QED BY <1>1, <3>1, LooseStacks
  <2>5. /\ io'.cb = io.cb /\ ("READ" \in io'.events <=> "READ" \in io.events)
        /\ io.active => io'.active
    BY <2>1, WatcherSteady
  <2>6. /\ sock'.shut = sock.shut /\ sock'.read = sock.read
        /\ sock'.fin = sock.fin /\ sock'.arrived = sock.arrived
    BY <2>1, SentSteady
  <2>7. Steady
    BY <1>1, <2>1, <2>2, <2>3, <2>4, <2>5, <2>6 DEF Steady
  <2> QED BY <2>7, SteadyKeeps
<1> QED BY <1>2, <1>3

\* recv fails.
LEMMA OpenReadFails ==
  ASSUME TypeOK, Open, Whole, OnReadError
  PROVE  Whole'
<1>1. /\ stack = <<>> /\ io.cb = "on_activity" /\ Dispatched
      /\ stack' = Call("on_error") \o <<"read_failed">>
      /\ UNCHANGED <<stream, sock, log>>
  BY DEF OnReadError, ReadEvent, InLoop
<1>2. stack' \in Shapes /\ Phase(stack') = Phase(stack)
  <2>1. stack' \in {<<"on_error", "read_failed">>, <<"read_failed">>}
    BY <1>1, OnTop DEF Call
  <2> QED BY <1>1, <2>1, LooseStacks
<1>3. Steady
  BY <1>1, <1>2, WatcherSteady DEF Steady
<1> QED BY <1>3, SteadyKeeps

\* A read event finds the stream before its FIN.
LEMMA ReadFacts ==
  ASSUME TypeOK, Open, Whole, ReadEvent
  PROVE  /\ stack = <<>> /\ io.cb = "on_activity" /\ log.ended = 0 /\ "READ" \in io.events
         /\ io'.cb = io.cb /\ ("READ" \in io'.events <=> "READ" \in io.events)
         /\ io.active => io'.active
<1>1. stack = <<>> /\ io.cb = "on_activity" /\ "READ" \in io.pending /\ Dispatched
  BY DEF ReadEvent, InLoop
<1>2. "READ" \in io.events
  BY <1>1 DEF TypeOK
<1> QED BY <1>1, <1>2, IdleFacts, WatcherSteady

\* recv returns data.
LEMMA OpenReads ==
  ASSUME TypeOK, Open, Whole, OnData
  PROVE  Whole'
<1> DEFINE n == Least(Len(Unread), MaxRecv)
           data == SubSeq(Unread, 1, n)
<1>1. ReadEvent
  BY DEF OnData
<1>2. n \in 0..Len(Unread)
  <2>1. Len(Unread) \in Nat /\ MaxRecv \in Nat
    BY UnreadFacts, StreamAssumption
  <2> QED BY <2>1 DEF Least
<1>3. Bytes(0, sock.read) \o data = Bytes(0, sock.read + n)
  BY <1>2, ReadOn
<1>4. sock' = [sock EXCEPT !.read = sock.read + n]
  BY DEF OnData
<1>5. /\ sock'.read = sock.read + n /\ sock'.shut = sock.shut /\ sock'.fin = sock.fin
      /\ sock'.arrived = sock.arrived
  BY <1>4 DEF TypeOK, Sockets
<1> HIDE DEF n
<1>6. stack' \in Shapes /\ Phase(stack') = "other" /\ Phase(stack) = "other"
  <2>1. stack' = Call("on_data") \o <<>> \/ UNCHANGED stack
    BY DEF OnData, Deliver
  <2>2. stack' \in {<<>>, <<"on_data">>}
    BY <1>1, <2>1, OnTop, ReadFacts DEF Call
  <2>3. stack = <<>>
    BY <1>1, ReadFacts
  <2> QED BY <2>2, <2>3, LooseStacks
<1>7. /\ stream'.heap = stream.heap /\ stream'.ready_state = stream.ready_state
      /\ stream'.oneshot = stream.oneshot /\ stream'.has_list = stream.has_list
      /\ stream'.out = stream.out
  <2>1. stream' = stream \/ \E l : stream' = [stream EXCEPT !.bufferlist = l]
    BY DEF OnData
  <2> QED BY <2>1 DEF TypeOK, Streams
<1>8. /\ log'.ended = log.ended /\ log'.closed = log.closed
      /\ log'.send_failed = log.send_failed /\ log'.ub = log.ub
  <2>1. log' = log \/ \E d : log' = [log EXCEPT !.delivered = d]
    BY DEF OnData, Deliver
  <2> QED BY <2>1 DEF TypeOK, Logs
<1>9. DataAgrees'
  <2>1. CASE stream.oneshot
    <3>1. stream' = [stream EXCEPT !.bufferlist = stream.bufferlist \o data] /\ log' = log
      BY <2>1 DEF OnData, n
    <3>2. stream'.bufferlist = stream.bufferlist \o data
      BY <3>1 DEF TypeOK, Streams
    <3>3. stream.bufferlist = Bytes(0, sock.read) /\ log.delivered = <<>>
      BY <1>1, <2>1, ReadFacts, IdleFacts
    <3> QED BY <1>3, <1>5, <1>6, <1>7, <2>1, <3>1, <3>2, <3>3 DEF DataAgrees
  <2>2. CASE ~stream.oneshot
    <3>1. ASSUME "on_data" \in Installed
          PROVE  log'.delivered = Bytes(0, sock.read + n)
      <4>1. log' = [log EXCEPT !.delivered = log.delivered \o data]
        BY <2>2, <3>1 DEF OnData, Deliver, n
      <4>2. log'.delivered = log.delivered \o data
        BY <4>1 DEF TypeOK, Logs
      <4>3. log.delivered = Bytes(0, sock.read)
        BY <1>1, <2>2, <3>1, ReadFacts, IdleFacts DEF Told
      <4> QED BY <1>3, <4>2, <4>3
    <3>2. Told(Bytes(0, sock.read))'
      BY <1>5, <3>1 DEF Told, Bytes
    <3> QED BY <1>6, <1>7, <2>2, <3>2 DEF DataAgrees
  <2> QED BY <2>1, <2>2
<1>10. ~Ended /\ ~Ended' /\ log.ended = 0 /\ io.cb = "on_activity"
  BY <1>1, <1>8, ReadFacts DEF Ended
<1>11. StateAgrees'
  BY <1>1, <1>5, <1>6, <1>7, <1>8, <1>10, ReadFacts, OpenFacts DEF StateAgrees
<1>12. WatcherAgrees'
  BY <1>1, <1>6, <1>7, <1>10, ReadFacts, OpenFacts DEF WatcherAgrees
<1>13. OutputAgrees'
  BY <1>5, <1>7, OpenFacts DEF OutputAgrees
<1>14. Fresh' /\ Course' /\ Heard' /\ Complete'
  BY <1>6, <1>7, <1>8, <1>10, OpenFacts
     DEF Whole, Fresh, Course, Heard, Complete, Open, Alive
<1> QED BY <1>9, <1>11, <1>12, <1>13, <1>14 DEF Whole, Conversing

\* recv returns the FIN.
LEMMA OpenFins ==
  ASSUME TypeOK, Open, Whole, OnFin
  PROVE  Whole'
<1>1. /\ ReadEvent /\ Unread = <<>> /\ sock.fin /\ UNCHANGED <<stream, sock>>
      /\ IF stream.oneshot /\ stream.bufferlist # <<>>
         THEN Deliver(stream.bufferlist, <<"fin_end">>)
         ELSE stack' = <<"fin_end">> /\ UNCHANGED log
  BY DEF OnFin
<1>2. stack' \in Shapes /\ Phase(stack') = "fin_end"
  <2>1. stack' = Call("on_data") \o <<"fin_end">> \/ stack' = <<"fin_end">>
    BY <1>1 DEF Deliver
  <2>2. stack' \in {<<"on_data", "fin_end">>, <<"fin_end">>}
    BY <2>1, OnTop DEF Call
  <2> QED BY <2>2, PhaseOf DEF Shapes, Bracket, Marks
<1>3. sock.read = sock.arrived /\ sock.read \in Nat
  <2>1. Len(Unread) = sock.arrived - sock.read /\ Len(<<>>) = 0
    BY UnreadFacts
  <2>2. Len(Unread) = 0
    BY <1>1, <2>1, Zenon
  <2> QED BY <2>1, <2>2 DEF TypeOK, Sockets
<1>4. log.ended = 0 /\ io.cb = "on_activity" /\ stack = <<>>
  BY <1>1, ReadFacts
<1>5. /\ log'.ended = log.ended /\ log'.closed = log.closed
      /\ log'.send_failed = log.send_failed /\ log'.ub = log.ub
  <2>1. log' = log \/ \E d : log' = [log EXCEPT !.delivered = d]
    BY <1>1 DEF Deliver
  <2> QED BY <2>1 DEF TypeOK, Logs
<1>6. ASSUME "on_data" \in Installed PROVE log'.delivered = Bytes(0, sock.read)
  <2>1. CASE stream.oneshot
    <3>1. log.delivered = <<>> /\ stream.bufferlist = Bytes(0, sock.read)
      BY <1>4, <2>1, IdleFacts
    <3>2. CASE stream.bufferlist # <<>>
      <4>1. log' = [log EXCEPT !.delivered = log.delivered \o stream.bufferlist]
        BY <1>1, <1>6, <2>1, <3>2 DEF Deliver
      <4>2. log'.delivered = log.delivered \o stream.bufferlist
        BY <4>1 DEF TypeOK, Logs
      <4>3. stream.bufferlist \in Seq(Nat)
        BY DEF TypeOK, Streams
      <4>4. <<>> \o stream.bufferlist = stream.bufferlist
        BY <4>3, ConcatEmptySeq
      <4> QED BY <3>1, <4>2, <4>4
    <3>3. CASE stream.bufferlist = <<>>
      BY <1>1, <3>1, <3>3
    <3> QED BY <3>2, <3>3
  <2>2. CASE ~stream.oneshot
    BY <1>1, <1>4, <1>6, <2>2, IdleFacts DEF Told
  <2> QED BY <2>1, <2>2
<1>7. DataAgrees'
  <2>1. Told(Bytes(0, sock.read))'
    BY <1>1, <1>6 DEF Told, Bytes
  <2> QED BY <1>1, <1>2, <1>3, <2>1 DEF DataAgrees
<1>8. ~Ended /\ ~Ended'
  BY <1>4, <1>5 DEF Ended
<1>9. StateAgrees'
  BY <1>1, <1>2, <1>4, <1>5, <1>8, ReadFacts, OpenFacts DEF StateAgrees
<1>10. WatcherAgrees'
  BY <1>1, <1>2, <1>4, <1>8, ReadFacts, IdleFacts DEF WatcherAgrees
<1>11. OutputAgrees'
  BY <1>1, OpenFacts DEF OutputAgrees
<1>12. Fresh' /\ Course' /\ Heard' /\ Complete'
  BY <1>1, <1>2, <1>4, <1>5, OpenFacts
     DEF Whole, Fresh, Course, Heard, Complete, Open, Alive
<1> QED BY <1>7, <1>9, <1>10, <1>11, <1>12 DEF Whole, Conversing

\* The connect event.
LEMMA OpenConnects ==
  ASSUME TypeOK, Open, Whole, OnConnect
  PROVE  Whole'
<1>1. /\ stack = <<>> /\ io.cb = "on_connect"
      /\ stream' = [stream EXCEPT !.ready_state = "OPEN"]
      /\ io' = [active |-> TRUE, events |-> {"READ", "WRITE"},
                cb |-> "on_activity", pending |-> {}]
      /\ stack' = Call("on_connect") \o <<"connected">>
      /\ UNCHANGED <<sock, timer, log>>
  BY DEF OnConnect, InLoop
<1>2. stack' \in Shapes /\ Phase(stack') = "connected" /\ Phase(stack) = "other"
  <2>1. stack' \in {<<"on_connect", "connected">>, <<"connected">>}
    BY <1>1, OnTop DEF Call
  <2>2. stack' \in Shapes
    BY <2>1 DEF Shapes, Bracket
  <2>3. "connected" \in Marks
    BY DEF Marks
  <2>4. Phase(stack') = "connected"
    BY <2>1, <2>3, PhaseOf
  <2>5. Phase(stack) = "other"
    BY <1>1, LooseStacks
  <2> QED BY <2>2, <2>4, <2>5
<1>3. /\ stream'.heap = stream.heap /\ stream'.ready_state = "OPEN"
      /\ stream'.oneshot = stream.oneshot /\ stream'.has_list = stream.has_list
      /\ stream'.out = stream.out /\ stream'.bufferlist = stream.bufferlist
  BY <1>1 DEF TypeOK, Streams
<1>4. io'.cb = "on_activity" /\ "READ" \in io'.events /\ io'.active
  BY <1>1
<1>5. ~sock.shut /\ log.ended = 0 /\ ~Ended /\ ~Ended'
  BY <1>1, OpenFacts DEF StateAgrees, Ended
<1>6. StateAgrees' /\ WatcherAgrees'
  BY <1>1, <1>2, <1>3, <1>4, <1>5 DEF StateAgrees, WatcherAgrees
<1>7. DataAgrees' /\ OutputAgrees'
  BY <1>1, <1>2, <1>3, <1>5, OpenFacts DEF DataAgrees, OutputAgrees, Told
<1>8. Fresh' /\ Course' /\ Heard' /\ Complete'
  BY <1>1, <1>2, <1>3, <1>5, OpenFacts
     DEF Whole, Fresh, Course, Heard, Complete, Open, Alive
<1> QED BY <1>6, <1>7, <1>8 DEF Whole, Conversing

-------------------------------------------------------------------------------
(***************************************************************************)
(* Every step, and the theorems.                                           *)
(***************************************************************************)

\* Every step of a stream in use.
LEMMA OpenKeeps ==
  ASSUME TypeOK, Order, Open, Whole, Considerate, [Next]_vars
  PROVE  Whole'
<1>1. CASE Library
  <2>1. ~(Free \/ SendFailed \/ WatchWritesAfterFailure \/ CheckClosed)
    <3>1. ASSUME NEW p \in {"free", "send_failed", "watch_writes", "check_closed"},
                 stack # <<>>, Head(stack) = p
          PROVE  FALSE
      <4>1. Head(stack) \in Points
        BY <3>1 DEF Points
      <4> QED BY <3>1, <4>1, OpenPoint
    <3> QED BY <3>1 DEF Free, SendFailed, WatchWritesAfterFailure, CheckClosed, At
  <2> QED BY <1>1, <2>1, OpenSettles, OpenFinishes, OpenTimes, OpenDrains, OpenReadFails,
             OpenReads, OpenFins, OpenConnects, OpenRests DEF Library
<1>2. CASE Application
  <2>1. ~(Accept \/ Connect \/ ConnectFails)
    BY OpenFacts DEF Accept, Connect, ConnectFails
  <2> QED BY <1>2, <2>1, OpenWrites, OpenEnds, OpenRests DEF Application
<1>3. CASE Environment \/ UNCHANGED vars
  BY <1>3, OpenRests
<1> QED BY <1>1, <1>2, <1>3 DEF Next

\* The creation of a stream.
LEMMA BirthKeeps ==
  ASSUME TypeOK, Order, Watched, Whole, stream.heap = "none", [Next]_vars
  PROVE  Whole'
<1>1. /\ log.closed = 0 /\ stack = <<>> /\ stream.out = <<>> /\ ~Alive
      /\ stream.bufferlist = <<>> /\ ~sock.shut /\ sock.read = 0
      /\ log.ended = 0 /\ log.delivered = <<>> /\ ~log.send_failed /\ log.ub = "none"
  BY DEF Order, Watched, Whole, Fresh, Course, Alive
<1>2. log.closed = 0 /\ ~(log.closed > 0) /\ ~(log.ended > 0)
  BY <1>1
<1>3. Bytes(0, 0) = <<>>
  BY DEF Bytes
<1>4. CASE ConnectFails
  <2>1. stream'.heap = "freed" /\ UNCHANGED <<sock, stack, log>>
    BY <1>4 DEF ConnectFails, TypeOK, Streams
  <2> QED BY <1>1, <1>2, <2>1 DEF Whole, Fresh, Course, Conversing, Heard, Complete, Open,
             Alive, Leaving
<1>5. ASSUME NEW r, NEW o, stream' = [stream EXCEPT !.heap = "alive", !.ready_state = r,
                                                    !.oneshot = o],
             sock' = [sock EXCEPT !.open = TRUE], UNCHANGED log,
             \/ /\ r = "OPEN" /\ stack' = Call("on_connection") \o <<"accepted">>
                /\ io' = [active |-> FALSE, events |-> {"READ", "WRITE"},
                          cb |-> "on_activity", pending |-> {}]
             \/ /\ r = "OPENING" /\ UNCHANGED stack
                /\ io' = [active |-> TRUE, events |-> {"WRITE"}, cb |-> "on_connect",
                          pending |-> {}]
      PROVE  Whole'
  <2>1. /\ stream'.heap = "alive" /\ stream'.ready_state = r /\ stream'.oneshot = o
        /\ stream'.out = <<>> /\ stream'.bufferlist = <<>>
    BY <1>1, <1>5 DEF TypeOK, Streams
  <2>2. ~sock'.shut /\ sock'.read = 0
    BY <1>1, <1>5 DEF TypeOK, Sockets
  <2>3. /\ stack' \in Shapes
        /\ \/ r = "OPEN" /\ Phase(stack') = "accepted" /\ io'.cb = "on_activity"
              /\ "READ" \in io'.events
           \/ r = "OPENING" /\ Phase(stack') = "other" /\ io'.cb = "on_connect"
              /\ stack' = <<>>
    <3>1. CASE r = "OPEN"
      <4>1. /\ stack' = Call("on_connection") \o <<"accepted">>
            /\ io'.cb = "on_activity" /\ "READ" \in io'.events
        BY <1>5, <3>1
      <4>2. stack' \in {<<"on_connection", "accepted">>, <<"accepted">>}
        BY <4>1, OnTop DEF Call
      <4>3. "accepted" \in Marks
        BY DEF Marks
      <4>4. stack' \in Shapes
        BY <4>2 DEF Shapes, Bracket
      <4>5. Phase(stack') = "accepted"
        BY <4>2, <4>3, PhaseOf
      <4> QED BY <3>1, <4>1, <4>4, <4>5
    <3>2. CASE r # "OPEN"
      <4>1. r = "OPENING" /\ stack' = <<>> /\ io'.cb = "on_connect"
        BY <1>1, <1>5, <3>2
      <4>2. <<>> \in Shapes /\ Phase(<<>>) = "other"
        BY LooseStacks
      <4> QED BY <4>1, <4>2
    <3> QED BY <3>1, <3>2
  <2>4. log' = log /\ ~Ended'
    BY <1>1, <1>5 DEF Ended
  <2>5. StateAgrees' /\ WatcherAgrees'
    BY <1>1, <2>1, <2>2, <2>3, <2>4 DEF StateAgrees, WatcherAgrees, Waiting
  <2>6. DataAgrees' /\ OutputAgrees'
    <3>1. Told(Bytes(0, sock.read))'
      BY <1>1, <1>3, <2>2, <2>4 DEF Told
    <3>2. Phase(stack') # "fin_end"
      BY <2>3
    <3>3. log'.delivered = <<>> /\ stream'.bufferlist = Bytes(0, sock'.read)
      BY <1>1, <1>3, <2>1, <2>2, <2>4
    <3> QED BY <1>1, <2>1, <2>2, <3>1, <3>2, <3>3 DEF DataAgrees, OutputAgrees
  <2>7. Fresh' /\ Course' /\ Heard' /\ Complete'
    BY <1>1, <1>2, <2>1, <2>3, <2>4 DEF Fresh, Course, Heard, Complete, Open, Alive
  <2> QED BY <2>5, <2>6, <2>7 DEF Whole, Conversing
<1>6. CASE Accept \/ Connect
  <2>1. PICK o \in Oneshots, r \in {"OPEN", "OPENING"} :
          stream' = [stream EXCEPT !.heap = "alive", !.ready_state = r, !.oneshot = o]
          /\ IF r = "OPEN" THEN Accept ELSE Connect
    BY <1>6 DEF Accept, Connect
  <2> QED BY <1>5, <2>1 DEF Accept, Connect
<1>7. CASE UNCHANGED <<stream, io, timer, stack, log>> /\ ~(Accept \/ Connect \/ ConnectFails)
  <2>1. sock'.shut = sock.shut /\ sock'.read = sock.read
    <3>1. ~Library
      <4>1. ~InLoop \/ (io.cb = "none" /\ ~io.active /\ ~timer.armed)
        BY DEF Watched
      <4> QED BY <1>1, <4>1 DEF Watched, Library, Accepted, Connected, Free, ReadFailed,
             SendFailed, WatchWritesAfterFailure, CheckClosed, FinEnd, FinClose, TimedOut,
             At, OnConnect, OnData, OnReadError, OnFin, ReadEvent, OnWritable, OnTimer,
             Fires, Poll
    <3>2. ~Application
      BY <1>1, <1>7 DEF Application, AppWrites, AppEnds, AppDestroys, AppSetsTimeout,
         AppMay, Return
    <3> QED BY <3>1, <3>2, EnvironmentSteady DEF Next
  <2> QED BY <1>1, <1>2, <1>7, <2>1
          DEF Whole, Fresh, Course, Conversing, Heard, Complete, Open, Alive
<1> QED BY <1>4, <1>6, <1>7, NothingBeforeBirth

\* What the process of the stream does; the rest is the network's and the clock's.
Local ==
  \/ Library \/ Accept \/ Connect \/ ConnectFails \/ Return
  \/ AppWrites \/ AppEnds \/ AppDestroys

\* What a step can do once a send has failed or the stream is being destroyed.
LEMMA HaltedStep ==
  ASSUME TypeOK, Watched, Over, Whole, Considerate, ~Open, stream.heap # "none", [Next]_vars
  PROVE  /\ sock'.read = sock.read /\ sock'.wire = sock.wire
         /\ sock.fin => sock'.fin /\ sock'.arrived = sock.arrived
         /\ \/ UNCHANGED <<stream, stack, log>>
            \/ /\ UNCHANGED <<stream, log>> /\ stack # <<>> /\ stack' = Tail(stack)
               /\ Head(stack) \in Callbacks
            \/ /\ UNCHANGED log /\ stack # <<>> /\ stack' = Tail(stack)
               /\ Head(stack) = "free" /\ stream'.heap = "freed"
            \/ /\ \E p \in Points : Fault(p) /\ stack # <<>> /\ Head(stack) = p
               /\ stream.heap = "freed"
            \/ Alive /\ log.send_failed /\ \E rest : Destroy(FALSE, rest)
         /\ Local => UNCHANGED sock \/ \E rest : Destroy(FALSE, rest)
<1>1. CASE Gone
  <2>1. Alive => stack # <<>> /\ Head(stack) \in {"free", "on_close"}
    BY <1>1 DEF Over, Gone, Alive
  <2>2. ~io.active /\ io.pending = {} /\ ~timer.armed
    BY <1>1 DEF Over, TypeOK
  <2>3. stream.heap \in {"alive", "freed"} /\ (Alive <=> stream.heap = "alive")
    BY DEF TypeOK, Streams, Alive
  <2>4. CASE Library
    <3>1. ~(OnConnect \/ OnData \/ OnReadError \/ OnFin \/ OnWritable \/ OnTimer \/ Poll)
      BY <2>2 DEF OnConnect, OnData, OnReadError, OnFin, ReadEvent, OnWritable, OnTimer,
         Fires, Poll
    <3>2. ASSUME NEW p \in Points, p # "free", stack # <<>>, Head(stack) = p
          PROVE  stream.heap = "freed"
      <4>1. p # "on_close"
        BY DEF Points
      <4> QED BY <2>1, <2>3, <3>2, <4>1
    <3>3. {"accepted", "connected", "timed_out", "send_failed", "read_failed",
           "watch_writes", "check_closed", "fin_end", "fin_close", "free"} \subseteq Points
      BY DEF Points
    <3>4. (\E p \in Points : Fault(p) /\ stack # <<>> /\ Head(stack) = p /\ stream.heap = "freed")
          \/ (Free /\ stream.heap # "freed")
      BY <2>4, <3>1, <3>2, <3>3 DEF Library, Accepted, Connected, Free, ReadFailed, SendFailed,
         WatchWritesAfterFailure, CheckClosed, FinEnd, FinClose, TimedOut, At
    <3>5. CASE \E p \in Points : Fault(p) /\ stack # <<>> /\ Head(stack) = p
                               /\ stream.heap = "freed"
      BY <3>5 DEF Fault
    <3>6. CASE Free /\ stream.heap # "freed"
      <4>1. /\ stream' = [stream EXCEPT !.heap = "freed", !.out = <<>>,
                                        !.bufferlist = <<>>, !.has_list = FALSE]
            /\ stack # <<>> /\ Head(stack) = "free" /\ stack' = Tail(stack)
            /\ UNCHANGED <<io, sock, timer, log>>
        BY <3>6 DEF Free, At
      <4>2. stream'.heap = "freed"
        BY <4>1 DEF TypeOK, Streams
      <4> QED BY <4>1, <4>2
    <3> QED BY <3>4, <3>5, <3>6
  <2>5. CASE Application
    <3>1. ~(Accept \/ Connect \/ ConnectFails)
      BY DEF Accept, Connect, ConnectFails
    <3>2. ASSUME NEW call, AppMay(call) PROVE FALSE
      <4>1. Alive /\ Context \in Contexts /\ call \in AppCalls[Context]
        BY <3>2 DEF AppMay
      <4>2. Context = Head(stack)
        BY <2>1, <4>1 DEF Context
      <4>3. "free" \notin Contexts
        BY DEF Contexts, Callbacks
      <4> QED BY <2>1, <4>1, <4>2, <4>3 DEF Considerate, Quiet
    <3>3. Return
      BY <2>5, <3>1, <3>2 DEF Application, AppWrites, AppEnds, AppDestroys, AppSetsTimeout
    <3> QED BY <3>3 DEF Return
  <2>6. CASE (Environment \/ UNCHANGED vars) /\ ~Library /\ ~Application
    BY <2>6, EnvironmentSteady DEF Local, Application
  <2> QED BY <2>4, <2>5, <2>6 DEF Next
<1>2. CASE ~Gone
  <2>1. log.closed = 0 /\ Alive /\ log.send_failed /\ SendFailing(stack)
    BY <1>2 DEF Gone, Open, Alive, TypeOK, Streams, Logs, Whole, Course
  <2>2. stack # <<>> /\ Head(stack) \in {"send_failed", "on_error"} /\ ~InLoop
    BY <2>1 DEF SendFailing, InLoop
  <2>3. stream.heap # "freed"
    BY <2>1 DEF Alive
  <2>4. CASE Library
    <3>1. SendFailed
      <4>1. ~(OnConnect \/ OnData \/ OnReadError \/ OnFin \/ OnWritable \/ OnTimer \/ Poll)
        BY <2>2 DEF OnConnect, OnData, OnReadError, OnFin, ReadEvent, OnWritable, OnTimer, Poll
      <4>2. \A p \in {"accepted", "connected", "timed_out", "read_failed", "watch_writes",
                     "check_closed", "fin_end", "fin_close", "free"} : Head(stack) # p
        BY <2>2
      <4> QED BY <2>4, <4>1, <4>2 DEF Library, Accepted, Connected, Free, ReadFailed,
              WatchWritesAfterFailure, CheckClosed, FinEnd, FinClose, TimedOut, At
    <3>2. Destroy(FALSE, Tail(stack))
      BY <2>3, <3>1 DEF SendFailed, At
    <3>3. sock'.read = sock.read /\ sock'.wire = sock.wire
          /\ sock'.fin = sock.fin /\ sock'.arrived = sock.arrived
      BY <3>2 DEF Destroy, TypeOK, Sockets
    <3> QED BY <2>1, <3>2, <3>3
  <2>5. CASE Application
    <3>1. ~(Accept \/ Connect \/ ConnectFails)
      BY DEF Accept, Connect, ConnectFails
    <3>2. ASSUME NEW call, AppMay(call) PROVE call = "set_timeout"
      <4>1. Context \in Contexts /\ call \in AppCalls[Context] /\ Context = Head(stack)
        BY <2>2, <3>2 DEF AppMay, Context
      <4>2. "send_failed" \notin Contexts
        BY DEF Contexts, Callbacks
      <4> QED BY <2>2, <4>1, <4>2 DEF Considerate
    <3>3. Return \/ AppSetsTimeout
      BY <2>5, <3>1, <3>2 DEF Application, AppWrites, AppEnds, AppDestroys
    <3> QED BY <3>3 DEF Return, AppSetsTimeout
  <2>6. CASE (Environment \/ UNCHANGED vars) /\ ~Library /\ ~Application
    BY <2>6, EnvironmentSteady DEF Local, Application
  <2> QED BY <2>4, <2>5, <2>6 DEF Next
<1> QED BY <1>1, <1>2

\* Such a step keeps what is known of the stream.
LEMMA HaltedKeeps ==
  ASSUME TypeOK, Watched, Over, Whole, Considerate, ~Open, stream.heap # "none", [Next]_vars
  PROVE  Whole'
<1>1. /\ sock'.read = sock.read /\ sock'.wire = sock.wire
      /\ sock.fin => sock'.fin /\ sock'.arrived = sock.arrived
  BY HaltedStep
<1>2. log.closed \in Nat /\ log \in Logs /\ stream.heap \in {"none", "alive", "freed"}
  BY DEF TypeOK, Logs, Streams
<1>3. ASSUME UNCHANGED log,
             \/ UNCHANGED <<stream, stack, log>>
             \/ /\ UNCHANGED <<stream, log>> /\ stack # <<>> /\ stack' = Tail(stack)
                /\ Head(stack) \in Callbacks
             \/ /\ stack # <<>> /\ stack' = Tail(stack)
                /\ Head(stack) = "free" /\ stream'.heap = "freed"
      PROVE  Whole'
  <2>1. Heard' /\ Complete'
    BY <1>1, <1>3 DEF Whole, Heard, Complete, Told
  <2>2. CASE UNCHANGED <<stream, stack, log>>
    BY <2>1, <2>2 DEF Whole, Fresh, Course, Conversing, Open, Alive
  <2>3. CASE /\ UNCHANGED <<stream, log>> /\ stack # <<>> /\ stack' = Tail(stack)
             /\ Head(stack) \in Callbacks
    <3>1. "send_failed" \notin Callbacks /\ "free" \notin Callbacks
      BY DEF Callbacks
    <3>2. SendFailing(stack) => SendFailing(stack')
      BY <2>3, <3>1 DEF SendFailing
    <3>3. stack \in Leaving => stack' \in Leaving
      BY <2>3, Frame DEF Leaving
    <3>4. stack \in Freeing => stack' \in Freeing
      <4>1. ASSUME NEW p, stack \in {<<"free">>, <<"free", p>>} PROVE FALSE
        BY <2>3, <3>1, <4>1, Frame
      <4>2. ASSUME stack = <<"on_close", "free">> PROVE stack' = <<"free">>
        BY <2>3, <4>2
      <4>3. ASSUME NEW p, stack = <<"on_close", "free", p>> PROVE stack' = <<"free", p>>
        BY <2>3, <4>3
      <4> QED BY <4>1, <4>2, <4>3 DEF Freeing
    <3> QED BY <2>1, <2>3, <3>2, <3>3, <3>4 DEF Whole, Fresh, Course, Conversing, Open, Alive
  <2>4. CASE /\ stack # <<>> /\ stack' = Tail(stack)
             /\ Head(stack) = "free" /\ stream'.heap = "freed"
    <3>1. CASE log.send_failed
      BY <1>3, <2>1, <2>4, <3>1 DEF Whole, Fresh, Course, Conversing, Open, Alive
    <3>2. CASE ~log.send_failed
      <4>1. stack \in Freeing \/ stack \in Leaving
        BY <1>2, <3>2 DEF Whole, Course, Open, Alive
      <4>2. \A p : /\ Tail(<<"free">>) = <<>> /\ Tail(<<"free", p>>) = <<p>>
                   /\ Head(<<p>>) = p
                   /\ Head(<<"on_close", "free">>) # "free"
                   /\ Head(<<"on_close", "free", p>>) # "free"
        BY Frame
      <4>3. stack' \in Leaving
        BY <2>4, <4>1, <4>2 DEF Freeing, Leaving
      <4> QED BY <1>3, <2>1, <2>4, <4>3 DEF Whole, Fresh, Course, Conversing, Open, Alive
    <3> QED BY <3>1, <3>2
  <2> QED BY <1>3, <2>2, <2>3, <2>4
<1>4. CASE /\ \E p \in Points : Fault(p) /\ stack # <<>> /\ Head(stack) = p
           /\ stream.heap = "freed"
  <2>1. PICK p \in Points : Fault(p) /\ stack # <<>> /\ Head(stack) = p
    BY <1>4
  <2>2. log.send_failed
    <3>1. stack \in Leaving => FALSE
      <4>1. Head(<<"on_data">>) = "on_data" /\ Head(<<"on_drain">>) = "on_drain"
        BY Frame
      <4> QED BY <2>1, <4>1 DEF Leaving, Points
    <3> QED BY <1>4, <3>1 DEF Whole, Course
  <2>3. /\ log'.closed = log.closed /\ log'.ended = log.ended /\ log'.had_error = log.had_error
        /\ log'.send_failed = log.send_failed /\ log'.delivered = log.delivered
        /\ log'.written = log.written
        /\ UNCHANGED <<stream, sock, stack>>
    BY <1>2, <2>1 DEF Fault, Logs
  <2>4. Heard' /\ Complete'
    BY <2>3 DEF Whole, Heard, Complete, Told
  <2> QED BY <1>4, <2>2, <2>3, <2>4 DEF Whole, Fresh, Course, Conversing, Open, Alive
<1>5. CASE Alive /\ log.send_failed /\ \E rest : Destroy(FALSE, rest)
  <2>1. /\ log'.closed = log.closed + 1 /\ log'.had_error = TRUE
        /\ log'.send_failed = TRUE /\ log'.ended = log.ended
        /\ log'.delivered = log.delivered /\ log'.ub = log.ub
    BY <1>2, <1>5 DEF Destroy, Logs
  <2>2. stream'.heap = stream.heap
    BY <1>5 DEF Destroy, TypeOK, Streams
  <2>3. Heard' /\ Complete'
    BY <1>1, <2>1 DEF Whole, Heard, Complete, Told
  <2> QED BY <1>2, <1>5, <2>1, <2>2, <2>3 DEF Whole, Fresh, Course, Conversing, Open, Alive
<1> QED BY <1>3, <1>4, <1>5, HaltedStep

\* The inductive invariant.
LEMMA AlwaysWhole == Considerate => (Spec => [](TypeOK /\ Order /\ Watched /\ Over /\ Whole))
<1> SUFFICES ASSUME Considerate
             PROVE  Spec => [](TypeOK /\ Order /\ Watched /\ Over /\ Whole)
  OBVIOUS
<1>1. Quiet
  BY DEF Considerate
<1>2. Init => TypeOK /\ Order /\ Watched /\ Over /\ Whole
  <2> SUFFICES ASSUME Init PROVE TypeOK /\ Order /\ Watched /\ Over /\ Whole
    OBVIOUS
  <2>1. TypeOK
    BY InitTypeOK
  <2>2. Order /\ Watched /\ Over
    BY DEF Init, Order, Numbered, Watched, Over, Gone, Closing, Alive, NoTimer
  <2>3. Whole
    BY DEF Init, Whole, Fresh, Course, Conversing, Open, Alive, Heard, Complete
  <2> QED BY <2>1, <2>2, <2>3
<1>3. TypeOK /\ Order /\ Watched /\ Over /\ Whole /\ [Next]_vars => Order' /\ Watched' /\ Over'
  BY <1>1, NextOrder, NextWatched, NextOver
<1>4. TypeOK /\ Order /\ Watched /\ Over /\ Whole /\ [Next]_vars => Whole'
  BY OpenKeeps, BirthKeeps, HaltedKeeps
<1> QED BY <1>2, <1>3, <1>4, TypeCorrect, PTL DEF Spec

\* A stream that control has returned from, and that nobody has closed.
LEMMA IdleIsOpen ==
  ASSUME TypeOK, Over, Whole, Idle
  PROVE  Open /\ stack = <<>>
<1>1. stack = <<>> /\ Alive
  BY DEF Idle, InLoop
<1>2. log.closed = 0
  BY <1>1 DEF Over, TypeOK, Logs
<1>3. ~log.send_failed
  BY <1>1, <1>2 DEF Whole, Course, SendFailing
<1> QED BY <1>1, <1>2, <1>3 DEF Open

\* In the loop, READ is watched from the connection until the FIN was handled.
THEOREM AlwaysReadsUntilFin ==
  ASSUME Considerate PROVE Spec => []ReadsUntilFin
<1>1. TypeOK /\ Over /\ Whole => ReadsUntilFin
  <2> SUFFICES ASSUME TypeOK, Over, Whole, Idle, io.cb = "on_activity"
               PROVE  io.active /\ ("READ" \in io.events <=> log.ended = 0)
    BY DEF ReadsUntilFin
  <2> QED BY IdleIsOpen, IdleFacts
<1> QED BY <1>1, AlwaysWhole, PTL

\* In the loop, ready_state tells which directions are finished.
THEOREM StateAlwaysTells ==
  ASSUME Considerate PROVE Spec => []StateTellsDirections
<1>1. TypeOK /\ Over /\ Whole => StateTellsDirections
  <2> SUFFICES ASSUME TypeOK, Over, Whole, Idle, stream.ready_state # "OPENING"
               PROVE  stream.ready_state = IF sock.shut THEN "READ_ONLY"
                        ELSE IF log.ended > 0 THEN "WRITE_ONLY" ELSE "OPEN"
    BY DEF StateTellsDirections
  <2>1. Open /\ stack = <<>>
    BY IdleIsOpen
  <2>2. (Ended <=> log.ended > 0) /\ StateAgrees
    BY <2>1, IdleFacts, OpenFacts
  <2> QED BY <2>2 DEF StateAgrees
<1> QED BY <1>1, AlwaysWhole, PTL

\* No stream outlives both FINs, whichever came first.
THEOREM BothFinsAlwaysClose ==
  ASSUME Considerate PROVE Spec => []BothFinsClose
<1>1. TypeOK /\ Over /\ Whole => BothFinsClose
  <2> SUFFICES ASSUME TypeOK, Over, Whole, Idle PROVE ~(sock.shut /\ log.ended > 0)
    BY DEF BothFinsClose
  <2>1. Open /\ stack = <<>>
    BY IdleIsOpen
  <2>2. (Ended <=> log.ended > 0) /\ StateAgrees
    BY <2>1, IdleFacts, OpenFacts
  <2> QED BY <2>2 DEF StateAgrees
<1> QED BY <1>1, AlwaysWhole, PTL

\* The loop never hands data to a oneshot stream without its buffer list.
THEOREM OneshotAlwaysHasBuffer ==
  ASSUME Considerate PROVE Spec => []OneshotHasBuffer
<1>1. TypeOK /\ Over /\ Whole => OneshotHasBuffer
  BY IdleIsOpen, IdleFacts DEF OneshotHasBuffer
<1> QED BY <1>1, AlwaysWhole, PTL

\* A freed stream is touched only after a send has failed.
THEOREM OnlyFailedSendTouchesFreed ==
  ASSUME Considerate PROVE Spec => []FreedTouchedOnlyAfterFailedSend
<1>1. Whole => FreedTouchedOnlyAfterFailedSend
  BY DEF Whole, Course, FreedTouchedOnlyAfterFailedSend
<1> QED BY <1>1, AlwaysWhole, PTL

\* on_end is called once, after every byte the peer sent was delivered in order.
THEOREM EndAlwaysSeesAllData ==
  ASSUME Considerate, "on_data" \in Installed PROVE Spec => []EndSeesAllData
<1>1. Whole => EndSeesAllData
  BY DEF Whole, Heard, Told, EndSeesAllData
<1> QED BY <1>1, AlwaysWhole, PTL

\* A close without error ends a conversation of which nothing is missing.
THEOREM CleanCloseAlwaysComplete ==
  ASSUME Considerate, "on_data" \in Installed, ~EndsQueued
  PROVE  Spec => []CleanCloseIsComplete
<1>1. TypeOK /\ Order /\ Whole => CleanCloseIsComplete
  <2> SUFFICES ASSUME TypeOK, Order, Whole, log.closed > 0, ~log.had_error
               PROVE  /\ sock.wire = Bytes(0, log.written) /\ log.ended = 1
                      /\ log.delivered = Bytes(0, sock.arrived)
    BY DEF CleanCloseIsComplete
  <2>1. Len(sock.wire) = log.written /\ log.ended = 1
    BY DEF Whole, Complete
  <2>2. sock.wire = Bytes(0, Len(sock.wire))
    BY NumberedIsBytes DEF Order, TypeOK, Sockets
  <2>3. log.delivered = Bytes(0, sock.arrived)
    BY <2>1 DEF Whole, Heard, Told
  <2> QED BY <2>1, <2>2, <2>3
<1> QED BY <1>1, AlwaysWhole, PTL
-------------------------------------------------------------------------------
(***************************************************************************)
(* A stream as one end of a connection.                                    *)
(***************************************************************************)

\* An application that also writes from its callbacks only, ends no stream with
\* output queued, destroys one only in an on_drain in which it does not write,
\* and sets no timeout.
Tidy ==
  /\ Considerate
  /\ AppCalls["loop"] \cup AppCalls["opening"] \subseteq {"end", "set_timeout"}
  /\ "destroy" \in AppCalls["on_drain"] => "write" \notin AppCalls["on_drain"]
  /\ ~EndsQueued /\ Timeouts = {}

\* An event is pending only until its handler runs, and the kernel has room, or
\* cannot take anything any more, while EV_WRITE is pending.
Ready ==
  /\ stack # <<>> => io.pending = {}
  /\ "WRITE" \in io.pending => sock.room > 0 \/ sock.shut \/ sock.reset
  /\ ~timer.armed

\* The stacks after a failed recv, and of on_drain.
ReadFailing == {<<"on_error", "read_failed">>, <<"read_failed">>}
Draining == {<<"on_error", "on_drain">>, <<"on_drain">>}

\* Output is left behind only by a connection that was reset, an on_drain that
\* writes nothing has nothing queued, and the bytes delivered are the first that
\* were read, in order.
Accounts ==
  /\ Open => sock.open
  /\ log.send_failed => stream.out = <<>> \/ sock.reset
  /\ Open /\ stack \in ReadFailing => sock.reset
  /\ Open /\ stack \in Draining /\ "write" \notin AppCalls["on_drain"] => stream.out = <<>>
  /\ Len(sock.wire) <= log.written
  /\ (sock.shut \/ log.closed > 0) /\ ~sock.reset => Len(sock.wire) = log.written
  /\ Numbered(log.delivered, 0) /\ Len(log.delivered) <= sock.read

\* All that is known of one end.
Known == TypeOK /\ Order /\ Watched /\ Over /\ Whole /\ Ready /\ Accounts

\* What a step of one end does that the other end may notice.
Effects ==
  /\ Len(sock'.wire) + sock'.room = Len(sock.wire) + sock.room
  /\ Len(sock.wire) <= Len(sock'.wire)
  /\ log.written <= log'.written
  /\ sock.shut => sock'.shut
  /\ log.closed <= log'.closed
  /\ sock.shut \/ sock'.shut \/ log'.closed > 0 =>
       log'.written = log.written /\ sock'.wire = sock.wire /\ sock'.room = sock.room
  /\ sock'.arrived = sock.arrived /\ sock'.fin = sock.fin /\ sock'.reset = sock.reset
  /\ \/ log'.delivered = log.delivered /\ log'.ended = log.ended
     \/ log'.delivered = log.delivered /\ log.ended = 0 /\ log'.ended = 1
     \/ /\ log'.ended = 0 /\ log.ended = 0
        /\ Len(log.delivered) <= Len(log'.delivered)

\* What the network does to one end.
Outside ==
  /\ UNCHANGED <<stream, io, timer, stack, log>>
  /\ sock' \in Sockets
  /\ sock'.open = sock.open /\ sock'.shut = sock.shut
  /\ sock'.wire = sock.wire /\ sock'.read = sock.read
  /\ sock.room <= sock'.room /\ sock.arrived <= sock'.arrived
  /\ sock.fin => sock'.fin /\ sock'.arrived = sock.arrived
  /\ sock.reset => sock'.reset

\* The initial state.
LEMMA InitKnown == Init => Known
<1> SUFFICES ASSUME Init PROVE Known
  OBVIOUS
<1>1. TypeOK
  BY InitTypeOK
<1>2. Order /\ Watched /\ Over
  BY DEF Init, Order, Numbered, Watched, Over, Gone, Closing, Alive, NoTimer
<1>3. Whole
  BY DEF Init, Whole, Fresh, Course, Conversing, Open, Alive, Heard, Complete
<1>4. Ready /\ Accounts
  BY DEF Init, Ready, Accounts, Open, Alive, Numbered, NoTimer
<1> QED BY <1>1, <1>2, <1>3, <1>4 DEF Known

\* The network disturbs nothing of it.
LEMMA OutsideKnown == Known /\ Outside => Known'
<1> SUFFICES ASSUME Known, Outside PROVE Known'
  OBVIOUS
<1>1. TypeOK'
  <2>1. sock.read \in Nat /\ sock.arrived \in Nat /\ sock'.arrived \in Nat
    BY DEF Known, TypeOK, Outside, Sockets
  <2>2. sock'.read <= sock'.arrived
    BY <2>1 DEF Known, TypeOK, Outside
  <2> QED BY <2>2 DEF Known, TypeOK, Outside
<1>2. Order' /\ Watched' /\ Over'
  BY DEF Known, Outside, Order, Watched, Over, Gone, Alive
<1>3. Whole'
  <2>1. StateAgrees => StateAgrees'
    BY DEF Outside, StateAgrees, Ended
  <2>2. WatcherAgrees => WatcherAgrees'
    BY DEF Outside, WatcherAgrees, Ended
  <2>3. DataAgrees => DataAgrees'
    BY DEF Outside, DataAgrees, Told, Bytes
  <2>4. OutputAgrees => OutputAgrees'
    BY DEF Outside, OutputAgrees
  <2>5. Fresh' /\ Course' /\ Complete'
    BY DEF Known, Outside, Whole, Fresh, Course, Complete, Open, Alive
  <2>6. Heard'
    BY DEF Known, Outside, Whole, Heard, Told, Bytes
  <2> QED BY <2>1, <2>2, <2>3, <2>4, <2>5, <2>6
          DEF Known, Outside, Whole, Conversing, Open, Alive
<1>4. Ready'
  <2>1. sock.room \in Nat /\ sock'.room \in Nat
    BY DEF Known, TypeOK, Outside, Sockets
  <2> QED BY <2>1 DEF Known, Outside, Ready
<1>5. Accounts'
  BY DEF Known, Outside, Accounts, Open, Alive
<1> QED BY <1>1, <1>2, <1>3, <1>4, <1>5 DEF Known

\* The timer of an application that sets no timeout is never armed.
LEMMA NeverArmed ==
  ASSUME TypeOK, ~timer.armed, Timeouts = {}, [Next]_vars
  PROVE  ~timer'.armed /\ ~OnTimer
<1>1. ~OnTimer
  BY DEF OnTimer, Fires
<1>2. timer \in TimerType(Timeouts) /\ timer.timeout = 0
  BY DEF TypeOK, TimerType
<1>3. ~Touch(timer).armed
  <2>1. Touch(timer) = [timer EXCEPT !.idle = 0]
    BY <1>2 DEF Touch
  <2> QED BY <1>2, <2>1 DEF TimerType
<1>4. ~Stop(timer).armed /\ ~GiveUp(timer).armed /\ ~Tick(timer).armed
  BY <1>2, OperationFields
<1> QED BY <1>1, <1>3, <1>4, StepsOperate

\* What a step does to the pending events: nothing, on a stack that is or was
\* not empty, or it clears them, or it finds the kernel ready.
LEMMA PendingStep ==
  ASSUME TypeOK, Tidy, ~OnTimer, Local
  PROVE  \/ io'.pending = {}
         \/ io'.pending = io.pending /\ stack # <<>>
         \/ UNCHANGED <<io, stack, sock>>
         \/ UNCHANGED <<io, stack>> /\ sock'.shut
         \/ Poll
<1>1. io \in Watchers /\ sock \in Sockets
  BY DEF TypeOK
<1>2. \A a, b : /\ [io EXCEPT !.active = a].pending = io.pending
                /\ [io EXCEPT !.active = a, !.pending = b].pending = b
                /\ [io EXCEPT !.pending = b].pending = b
  BY <1>1 DEF Watchers
<1>3. ASSUME NEW clean, NEW rest, Destroy(clean, rest) PROVE io'.pending = {}
  BY <1>2, <1>3 DEF Destroy
<1>4. Dispatched => io'.pending = {}
  BY <1>2 DEF Dispatched
<1>5. UnwatchWrites \/ HalfClose => io'.pending = {}
  BY <1>1 DEF UnwatchWrites, HalfClose, Watchers
<1>6. WatchWrites => io'.pending = {} \/ io'.pending = io.pending
  BY <1>1 DEF WatchWrites, Watchers
<1>7. CASE Accepted \/ Connected \/ Free \/ CheckClosed \/ FinEnd \/ TimedOut \/ Return
  <2>1. stack # <<>> /\ (UNCHANGED io \/ io' = [io EXCEPT !.active = TRUE])
    BY <1>7 DEF Accepted, Connected, Free, CheckClosed, FinEnd, TimedOut, Return, At, Fault
  <2> QED BY <1>2, <2>1
<1>8. CASE ReadFailed \/ SendFailed \/ FinClose \/ WatchWritesAfterFailure
  <2>1. stack # <<>> /\ (\/ UNCHANGED io \/ HalfClose \/ WatchWrites
                         \/ \E clean, rest : Destroy(clean, rest))
    BY <1>8 DEF ReadFailed, SendFailed, FinClose, WatchWritesAfterFailure, At, Fault
  <2> QED BY <1>3, <1>5, <1>6, <2>1
<1>9. CASE Accept \/ Connect \/ OnConnect
  <2>1. \E a, e, c : io' = [active |-> a, events |-> e, cb |-> c, pending |-> {}]
    BY <1>9 DEF Accept, Connect, OnConnect
  <2> QED BY <2>1
<1>10. CASE ConnectFails
  BY <1>10 DEF ConnectFails
<1>11. CASE OnData \/ OnReadError \/ OnFin \/ OnWritable
  <2>1. Dispatched \/ UnwatchWrites
    BY <1>11 DEF OnData, OnReadError, OnFin, ReadEvent, OnWritable
  <2> QED BY <1>4, <1>5, <2>1
<1>12. CASE AppWrites
  <2>1. stack # <<>>
    BY <1>12 DEF AppWrites, AppMay, Context, Tidy
  <2>2. UNCHANGED io \/ WatchWrites
    BY <1>12 DEF AppWrites, Write
  <2> QED BY <1>6, <2>1, <2>2
<1>13. CASE AppEnds
  <2>1. (\E clean, rest : Destroy(clean, rest)) \/ (EndOutput /\ UNCHANGED <<io, stack>>)
    BY <1>13 DEF AppEnds
  <2>2. EndOutput => sock'.shut
    BY <1>1 DEF EndOutput, Sockets
  <2> QED BY <1>3, <2>1, <2>2
<1>14. CASE AppDestroys
  BY <1>3, <1>14 DEF AppDestroys
<1> QED BY <1>7, <1>8, <1>9, <1>10, <1>11, <1>12, <1>13, <1>14 DEF Local, Library

\* Every step of the process keeps it ready.
LEMMA ReadyKept ==
  ASSUME TypeOK, Ready, Tidy, Local
  PROVE  Ready'
<1>1. [Next]_vars
  BY DEF Local, Next, Application
<1>2. ~timer'.armed /\ ~OnTimer
  BY <1>1, NeverArmed DEF Ready, Tidy
<1>3. CASE Poll
  <2>1. stack' = <<>> /\ UNCHANGED sock
    BY <1>3 DEF Poll, InLoop
  <2>2. "WRITE" \in io'.pending => Writable
    <3>1. PICK ready : io' = [io EXCEPT !.pending = ready] /\ ("WRITE" \in ready => Writable)
      BY <1>3 DEF Poll
    <3>2. io'.pending = ready
      BY <3>1 DEF TypeOK, Watchers
    <3> QED BY <3>1, <3>2
  <2> QED BY <1>2, <2>1, <2>2 DEF Ready, Writable
<1> QED BY <1>2, <1>3, PendingStep DEF Ready

\* A step that neither sends, hands over, ends nor closes.
LEMMA RestAccounts ==
  ASSUME TypeOK, Accounts, UNCHANGED sock,
         stream'.heap = stream.heap, stream'.out = stream.out,
         log'.written = log.written, log'.delivered = log.delivered,
         log'.ended = log.ended, log'.closed = log.closed,
         log'.send_failed = log.send_failed,
         Open /\ stack' \in ReadFailing => stack \in ReadFailing \/ sock.reset,
         Open /\ stack' \in Draining => stack \in Draining \/ stream.out = <<>>
  PROVE  Effects /\ Accounts'
<1>1. /\ Len(sock.wire) \in Nat /\ sock.room \in Nat /\ log.written \in Nat
      /\ log.closed \in Nat
  BY DEF TypeOK, Sockets, Logs
<1>2. Effects
  BY <1>1 DEF Effects
<1> QED BY <1>2 DEF Accounts, Open, Alive

\* The stream is destroyed with nothing queued, or after a reset.
LEMMA DestroyAccounts ==
  ASSUME TypeOK, Order, Alive, Accounts, stream.out = <<>> \/ sock.reset,
         NEW clean, NEW rest, Destroy(clean, rest)
  PROVE  Effects /\ Accounts'
<1>1. /\ Len(sock.wire) \in Nat /\ sock.room \in Nat /\ log.written \in Nat
      /\ log.closed \in Nat
  BY DEF TypeOK, Sockets, Logs
<1>2. /\ log'.closed = log.closed + 1 /\ log'.written = log.written
      /\ log'.delivered = log.delivered /\ log'.ended = log.ended
      /\ log'.send_failed = log.send_failed
  BY DEF Destroy, TypeOK, Logs
<1>3. /\ sock'.room = sock.room /\ sock'.shut = sock.shut /\ sock'.wire = sock.wire
      /\ sock'.arrived = sock.arrived /\ sock'.read = sock.read /\ sock'.fin = sock.fin
      /\ sock'.reset = sock.reset
  BY DEF Destroy, TypeOK, Sockets
<1>4. stream'.out = stream.out
  BY DEF Destroy, TypeOK, Streams
<1>5. ~Open'
  BY <1>1, <1>2 DEF Open
<1>6. Effects
  BY <1>1, <1>2, <1>3 DEF Effects
<1>7. stream.out = <<>> => Len(sock.wire) = log.written
  BY <1>1 DEF Order, Alive
<1> QED BY <1>2, <1>3, <1>4, <1>5, <1>6, <1>7 DEF Accounts

\* Short stacks that are not those of a failed recv or of on_drain.
LEMMA OtherStacks ==
  /\ <<>> \notin ReadFailing \cup Draining
  /\ \A p : p \notin {"read_failed", "on_drain"} =>
       <<p>> \notin ReadFailing \cup Draining
  /\ \A q, p : p \notin {"read_failed", "on_drain"} =>
       <<q, p>> \notin ReadFailing \cup Draining
<1>1. \A p, q, r : <<p>> # <<>> /\ <<q, p>> # <<>> /\ (<<p>> = <<q>> => p = q)
  OBVIOUS
<1>2. \A p, q, r, t : <<q, p>> # <<r>> /\ (<<q, p>> = <<r, t>> => p = t)
  OBVIOUS
<1> QED BY <1>1, <1>2 DEF ReadFailing, Draining

\* A callback returns to such a stack only from such a stack.
LEMMA ReturnsWithin ==
  ASSUME NEW s \in Shapes, s # <<>>
  PROVE  /\ Tail(s) \in ReadFailing => s \in ReadFailing
         /\ Tail(s) \in Draining => s \in Draining
<1>1. {"read_failed", "on_drain"} \cap
        {"on_error", "on_data", "accepted", "connected", "fin_end", "fin_close", "timed_out"} = {}
  OBVIOUS
<1>2. CASE s \in {<<"on_error">>, <<"on_data">>, <<"on_drain">>, <<"read_failed">>}
  <2>1. Tail(s) = <<>>
    BY <1>2, Frame
  <2> QED BY <2>1, OtherStacks
<1>3. CASE s \in {<<"on_error", "on_data">>, <<"on_error", "on_drain">>,
                  <<"on_error", "read_failed">>}
  <2>1. PICK p \in {"on_data", "on_drain", "read_failed"} : s = <<"on_error", p>>
    BY <1>3
  <2>2. Tail(s) = <<p>>
    BY <2>1, Frame
  <2>3. <<"on_drain">> # <<"read_failed">> /\ <<"on_data">> # <<"read_failed">>
        /\ <<"on_drain">> # <<"on_data">>
    OBVIOUS
  <2>4. \A x, y, z : <<x>> # <<y, z>>
    OBVIOUS
  <2> QED BY <2>1, <2>2, <2>3, <2>4 DEF ReadFailing, Draining
<1>4. ASSUME NEW c, NEW p \in {"accepted", "connected", "fin_end", "fin_close", "timed_out"},
             s \in Bracket(c, p)
      PROVE  Tail(s) \notin ReadFailing \cup Draining
  <2>1. Tail(s) = <<>> \/ Tail(s) = <<p>> \/ \E q : Tail(s) = <<q, p>>
    <3>1. s = <<"on_error", c, p>> \/ s = <<c, p>> \/ s = <<p>>
      BY <1>4 DEF Bracket
    <3>2. /\ Tail(<<"on_error", c, p>>) = <<c, p>>
          /\ Tail(<<c, p>>) = <<p>> /\ Tail(<<p>>) = <<>>
      BY Frame
    <3> QED BY <3>1, <3>2
  <2>2. p \notin {"read_failed", "on_drain"}
    BY <1>4
  <2>3. /\ <<>> \notin ReadFailing \cup Draining
        /\ <<p>> \notin ReadFailing \cup Draining
        /\ \A q : <<q, p>> \notin ReadFailing \cup Draining
    BY <2>2, OtherStacks
  <2> QED BY <2>1, <2>3
<1> QED BY <1>2, <1>3, <1>4 DEF Shapes

\* The steps of a stream in use that only wait, return and go on.
LEMMA OpenRestAccounts ==
  ASSUME TypeOK, Open, Whole, Accounts,
         \/ Return \/ Poll \/ Accepted \/ Connected \/ TimedOut
         \/ OnConnect \/ OnReadError
  PROVE  Effects /\ Accounts'
<1>1. UNCHANGED sock /\ UNCHANGED log
  BY OpenFacts DEF Return, Poll, Accepted, Connected, TimedOut, OnConnect, OnReadError, At
<1>2. stream'.heap = stream.heap /\ stream'.out = stream.out
  <2>1. \/ stream' = stream
        \/ stream' = [stream EXCEPT !.has_list = stream.oneshot]
        \/ stream' = [stream EXCEPT !.ready_state = "OPEN"]
    BY OpenFacts DEF Return, Poll, Accepted, Connected, TimedOut, OnConnect, OnReadError, At
  <2> QED BY <2>1 DEF TypeOK, Streams
<1>3. /\ stack' \in ReadFailing => stack \in ReadFailing \/ sock.reset
      /\ stack' \in Draining => stack \in Draining
  <2>1. CASE Return \/ Accepted \/ Connected \/ TimedOut
    <3>1. stack # <<>> /\ stack' = Tail(stack)
      BY <2>1, OpenFacts DEF Return, Accepted, Connected, TimedOut, At
    <3> QED BY <3>1, ReturnsWithin, OpenFacts
  <2>2. CASE Poll
    BY <2>2 DEF Poll
  <2>3. CASE OnConnect
    <3>1. stack' \in {<<"on_connect", "connected">>, <<"connected">>}
      BY <2>3, OnTop DEF OnConnect, Call
    <3>2. "connected" \notin {"read_failed", "on_drain"}
      OBVIOUS
    <3> QED BY <3>1, <3>2, OtherStacks
  <2>4. CASE OnReadError
    <3>1. stack' \in ReadFailing /\ sock.reset
      BY <2>4, OnTop DEF OnReadError, Call, ReadFailing
    <3>2. stack' \notin Draining
      <4>1. <<"on_error", "read_failed">> # <<"on_error", "on_drain">>
        OBVIOUS
      <4>2. <<"read_failed">> # <<"on_drain">>
        OBVIOUS
      <4>3. \A x, y, z : <<x>> # <<y, z>>
        OBVIOUS
      <4> QED BY <3>1, <4>1, <4>2, <4>3 DEF ReadFailing, Draining
    <3> QED BY <3>1, <3>2
  <2> QED BY <2>1, <2>2, <2>3, <2>4
<1> QED BY <1>1, <1>2, <1>3, RestAccounts

\* A failed send, of data that is dropped or after a reset.
LEMMA FailureAccounts ==
  ASSUME TypeOK, Open, Accounts, NEW caller, SendFails(caller), UNCHANGED <<stream, sock>>,
         stream.out = <<>> \/ sock.reset
  PROVE  Effects /\ Accounts'
<1>1. /\ Len(sock.wire) \in Nat /\ sock.room \in Nat /\ log.written \in Nat
      /\ log.closed \in Nat
  BY DEF TypeOK, Sockets, Logs
<1>2. /\ log'.closed = log.closed /\ log'.written = log.written
      /\ log'.delivered = log.delivered /\ log'.ended = log.ended
      /\ log'.send_failed = TRUE
  BY DEF SendFails, TypeOK, Logs
<1>3. Effects
  BY <1>1, <1>2 DEF Effects
<1> QED BY <1>2, <1>3 DEF Accounts, Open

\* What send() takes of data leaves the room and goes on the wire.
LEMMA SentAccounts ==
  ASSUME TypeOK, NEW data \in Seq(Nat), Sent(data)
  PROVE  /\ Len(sock'.wire) + sock'.room = Len(sock.wire) + sock.room
         /\ Len(sock.wire) <= Len(sock'.wire)
         /\ Len(sock'.wire) <= Len(sock.wire) + Len(data)
         /\ sock'.open = sock.open /\ sock'.shut = sock.shut /\ sock'.reset = sock.reset
         /\ sock'.arrived = sock.arrived /\ sock'.read = sock.read /\ sock'.fin = sock.fin
         /\ data = <<>> => sock'.wire = sock.wire /\ sock'.room = sock.room
<1>1. Taken(data) \in 0..Len(data) /\ Len(data) \in Nat
  BY SendFacts
<1>2. sock.wire \in Seq(Nat) /\ sock.room \in Nat /\ Len(sock.wire) \in Nat
  BY DEF TypeOK, Sockets
<1> DEFINE sent == SubSeq(data, 1, Taken(data))
<1>3. sent \in Seq(Nat) /\ Len(sent) = Taken(data)
  BY <1>1, SubSeqProperties
<1>4. sock' = [sock EXCEPT !.wire = sock.wire \o sent, !.room = sock.room - Taken(data)]
  BY DEF Sent
<1> HIDE DEF sent
<1>5. /\ sock'.wire = sock.wire \o sent /\ sock'.room = sock.room - Taken(data)
      /\ sock'.open = sock.open /\ sock'.shut = sock.shut /\ sock'.reset = sock.reset
      /\ sock'.arrived = sock.arrived /\ sock'.read = sock.read /\ sock'.fin = sock.fin
  BY <1>4 DEF TypeOK, Sockets
<1>6. Len(sock.wire \o sent) = Len(sock.wire) + Len(sent)
  BY <1>2, <1>3, ConcatProperties
<1>7. ASSUME data = <<>> PROVE sock'.wire = sock.wire /\ sock'.room = sock.room
  <2>1. Len(data) = 0
    BY <1>7
  <2>2. Len(sent) = 0 /\ Taken(data) = 0
    BY <1>1, <1>3, <2>1
  <2>3. sent = <<>>
    BY <1>3, <2>2, EmptySeq
  <2>4. sock.wire \o <<>> = sock.wire
    BY <1>2, ConcatEmptySeq
  <2> QED BY <1>2, <1>5, <2>2, <2>3, <2>4
<1>8. sent \in Seq(Nat) /\ Len(sent) \in Nat /\ Len(sent) <= Len(data)
  BY <1>1, <1>3
<1>9. Len(sock'.wire) = Len(sock.wire) + Len(sent) /\ sock'.room = sock.room - Len(sent)
  BY <1>3, <1>5, <1>6
<1>10. /\ Len(sock'.wire) + sock'.room = Len(sock.wire) + sock.room
       /\ Len(sock.wire) <= Len(sock'.wire)
       /\ Len(sock'.wire) <= Len(sock.wire) + Len(data)
  BY <1>1, <1>2, <1>8, <1>9
<1> QED BY <1>5, <1>7, <1>10

\* evn_stream_write.
LEMMA WriteAccounts ==
  ASSUME TypeOK, Open, Whole, Accounts, Tidy, AppWrites
  PROVE  Effects /\ Accounts'
<1>1. PICK n \in 0..(MaxWritten - log.written) : Write(n)
  BY DEF AppWrites
<1>2. /\ Len(sock.wire) \in Nat /\ sock.room \in Nat /\ log.written \in Nat
      /\ log.closed = 0 /\ n \in Nat /\ MaxWritten \in Nat
  BY <1>1, OpenFacts, StreamAssumption DEF Sockets, Logs
<1>3. /\ stack # <<>> /\ Head(stack) \notin Points \cup {"on_error"}
      /\ "write" \in AppCalls[Head(stack)]
  <2>1. stack # <<>> /\ Head(stack) \in Contexts /\ "write" \in AppCalls[Head(stack)]
    BY DEF AppWrites, AppMay, Context, Tidy
  <2>2. Contexts \cap Points = {}
    BY DEF Contexts, Callbacks, Points
  <2> QED BY <2>1, <2>2 DEF Tidy, Considerate
<1>4. /\ stack \notin ReadFailing
      /\ stack \in Draining => "write" \in AppCalls["on_drain"]
  <2>1. "read_failed" \in Points
    BY DEF Points
  <2>2. stack \in ReadFailing => Head(stack) \in {"on_error", "read_failed"}
    BY Frame DEF ReadFailing
  <2>3. stack \in Draining => Head(stack) \in {"on_error", "on_drain"}
    BY Frame DEF Draining
  <2> QED BY <1>3, <2>1, <2>2, <2>3
<1>5. CASE stream.ready_state = "READ_ONLY"
  <2>1. stack' = Call("on_error") \o stack /\ UNCHANGED <<stream, io, sock, timer, log>>
    BY <1>1, <1>5 DEF Write
  <2>2. stack' = stack \/ stack' = <<"on_error">> \o stack
    BY <2>1, OpenFacts, ConcatEmptySeq DEF Call
  <2>3. stack' = <<"on_error">> \o stack => Tail(stack') = stack /\ stack' \in Shapes /\ stack' # <<>>
    <3>1. stack' \in Shapes
      BY <1>3, <2>1, ErrorOnTop, OpenFacts
    <3>2. stack \in Seq(Frames) /\ "on_error" \in Frames
      BY OpenFacts DEF Frames, Callbacks
    <3>3. ASSUME stack' = <<"on_error">> \o stack
          PROVE  stack' # <<>> /\ Tail(stack') = stack
      BY <3>2, <3>3
    <3> QED BY <3>1, <3>3
  <2>4. /\ stack' \in ReadFailing => stack \in ReadFailing \/ sock.reset
        /\ stack' \in Draining => stack \in Draining \/ stream.out = <<>>
    <3>1. CASE stack' = stack
      BY <3>1
    <3>2. CASE stack' = <<"on_error">> \o stack
      <4>1. Tail(stack') = stack
        BY <2>3, <3>2
      <4>2. /\ stack' \in ReadFailing => stack \in {<<"read_failed">>, <<>>}
            /\ stack' \in Draining => stack \in {<<"on_drain">>, <<>>}
        BY <4>1, Frame DEF ReadFailing, Draining
      <4> QED BY <1>3, <4>2 DEF ReadFailing, Draining
    <3> QED BY <2>2, <3>1, <3>2
  <2> QED BY <2>1, <2>4, RestAccounts
<1>6. CASE stream.ready_state # "READ_ONLY"
  <2>1. ~sock.shut
    BY <1>6, OpenFacts DEF StateAgrees
  <2>2. CASE stream.out # <<>>
    <3>1. /\ stream' = [stream EXCEPT !.out = stream.out \o Bytes(log.written, log.written + n)]
          /\ log' = [log EXCEPT !.written = log.written + n]
          /\ UNCHANGED <<sock, stack>>
      BY <1>1, <1>6, <2>2 DEF Write
    <3>2. /\ log'.written = log.written + n /\ log'.delivered = log.delivered
          /\ log'.ended = log.ended /\ log'.closed = log.closed
          /\ log'.send_failed = log.send_failed
      BY <3>1 DEF TypeOK, Logs
    <3>3. stream'.heap = stream.heap
      BY <3>1 DEF TypeOK, Streams
    <3>4. Effects
      BY <1>2, <2>1, <3>1, <3>2 DEF Effects
    <3> QED BY <1>2, <1>4, <2>1, <3>1, <3>2, <3>3, <3>4 DEF Accounts, Open, Alive
  <2>3. CASE stream.out = <<>> /\ n # 0 /\ ~CanSend
    <3>1. SendFails("watch_writes") /\ UNCHANGED <<stream, sock>>
      BY <1>1, <1>6, <2>3 DEF Write
    <3> QED BY <2>3, <3>1, FailureAccounts
  <2>4. CASE stream.out = <<>> /\ ~(n # 0 /\ ~CanSend)
    <3> DEFINE data == Bytes(log.written, log.written + n)
    <3>1. /\ Sent(data) /\ stream' = [stream EXCEPT !.out = Unsent(data)]
          /\ log' = [log EXCEPT !.written = log.written + n] /\ UNCHANGED stack
      BY <1>1, <1>6, <2>4 DEF Write
    <3>2. data \in Seq(Nat)
      BY <1>2, NewBytes
    <3> HIDE DEF data
    <3>3. /\ log'.written = log.written + n /\ log'.delivered = log.delivered
          /\ log'.ended = log.ended /\ log'.closed = log.closed
          /\ log'.send_failed = log.send_failed
      BY <3>1 DEF TypeOK, Logs
    <3>4. stream'.heap = stream.heap
      BY <3>1 DEF TypeOK, Streams
    <3>5. Effects
      <4>1. /\ Len(sock'.wire) + sock'.room = Len(sock.wire) + sock.room
            /\ Len(sock.wire) <= Len(sock'.wire)
            /\ sock'.open = sock.open /\ sock'.shut = sock.shut
            /\ sock'.reset = sock.reset /\ sock'.arrived = sock.arrived
            /\ sock'.fin = sock.fin
        BY <3>1, <3>2, SentAccounts
      <4> QED BY <1>2, <2>1, <3>3, <4>1 DEF Effects
    <3>6. Len(sock'.wire) <= log'.written
      <4>1. Len(data) = n
        BY <1>2, NewBytes DEF data
      <4>2. Len(sock'.wire) <= Len(sock.wire) + n /\ Len(sock.wire) <= log.written
        BY <3>1, <3>2, <4>1, SentAccounts DEF Accounts
      <4>3. Len(sock'.wire) \in Nat
        <5>1. sock' \in Sockets
          BY <3>1, <3>2, SentType
        <5> QED BY <5>1 DEF Sockets
      <4> QED BY <1>2, <3>3, <4>2, <4>3
    <3> QED BY <1>2, <1>4, <2>1, <3>1, <3>2, <3>3, <3>4, <3>5, <3>6, SentAccounts
            DEF Accounts, Open, Alive
  <2> QED BY <2>2, <2>3, <2>4
<1> QED BY <1>5, <1>6

\* evn_stream_priv_on_writable.
LEMMA WritableAccounts ==
  ASSUME TypeOK, Order, Open, Whole, Ready, Accounts, Tidy, OnWritable
  PROVE  Effects /\ Accounts'
<1>1. stack = <<>> /\ "WRITE" \in io.pending
  BY DEF OnWritable, InLoop
<1>2. sock.shut => stream.out = <<>>
  BY OpenFacts DEF OutputAgrees, Tidy
<1>3. CASE stream.out # <<>> /\ ~CanSend
  <2>1. SendFails("check_closed") /\ UNCHANGED <<stream, sock>>
    BY <1>3 DEF OnWritable
  <2>2. sock.reset
    <3>1. sock.open /\ ~sock.shut
      BY <1>2, <1>3 DEF Accounts
    <3> QED BY <1>1, <1>3, <3>1 DEF CanSend, Ready
  <2> QED BY <2>1, <2>2, FailureAccounts
<1>4. CASE ~(stream.out # <<>> /\ ~CanSend)
  <2>1. /\ Sent(stream.out) /\ stream' = [stream EXCEPT !.out = Unsent(stream.out)]
        /\ \/ stack' = Call("on_drain") /\ Unsent(stream.out) = <<>>
           \/ UNCHANGED stack
        /\ UNCHANGED log
    BY <1>4 DEF OnWritable
  <2>2. stream'.heap = stream.heap /\ stream'.out = Unsent(stream.out)
        /\ stream.out \in Seq(Nat)
    BY <2>1 DEF TypeOK, Streams
  <2>3. stack' \notin ReadFailing /\ (stack' \in Draining => stream'.out = <<>>)
    <3>1. CASE stack' = Call("on_drain") /\ Unsent(stream.out) = <<>>
      <4>1. stack' = <<>> \/ stack' = <<"on_drain">>
        BY <3>1 DEF Call
      <4>2. <<"on_drain">> # <<"on_error", "read_failed">>
        OBVIOUS
      <4>3. <<"on_drain">> # <<"read_failed">>
        OBVIOUS
      <4> QED BY <2>2, <3>1, <4>1, <4>2, <4>3, OtherStacks DEF ReadFailing
    <3>2. CASE UNCHANGED stack
      BY <1>1, <3>2, OtherStacks
    <3> QED BY <2>1, <3>1, <3>2
  <2>4. /\ Len(sock.wire) \in Nat /\ sock.room \in Nat /\ log.written \in Nat
        /\ log.closed = 0
    BY OpenFacts DEF Sockets, Logs
  <2>5. Effects
    BY <1>2, <2>1, <2>2, <2>4, SentAccounts DEF Effects
  <2>6. Len(sock'.wire) <= log'.written
    BY <2>1, <2>2, <2>4, SentAccounts DEF Order, Open, Alive
  <2> QED BY <1>2, <2>1, <2>2, <2>3, <2>4, <2>5, <2>6, SentAccounts DEF Accounts, Open, Alive
<1> QED BY <1>3, <1>4

\* evn_stream_end and evn_stream_destroy.
LEMMA EndAccounts ==
  ASSUME TypeOK, Order, Open, Whole, Accounts, Tidy, AppEnds \/ AppDestroys
  PROVE  Effects /\ Accounts'
<1>1. CASE AppDestroys
  <2>1. AppMay("destroy") /\ Destroy(FALSE, stack)
    BY <1>1 DEF AppDestroys
  <2>2. stack # <<>> /\ Head(stack) = "on_drain" /\ "destroy" \in AppCalls["on_drain"]
    <3>1. Context \in Contexts /\ "destroy" \in AppCalls[Context]
      BY <2>1 DEF AppMay
    <3>2. Context \notin {"loop", "opening"}
      BY <3>1 DEF Tidy
    <3>3. Context \in Callbacks /\ stack # <<>> /\ Context = Head(stack)
      BY <3>1, <3>2 DEF Context, Contexts
    <3> QED BY <3>1, <3>3 DEF Tidy, Considerate
  <2>3. stack = <<"on_drain">>
    <3>1. Head(stack) \notin Points \cup {"on_error", "on_timeout"}
      BY <2>2 DEF Points
    <3> QED BY <2>2, <3>1, LooseCallback, OpenFacts
  <2>4. stream.out = <<>>
    BY <2>2, <2>3 DEF Accounts, Draining, Tidy
  <2> QED BY <2>1, <2>4, DestroyAccounts DEF Open
<1>2. CASE AppEnds
  <2>1. stream.out = <<>>
    BY <1>2 DEF AppEnds, Tidy
  <2>2. CASE stream.ready_state = "WRITE_ONLY"
    <3>1. Destroy(TRUE, stack)
      BY <1>2, <2>2 DEF AppEnds
    <3> QED BY <2>1, <3>1, DestroyAccounts DEF Open
  <2>3. CASE stream.ready_state # "WRITE_ONLY"
    <3>1. EndOutput /\ UNCHANGED <<io, timer, stack, log>>
      BY <1>2, <2>3 DEF AppEnds
    <3>2. /\ stream'.heap = stream.heap /\ stream'.out = stream.out
          /\ sock'.shut = TRUE /\ sock'.read = sock.read /\ sock'.fin = sock.fin
          /\ sock'.arrived = sock.arrived /\ sock'.open = sock.open
          /\ sock'.reset = sock.reset /\ sock'.wire = sock.wire /\ sock'.room = sock.room
      BY <3>1 DEF EndOutput, TypeOK, Streams, Sockets
    <3>3. /\ Len(sock.wire) \in Nat /\ sock.room \in Nat /\ log.written \in Nat
          /\ log.closed = 0
      BY OpenFacts DEF Sockets, Logs
    <3>4. Len(sock.wire) = log.written
      BY <2>1, <3>3 DEF Order, Open, Alive
    <3>5. Effects
      BY <3>1, <3>2, <3>3 DEF Effects
    <3> QED BY <2>1, <3>1, <3>2, <3>4, <3>5 DEF Accounts, Open, Alive
  <2> QED BY <2>2, <2>3
<1> QED BY <1>1, <1>2

\* The FIN is handled, or a failed recv.
LEMMA FinishAccounts ==
  ASSUME TypeOK, Order, Open, Whole, Accounts, Tidy, FinEnd \/ FinClose \/ ReadFailed
  PROVE  Effects /\ Accounts'
<1>1. stack # <<>> /\ Tail(stack) = <<>> /\ stack = <<Head(stack)>>
      /\ Head(stack) \in {"fin_end", "fin_close", "read_failed"}
      /\ Phase(stack) = IF Head(stack) \in Marks THEN Head(stack) ELSE "other"
  <2>1. stack # <<>> /\ Head(stack) \in {"fin_end", "fin_close", "read_failed"}
    BY DEF FinEnd, FinClose, ReadFailed, At
  <2>2. Head(stack) \in Points
    BY <2>1 DEF Points
  <2> QED BY <2>1, <2>2, PointIsBottom, OpenFacts
<1>2. /\ Len(sock.wire) \in Nat /\ sock.room \in Nat /\ log.written \in Nat
      /\ log.closed = 0 /\ stream.heap # "freed" /\ log \in Logs
  BY OpenFacts DEF Sockets, Logs
<1>3. CASE ReadFailed
  <2>1. Head(stack) = "read_failed" /\ Destroy(FALSE, Tail(stack))
    BY <1>2, <1>3 DEF ReadFailed, At
  <2>2. sock.reset
    BY <1>1, <2>1 DEF Accounts, ReadFailing
  <2> QED BY <2>1, <2>2, DestroyAccounts DEF Open
<1>4. CASE FinClose
  <2>1. CASE stream.ready_state = "READ_ONLY"
    <3>1. Destroy(TRUE, Tail(stack))
      BY <1>2, <1>4, <2>1 DEF FinClose, At
    <3>2. sock.shut
      BY <2>1, OpenFacts DEF StateAgrees
    <3>3. stream.out = <<>>
      BY <3>2, OpenFacts DEF OutputAgrees, Tidy
    <3> QED BY <3>1, <3>3, DestroyAccounts DEF Open
  <2>2. CASE stream.ready_state # "READ_ONLY"
    <3>1. HalfClose /\ stack' = Tail(stack) /\ UNCHANGED <<sock, timer, log>>
      BY <1>2, <1>4, <2>2 DEF FinClose, At
    <3>2. stream'.heap = stream.heap /\ stream'.out = stream.out
      BY <3>1 DEF HalfClose, TypeOK, Streams
    <3> QED BY <1>1, <3>1, <3>2, OtherStacks, RestAccounts
  <2> QED BY <2>1, <2>2
<1>5. CASE FinEnd
  <2>1. /\ Head(stack) = "fin_end" /\ log' = [log EXCEPT !.ended = log.ended + 1]
        /\ stack' = Call("on_end") \o <<"fin_close">> \o Tail(stack)
        /\ UNCHANGED <<stream, io, sock, timer>>
    BY <1>2, <1>5 DEF FinEnd, At
  <2>2. log.ended = 0
    BY <1>1, <2>1, OpenFacts DEF StateAgrees, Marks
  <2>3. /\ log'.ended = 1 /\ log'.written = log.written /\ log'.delivered = log.delivered
        /\ log'.closed = log.closed /\ log'.send_failed = log.send_failed
    BY <1>2, <2>1, <2>2 DEF Logs
  <2>4. stack' \notin ReadFailing \cup Draining
    <3>1. stack' = <<"on_end", "fin_close">> \/ stack' = <<"fin_close">>
      BY <1>1, <2>1, OnTop DEF Call
    <3>2. "fin_close" \notin {"read_failed", "on_drain"}
      OBVIOUS
    <3> QED BY <3>1, <3>2, OtherStacks
  <2>5. Effects
    BY <1>2, <2>1, <2>2, <2>3 DEF Effects
  <2> QED BY <1>2, <2>1, <2>3, <2>4, <2>5 DEF Accounts, Open, Alive
<1> QED BY <1>3, <1>4, <1>5

\* What was delivered grows to all that was read.
LEMMA DeliveredAccounts ==
  ASSUME TypeOK, Open, Accounts, stack' \notin ReadFailing \cup Draining,
         stream'.heap = stream.heap, stream'.out = stream.out,
         sock'.open = sock.open, sock'.shut = sock.shut, sock'.wire = sock.wire,
         sock'.room = sock.room, sock'.arrived = sock.arrived, sock'.fin = sock.fin,
         sock'.reset = sock.reset, sock'.read \in Nat, sock.read <= sock'.read,
         \/ log' = log
         \/ /\ log' = [log EXCEPT !.delivered = Bytes(0, sock'.read)]
            /\ log.ended = 0
  PROVE  Effects /\ Accounts'
<1>1. /\ Len(sock.wire) \in Nat /\ sock.room \in Nat /\ log.written \in Nat
      /\ log.closed = 0 /\ Len(log.delivered) \in Nat /\ sock.read \in Nat
  BY DEF Open, TypeOK, Sockets, Logs
<1>2. /\ log'.written = log.written /\ log'.closed = log.closed
      /\ log'.send_failed = log.send_failed /\ log'.ended = log.ended
      /\ \/ log'.delivered = log.delivered
         \/ log'.delivered = Bytes(0, sock'.read) /\ log.ended = 0
  BY DEF TypeOK, Logs
<1>3. Len(log'.delivered) <= sock'.read /\ Len(log.delivered) <= Len(log'.delivered)
      /\ Numbered(log'.delivered, 0)
  <2>1. CASE log'.delivered = log.delivered
    BY <1>1, <2>1 DEF Accounts
  <2>2. CASE log'.delivered = Bytes(0, sock'.read)
    <3>1. 0 + sock'.read = sock'.read
      OBVIOUS
    <3>2. Len(log'.delivered) = sock'.read /\ Numbered(log'.delivered, 0)
      <4>1. 0 \in Nat
        OBVIOUS
      <4>2. Len(Bytes(0, 0 + sock'.read)) = sock'.read
            /\ Numbered(Bytes(0, 0 + sock'.read), 0)
        BY <4>1, NewBytes
      <4> QED BY <2>2, <3>1, <4>2
    <3> QED BY <1>1, <3>2 DEF Accounts
  <2> QED BY <1>2, <2>1, <2>2
<1>4. Effects
  BY <1>1, <1>2, <1>3 DEF Effects
<1> QED BY <1>1, <1>2, <1>3, <1>4 DEF Accounts, Open, Alive

\* recv returns data, or the FIN.
LEMMA ReadAccounts ==
  ASSUME TypeOK, Open, Whole, Accounts, OnData \/ OnFin
  PROVE  Effects /\ Accounts'
<1>1. ReadEvent /\ log.ended = 0 /\ stack = <<>>
  BY ReadFacts DEF OnData, OnFin
<1>2. sock.read \in Nat /\ log \in Logs
  BY DEF TypeOK, Sockets
<1>3. CASE OnData
  <2> DEFINE n == Least(Len(Unread), MaxRecv)
             data == SubSeq(Unread, 1, n)
  <2>1. n \in 0..Len(Unread) /\ n \in Nat
    <3>1. Len(Unread) \in Nat /\ MaxRecv \in Nat
      BY UnreadFacts, StreamAssumption
    <3> QED BY <3>1 DEF Least
  <2>2. Bytes(0, sock.read) \o data = Bytes(0, sock.read + n)
    BY <2>1, ReadOn
  <2>3. sock' = [sock EXCEPT !.read = sock.read + n]
    BY <1>3 DEF OnData
  <2>4. \/ stream' = [stream EXCEPT !.bufferlist = stream.bufferlist \o data]
        \/ stream' = stream
    BY <1>3 DEF OnData
  <2>5. /\ stack' = Call("on_data") \o <<>> \/ UNCHANGED stack
        /\ \/ log' = log
           \/ /\ log' = [log EXCEPT !.delivered = log.delivered \o data]
              /\ "on_data" \in Installed /\ ~stream.oneshot
    BY <1>3 DEF OnData, Deliver
  <2> HIDE DEF n, data
  <2>6. /\ sock'.open = sock.open /\ sock'.shut = sock.shut /\ sock'.wire = sock.wire
        /\ sock'.room = sock.room /\ sock'.arrived = sock.arrived /\ sock'.fin = sock.fin
        /\ sock'.reset = sock.reset /\ sock'.read = sock.read + n
    BY <2>3 DEF TypeOK, Sockets
  <2>7. sock'.read \in Nat /\ sock.read <= sock'.read
    BY <1>2, <2>1, <2>6
  <2>8. stream'.heap = stream.heap /\ stream'.out = stream.out
    BY <2>4 DEF TypeOK, Streams
  <2>9. log' = log \/ log' = [log EXCEPT !.delivered = Bytes(0, sock'.read)]
    <3>1. ASSUME "on_data" \in Installed, ~stream.oneshot
          PROVE  log.delivered = Bytes(0, sock.read)
      BY <1>1, <3>1, IdleFacts DEF Told
    <3> QED BY <2>2, <2>5, <2>6, <3>1
  <2>10. stack' \notin ReadFailing \cup Draining
    <3>1. stack' = <<>> \/ stack' = <<"on_data">>
      BY <1>1, <2>5, OnTop DEF Call
    <3>2. "on_data" \notin {"read_failed", "on_drain"}
      OBVIOUS
    <3> QED BY <3>1, <3>2, OtherStacks
  <2> QED BY <1>1, <2>6, <2>7, <2>8, <2>9, <2>10, DeliveredAccounts
<1>4. CASE OnFin
  <2>1. /\ UNCHANGED <<stream, sock>>
        /\ stack' = Call("on_data") \o <<"fin_end">> \/ stack' = <<"fin_end">>
        /\ \/ log' = log
           \/ /\ log' = [log EXCEPT !.delivered = log.delivered \o stream.bufferlist]
              /\ stream.oneshot
    BY <1>4 DEF OnFin, Deliver
  <2>2. log' = log \/ log' = [log EXCEPT !.delivered = Bytes(0, sock'.read)]
    <3>1. ASSUME stream.oneshot
          PROVE  log.delivered \o stream.bufferlist = Bytes(0, sock.read)
      <4>1. log.delivered = <<>> /\ stream.bufferlist = Bytes(0, sock.read)
        BY <1>1, <3>1, IdleFacts
      <4>2. stream.bufferlist \in Seq(Nat)
        BY DEF TypeOK, Streams
      <4> QED BY <4>1, <4>2, ConcatEmptySeq
    <3> QED BY <2>1, <3>1
  <2>3. stack' \notin ReadFailing \cup Draining
    <3>1. stack' = <<"on_data", "fin_end">> \/ stack' = <<"fin_end">>
      BY <2>1, OnTop DEF Call
    <3>2. "fin_end" \notin {"read_failed", "on_drain"}
      OBVIOUS
    <3> QED BY <3>1, <3>2, OtherStacks
  <2> QED BY <1>1, <1>2, <2>1, <2>2, <2>3, DeliveredAccounts
<1> QED BY <1>3, <1>4

\* A stream that does not exist yet can only be created.
LEMMA OnlyBirth ==
  ASSUME Watched, stream.heap = "none", Local
  PROVE  Accept \/ Connect \/ ConnectFails
<1>1. /\ ~Alive /\ stack = << >> /\ io.cb = "none" /\ ~io.active /\ ~timer.armed
  BY DEF Watched, Alive
<1>2. ~Library
  BY <1>1 DEF Library, Accepted, Connected, Free, ReadFailed, SendFailed,
     WatchWritesAfterFailure, CheckClosed, FinEnd, FinClose, TimedOut, At,
     OnConnect, OnData, OnReadError, OnFin, ReadEvent, OnWritable, OnTimer,
     Fires, Poll
<1>3. ~(AppWrites \/ AppEnds \/ AppDestroys \/ Return)
  BY <1>1 DEF AppWrites, AppEnds, AppDestroys, AppMay, Return
<1> QED BY <1>2, <1>3 DEF Local

\* The creation of a stream.
LEMMA BirthAccounts ==
  ASSUME TypeOK, Order, Watched, Whole, Accounts, stream.heap = "none", Local
  PROVE  Effects /\ Accounts'
<1>1. Accept \/ Connect \/ ConnectFails
  BY OnlyBirth
<1>2. /\ Len(sock.wire) \in Nat /\ sock.room \in Nat /\ log.written \in Nat
      /\ log.closed = 0 /\ stream.out = <<>> /\ ~sock.shut /\ ~log.send_failed
  BY DEF TypeOK, Sockets, Logs, Watched, Order, Whole, Fresh
<1>3. CASE ConnectFails
  <2>1. stream'.heap = "freed" /\ stream'.out = stream.out
        /\ UNCHANGED <<io, sock, timer, stack, log>>
    BY <1>3 DEF ConnectFails, TypeOK, Streams
  <2>2. Effects
    BY <1>2, <2>1 DEF Effects
  <2> QED BY <1>2, <2>1, <2>2 DEF Accounts, Open, Alive
<1>4. CASE Accept \/ Connect
  <2>1. /\ \E r, o : stream' = [stream EXCEPT !.heap = "alive", !.ready_state = r,
                                              !.oneshot = o]
        /\ sock' = [sock EXCEPT !.open = TRUE]
        /\ stack' = Call("on_connection") \o <<"accepted">> \/ UNCHANGED stack
        /\ UNCHANGED log
    BY <1>4 DEF Accept, Connect
  <2>2. stream'.out = stream.out
    BY <2>1 DEF TypeOK, Streams
  <2>3. /\ sock'.open = TRUE /\ sock'.shut = sock.shut /\ sock'.wire = sock.wire
        /\ sock'.room = sock.room /\ sock'.arrived = sock.arrived /\ sock'.fin = sock.fin
        /\ sock'.reset = sock.reset /\ sock'.read = sock.read
    BY <2>1 DEF TypeOK, Sockets
  <2>4. stack' \notin ReadFailing \cup Draining
    <3>1. stack' = <<"on_connection", "accepted">> \/ stack' = <<"accepted">> \/ stack' = <<>>
      BY <2>1, OnTop DEF Call, Watched
    <3>2. "accepted" \notin {"read_failed", "on_drain"}
      OBVIOUS
    <3> QED BY <3>1, <3>2, OtherStacks
  <2>5. Effects
    BY <1>2, <2>1, <2>3 DEF Effects
  <2> QED BY <1>2, <2>1, <2>2, <2>3, <2>4, <2>5 DEF Accounts, Open
<1> QED BY <1>1, <1>3, <1>4

\* A stream that is failing or closing.
LEMMA HaltedAccounts ==
  ASSUME Known, Tidy, ~Open, stream.heap # "none", Local
  PROVE  Effects /\ Accounts'
<1>1. TypeOK /\ Order /\ Watched /\ Over /\ Whole /\ Accounts /\ Considerate
  BY DEF Known, Tidy
<1>2. [Next]_vars
  BY DEF Local, Next, Application
<1>3. /\ \/ UNCHANGED <<stream, stack, log>>
         \/ UNCHANGED <<stream, log>>
         \/ UNCHANGED log /\ Head(stack) = "free" /\ stream'.heap = "freed" /\ stack' = Tail(stack)
         \/ \E p \in Points : Fault(p)
         \/ Alive /\ log.send_failed /\ \E rest : Destroy(FALSE, rest)
      /\ UNCHANGED sock \/ \E rest : Destroy(FALSE, rest)
  BY <1>1, <1>2, HaltedStep
<1>4. CASE \E rest : Destroy(FALSE, rest)
  <2>1. Alive /\ log.send_failed
    <3>1. PICK rest : Destroy(FALSE, rest)
      BY <1>4
    <3>2. log'.closed # log.closed
      BY <1>1, <3>1 DEF Destroy, TypeOK, Logs
    <3>3. \A p \in Points : Fault(p) => log'.closed = log.closed
      BY <1>1 DEF Fault, TypeOK, Logs
    <3> QED BY <1>3, <3>2, <3>3
  <2> QED BY <1>1, <1>4, <2>1, DestroyAccounts DEF Accounts
<1>5. CASE UNCHANGED sock /\ ~\E rest : Destroy(FALSE, rest)
  <2>1. /\ log'.written = log.written /\ log'.delivered = log.delivered
        /\ log'.ended = log.ended /\ log'.closed = log.closed
        /\ log'.send_failed = log.send_failed
    BY <1>1, <1>3, <1>5 DEF Fault, TypeOK, Logs
  <2>2. stream'.out = stream.out \/ stream'.out = <<>>
    <3>1. stream'.heap = "freed" => stream'.out = <<>>
      BY <1>1, <1>2, NextOrder DEF Order
    <3> QED BY <1>3, <1>5, <3>1 DEF Fault
  <2>3. ~Open'
    BY <1>1, <1>3, <1>5, <2>1 DEF Open, Alive, Fault
  <2>4. /\ Len(sock.wire) \in Nat /\ sock.room \in Nat /\ log.written \in Nat
        /\ log.closed \in Nat
    BY <1>1 DEF TypeOK, Sockets, Logs
  <2>5. Effects
    BY <1>5, <2>1, <2>4 DEF Effects
  <2> QED BY <1>1, <1>5, <2>1, <2>2, <2>3, <2>5 DEF Accounts
<1> QED BY <1>3, <1>4, <1>5

\* What a stream in use does.
LEMMA OpenSteps ==
  ASSUME Known, Tidy, Open, Local
  PROVE  /\ Library => \/ Poll \/ Accepted \/ Connected \/ TimedOut \/ OnConnect
                       \/ OnReadError \/ FinEnd \/ FinClose \/ ReadFailed
                       \/ OnData \/ OnFin \/ OnWritable
         /\ ~(Accept \/ Connect \/ ConnectFails)
<1>1. ~(Free \/ SendFailed \/ WatchWritesAfterFailure \/ CheckClosed)
  <2>1. ASSUME NEW p \in {"free", "send_failed", "watch_writes", "check_closed"},
               stack # <<>>, Head(stack) = p
        PROVE  FALSE
    <3>1. Head(stack) \in Points
      BY <2>1 DEF Points
    <3> QED BY <2>1, <3>1, OpenPoint DEF Known
  <2> QED BY <2>1 DEF Free, SendFailed, WatchWritesAfterFailure, CheckClosed, At
<1>2. ~(Accept \/ Connect \/ ConnectFails)
  BY OpenFacts DEF Accept, Connect, ConnectFails, Known
<1>3. ~OnTimer
  <2>1. [Next]_vars
    BY DEF Local, Next, Application
  <2> QED BY <2>1, NeverArmed DEF Known, Ready, Tidy
<1> QED BY <1>1, <1>2, <1>3 DEF Library

\* Every step of the process: what the other end may notice, and what remains
\* known.
LEMMA LocalKnown ==
  ASSUME Known, Tidy, Local
  PROVE  Effects /\ Known'
<1>1. TypeOK /\ Order /\ Watched /\ Over /\ Whole /\ Ready /\ Accounts /\ Considerate /\ Quiet
  BY DEF Known, Tidy, Considerate
<1>2. [Next]_vars
  BY DEF Local, Next, Application
<1>3. TypeOK' /\ Order' /\ Watched' /\ Over'
  BY <1>1, <1>2, NextTypeOK, NextOrder, NextWatched, NextOver
<1>4. Whole'
  BY <1>1, <1>2, OpenKeeps, BirthKeeps, HaltedKeeps
<1>5. Ready'
  BY <1>1, ReadyKept
<1>6. Effects /\ Accounts'
  <2>1. CASE stream.heap = "none"
    BY <1>1, <2>1, BirthAccounts
  <2>2. CASE ~Open /\ stream.heap # "none"
    BY <2>2, HaltedAccounts
  <2>3. CASE Open
    BY <1>1, <2>3, OpenSteps, OpenRestAccounts, FinishAccounts, ReadAccounts,
       WritableAccounts, WriteAccounts, EndAccounts DEF Local
  <2> QED BY <2>1, <2>2, <2>3
<1> QED BY <1>3, <1>4, <1>5, <1>6 DEF Known

\* What one end knows of what it wrote and of what it was given.
LEMMA KnownFacts ==
  ASSUME Known
  PROVE  /\ sock.wire \in Seq(Nat) /\ Numbered(sock.wire, 0) /\ Len(sock.wire) <= log.written
         /\ sock.room \in Nat /\ log.written \in Nat /\ sock.arrived \in Nat
         /\ log.closed \in Nat /\ log.ended \in {0, 1}
         /\ log.delivered \in Seq(Nat) /\ Numbered(log.delivered, 0)
         /\ Len(log.delivered) <= sock.arrived
         /\ log.ended > 0 /\ "on_data" \in Installed =>
              sock.fin /\ Len(log.delivered) = sock.arrived
         /\ (sock.shut \/ log.closed > 0) /\ ~sock.reset => Len(sock.wire) = log.written
<1>1. /\ sock \in Sockets /\ log \in Logs /\ sock.read <= sock.arrived
      /\ Order /\ Accounts /\ Heard
  BY DEF Known, TypeOK, Whole
<1>2. log.ended \in Nat /\ (log.ended > 0 => log.ended = 1)
  BY <1>1 DEF Heard, Logs
<1>3. ASSUME log.ended > 0, "on_data" \in Installed
      PROVE  sock.fin /\ Len(log.delivered) = sock.arrived
  <2>1. /\ sock.fin /\ sock.read = sock.arrived /\ log.delivered = Bytes(0, sock.read)
        /\ sock.read \in Nat
    BY <1>1, <1>3 DEF Heard, Told, Sockets
  <2>2. 0 + sock.read = sock.read /\ 0 \in Nat
    BY <2>1
  <2>3. Len(Bytes(0, 0 + sock.read)) = sock.read
    BY <2>1, <2>2, NewBytes
  <2> QED BY <2>1, <2>2, <2>3
<1>4. Len(log.delivered) <= sock.arrived
  BY <1>1 DEF Accounts, Sockets, Logs
<1> QED BY <1>1, <1>2, <1>3, <1>4 DEF Order, Accounts, Sockets, Logs
-------------------------------------------------------------------------------
(***************************************************************************)
(* An end at which nothing goes wrong: a oneshot stream whose connection   *)
(* holds, and whose application ends it.                                   *)
(***************************************************************************)

\* The stacks without an on_data.
Without == Seq(Frames \ {"on_data"})

\* No send has failed, the stream is closed only after its FIN was handled, and
\* it is given all that the peer sent at once, with the FIN.
Smooth ==
  /\ ~sock.reset /\ ~log.send_failed
  /\ log.closed > 0 => log.ended > 0
  /\ Alive => stream.oneshot
  /\ IF log.delivered = <<>> THEN stack \in Without
     ELSE sock.fin /\ Len(log.delivered) = sock.arrived

\* The steps of the library, and of an application that writes and destroys nothing.
Routine == Library \/ Accept \/ Connect \/ ConnectFails \/ Return
Plain == Routine \/ AppEnds

\* An application calls only on a stream in use.
LEMMA CallsOpen ==
  ASSUME TypeOK, Over, Considerate, ~log.send_failed, NEW call, AppMay(call)
  PROVE  Open
<1>1. Alive /\ Context \in Contexts /\ call \in AppCalls[Context]
  BY DEF AppMay
<1>2. ASSUME log.closed > 0 PROVE FALSE
  <2>1. stack # <<>> /\ Head(stack) \in {"free", "on_close"}
    BY <1>1, <1>2 DEF Over
  <2>2. Context = Head(stack)
    BY <2>1 DEF Context
  <2>3. "free" \notin Contexts
    BY DEF Contexts, Callbacks
  <2> QED BY <1>1, <2>1, <2>2, <2>3 DEF Considerate, Quiet
<1> QED BY <1>1, <1>2 DEF Open, TypeOK, Logs

\* on_drain finds nothing queued if it writes nothing.
LEMMA DrainedIsSent ==
  ASSUME Known, Tidy, ~log.send_failed, NEW call, AppMay(call),
         stack # <<>>, Head(stack) = "on_drain", "write" \notin AppCalls["on_drain"]
  PROVE  stream.out = <<>>
<1>1. Open /\ stack \in Shapes
  BY CallsOpen, OpenFacts DEF Known, Tidy
<1>2. Head(stack) \notin Points \cup {"on_error", "on_timeout"}
  BY DEF Points
<1>3. stack = <<"on_drain">>
  BY <1>1, <1>2, LooseCallback
<1> QED BY <1>1, <1>3 DEF Known, Accounts, Draining

\* The first write of an application finds room for a byte: nothing fails.
LEMMA FirstWrite ==
  ASSUME Known, Tidy, Smooth, AppMay("write"), NEW n \in Nat, n # 0, Write(n),
         log.written = 0, ~sock.shut, sock.room > 0
  PROVE  /\ Smooth' /\ log'.written = n /\ log'.delivered = log.delivered
         /\ ~sock'.shut /\ UNCHANGED stack
<1>1. Open /\ sock \in Sockets /\ log \in Logs /\ stream \in Streams
  BY CallsOpen, OpenFacts DEF Known, Tidy, Smooth
<1>2. stream.out = <<>>
  <2>1. Len(sock.wire) + Len(stream.out) = 0
    BY <1>1 DEF Known, Order, Open, Alive
  <2>2. stream.out \in Seq(Nat) /\ Len(stream.out) \in Nat /\ Len(sock.wire) \in Nat
    BY <1>1 DEF Sockets, Streams
  <2>3. Len(stream.out) = 0
    <3> DEFINE w == Len(sock.wire)
               q == Len(stream.out)
    <3>1. w \in Nat /\ q \in Nat /\ w + q = 0
      BY <2>1, <2>2
    <3> HIDE DEF w, q
    <3>2. q = 0
      BY <3>1
    <3> QED BY <3>2 DEF q
  <2> QED BY <2>2, <2>3, EmptySeq
<1>3. CanSend
  BY <1>1 DEF CanSend, Known, Accounts, Smooth
<1>4. stream.ready_state # "READ_ONLY"
  BY <1>1, OpenFacts DEF Known, StateAgrees
<1> DEFINE data == Bytes(log.written, log.written + n)
<1>5. /\ Sent(data) /\ stream' = [stream EXCEPT !.out = Unsent(data)]
      /\ log' = [log EXCEPT !.written = log.written + n] /\ UNCHANGED stack
  BY <1>2, <1>3, <1>4 DEF Write
<1>6. data \in Seq(Nat)
  BY <1>1, NewBytes DEF Logs
<1> HIDE DEF data
<1>7. /\ sock'.shut = sock.shut /\ sock'.reset = sock.reset
      /\ sock'.arrived = sock.arrived /\ sock'.fin = sock.fin
  BY <1>5, <1>6, SentAccounts DEF Known
<1>8. /\ log'.written = log.written + n /\ log'.delivered = log.delivered
      /\ log'.ended = log.ended /\ log'.closed = log.closed
      /\ log'.send_failed = log.send_failed
  BY <1>1, <1>5 DEF Logs
<1>9. stream'.oneshot = stream.oneshot /\ stream'.heap = stream.heap
  BY <1>1, <1>5 DEF Streams
<1> QED BY <1>5, <1>7, <1>8, <1>9 DEF Smooth, Alive

\* A step that writes and destroys nothing makes nothing fail and closes nothing
\* before its time.
LEMMA PlainLog ==
  ASSUME Known, Tidy, Smooth, Plain
  PROVE  /\ ~log'.send_failed /\ (log'.closed > 0 => log'.ended > 0)
         /\ log'.written = log.written /\ (Routine => sock'.shut = sock.shut)
<1>1. /\ TypeOK /\ Order /\ Watched /\ Over /\ Whole /\ Ready /\ Accounts /\ Considerate
      /\ sock \in Sockets /\ log \in Logs /\ log.closed \in Nat /\ log.ended \in Nat
      /\ ~log.send_failed /\ ~sock.reset /\ (log.closed > 0 => log.ended > 0)
  BY DEF Known, Tidy, Smooth, TypeOK, Sockets, Logs
<1>2. Local /\ [Next]_vars
  BY DEF Plain, Routine, Local, Next, Application
<1>3. UNCHANGED log => /\ ~log'.send_failed /\ (log'.closed > 0 => log'.ended > 0)
                       /\ log'.written = log.written
  BY <1>1
<1>4. ASSUME NEW clean, NEW rest, Destroy(clean, rest), log.ended > 0
      PROVE  /\ ~log'.send_failed /\ (log'.closed > 0 => log'.ended > 0)
             /\ log'.written = log.written /\ sock'.shut = sock.shut
  BY <1>1, <1>4 DEF Destroy, Logs, Sockets
<1>5. CASE stream.heap = "none"
  <2>1. UNCHANGED log /\ (UNCHANGED sock \/ sock' = [sock EXCEPT !.open = TRUE])
    BY <1>1, <1>2, <1>5, OnlyBirth DEF Accept, Connect, ConnectFails
  <2>2. sock'.shut = sock.shut
    BY <1>1, <2>1 DEF Sockets
  <2> QED BY <1>3, <2>1, <2>2
<1>6. CASE ~Open /\ stream.heap # "none"
  <2>1. /\ UNCHANGED log \/ \E p \in Points : Fault(p)
        /\ UNCHANGED sock \/ \E rest : Destroy(FALSE, rest)
    BY <1>1, <1>2, <1>6, HaltedStep
  <2>2. \A p : Fault(p) => /\ log'.send_failed = log.send_failed /\ log'.closed = log.closed
                           /\ log'.ended = log.ended /\ log'.written = log.written
    BY <1>1 DEF Fault, Logs
  <2>3. \A rest : Destroy(FALSE, rest) => sock'.shut = sock.shut
    BY <1>1 DEF Destroy, Sockets
  <2> QED BY <1>1, <1>3, <2>1, <2>2, <2>3
<1> DEFINE Goes == /\ ~log'.send_failed /\ (log'.closed > 0 => log'.ended > 0)
                   /\ log'.written = log.written
<1>7. CASE Open
  <2>1. /\ stack # <<>> /\ Head(stack) \in Marks => Phase(stack) = Head(stack)
        /\ stream.heap # "freed" /\ StateAgrees /\ OutputAgrees
    <3>1. Marks \subseteq Points
      BY DEF Marks, Points
    <3> QED BY <1>1, <1>7, <3>1, OpenPoint, OpenFacts
  <2>2. ASSUME Return \/ Poll \/ Accepted \/ Connected \/ TimedOut \/ OnConnect \/ OnReadError PROVE Goes /\ sock'.shut = sock.shut
    <3>1. UNCHANGED sock /\ UNCHANGED log
      BY <2>1, <2>2
         DEF Return, Poll, Accepted, Connected, TimedOut, OnConnect, OnReadError, At
    <3> QED BY <1>3, <3>1
  <2>3. ASSUME FinEnd PROVE Goes /\ sock'.shut = sock.shut
    <3>1. log' = [log EXCEPT !.ended = log.ended + 1] /\ UNCHANGED sock
      BY <2>1, <2>3 DEF FinEnd, At
    <3>2. /\ log'.send_failed = log.send_failed /\ log'.ended = log.ended + 1
          /\ log'.written = log.written
      BY <1>1, <3>1 DEF Logs
    <3> QED BY <1>1, <3>1, <3>2
  <2>4. ASSUME FinClose PROVE Goes /\ sock'.shut = sock.shut
    <3>1. stack # <<>> /\ Head(stack) = "fin_close"
          /\ (Destroy(TRUE, Tail(stack)) \/ UNCHANGED <<sock, log>>)
      BY <2>1, <2>4 DEF FinClose, At
    <3>2. log.ended > 0
      BY <2>1, <3>1 DEF Marks, StateAgrees
    <3> QED BY <1>3, <1>4, <3>1, <3>2
  <2>5. ASSUME ReadFailed PROVE Goes /\ sock'.shut = sock.shut
    <3>1. stack # <<>> /\ Head(stack) = "read_failed"
      BY <2>5 DEF ReadFailed, At
    <3>2. stack = <<"read_failed">>
      <4>1. "read_failed" \in Points
        BY DEF Points
      <4> QED BY <1>1, <1>7, <3>1, <4>1, PointIsBottom, OpenFacts
    <3> QED BY <1>1, <1>7, <3>2 DEF Accounts, ReadFailing
  <2>6. ASSUME OnData \/ OnFin PROVE Goes /\ sock'.shut = sock.shut
    <3>1. /\ log' = log \/ \E d : log' = [log EXCEPT !.delivered = d]
          /\ sock' = sock \/ \E r : sock' = [sock EXCEPT !.read = r]
      BY <2>6 DEF OnData, OnFin, Deliver
    <3>2. /\ log'.send_failed = log.send_failed /\ log'.closed = log.closed
          /\ log'.ended = log.ended /\ log'.written = log.written /\ sock'.shut = sock.shut
      BY <1>1, <3>1 DEF Logs, Sockets
    <3> QED BY <1>1, <3>2
  <2>7. ASSUME OnWritable PROVE Goes /\ sock'.shut = sock.shut
    <3>1. stream.out # <<>> => CanSend
      <4>1. "WRITE" \in io.pending /\ sock.open
        BY <1>1, <1>7, <2>7 DEF OnWritable, Accounts
      <4>2. stream.out # <<>> => ~sock.shut
        BY <2>1 DEF OutputAgrees, Tidy
      <4> QED BY <1>1, <4>1, <4>2 DEF Ready, CanSend
    <3>2. Sent(stream.out) /\ UNCHANGED log
      BY <2>7, <3>1 DEF OnWritable
    <3>3. sock'.shut = sock.shut
      BY <1>1, <3>2 DEF Sent, Sockets
    <3> QED BY <1>3, <3>2, <3>3
  <2>8. ASSUME AppEnds, ~Routine PROVE Goes
    <3>1. (stream.ready_state = "WRITE_ONLY" /\ Destroy(TRUE, stack)) \/ UNCHANGED log
      BY <2>8 DEF AppEnds
    <3>2. stream.ready_state = "WRITE_ONLY" => log.ended > 0
      BY <2>1 DEF StateAgrees, Ended
    <3> QED BY <1>3, <1>4, <2>8, <3>1, <3>2
  <2>9. CASE Routine
    BY <1>2, <1>7, <2>2, <2>3, <2>4, <2>5, <2>6, <2>7, <2>9, OpenSteps DEF Routine
  <2> QED BY <1>7, <2>8, <2>9 DEF Plain
<1> QED BY <1>5, <1>6, <1>7

\* Stacks stay without an on_data if none is called.
LEMMA PushWithout ==
  /\ \A c \in Callbacks \ {"on_data"} : Call(c) \in Without
  /\ \A p, q \in Points : <<p>> \in Without /\ <<p, q>> \in Without
  /\ \A s, t \in Without : s \o t \in Without
  /\ \A s \in Without : s # <<>> => Tail(s) \in Without
  /\ <<>> \in Without
<1> DEFINE F == Frames \ {"on_data"}
<1>1. Callbacks \ {"on_data"} \subseteq F /\ Points \subseteq F
  BY DEF Frames, Points, Callbacks
<1>2. \A c \in F : <<c>> \in Seq(F)
  OBVIOUS
<1>3. \A p, q \in F : <<p, q>> \in Seq(F)
  OBVIOUS
<1>4. \A s, t \in Seq(F) : s \o t \in Seq(F)
  OBVIOUS
<1>5. \A s \in Seq(F) : s # <<>> => Tail(s) \in Seq(F)
  BY HeadTailProperties
<1>6. <<>> \in Seq(F)
  OBVIOUS
<1>7. Without = Seq(F)
  BY DEF Without
<1> HIDE DEF F
<1>8. \A c \in Callbacks \ {"on_data"} : Call(c) \in Without
  BY <1>1, <1>2, <1>6, <1>7 DEF Call
<1> QED BY <1>1, <1>2, <1>3, <1>4, <1>5, <1>6, <1>7, <1>8

LEMMA StaysWithout ==
  ASSUME stack \in Without, Plain, ~OnData, ~OnFin
  PROVE  stack' \in Without
<1>1. ASSUME NEW clean, NEW rest \in Without, Destroy(clean, rest)
      PROVE  stack' \in Without
  <2>1. stack' = Call("on_close") \o <<"free">> \o rest
    BY <1>1 DEF Destroy
  <2>2. Call("on_close") \in Without /\ <<"free">> \in Without
    BY PushWithout DEF Callbacks, Points
  <2> QED BY <1>1, <2>1, <2>2, PushWithout
<1>2. ASSUME NEW caller \in Points, SendFails(caller) PROVE stack' \in Without
  <2>1. stack' = Call("on_error") \o <<"send_failed", caller>> \o stack
    BY <1>2 DEF SendFails
  <2>2. Call("on_error") \in Without /\ <<"send_failed", caller>> \in Without
    BY PushWithout DEF Callbacks, Points
  <2> QED BY <2>1, <2>2, PushWithout
<1>3. CASE \/ Poll \/ Connect \/ ConnectFails
           \/ Accepted \/ Connected \/ Free \/ WatchWritesAfterFailure \/ CheckClosed
           \/ TimedOut \/ Return
  <2>1. UNCHANGED stack \/ (stack # <<>> /\ stack' = Tail(stack))
    BY <1>3 DEF Poll, Connect, ConnectFails, Accepted, Connected, Free,
       WatchWritesAfterFailure, CheckClosed, TimedOut, Return, At, Fault
  <2> QED BY <2>1, PushWithout
<1>4. CASE ReadFailed \/ SendFailed \/ FinClose
  <2>1. \/ UNCHANGED stack \/ (stack # <<>> /\ stack' = Tail(stack))
        \/ stack # <<>> /\ \E clean \in BOOLEAN : Destroy(clean, Tail(stack))
    BY <1>4 DEF ReadFailed, SendFailed, FinClose, At, Fault
  <2> QED BY <1>1, <2>1, PushWithout
<1>5. CASE FinEnd
  <2>1. UNCHANGED stack
        \/ (stack # <<>> /\ stack' = Call("on_end") \o <<"fin_close">> \o Tail(stack))
    BY <1>5 DEF FinEnd, At, Fault
  <2>2. Call("on_end") \in Without /\ <<"fin_close">> \in Without
    BY PushWithout DEF Callbacks, Points
  <2>3. Call("on_end") \o <<"fin_close">> \in Without
    BY <2>2, PushWithout
  <2> QED BY <2>1, <2>3, PushWithout
<1>6. CASE Accept \/ OnConnect \/ OnReadError \/ OnTimer
  <2>1. \/ UNCHANGED stack
        \/ \E c \in Callbacks \ {"on_data"}, p \in Points : stack' = Call(c) \o <<p>>
    <3>1. {"on_connection", "on_connect", "on_error", "on_timeout"}
            \subseteq Callbacks \ {"on_data"}
      BY DEF Callbacks
    <3>2. {"accepted", "connected", "read_failed", "timed_out"} \subseteq Points
      BY DEF Points
    <3>3. \/ UNCHANGED stack
          \/ stack' = Call("on_connection") \o <<"accepted">>
          \/ stack' = Call("on_connect") \o <<"connected">>
          \/ stack' = Call("on_error") \o <<"read_failed">>
          \/ stack' = Call("on_timeout") \o <<"timed_out">>
      BY <1>6 DEF Accept, OnConnect, OnReadError, OnTimer
    <3> HIDE DEF Call
    <3> QED BY <3>1, <3>2, <3>3
  <2> QED BY <2>1, PushWithout
<1>7. CASE OnWritable
  <2>1. SendFails("check_closed") \/ stack' = Call("on_drain") \/ UNCHANGED stack
    BY <1>7 DEF OnWritable
  <2>2. "on_drain" \in Callbacks \ {"on_data"} /\ "check_closed" \in Points
    BY DEF Callbacks, Points
  <2> QED BY <1>2, <2>1, <2>2, PushWithout
<1>8. CASE AppEnds
  <2>1. Destroy(TRUE, stack) \/ UNCHANGED stack
    BY <1>8 DEF AppEnds
  <2> QED BY <1>1, <2>1
<1> QED BY <1>3, <1>4, <1>5, <1>6, <1>7, <1>8 DEF Plain, Routine, Library

\* Only the FIN makes a oneshot stream deliver, once, all that arrived.
LEMMA PlainDelivers ==
  ASSUME Known, Tidy, Smooth, Plain
  PROVE  \/ /\ log'.delivered = log.delivered
            /\ stack \in Without => stack' \in Without
         \/ /\ log.delivered = <<>> /\ log'.delivered # <<>>
            /\ sock.fin /\ Len(log'.delivered) = sock.arrived
<1>1. /\ TypeOK /\ Watched /\ Over /\ Whole /\ Considerate /\ log \in Logs
      /\ sock \in Sockets
  BY DEF Known, Tidy, TypeOK
<1>2. Local /\ [Next]_vars
  BY DEF Plain, Routine, Local, Next, Application
<1>3. ASSUME ReadEvent PROVE Open
  <2>1. io.active
    BY <1>3 DEF ReadEvent, Known, TypeOK
  <2>2. stream.heap \in {"none", "alive", "freed"} /\ log.closed \in Nat
    BY <1>1 DEF TypeOK, Streams, Logs
  <2> QED BY <1>1, <2>1, <2>2 DEF Watched, Over, Gone, Open, Alive, Smooth
<1>4. CASE OnData
  <2>1. ReadEvent /\ stream.oneshot
    BY <1>3, <1>4 DEF OnData, Smooth, Open
  <2>2. UNCHANGED <<stack, log>>
    BY <1>4, <2>1 DEF OnData
  <2> QED BY <2>2
<1>5. CASE OnFin
  <2>1. Open /\ stream.oneshot /\ stack = <<>> /\ log.ended = 0
    BY <1>1, <1>3, <1>5, ReadFacts DEF OnFin, Smooth, Open
  <2>2. log.delivered = <<>> /\ stream.bufferlist = Bytes(0, sock.read)
    BY <1>1, <2>1, IdleFacts
  <2>3. CASE "on_data" \in Installed /\ stream.bufferlist # <<>>
    <3>1. /\ log' = [log EXCEPT !.delivered = log.delivered \o stream.bufferlist]
          /\ sock.fin /\ Unread = <<>>
      BY <1>5, <2>1, <2>3 DEF OnFin, Deliver
    <3>2. log'.delivered = stream.bufferlist
      <4>1. stream.bufferlist \in Seq(Nat)
        BY <1>1 DEF TypeOK, Streams
      <4> QED BY <1>1, <2>2, <3>1, <4>1, ConcatEmptySeq DEF Logs
    <3>3. sock.read = sock.arrived /\ sock.read \in Nat
      BY <1>1, <3>1, UnreadFacts DEF Sockets
    <3>4. Len(Bytes(0, sock.read)) = sock.read
      <4>1. 0 \in Nat /\ 0 + sock.read = sock.read
        BY <3>3
      <4> QED BY <3>3, <4>1, NewBytes
    <3> QED BY <2>2, <2>3, <3>1, <3>2, <3>3, <3>4
  <2>4. CASE ~("on_data" \in Installed /\ stream.bufferlist # <<>>)
    <3>1. /\ log' = log
          /\ \/ stack' = <<"fin_end">>
             \/ stack' = Call("on_data") \o <<"fin_end">> /\ "on_data" \notin Installed
      BY <1>5, <2>1, <2>4 DEF OnFin, Deliver
    <3>2. stack' = <<"fin_end">>
      BY <3>1, OnTop DEF Call
    <3>3. "fin_end" \in Points
      BY DEF Points
    <3> QED BY <3>1, <3>2, <3>3, PushWithout
  <2> QED BY <2>3, <2>4
<1>6. CASE ~OnData /\ ~OnFin
  <2>1. log'.delivered = log.delivered
    <3>1. CASE stream.heap = "none"
      BY <1>1, <1>2, <3>1, OnlyBirth DEF Accept, Connect, ConnectFails
    <3>2. CASE ~Open /\ stream.heap # "none"
      <4>1. UNCHANGED log \/ \E p \in Points : Fault(p)
        BY <1>1, <1>2, <3>2, HaltedStep DEF Smooth
      <4> QED BY <1>1, <4>1 DEF Fault, Logs
    <3>3. CASE Open
      <4>1. \/ Return \/ Poll \/ Accepted \/ Connected \/ TimedOut \/ OnConnect
            \/ OnReadError \/ FinEnd \/ FinClose \/ ReadFailed \/ OnWritable \/ AppEnds
        BY <1>2, <1>6, <3>3, OpenSteps DEF Plain, Routine
      <4>2. ASSUME NEW clean, NEW rest, Destroy(clean, rest)
            PROVE  log' = [log EXCEPT !.closed = log'.closed, !.had_error = log'.had_error]
        BY <1>1, <4>2 DEF Destroy, Logs
      <4>3. \/ UNCHANGED log \/ (\E n : log' = [log EXCEPT !.ended = n])
            \/ (\E clean, rest : Destroy(clean, rest))
            \/ log' = [log EXCEPT !.send_failed = TRUE]
            \/ \E p : log' = [log EXCEPT !.ub = p]
        <5>1. CASE Return \/ Poll \/ Accepted \/ Connected \/ TimedOut \/ OnConnect
                     \/ OnReadError
          BY <5>1 DEF Return, Poll, Accepted, Connected, TimedOut, OnConnect, OnReadError,
                      At, Fault
        <5>2. CASE FinEnd \/ FinClose \/ ReadFailed
          BY <5>2 DEF FinEnd, FinClose, ReadFailed, At, Fault
        <5>3. CASE OnWritable
          BY <5>3 DEF OnWritable, SendFails
        <5>4. CASE AppEnds
          BY <5>4 DEF AppEnds
        <5> QED BY <4>1, <5>1, <5>2, <5>3, <5>4
      <4> QED BY <1>1, <4>2, <4>3 DEF Logs
    <3> QED BY <3>1, <3>2, <3>3
  <2> QED BY <1>6, <2>1, StaysWithout
<1> QED BY <1>4, <1>5, <1>6

\* Nothing that such a step does makes the end less smooth.
LEMMA PlainSmooth ==
  ASSUME Known, Tidy, Smooth, Oneshots \subseteq {TRUE}, Plain
  PROVE  /\ Smooth' /\ log'.written = log.written /\ (Routine => sock'.shut = sock.shut)
         /\ log.delivered # <<>> =>
              log'.delivered = log.delivered /\ (stack \in Without => stack' \in Without)
<1>1. /\ TypeOK /\ Watched /\ Over /\ Whole /\ Considerate /\ stream \in Streams
  BY DEF Known, Tidy, TypeOK
<1>2. Local
  BY DEF Plain, Routine, Local
<1>3. /\ sock'.reset = sock.reset /\ sock'.fin = sock.fin /\ sock'.arrived = sock.arrived
  BY <1>2, LocalKnown DEF Effects
<1>4. Alive' => stream'.oneshot
  <2>1. CASE stream.heap = "none"
    <3>1. Accept \/ Connect \/ ConnectFails
      BY <1>1, <1>2, <2>1, OnlyBirth
    <3>2. \/ stream' = [stream EXCEPT !.heap = "freed"]
          \/ \E r, o : /\ o \in Oneshots
                       /\ stream' = [stream EXCEPT !.heap = "alive", !.ready_state = r,
                                                   !.oneshot = o]
      BY <3>1 DEF Accept, Connect, ConnectFails
    <3>3. ASSUME NEW r, NEW o \in Oneshots,
                 stream' = [stream EXCEPT !.heap = "alive", !.ready_state = r, !.oneshot = o]
          PROVE  stream'.oneshot
      <4>1. o = TRUE
        BY <3>3
      <4>2. stream'.oneshot = o
        BY <1>1, <3>3 DEF Streams
      <4> QED BY <4>1, <4>2
    <3>4. stream' = [stream EXCEPT !.heap = "freed"] => ~Alive'
      BY <1>1 DEF Streams, Alive
    <3> QED BY <3>2, <3>3, <3>4
  <2>2. CASE stream.heap # "none"
    <3>1. ~(Accept \/ Connect \/ ConnectFails)
      BY <2>2 DEF Accept, Connect, ConnectFails
    <3>2. stream'.oneshot = stream.oneshot /\ (Alive' => Alive)
      <4>1. \/ UNCHANGED stream
            \/ \E l : stream' = [stream EXCEPT !.has_list = l]
            \/ \E r : stream' = [stream EXCEPT !.ready_state = r]
            \/ \E o : stream' = [stream EXCEPT !.out = o]
            \/ \E b : stream' = [stream EXCEPT !.bufferlist = b]
            \/ stream' = [stream EXCEPT !.heap = "freed", !.out = <<>>,
                                        !.bufferlist = <<>>, !.has_list = FALSE]
        BY <3>1 DEF Plain, Routine, Library, Accepted, Connected, Free, ReadFailed, SendFailed,
           WatchWritesAfterFailure, CheckClosed, FinEnd, FinClose, TimedOut, OnConnect,
           OnData, OnReadError, OnFin, OnWritable, OnTimer, Poll, Return, AppEnds, At,
           Fault, Destroy, HalfClose, EndOutput
      <4> QED BY <1>1, <4>1 DEF Streams, Alive
    <3> QED BY <3>2 DEF Smooth
  <2> QED BY <2>1, <2>2
<1> QED BY <1>3, <1>4, PlainLog, PlainDelivers DEF Smooth

\* Nor does the network, unless it resets the connection.
LEMMA OutsideSmooth == Smooth /\ Outside /\ ~sock'.reset => Smooth'
  BY DEF Smooth, Outside, Alive

LEMMA InitSmooth == Init => Smooth
  BY PushWithout DEF Init, Smooth, Alive

\* Of two on_data, none is below the other.
LEMMA OneOnData ==
  ASSUME Known, Smooth, stack # <<>>, Head(stack) = "on_data"
  PROVE  Tail(stack) \in Without
<1>1. \A p, q : /\ Head(<<p>>) = p /\ Tail(<<p>>) = <<>>
                /\ Head(<<p, q>>) = p /\ Tail(<<p, q>>) = <<q>>
  BY Frame
<1>2. \A p, q, r : Head(<<p, q, r>>) = p
  BY Frame
<1>3. /\ "on_data" \notin Points /\ "on_data" \notin {"on_error", "on_drain", "free", "on_close"}
      /\ {"read_failed", "accepted", "connected", "fin_end", "fin_close", "timed_out"}
           \subseteq Points
  BY DEF Points
<1>4. stack \in {<<"on_data">>, <<"on_data", "fin_end">>}
  <2>1. CASE Open
    <3>1. stack \in Shapes
      BY <2>1, OpenFacts DEF Known
    <3> QED BY <1>1, <1>2, <1>3, <3>1 DEF Shapes, Bracket
  <2>2. CASE ~Open
    <3>1. stream.heap # "none"
      BY DEF Known, Watched
    <3>2. stack \in Freeing \cup Leaving
      BY <2>2, <3>1 DEF Known, TypeOK, Streams, Logs, Whole, Course, Open, Alive, Smooth
    <3> QED BY <1>1, <1>2, <1>3, <3>2 DEF Freeing, Leaving
  <2> QED BY <2>1, <2>2
<1>5. Tail(stack) \in {<<>>, <<"fin_end">>}
  BY <1>1, <1>4
<1> QED BY <1>3, <1>5, PushWithout

\* What such an end has not done.
LEMMA SmoothFacts ==
  ASSUME Known, Smooth
  PROVE  /\ Defined /\ ~log.send_failed
         /\ log.closed > 0 => sock.fin /\ sock.read = sock.arrived
  BY DEF Known, Whole, Course, Heard, Smooth, Defined
================================================================================
