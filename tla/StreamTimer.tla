----------------------------- MODULE StreamTimer -----------------------------
(***************************************************************************)
(* The inactivity timer of a stream: struct evn_stream_timer and the calls *)
(* on it in source/evn.c, as operators on a record                         *)
(*                                                                         *)
(*   timeout  the configured timeout, 0 when none was ever set             *)
(*   idle     ev_now - last_activity                                       *)
(*   active   the flag the code keeps beside the libev timer               *)
(*   armed    whether libev has the timer among its active watchers        *)
(*   due      the time left until libev fires an armed timer               *)
(*                                                                         *)
(* Times are relative to ev_now and in ticks.  The code compares           *)
(* last_activity + timeout with ev_now, that is, timeout with idle; so     *)
(* idle stops counting just past timeout and due just below zero.          *)
(***************************************************************************)
EXTENDS Integers

TimerType(Timeouts) ==
  [timeout : Timeouts \cup {0}, idle : Nat, active : BOOLEAN,
   armed : BOOLEAN, due : Int]

\* evn_stream_create: calloc, and timeout = 0.
NoTimer ==
  [timeout |-> 0, idle |-> 0, active |-> FALSE, armed |-> FALSE, due |-> 0]

\* ev_timer_stop (libev).
Stop(t) == [t EXCEPT !.armed = FALSE, !.due = 0]

\* ev_timer_again (libev) after w->repeat = repeat: with a zero repeat a
\* started timer is stopped and a stopped one stays so.
Again(t, repeat) ==
  IF repeat = 0 THEN Stop(t) ELSE [t EXCEPT !.armed = TRUE, !.due = repeat]

\* "timeout < now" in evn_stream_timer_priv_cb.
Expired(t) == t.idle > t.timeout

\* A plausible slip in Rearm: waiting the whole timeout again.
RearmFully(t) == [Again(t, t.timeout) EXCEPT !.active = TRUE]

\* The other branch of evn_stream_timer_priv_cb: wait for what is left.
Rearm(t) == [Again(t, t.timeout - t.idle) EXCEPT !.active = TRUE]

\* What evn_stream_timer_priv_cb does after the on_timeout callback.
GiveUp(t) == [Stop(t) EXCEPT !.active = FALSE]

\* A plausible slip in Touch: an inactive timer is left inactive.
TouchOnly(t) == [t EXCEPT !.idle = 0]

\* Activity (a write, an event, the connection): last_activity = ev_now, and
\* a configured timer that is not active is started again.
Touch(t) ==
  LET u == [t EXCEPT !.idle = 0]
  IN  IF ~t.active /\ t.timeout # 0 THEN Rearm(u) ELSE u

\* evn_stream_set_timeout.  Zero stops the timer and leaves timeout as it is.
SetTimeout(t, timeout) ==
  IF timeout = 0
  THEN GiveUp(t)
  ELSE Rearm([GiveUp(t) EXCEPT !.timeout = timeout, !.idle = 0])

\* libev fires a timer once its time has passed.
Fires(t) == t.armed /\ t.due < 0

\* One tick of ev_now.
Tick(t) ==
  [t EXCEPT !.idle = IF @ > t.timeout THEN @ ELSE @ + 1,
            !.due  = IF t.armed /\ @ >= 0 THEN @ - 1 ELSE @]
===============================================================================
