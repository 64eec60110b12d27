----------------------------- MODULE TimerService ------------------------------
(***************************************************************************)
(* What the Scheduler promises its callers, without its vector of tasks,   *)
(* its worker or its mutex: a timer that is not cancelled first fires      *)
(* once, when its time has come, after every armed timer that is due       *)
(* before it or was set before it for the same time.                       *)
(***************************************************************************)
EXTENDS Naturals, Listeners

CONSTANTS Timers, Delays

VARIABLES
  clock,
  armed,      \* timers that are set, in the order they were set
  due,        \* the time each of them is set for
  fired,      \* timers whose callback has been called
  closed      \* the service is being destroyed

vars == <<clock, armed, due, fired, closed>>

Init ==
  /\ clock = 0
  /\ armed = <<>>
  /\ due = [t \in Timers |-> 0]
  /\ fired = {}
  /\ closed = FALSE

Tick ==
  /\ clock' = clock + 1
  /\ UNCHANGED <<armed, due, fired, closed>>

SetTimer(t, d) ==
  /\ t \notin Elements(armed) \cup fired
  /\ due' = [due EXCEPT ![t] = clock + d]
  /\ armed' = Append(armed, t)
  /\ UNCHANGED <<clock, fired, closed>>

Cancel(t) ==
  /\ armed' = Without(armed, {t})
  /\ UNCHANGED <<clock, due, fired, closed>>

Fire(i) ==
  /\ ~closed
  /\ due[armed[i]] <= clock
  /\ \A j \in 1 .. Len(armed) : /\ due[armed[i]] <= due[armed[j]]
                                /\ j < i => due[armed[i]] < due[armed[j]]
  /\ fired' = fired \cup {armed[i]}
  /\ armed' = Without(armed, {armed[i]})
  /\ UNCHANGED <<clock, due, closed>>

Shut ==
  /\ closed' = TRUE
  /\ UNCHANGED <<clock, armed, due, fired>>

Next ==
  \/ Tick
  \/ Shut
  \/ \E t \in Timers : Cancel(t) \/ \E d \in Delays : SetTimer(t, d)
  \/ \E i \in 1 .. Len(armed) : Fire(i)

Spec == Init /\ [][Next]_vars
===============================================================================
