------------------------------- MODULE Scheduler -------------------------------
(***************************************************************************)
(* The timer thread of blueboat-cpp (scheduler.cpp): a vector of tasks, a  *)
(* mutex with a condition variable, one worker that sleeps until the       *)
(* earliest task is due and runs it with the mutex released, and handles   *)
(* that cancel a task by setting an atomic flag without taking the mutex.  *)
(*                                                                         *)
(* RoomServer uses it through its outcome only (WorkerTakesAuto and        *)
(* WorkerTakesWait pop any armed timer); here is what makes that outcome   *)
(* come about: the order of wake-ups, pushes and notifications.            *)
(*                                                                         *)
(* Everything between two acquisitions of the mutex is one action.  A      *)
(* thread in set_timeout is between two of them when it has pushed the     *)
(* task and not yet notified the worker.                                   *)
(***************************************************************************)
EXTENDS Naturals, Sequences, FiniteSets, Listeners

CONSTANTS
  Timers,    \* calls of set_timeout, one task and one handle each
  Delays,    \* the delays they ask for
  Never,     \* the deadline of a wait without one
  MaxTime    \* bound: when the clock stops; no task is due later

ASSUME DelaysAssumption == Delays \subseteq Nat
ASSUME TimeAssumption == MaxTime \in Nat /\ Never \notin Nat

VARIABLES
  clock,       \* steady_clock
  tasks,       \* Impl::tasks
  due,         \* Task::due
  cancelled,   \* tasks whose Task::cancelled is true
  call,        \* where each call of set_timeout is
  worker,      \* where the worker is in Impl::run
  wakeAt,      \* what the worker's wait waits until
  stopping,    \* Impl::stopping
  destructor,  \* where Impl::~Impl is
  fired        \* history: tasks whose callback was called

vars == <<clock, tasks, due, cancelled, call, worker, wakeAt, stopping, destructor, fired>>

(* The types of the variables.                                             *)
TypeOK ==
  /\ clock \in 0 .. MaxTime
  /\ tasks \in Seq(Timers)
  /\ due \in [Timers -> 0 .. MaxTime]
  /\ cancelled \subseteq Timers
  /\ call \in [Timers -> {"none", "pushed", "returned"}]
  /\ worker \in {"awake", "asleep", "running", "ended"}
  /\ wakeAt \in (0 .. MaxTime) \cup {Never}
  /\ stopping \in BOOLEAN
  /\ destructor \in {"none", "stopping", "joining", "done"}
  /\ fired \subseteq Timers

Init ==
  /\ clock = 0
  /\ tasks = <<>>
  /\ due = [t \in Timers |-> 0]
  /\ cancelled = {}
  /\ call = [t \in Timers |-> "none"]
  /\ worker = "awake"
  /\ wakeAt = Never
  /\ stopping = FALSE
  /\ destructor = "none"
  /\ fired = {}

-------------------------------------------------------------------------------
(* Plausible bugs: variants of definitions below that nothing uses.        *)
NotifyIdle == worker' = IF worker = "asleep" /\ wakeAt = Never THEN "awake" ELSE worker
LatestPushed(i) == i = Len(tasks)
NotifiesNobody == UNCHANGED worker

(* cv.notify_all: a waiting worker wakes up.                               *)
NotifyAll == worker' = IF worker = "asleep" THEN "awake" ELSE worker

(* min_element: the first of the tasks that are due first.                 *)
IsNext(i) ==
  \A j \in 1 .. Len(tasks) : /\ due[tasks[i]] <= due[tasks[j]]
                             /\ j < i => due[tasks[i]] < due[tasks[j]]

Tick ==
  /\ clock < MaxTime
  /\ clock' = clock + 1
  /\ UNCHANGED <<tasks, due, cancelled, call, worker, wakeAt, stopping, destructor, fired>>

-------------------------------------------------------------------------------
(***************************************************************************)
(* Callers                                                                 *)
(***************************************************************************)

(* set_timeout up to its closing brace.  (The caller may be a callback on  *)
(* the worker.  Nobody may call it once the destructor runs.)              *)
SetTimeout(t, d) ==
  /\ call[t] = "none"
  /\ destructor = "none"
  /\ clock + d <= MaxTime
  /\ call' = [call EXCEPT ![t] = "pushed"]
  /\ due' = [due EXCEPT ![t] = clock + d]
  /\ tasks' = Append(tasks, t)
  /\ UNCHANGED <<clock, cancelled, worker, wakeAt, stopping, destructor, fired>>

(* Its notification, and the return of the handle.                         *)
SetTimeoutReturns(t) ==
  /\ call[t] = "pushed"
  /\ call' = [call EXCEPT ![t] = "returned"]
  /\ NotifyAll
  /\ UNCHANGED <<clock, tasks, due, cancelled, wakeAt, stopping, destructor, fired>>

(* TimerHandle::clear.                                                     *)
Clear(t) ==
  /\ call[t] = "returned"
  /\ cancelled' = cancelled \cup {t}
  /\ UNCHANGED <<clock, tasks, due, call, worker, wakeAt, stopping, destructor, fired>>

(* Impl::~Impl, when the process ends.                                     *)
Stop ==
  /\ destructor = "none"
  /\ destructor' = "stopping"
  /\ stopping' = TRUE
  /\ UNCHANGED <<clock, tasks, due, cancelled, call, worker, wakeAt, fired>>

StopNotifies ==
  /\ destructor = "stopping"
  /\ destructor' = "joining"
  /\ NotifyAll
  /\ UNCHANGED <<clock, tasks, due, cancelled, call, wakeAt, stopping, fired>>

StopJoins ==
  /\ destructor = "joining"
  /\ worker = "ended"
  /\ destructor' = "done"
  /\ UNCHANGED <<clock, tasks, due, cancelled, call, worker, wakeAt, stopping, fired>>

-------------------------------------------------------------------------------
(***************************************************************************)
(* The worker                                                              *)
(***************************************************************************)

(* tasks.erase(next).                                                      *)
EraseTask(t) == tasks' = Without(tasks, {t})

IsDue(t) == due[t] <= clock

Deadline(t) == due[t]

WorkerEnds ==
  /\ worker = "awake"
  /\ stopping
  /\ worker' = "ended"
  /\ UNCHANGED <<clock, tasks, due, cancelled, call, wakeAt, stopping, destructor, fired>>

(* cv.wait or cv.wait_until.                                               *)
WorkerSleeps ==
  /\ worker = "awake"
  /\ ~stopping
  /\ \/ tasks = <<>> /\ wakeAt' = Never
     \/ \E i \in 1 .. Len(tasks) : /\ IsNext(i)
                                   /\ ~IsDue(tasks[i])
                                   /\ wakeAt' = Deadline(tasks[i])
  /\ worker' = "asleep"
  /\ UNCHANGED <<clock, tasks, due, cancelled, call, stopping, destructor, fired>>

(* The earliest task is erased, and its callback called unless its handle  *)
(* was cleared by now: clearing it later has no effect.                    *)
WorkerTakes ==
  /\ worker = "awake"
  /\ ~stopping
  /\ \E i \in 1 .. Len(tasks) :
       /\ IsNext(i)
       /\ IsDue(tasks[i])
       /\ EraseTask(tasks[i])
       /\ IF tasks[i] \in cancelled
          THEN UNCHANGED <<worker, fired>>
          ELSE worker' = "running" /\ fired' = fired \cup {tasks[i]}
  /\ UNCHANGED <<clock, due, cancelled, call, wakeAt, stopping, destructor>>

CallbackReturns ==
  /\ worker = "running"
  /\ worker' = "awake"
  /\ UNCHANGED <<clock, tasks, due, cancelled, call, wakeAt, stopping, destructor, fired>>

(* wait_until returns at its deadline.                                     *)
WorkerTimesOut ==
  /\ worker = "asleep"
  /\ wakeAt # Never
  /\ wakeAt <= clock
  /\ worker' = "awake"
  /\ UNCHANGED <<clock, tasks, due, cancelled, call, wakeAt, stopping, destructor, fired>>

(* A condition variable may also wake up for no reason.                    *)
WorkerWakesUp ==
  /\ worker = "asleep"
  /\ worker' = "awake"
  /\ UNCHANGED <<clock, tasks, due, cancelled, call, wakeAt, stopping, destructor, fired>>

-------------------------------------------------------------------------------

WorkerStep ==
  \/ WorkerEnds
  \/ WorkerSleeps
  \/ WorkerTakes
  \/ CallbackReturns
  \/ WorkerTimesOut

DestructorStep == StopNotifies \/ StopJoins

Next ==
  \/ Tick
  \/ \E t \in Timers : \/ \E d \in Delays : SetTimeout(t, d)
                       \/ SetTimeoutReturns(t)
                       \/ Clear(t)
  \/ Stop
  \/ DestructorStep
  \/ WorkerStep
  \/ WorkerWakesUp

Spec == Init /\ [][Next]_vars

(***************************************************************************)
(* Fairness.  Time passes; every thread runs on unless it blocks; a        *)
(* callback returns (the callbacks of room.cpp wait for the game lock      *)
(* only).  Nobody has to set, clear or destroy anything, and no wake-up    *)
(* without a reason is owed.                                               *)
(***************************************************************************)
Fairness ==
  /\ WF_vars(Tick)
  /\ \A t \in Timers : WF_vars(SetTimeoutReturns(t))
  /\ WF_vars(DestructorStep)
  /\ WF_vars(WorkerStep)

FairSpec == Spec /\ Fairness

-------------------------------------------------------------------------------

NotificationOnItsWay == destructor = "stopping" \/ \E t \in Timers : call[t] = "pushed"

(* The worker never oversleeps: unless a notification is on its way, a     *)
(* sleeping worker's deadline is not after any task and it is not told to  *)
(* stop (Impl::run decides before it sleeps; set_timeout and ~Impl change  *)
(* what it decided on, and notify it in a second step).                    *)
NeverOversleeps ==
  worker = "asleep" /\ ~NotificationOnItsWay =>
    /\ ~stopping
    /\ \A i \in 1 .. Len(tasks) : wakeAt # Never /\ wakeAt <= due[tasks[i]]

(* The scheduler implements TimerService: the armed timers are the tasks   *)
(* whose handles are not cleared.  In particular a timer cleared before    *)
(* the worker pops it never fires, none fires twice, early or out of turn, *)
(* and clearing one too late has no effect.                                *)
Service == INSTANCE TimerService WITH
  armed <- Without(tasks, cancelled),
  closed <- stopping

ImplementsTimerService == Service!Spec

(* A timer that is set fires, unless it is cleared or the process ends.    *)
EveryTimerFires ==
  \A t \in Timers :
    call[t] # "none" ~> (t \in fired \/ t \in cancelled \/ stopping)

(* The destructor returns: its notification reaches the worker, whatever   *)
(* the worker was about to do.                                             *)
DestructorReturns == stopping ~> destructor = "done"
===============================================================================
