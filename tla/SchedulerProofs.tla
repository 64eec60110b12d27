---------------------------- MODULE SchedulerProofs ----------------------------
(***************************************************************************)
(* Proofs about Scheduler, for every set of timers and of delays, and any  *)
(* stretch of time.                                                        *)
(***************************************************************************)
EXTENDS Scheduler, ListenersProofs

-------------------------------------------------------------------------------
(* What every step relies on: a task is in the vector once, was pushed by  *)
(* a call of set_timeout and has not been run; a handle that is cleared    *)
(* was returned; stopping is set by the destructor.                        *)
TasksAreCalls ==
  /\ Distinct(tasks)
  /\ \A t \in Elements(tasks) : call[t] # "none" /\ t \notin fired
  /\ \A t \in fired \cup cancelled : call[t] # "none"
  /\ stopping = (destructor # "none")

SchedulerInv == TypeOK /\ TasksAreCalls /\ NeverOversleeps

(* The earliest task of a vector is one of its entries.                    *)
LEMMA TaskIsTimer ==
  ASSUME TypeOK
  PROVE  /\ \A i \in 1 .. Len(tasks) : tasks[i] \in Timers /\ tasks[i] \in Elements(tasks)
         /\ Elements(tasks) \subseteq Timers
  BY DEF TypeOK, Elements

(* Erasing a task leaves the others.                                       *)
LEMMA TaskErased ==
  ASSUME TypeOK, TasksAreCalls, NEW t, EraseTask(t)
  PROVE  /\ tasks' \in Seq(Timers)
         /\ Elements(tasks') = Elements(tasks) \ {t}
         /\ Distinct(tasks')
<1>1. tasks \in Seq(Timers) /\ Distinct(tasks) /\ tasks' = Without(tasks, {t})
  BY DEF TypeOK, TasksAreCalls, EraseTask
<1> QED
  BY <1>1, WithoutProperties

(* The types of the variables are kept by every step.                      *)
LEMMA SchedulerTypeInvariance ==
  ASSUME TypeOK, TasksAreCalls, [Next]_vars
  PROVE  TypeOK'
<1> USE DelaysAssumption, TimeAssumption
<1>1. CASE Tick
  BY <1>1 DEF TypeOK, Tick
<1>2. ASSUME NEW t \in Timers, NEW d \in Delays, SetTimeout(t, d)
      PROVE  TypeOK'
  <2>1. clock + d \in 0 .. MaxTime
    BY <1>2 DEF TypeOK, SetTimeout
  <2> QED
    BY <1>2, <2>1 DEF TypeOK, SetTimeout
<1>3. ASSUME NEW t \in Timers, SetTimeoutReturns(t) \/ Clear(t)
      PROVE  TypeOK'
  BY <1>3 DEF TypeOK, SetTimeoutReturns, NotifyAll, Clear
<1>4. CASE Stop \/ DestructorStep
  BY <1>4 DEF TypeOK, Stop, DestructorStep, StopNotifies, StopJoins, NotifyAll
<1>5. CASE WorkerTakes
  <2>1. PICK i \in 1 .. Len(tasks) :
          /\ EraseTask(tasks[i])
          /\ IF tasks[i] \in cancelled
             THEN UNCHANGED <<worker, fired>>
             ELSE worker' = "running" /\ fired' = fired \cup {tasks[i]}
    BY <1>5 DEF WorkerTakes
  <2>2. tasks[i] \in Timers /\ tasks' \in Seq(Timers)
    BY <2>1, TaskIsTimer, TaskErased
  <2> QED
    BY <1>5, <2>1, <2>2 DEF TypeOK, WorkerTakes
<1>6. CASE WorkerSleeps
  <2>1. wakeAt' \in (0 .. MaxTime) \cup {Never}
    BY <1>6, TaskIsTimer DEF TypeOK, WorkerSleeps, Deadline
  <2> QED
    BY <1>6, <2>1 DEF TypeOK, WorkerSleeps
<1>7. CASE WorkerEnds \/ CallbackReturns \/ WorkerTimesOut \/ WorkerWakesUp
  BY <1>7 DEF TypeOK, WorkerEnds, CallbackReturns, WorkerTimesOut, WorkerWakesUp
<1>8. CASE UNCHANGED vars
  BY <1>8 DEF TypeOK, vars
<1> QED
  BY <1>1, <1>2, <1>3, <1>4, <1>5, <1>6, <1>7, <1>8 DEF Next, WorkerStep

(* So is the relation between the vector, the calls and the history.       *)
LEMMA TasksInvariance ==
  ASSUME TypeOK, TasksAreCalls, [Next]_vars
  PROVE  TasksAreCalls'
<1>1. ASSUME UNCHANGED <<tasks, fired, cancelled, call, stopping, destructor>>
      PROVE  TasksAreCalls'
  BY <1>1 DEF TasksAreCalls, Distinct, Elements
<1>2. ASSUME NEW t \in Timers, NEW d \in Delays, SetTimeout(t, d)
      PROVE  TasksAreCalls'
  <2>1. t \notin Elements(tasks) /\ t \notin fired
    BY <1>2 DEF SetTimeout, TasksAreCalls
  <2>2. Elements(tasks') = Elements(tasks) \cup {t} /\ Distinct(tasks')
    BY <1>2, <2>1, AppendListener DEF SetTimeout, TypeOK, TasksAreCalls
  <2>3. \A u \in Timers : call[u] # "none" => call'[u] # "none"
    BY <1>2 DEF SetTimeout, TypeOK
  <2>4. call'[t] # "none"
    BY <1>2 DEF SetTimeout, TypeOK
  <2>5. UNCHANGED <<fired, cancelled, stopping, destructor>>
    BY <1>2 DEF SetTimeout
  <2>6. Elements(tasks) \cup fired \cup cancelled \subseteq Timers
    BY TaskIsTimer DEF TypeOK
  <2> QED
    BY <2>1, <2>2, <2>3, <2>4, <2>5, <2>6 DEF TasksAreCalls
<1>3. ASSUME NEW t \in Timers, SetTimeoutReturns(t) \/ Clear(t)
      PROVE  TasksAreCalls'
  <2>1. \A u \in Timers : call[u] # "none" => call'[u] # "none"
    BY <1>3 DEF SetTimeoutReturns, Clear, TypeOK
  <2>2. Elements(tasks) \cup fired \cup cancelled \subseteq Timers
    BY TaskIsTimer DEF TypeOK
  <2>3. /\ UNCHANGED <<tasks, fired, stopping, destructor>>
        /\ \A u \in cancelled' : u \in cancelled \/ (u \in Timers /\ call[u] # "none")
    BY <1>3 DEF SetTimeoutReturns, Clear
  <2> QED
    BY <2>1, <2>2, <2>3 DEF TasksAreCalls, Distinct, Elements
<1>4. CASE Stop \/ DestructorStep
  BY <1>4 DEF Stop, DestructorStep, StopNotifies, StopJoins, TasksAreCalls, Distinct, Elements
<1>5. CASE WorkerTakes
  <2>1. PICK i \in 1 .. Len(tasks) :
          /\ EraseTask(tasks[i])
          /\ fired' = fired \/ fired' = fired \cup {tasks[i]}
    BY <1>5 DEF WorkerTakes
  <2>2. Elements(tasks') = Elements(tasks) \ {tasks[i]} /\ Distinct(tasks')
    BY <2>1, TaskErased
  <2>3. tasks[i] \in Elements(tasks)
    BY TaskIsTimer
  <2>4. UNCHANGED <<cancelled, call, stopping, destructor>>
    BY <1>5 DEF WorkerTakes
  <2> QED
    BY <2>1, <2>2, <2>3, <2>4 DEF TasksAreCalls
<1> QED
  BY <1>1, <1>2, <1>3, <1>4, <1>5
     DEF Next, WorkerStep, Tick, WorkerSleeps, WorkerEnds, CallbackReturns, WorkerTimesOut,
         WorkerWakesUp, vars

(* And the worker goes on not to oversleep.                                *)
LEMMA SleepInvariance ==
  ASSUME SchedulerInv, [Next]_vars
  PROVE  NeverOversleeps'
<1> USE DEF SchedulerInv
<1>1. ASSUME worker' # "asleep"
      PROVE  NeverOversleeps'
  BY <1>1 DEF NeverOversleeps
<1>2. ASSUME UNCHANGED <<worker, call, destructor, stopping, tasks, wakeAt, due>>
      PROVE  NeverOversleeps'
  BY <1>2 DEF NeverOversleeps, NotificationOnItsWay
<1>3. ASSUME NEW t \in Timers, NEW d \in Delays, SetTimeout(t, d)
      PROVE  NeverOversleeps'
  BY <1>3 DEF SetTimeout, TypeOK, NeverOversleeps, NotificationOnItsWay
<1>4. ASSUME NEW t \in Timers, SetTimeoutReturns(t)
      PROVE  worker' # "asleep"
  BY <1>4 DEF SetTimeoutReturns, NotifyAll
<1>5. CASE Stop
  BY <1>5 DEF Stop, NeverOversleeps, NotificationOnItsWay
<1>6. CASE StopNotifies
  BY <1>1, <1>6 DEF StopNotifies, NotifyAll
<1>7. CASE StopJoins
  BY <1>1, <1>7 DEF StopJoins
<1>8. CASE WorkerSleeps
  <2>1. ~stopping' /\ UNCHANGED <<tasks, due>>
    BY <1>8 DEF WorkerSleeps
  <2>2. CASE tasks = <<>>
    BY <2>1, <2>2 DEF NeverOversleeps
  <2>3. ASSUME NEW i \in 1 .. Len(tasks), IsNext(i), wakeAt' = Deadline(tasks[i])
        PROVE  NeverOversleeps'
    <3>1. wakeAt' # Never
      BY <2>3, TaskIsTimer, TimeAssumption DEF Deadline, TypeOK
    <3> QED
      BY <2>1, <2>3, <3>1 DEF NeverOversleeps, IsNext, Deadline
  <2> QED
    BY <1>8, <2>2, <2>3 DEF WorkerSleeps
<1>9. CASE WorkerTakes
  BY <1>1, <1>9 DEF WorkerTakes
<1>10. CASE WorkerEnds \/ CallbackReturns \/ WorkerTimesOut \/ WorkerWakesUp
  BY <1>1, <1>10 DEF WorkerEnds, CallbackReturns, WorkerTimesOut, WorkerWakesUp
<1>11. CASE Tick \/ (\E t \in Timers : Clear(t)) \/ UNCHANGED vars
  BY <1>2, <1>11 DEF Tick, Clear, vars
<1> QED
  BY <1>1, <1>3, <1>4, <1>5, <1>6, <1>7, <1>8, <1>9, <1>10, <1>11
     DEF Next, WorkerStep, DestructorStep

(* The invariant holds throughout.                                         *)
THEOREM SchedulerInvariant == Spec => []SchedulerInv
<1>1. ASSUME Init
      PROVE  SchedulerInv
  <2>1. TypeOK
    <3>1. 0 \in 0 .. MaxTime /\ <<>> \in Seq(Timers)
      BY TimeAssumption
    <3>2. due \in [Timers -> 0 .. MaxTime] /\ call \in [Timers -> {"none", "pushed", "returned"}]
      BY <1>1, <3>1 DEF Init
    <3> QED
      BY <1>1, <3>1, <3>2 DEF Init, TypeOK
  <2>2. Elements(tasks) = {} /\ Distinct(tasks)
    BY <1>1 DEF Init, Elements, Distinct
  <2>3. TasksAreCalls
    BY <1>1, <2>2 DEF Init, TasksAreCalls
  <2>4. NeverOversleeps
    BY <1>1 DEF Init, NeverOversleeps
  <2> QED
    BY <2>1, <2>3, <2>4 DEF SchedulerInv
<1>2. SchedulerInv /\ [Next]_vars => SchedulerInv'
  BY SchedulerTypeInvariance, TasksInvariance, SleepInvariance DEF SchedulerInv
<1> QED
  BY <1>1, <1>2, PTL DEF Spec

(* The worker never sleeps past a task or a stop that it was notified of:  *)
(* Impl::run, set_timeout and ~Impl lose no wake-up.                       *)
THEOREM WorkerNeverOversleeps == Spec => []NeverOversleeps
<1>1. SchedulerInv => NeverOversleeps
  BY DEF SchedulerInv
<1> QED
  BY <1>1, SchedulerInvariant, PTL

-------------------------------------------------------------------------------
(***************************************************************************)
(* The scheduler implements TimerService.  Armed is the refinement mapping *)
(* of its queue: the tasks whose handles are not cleared, in order.        *)
(***************************************************************************)

Armed == Without(tasks, cancelled)

(* The armed timers are the tasks that are not cancelled.                  *)
LEMMA ArmedTimers ==
  ASSUME TypeOK
  PROVE  /\ Armed \in Seq(Timers)
         /\ Elements(Armed) = Elements(tasks) \ cancelled
  BY WithoutProperties DEF TypeOK, Armed

(* Nothing that moves no task moves the queue.                             *)
LEMMA ArmedUnchanged ==
  ASSUME UNCHANGED <<tasks, cancelled>>
  PROVE  Armed' = Armed
  BY DEF Armed

(* Popping a task takes it off the queue, if it was in it at all.          *)
LEMMA ArmedErased ==
  ASSUME TypeOK, NEW t, EraseTask(t), UNCHANGED cancelled
  PROVE  /\ Armed' = Without(Armed, {t})
         /\ t \in cancelled => Armed' = Armed
<1>1. tasks' = Without(tasks, {t}) /\ tasks \in Seq(Timers)
  BY DEF EraseTask, TypeOK
<1>2. Armed' = Without(Without(tasks, {t}), cancelled)
  BY <1>1 DEF Armed
<1>3. Armed' = Without(tasks, {t} \cup cancelled)
  BY <1>1, <1>2, WithoutTwice
<1>4. Without(Armed, {t}) = Without(tasks, cancelled \cup {t})
  BY <1>1, WithoutTwice DEF Armed
<1>5. {t} \cup cancelled = cancelled \cup {t}
  OBVIOUS
<1>6. t \in cancelled => {t} \cup cancelled = cancelled
  OBVIOUS
<1> QED
  BY <1>3, <1>4, <1>5, <1>6 DEF Armed

(* The earliest task is the earliest armed timer, if it is armed.          *)
LEMMA NextIsArmed ==
  ASSUME TypeOK, NEW i \in 1 .. Len(tasks), IsNext(i), tasks[i] \notin cancelled
  PROVE  \E k \in 1 .. Len(Armed) :
           /\ Armed[k] = tasks[i]
           /\ \A l \in 1 .. Len(Armed) : /\ due[Armed[k]] <= due[Armed[l]]
                                         /\ l < k => due[Armed[k]] < due[Armed[l]]
<1>1. PICK h : Leaves(h, tasks, cancelled, Armed)
  BY WithoutLeaves DEF Armed, TypeOK
<1>2. PICK k \in 1 .. Len(Armed) : h[k] = i
  BY <1>1 DEF Leaves
<1>3. Armed[k] = tasks[i]
  BY <1>1, <1>2 DEF Leaves
<1>4. ASSUME NEW l \in 1 .. Len(Armed)
      PROVE  /\ due[Armed[k]] <= due[Armed[l]]
             /\ l < k => due[Armed[k]] < due[Armed[l]]
  <2>1. h[l] \in 1 .. Len(tasks) /\ Armed[l] = tasks[h[l]]
    BY <1>1 DEF Leaves
  <2>2. l < k => h[l] < i
    BY <1>1, <1>2 DEF Leaves
  <2> QED
    BY <1>3, <2>1, <2>2 DEF IsNext
<1> QED
  BY <1>3, <1>4

(* The service's vectors are the scheduler's.                              *)
LEMMA ServiceVectors ==
  ASSUME NEW seq, NEW S
  PROVE  /\ Service!Elements(seq) = Elements(seq)
         /\ Service!Without(seq, S) = Without(seq, S)
<1>1. Service!Elements(seq) = Elements(seq)
  BY DEF Service!Elements, Elements
<1>2. Service!Without(seq, S) = Without(seq, S)
  BY DEF Service!Without, Without, Service!Kept, Kept, Service!Rank, Rank, Service!Cardinality,
         Cardinality
<1> QED
  BY <1>1, <1>2

(* The initial state of the scheduler is one of the service.               *)
LEMMA ServiceInit == Init => Service!Init
<1> SUFFICES ASSUME Init PROVE Service!Init
  OBVIOUS
<1>1. Without(<<>>, {}) = <<>>
  <2>1. Kept(<<>>, {}) = 1 .. Len(<<>>)
    BY DEF Kept
  <2> QED
    BY <2>1 DEF Without
<1> QED
  BY <1>1 DEF Init, Service!Init

(* Every step of the scheduler is one of the service or leaves it alone.   *)
LEMMA ServiceStep ==
  ASSUME TypeOK, TasksAreCalls, [Next]_vars
  PROVE  [Service!Next]_(Service!vars)
<1> USE DEF Service!vars
<1>1. ASSUME UNCHANGED <<clock, tasks, cancelled, due, fired, stopping>>
      PROVE  UNCHANGED Service!vars
  BY <1>1
<1>2. CASE Tick
  <2>1. Service!Tick
    BY <1>2 DEF Tick, Service!Tick
  <2> QED
    BY <2>1 DEF Service!Next
<1>3. ASSUME NEW t \in Timers, NEW d \in Delays, SetTimeout(t, d)
      PROVE  Service!Next
  <2>1. t \notin Elements(tasks) /\ t \notin fired /\ t \notin cancelled
    BY <1>3 DEF SetTimeout, TasksAreCalls
  <2>2. Armed' = Append(Armed, t)
    BY <1>3, <2>1, WithoutAppend DEF SetTimeout, Armed, TypeOK
  <2>3. t \notin Elements(Armed)
    BY <2>1, ArmedTimers
  <2>4. Service!SetTimer(t, d)
    BY <1>3, <2>1, <2>2, <2>3, ServiceVectors DEF SetTimeout, Service!SetTimer, Armed
  <2> QED
    BY <2>4 DEF Service!Next
<1>4. ASSUME NEW t \in Timers, Clear(t)
      PROVE  Service!Next
  <2>1. Armed' = Without(Armed, {t})
    BY <1>4, WithoutTwice DEF Clear, Armed, TypeOK
  <2>2. Service!Cancel(t)
    BY <1>4, <2>1, ServiceVectors DEF Clear, Service!Cancel, Armed
  <2> QED
    BY <2>2 DEF Service!Next
<1>5. CASE Stop
  <2>1. Service!Shut
    BY <1>5 DEF Stop, Service!Shut
  <2> QED
    BY <2>1 DEF Service!Next
<1>6. CASE WorkerTakes
  <2>1. PICK i \in 1 .. Len(tasks) :
          /\ IsNext(i)
          /\ IsDue(tasks[i])
          /\ EraseTask(tasks[i])
          /\ IF tasks[i] \in cancelled
             THEN UNCHANGED <<worker, fired>>
             ELSE worker' = "running" /\ fired' = fired \cup {tasks[i]}
    BY <1>6 DEF WorkerTakes
  <2>2. UNCHANGED <<clock, due, cancelled, stopping>> /\ ~stopping
    BY <1>6 DEF WorkerTakes
  <2>3. CASE tasks[i] \in cancelled
    BY <2>1, <2>2, <2>3, ArmedErased DEF Armed
  <2>4. CASE tasks[i] \notin cancelled
    <3>1. PICK k \in 1 .. Len(Armed) :
            /\ Armed[k] = tasks[i]
            /\ \A l \in 1 .. Len(Armed) : /\ due[Armed[k]] <= due[Armed[l]]
                                          /\ l < k => due[Armed[k]] < due[Armed[l]]
      BY <2>1, <2>4, NextIsArmed
    <3>2. Armed' = Without(Armed, {Armed[k]})
      BY <2>1, <2>2, <3>1, ArmedErased
    <3>3. Service!Fire(k)
      BY <2>1, <2>2, <2>4, <3>1, <3>2, ServiceVectors DEF Service!Fire, Armed, IsDue
    <3> QED
      BY <3>1, <3>3 DEF Service!Next, Armed
  <2> QED
    BY <2>3, <2>4
<1>7. CASE UNCHANGED vars
  BY <1>1, <1>7 DEF vars
<1> QED
  BY <1>1, <1>2, <1>3, <1>4, <1>5, <1>6, <1>7
     DEF Next, WorkerStep, DestructorStep, SetTimeoutReturns, StopNotifies, StopJoins, WorkerEnds,
         WorkerSleeps, CallbackReturns, WorkerTimesOut, WorkerWakesUp

(* A timer that is cleared before the worker pops it never fires; one that *)
(* is not fires at most once, not before it is due, and in turn.           *)
THEOREM SchedulerImplementsService == Spec => ImplementsTimerService
<1>1. SchedulerInv => TypeOK /\ TasksAreCalls
  BY DEF SchedulerInv
<1>2. TypeOK /\ TasksAreCalls /\ [Next]_vars => [Service!Next]_(Service!vars)
  BY ServiceStep
<1> QED
  BY <1>1, <1>2, ServiceInit, SchedulerInvariant, PTL DEF Spec, ImplementsTimerService, Service!Spec
===============================================================================
