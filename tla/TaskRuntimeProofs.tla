------------------------- MODULE TaskRuntimeProofs -------------------------
(***************************************************************************)
(* Theorems about TaskRuntime, for every set of tasks, every delay, every    *)
(* wrap-around of the event ids and every length of a run.                   *)
(*                                                                         *)
(* First its safety properties. IInv is the inductive invariant: the         *)
(* properties, plus what ties each thread's program counter to the task it    *)
(* holds.                                                                    *)
(*                                                                         *)
(* Then the refinement: each step of the three threads is a step of           *)
(* EventService or changes nothing that its callers see. RInv adds to IInv    *)
(* what ties a stopped event to its id, and the order in which the two        *)
(* threads are closed.                                                       *)
(***************************************************************************)
EXTENDS TaskRuntime, SequenceTheorems, TLAPS

-----------------------------------------------------------------------------
(* The queue of the dispatcher.                                            *)

\* push_back adds the task and nothing else, and keeps the queue free of duplicates.
LEMMA PushBack ==
    ASSUME NEW S, NEW s \in Seq(S), NEW t \in S, ~Contains(s, t), IsInjective(s)
    PROVE  /\ Append(s, t) \in Seq(S) /\ IsInjective(Append(s, t))
           /\ \A u : Contains(Append(s, t), u) <=> Contains(s, u) \/ u = t
<1> DEFINE a == Append(s, t)
<1>1. /\ a \in Seq(S) /\ Len(a) = Len(s) + 1 /\ a[Len(s) + 1] = t
      /\ \A i \in 1..Len(s) : a[i] = s[i]
      /\ Len(s) \in Nat /\ DOMAIN a = 1..Len(a) /\ DOMAIN s = 1..Len(s)
  BY AppendProperties, LenProperties
<1> HIDE DEF a
<1>2. IsInjective(a)
  BY <1>1 DEF IsInjective, Contains
<1>3. \A u : Contains(a, u) <=> Contains(s, u) \/ u = t
  BY <1>1 DEF Contains
<1> QED BY <1>1, <1>2, <1>3 DEF a

\* push_front does the same at the other end.
LEMMA PushFront ==
    ASSUME NEW S, NEW s \in Seq(S), NEW t \in S, ~Contains(s, t), IsInjective(s)
    PROVE  /\ Cons(t, s) \in Seq(S) /\ IsInjective(Cons(t, s))
           /\ \A u : Contains(Cons(t, s), u) <=> Contains(s, u) \/ u = t
<1> DEFINE a == Cons(t, s)
<1>1. /\ <<t>> \in Seq(S) /\ Len(<<t>>) = 1 /\ <<t>>[1] = t
  OBVIOUS
<1>2. /\ a \in Seq(S) /\ Len(a) = Len(s) + 1 /\ a[1] = t
      /\ \A i \in 1..Len(s) : a[i + 1] = s[i]
      /\ Len(s) \in Nat /\ DOMAIN a = 1..Len(a) /\ DOMAIN s = 1..Len(s)
  BY <1>1, ConcatProperties, LenProperties DEF Cons
<1> HIDE DEF a
<1>3. \A i \in 2..Len(a) : i - 1 \in 1..Len(s) /\ a[i] = s[i - 1]
  BY <1>2
<1>4. IsInjective(a)
  <2> SUFFICES ASSUME NEW i \in 1..Len(a), NEW j \in 1..Len(a), a[i] = a[j], i # j
               PROVE  FALSE
    BY <1>2 DEF IsInjective
  <2>1. CASE i = 1
    BY <2>1, <1>2, <1>3 DEF Contains
  <2>2. CASE j = 1
    BY <2>2, <1>2, <1>3 DEF Contains
  <2>3. CASE i # 1 /\ j # 1
    <3>1. /\ i - 1 \in DOMAIN s /\ j - 1 \in DOMAIN s
          /\ s[i - 1] = s[j - 1] /\ i - 1 # j - 1
      BY <2>3, <1>2, <1>3
    <3> QED BY <3>1 DEF IsInjective
  <2> QED BY <2>1, <2>2, <2>3
<1>5. \A u : Contains(a, u) <=> Contains(s, u) \/ u = t
  <2> TAKE u
  <2>1. ASSUME Contains(a, u), u # t PROVE Contains(s, u)
    BY <2>1, <1>2, <1>3 DEF Contains
  <2>2. ASSUME Contains(s, u) PROVE Contains(a, u)
    <3>1. PICK i \in 1..Len(s) : s[i] = u
      BY <2>2 DEF Contains
    <3>2. i + 1 \in 1..Len(a) /\ a[i + 1] = u
      BY <3>1, <1>2
    <3> QED BY <3>2 DEF Contains
  <2>3. Contains(a, t)
    BY <1>2 DEF Contains
  <2> QED BY <2>1, <2>2, <2>3
<1> QED BY <1>2, <1>4, <1>5 DEF a

\* pop_front takes the first task, which is then no longer in the queue.
LEMMA PopFront ==
    ASSUME NEW S, NEW s \in Seq(S), s # <<>>, IsInjective(s)
    PROVE  /\ Head(s) \in S /\ Tail(s) \in Seq(S) /\ IsInjective(Tail(s))
           /\ Contains(s, Head(s)) /\ ~Contains(Tail(s), Head(s))
           /\ \A u : u # Head(s) => (Contains(Tail(s), u) <=> Contains(s, u))
<1> DEFINE a == Tail(s)
<1>1. /\ a \in Seq(S) /\ Head(s) \in S /\ Head(s) = s[1]
      /\ Len(s) \in Nat /\ Len(s) >= 1 /\ Len(a) = Len(s) - 1
      /\ \A i \in 1..Len(a) : a[i] = s[i + 1] /\ i + 1 \in 1..Len(s)
      /\ DOMAIN a = 1..Len(a) /\ DOMAIN s = 1..Len(s)
  BY HeadTailProperties, LenProperties, EmptySeq
<1> HIDE DEF a
<1>2. IsInjective(a)
  <2> SUFFICES ASSUME NEW i \in 1..Len(a), NEW j \in 1..Len(a), a[i] = a[j]
               PROVE  i = j
    BY <1>1 DEF IsInjective
  <2>1. i + 1 \in DOMAIN s /\ j + 1 \in DOMAIN s /\ s[i + 1] = s[j + 1]
    BY <1>1
  <2>2. i + 1 = j + 1
    BY <2>1 DEF IsInjective
  <2> QED BY <2>2
<1>3. Contains(s, Head(s))
  BY <1>1 DEF Contains
<1>4. ~Contains(a, Head(s))
  BY <1>1 DEF Contains, IsInjective
<1>5. \A u : u # Head(s) => (Contains(a, u) <=> Contains(s, u))
  <2> TAKE u
  <2> HAVE u # Head(s)
  <2>1. ASSUME Contains(a, u) PROVE Contains(s, u)
    BY <2>1, <1>1 DEF Contains
  <2>2. ASSUME Contains(s, u) PROVE Contains(a, u)
    <3>1. PICK i \in 1..Len(s) : s[i] = u
      BY <2>2 DEF Contains
    <3>2. i - 1 \in 1..Len(a) /\ a[i - 1] = u
      <4>1. i # 1
        BY <3>1, <1>1
      <4>2. i - 1 \in 1..Len(a)
        BY <4>1, <1>1
      <4>3. a[i - 1] = s[(i - 1) + 1]
        BY <4>2, <1>1
      <4> QED BY <4>2, <4>3, <3>1
    <3> QED BY <3>2 DEF Contains
  <2> QED BY <2>1, <2>2
<1> QED BY <1>1, <1>2, <1>3, <1>4, <1>5 DEF a
-----------------------------------------------------------------------------
(* The inductive invariant.                                                *)

Idle     == {"test", "lock", "wait", "woken", "flush", "done"}
InFlush  == {"flush", "flushExec", "stuck"}
InAsk    == {"schedStop", "dispStop"}

\* What a thread holds at each of its program points.
PcInv ==
    /\ schedPc = "handoff" <=> schedTask # NoTask
    /\ schedRun => schedTask # NoTask
    /\ cur = NoTask <=> dispPc \in Idle
    /\ dispPc \in {"exec", "flushExec", "stuck"} \cup InAsk => cur \in Tasks
    /\ dispPc \in {"schedShutdown", "dispShutdown"} => cur = ShutdownTask

\* Game::shutdown is submitted once, and nobody else has it while it runs.
ShutdownInv ==
    /\ ~gameShutdown /\ dispPc \notin InAsk => outcome[ShutdownTask] = "new"
    /\ dispPc \in InFlush => outcome[ShutdownTask] = "live" /\ ~InQueue(ShutdownTask)

\* A stopped event is where stopEvent found it, or was deleted.
StoppedInv ==
    \A t \in cancelled \ lapped : \/ t \in eventList /\ eventId[t] \notin eventIds
                                  \/ t = schedTask /\ ~schedRun
                                  \/ outcome[t] \in {"stopped", "lost"}

\* A queued event has the id that was given out since[t] ids ago.
WindowInv ==
    \A t \in eventList : /\ eventId[t] # 0
                         /\ \/ eventId[t] + since[t] = lastEventId
                            \/ eventId[t] + since[t] = lastEventId + MaxEventId

\* Only tasks that came from the scheduler have an id, and those do not expire.
ExpiryInv ==
    /\ \A t \in AllTasks : outcome[t] = "new" => eventId[t] = 0
    /\ \A t \in AllTasks : eventId[t] # 0 /\ (InQueue(t) \/ t = cur)
                             => expiration[t] = DontExpire

\* The scheduler is terminated before the dispatcher, which then only flushes and ends.
TerminatedInv ==
    /\ schedState = "TERMINATED" => dispPc = "dispShutdown" \/ dispState = "TERMINATED"
    /\ dispState = "TERMINATED" => \/ dispPc \in InFlush
                                   \/ dispPc \in {"test", "done"} /\ taskList = <<>>

IInv == /\ TypeOK /\ SingleOwner /\ PcInv /\ ShutdownInv
        /\ StoppedInv /\ ExpiryInv /\ EventsNeverExpire /\ ActiveIdsAreQueued
        /\ WindowInv /\ TimeoutHasDueEvent /\ TerminatedInv

-----------------------------------------------------------------------------
(* What the calls do to the queue.                                         *)

Outcomes == {"new", "live", "ran", "expired", "stopped", "lost"}

\* The effect of addTask for a task t with the expiration e.
Pushed(t, e) ==
    /\ taskList' \in Seq(AllTasks) /\ IsInjective(taskList')
    /\ \A u : InQueue(u)' <=> InQueue(u) \/ (dispState = "RUNNING" /\ u = t)
    /\ dispState # "RUNNING" => taskList' = taskList
    /\ taskNotify' \subseteq Callers \cup {"sched"}
    /\ expiration' = [expiration EXCEPT ![t] = e]
    /\ expiration' \in [AllTasks -> Nat]
    /\ outcome' = [outcome EXCEPT ![t] = IF dispState = "RUNNING" THEN "live" ELSE "lost"]
    /\ outcome' \in [AllTasks -> Outcomes]
    /\ dispPc \notin InFlush

\* addTask pushes its task, wherever it is called from.
LEMMA EnqueuePushes ==
    ASSUME TypeOK, IsInjective(taskList), NEW c \in Callers \cup {"sched"},
           NEW t \in AllTasks, ~InQueue(t), NEW e \in Nat, NEW front \in BOOLEAN,
           Enqueue(c, t, e, front)
    PROVE  Pushed(t, e)
<1>1. /\ taskNotify' \subseteq Callers \cup {"sched"}
      /\ expiration' = [expiration EXCEPT ![t] = e]
      /\ expiration' \in [AllTasks -> Nat]
      /\ outcome' = [outcome EXCEPT ![t] = IF dispState = "RUNNING" THEN "live" ELSE "lost"]
      /\ outcome' \in [AllTasks -> Outcomes]
      /\ dispPc \notin InFlush
  BY DEF Enqueue, TypeOK, Ends, TaskLockFree, InFlush, Outcomes
<1>2. taskList \in Seq(AllTasks) /\ ~Contains(taskList, t)
  BY DEF TypeOK, InQueue
<1>3. CASE dispState # "RUNNING"
  BY <1>1, <1>2, <1>3 DEF Enqueue, InQueue, Pushed
<1>4. CASE dispState = "RUNNING"
  <2>1. CASE taskList' = Append(taskList, t)
    <3>1. /\ Append(taskList, t) \in Seq(AllTasks) /\ IsInjective(Append(taskList, t))
          /\ \A u : Contains(Append(taskList, t), u) <=> Contains(taskList, u) \/ u = t
      BY <1>2, PushBack
    <3> QED BY <1>1, <1>4, <2>1, <3>1 DEF InQueue, Pushed
  <2>2. CASE taskList' = Cons(t, taskList)
    <3>1. /\ Cons(t, taskList) \in Seq(AllTasks) /\ IsInjective(Cons(t, taskList))
          /\ \A u : Contains(Cons(t, taskList), u) <=> Contains(taskList, u) \/ u = t
      BY <1>2, PushFront
    <3> QED BY <1>1, <1>4, <2>2, <3>1 DEF InQueue, Pushed
  <2> QED BY <1>4, <2>1, <2>2 DEF Enqueue
<1> QED BY <1>3, <1>4

\* The effect of pop_front: the dispatcher thread holds the first task.
Popped ==
    /\ taskList' \in Seq(AllTasks) /\ IsInjective(taskList')
    /\ cur' \in AllTasks /\ InQueue(cur') /\ ~InQueue(cur)'
    /\ \A u : u # cur' => (InQueue(u)' <=> InQueue(u))

LEMMA TakePops ==
    ASSUME TypeOK, IsInjective(taskList), taskList # <<>>,
           cur' = Head(taskList), taskList' = Tail(taskList)
    PROVE  Popped
<1>1. taskList \in Seq(AllTasks)
  BY DEF TypeOK
<1>2. /\ Head(taskList) \in AllTasks
      /\ Tail(taskList) \in Seq(AllTasks) /\ IsInjective(Tail(taskList))
      /\ Contains(taskList, Head(taskList)) /\ ~Contains(Tail(taskList), Head(taskList))
      /\ \A u : u # Head(taskList) => (Contains(Tail(taskList), u) <=> Contains(taskList, u))
  BY <1>1, PopFront
<1> QED BY <1>2 DEF Popped, InQueue

\* A task that nobody submitted yet is held by nobody.
LEMMA NewIsFree ==
    ASSUME SingleOwner, NEW t \in AllTasks, outcome[t] = "new"
    PROVE  t \notin eventList /\ t # schedTask /\ ~InQueue(t) /\ t # cur
BY DEF SingleOwner

-----------------------------------------------------------------------------
(* Every step keeps the invariant.                                         *)

\* The scheduler tests, waits or wakes up.
LEMMA SchedulerQuiet ==
    ASSUME IInv, SchedTest \/ SchedWait \/ SchedTimedWait \/ SchedSpuriousWakeup
    PROVE  IInv'
<1> USE ConstantsAssumption DEF taskVars, eventVars, schedVars, queueVars, dispVars, sigVars,
           mainVars, schedOther, dispOther, mainOther, vars, Ends, AllTasks, DontExpire, Callers
<1>1. CASE SchedTest
  BY <1>1, SMTT(30) DEF IInv, TypeOK, SingleOwner, PcInv, ShutdownInv, StoppedInv,
         ExpiryInv, EventsNeverExpire, ActiveIdsAreQueued, WindowInv, TimeoutHasDueEvent,
         TerminatedInv, Idle, InFlush, InAsk, InQueue, SchedTest, IsTop
<1>2. CASE SchedWait
  BY <1>2, SMTT(30) DEF IInv, TypeOK, SingleOwner, PcInv, ShutdownInv, StoppedInv,
         ExpiryInv, EventsNeverExpire, ActiveIdsAreQueued, WindowInv, TimeoutHasDueEvent,
         TerminatedInv, Idle, InFlush, InAsk, InQueue, SchedWait, IsTop
<1>3. CASE SchedTimedWait
  BY <1>3, SMTT(30) DEF IInv, TypeOK, SingleOwner, PcInv, ShutdownInv, StoppedInv,
         ExpiryInv, EventsNeverExpire, ActiveIdsAreQueued, WindowInv, TimeoutHasDueEvent,
         TerminatedInv, Idle, InFlush, InAsk, InQueue, SchedTimedWait, IsTop
<1>4. CASE SchedSpuriousWakeup
  BY <1>4, SMTT(30) DEF IInv, TypeOK, SingleOwner, PcInv, ShutdownInv, StoppedInv,
         ExpiryInv, EventsNeverExpire, ActiveIdsAreQueued, WindowInv, TimeoutHasDueEvent,
         TerminatedInv, Idle, InFlush, InAsk, InQueue, SchedSpuriousWakeup, IsTop
<1> QED BY <1>1, <1>2, <1>3, <1>4

\* The dispatcher tests, waits, wakes up, starts or ends a task.
LEMMA DispatcherQuiet ==
    ASSUME IInv,
           DispTest \/ DispWait \/ DispSpuriousWakeup \/ DispExpire \/ DispStart \/ DispFinish \/
           FlushFinish \/ AddTaskInFlush
    PROVE  IInv'
<1> USE ConstantsAssumption DEF taskVars, eventVars, schedVars, queueVars, dispVars, sigVars,
           mainVars, schedOther, dispOther, mainOther, vars, Ends, AllTasks, DontExpire, Callers
<1>1. CASE DispTest
  BY <1>1, SMTT(30) DEF IInv, TypeOK, SingleOwner, PcInv, ShutdownInv, StoppedInv,
         ExpiryInv, EventsNeverExpire, ActiveIdsAreQueued, WindowInv, TimeoutHasDueEvent,
         TerminatedInv, Idle, InFlush, InAsk, InQueue,
         DispTest, HasExpired, Ready, BodyRuns, IsTop
<1>2. CASE DispWait
  BY <1>2, SMTT(30) DEF IInv, TypeOK, SingleOwner, PcInv, ShutdownInv, StoppedInv,
         ExpiryInv, EventsNeverExpire, ActiveIdsAreQueued, WindowInv, TimeoutHasDueEvent,
         TerminatedInv, Idle, InFlush, InAsk, InQueue,
         DispWait, HasExpired, Ready, BodyRuns, IsTop
<1>3. CASE DispSpuriousWakeup
  BY <1>3, SMTT(30) DEF IInv, TypeOK, SingleOwner, PcInv, ShutdownInv, StoppedInv,
         ExpiryInv, EventsNeverExpire, ActiveIdsAreQueued, WindowInv, TimeoutHasDueEvent,
         TerminatedInv, Idle, InFlush, InAsk, InQueue,
         DispSpuriousWakeup, HasExpired, Ready, BodyRuns, IsTop
<1>4. CASE DispExpire
  BY <1>4, SMTT(30) DEF IInv, TypeOK, SingleOwner, PcInv, ShutdownInv, StoppedInv,
         ExpiryInv, EventsNeverExpire, ActiveIdsAreQueued, WindowInv, TimeoutHasDueEvent,
         TerminatedInv, Idle, InFlush, InAsk, InQueue,
         DispExpire, HasExpired, Ready, BodyRuns, IsTop
<1>5. CASE DispStart
  BY <1>5, SMTT(30) DEF IInv, TypeOK, SingleOwner, PcInv, ShutdownInv, StoppedInv,
         ExpiryInv, EventsNeverExpire, ActiveIdsAreQueued, WindowInv, TimeoutHasDueEvent,
         TerminatedInv, Idle, InFlush, InAsk, InQueue,
         DispStart, HasExpired, Ready, BodyRuns, IsTop
<1>6. CASE DispFinish
  BY <1>6, SMTT(30) DEF IInv, TypeOK, SingleOwner, PcInv, ShutdownInv, StoppedInv,
         ExpiryInv, EventsNeverExpire, ActiveIdsAreQueued, WindowInv, TimeoutHasDueEvent,
         TerminatedInv, Idle, InFlush, InAsk, InQueue,
         DispFinish, HasExpired, Ready, BodyRuns, IsTop
<1>7. CASE FlushFinish
  BY <1>7, SMTT(30) DEF IInv, TypeOK, SingleOwner, PcInv, ShutdownInv, StoppedInv,
         ExpiryInv, EventsNeverExpire, ActiveIdsAreQueued, WindowInv, TimeoutHasDueEvent,
         TerminatedInv, Idle, InFlush, InAsk, InQueue,
         FlushFinish, HasExpired, Ready, BodyRuns, IsTop
<1>8. CASE AddTaskInFlush
  BY <1>8, SMTT(30) DEF IInv, TypeOK, SingleOwner, PcInv, ShutdownInv, StoppedInv,
         ExpiryInv, EventsNeverExpire, ActiveIdsAreQueued, WindowInv, TimeoutHasDueEvent,
         TerminatedInv, Idle, InFlush, InAsk, InQueue,
         AddTaskInFlush, HasExpired, Ready, BodyRuns, IsTop
<1> QED BY <1>1, <1>2, <1>3, <1>4, <1>5, <1>6, <1>7, <1>8

\* The steps of the shutdown, from g_scheduler.stop() to the end of main().
LEMMA ShutdownQuiet ==
    ASSUME IInv,
           SchedulerStop \/ DispatcherStop \/ SchedulerShutdown \/ DispatcherShutdown \/ FlushEnd \/
           Die \/ JoinScheduler \/ JoinDispatcher
    PROVE  IInv'
<1> USE ConstantsAssumption DEF taskVars, eventVars, schedVars, queueVars, dispVars, sigVars,
           mainVars, schedOther, dispOther, mainOther, vars, Ends, AllTasks, DontExpire, Callers
<1>1. CASE SchedulerStop
  BY <1>1, SMTT(30) DEF IInv, TypeOK, SingleOwner, PcInv, ShutdownInv, StoppedInv,
         ExpiryInv, EventsNeverExpire, ActiveIdsAreQueued, WindowInv, TimeoutHasDueEvent,
         TerminatedInv, Idle, InFlush, InAsk, InQueue, SchedulerStop, IsTop
<1>2. CASE DispatcherStop
  BY <1>2, SMTT(30) DEF IInv, TypeOK, SingleOwner, PcInv, ShutdownInv, StoppedInv,
         ExpiryInv, EventsNeverExpire, ActiveIdsAreQueued, WindowInv, TimeoutHasDueEvent,
         TerminatedInv, Idle, InFlush, InAsk, InQueue, DispatcherStop, IsTop
<1>3. CASE SchedulerShutdown
  BY <1>3, SMTT(30) DEF IInv, TypeOK, SingleOwner, PcInv, ShutdownInv, StoppedInv,
         ExpiryInv, EventsNeverExpire, ActiveIdsAreQueued, WindowInv, TimeoutHasDueEvent,
         TerminatedInv, Idle, InFlush, InAsk, InQueue, SchedulerShutdown, IsTop
<1>4. CASE DispatcherShutdown
  BY <1>4, SMTT(30) DEF IInv, TypeOK, SingleOwner, PcInv, ShutdownInv, StoppedInv,
         ExpiryInv, EventsNeverExpire, ActiveIdsAreQueued, WindowInv, TimeoutHasDueEvent,
         TerminatedInv, Idle, InFlush, InAsk, InQueue, DispatcherShutdown, IsTop
<1>5. CASE FlushEnd
  BY <1>5, SMTT(30) DEF IInv, TypeOK, SingleOwner, PcInv, ShutdownInv, StoppedInv,
         ExpiryInv, EventsNeverExpire, ActiveIdsAreQueued, WindowInv, TimeoutHasDueEvent,
         TerminatedInv, Idle, InFlush, InAsk, InQueue, FlushEnd, IsTop
<1>6. CASE Die
  BY <1>6, SMTT(30) DEF IInv, TypeOK, SingleOwner, PcInv, ShutdownInv, StoppedInv,
         ExpiryInv, EventsNeverExpire, ActiveIdsAreQueued, WindowInv, TimeoutHasDueEvent,
         TerminatedInv, Idle, InFlush, InAsk, InQueue, Die, IsTop
<1>7. CASE JoinScheduler
  BY <1>7, SMTT(30) DEF IInv, TypeOK, SingleOwner, PcInv, ShutdownInv, StoppedInv,
         ExpiryInv, EventsNeverExpire, ActiveIdsAreQueued, WindowInv, TimeoutHasDueEvent,
         TerminatedInv, Idle, InFlush, InAsk, InQueue, JoinScheduler, IsTop
<1>8. CASE JoinDispatcher
  BY <1>8, SMTT(30) DEF IInv, TypeOK, SingleOwner, PcInv, ShutdownInv, StoppedInv,
         ExpiryInv, EventsNeverExpire, ActiveIdsAreQueued, WindowInv, TimeoutHasDueEvent,
         TerminatedInv, Idle, InFlush, InAsk, InQueue, JoinDispatcher, IsTop
<1> QED BY <1>1, <1>2, <1>3, <1>4, <1>5, <1>6, <1>7, <1>8

\* Time passes, or nothing happens.
LEMMA ClockQuiet ==
    ASSUME IInv, Tick \/ UNCHANGED vars
    PROVE  IInv'
<1> USE ConstantsAssumption DEF taskVars, eventVars, schedVars, queueVars, dispVars, sigVars,
           mainVars, schedOther, dispOther, mainOther, vars, Ends, AllTasks, DontExpire, Callers
<1>1. CASE Tick
  BY <1>1, SMTT(30) DEF IInv, TypeOK, SingleOwner, PcInv, ShutdownInv, StoppedInv,
         ExpiryInv, EventsNeverExpire, ActiveIdsAreQueued, WindowInv, TimeoutHasDueEvent,
         TerminatedInv, Idle, InFlush, InAsk, InQueue, Tick, IsTop
<1>2. CASE UNCHANGED vars
  BY <1>2, SMTT(30) DEF IInv, TypeOK, SingleOwner, PcInv, ShutdownInv, StoppedInv,
         ExpiryInv, EventsNeverExpire, ActiveIdsAreQueued, WindowInv, TimeoutHasDueEvent,
         TerminatedInv, Idle, InFlush, InAsk, InQueue, vars, IsTop
<1> QED BY <1>1, <1>2

\* A notification wakes the scheduler if it waits.
LEMMA NotifyEventKeeps ==
    ASSUME IInv, NEW c, NotifyEvent(c)
    PROVE  IInv'
<1> USE ConstantsAssumption DEF taskVars, eventVars, schedVars, queueVars, dispVars, sigVars,
           mainVars, schedOther, dispOther, mainOther, vars, Ends, AllTasks, DontExpire, Callers
<1>inv. /\ TypeOK /\ SingleOwner /\ PcInv /\ ShutdownInv /\ StoppedInv
       /\ ExpiryInv /\ EventsNeverExpire /\ ActiveIdsAreQueued /\ WindowInv
       /\ TimeoutHasDueEvent /\ TerminatedInv
  BY DEF IInv
<1>a. TypeOK'
  BY <1>inv, SMTT(30) DEF TypeOK, NotifyEvent, InQueue
<1>b. SingleOwner'
  BY <1>inv, SMTT(30) DEF SingleOwner, TypeOK, PcInv, NotifyEvent, InQueue
<1>c. PcInv'
  BY <1>inv, SMTT(30) DEF PcInv, TypeOK, Idle, InAsk, NotifyEvent, InQueue
<1>d. ShutdownInv'
  BY <1>inv, SMTT(30)
     DEF ShutdownInv, TypeOK, PcInv, InFlush, InAsk, SingleOwner, NotifyEvent, InQueue
<1>e. StoppedInv'
  BY <1>inv, SMTT(30) DEF StoppedInv, TypeOK, PcInv, SingleOwner, NotifyEvent, InQueue
<1>f. ExpiryInv'
  BY <1>inv, SMTT(30) DEF ExpiryInv, TypeOK, SingleOwner, PcInv, NotifyEvent, InQueue
<1>g. EventsNeverExpire'
  BY <1>inv, SMTT(30) DEF EventsNeverExpire, TypeOK, ExpiryInv, NotifyEvent, InQueue
<1>h. ActiveIdsAreQueued'
  BY <1>inv, SMTT(30) DEF ActiveIdsAreQueued, TypeOK, NotifyEvent, InQueue
<1>k. WindowInv'
  BY <1>inv, SMTT(30) DEF WindowInv, TypeOK, NotifyEvent, InQueue
<1>i. TimeoutHasDueEvent'
  BY <1>inv, SMTT(30)
     DEF TimeoutHasDueEvent, IsTop, TypeOK, SingleOwner, PcInv, NotifyEvent, InQueue
<1>j. TerminatedInv'
  BY <1>inv, SMTT(30) DEF TerminatedInv, InFlush, InAsk, NotifyEvent, InQueue
<1> QED BY <1>a, <1>b, <1>c, <1>d, <1>e, <1>f, <1>g, <1>h, <1>k, <1>i, <1>j DEF IInv

\* A notification wakes the dispatcher if it waits.
LEMMA NotifyTaskKeeps ==
    ASSUME IInv, NEW c, NotifyTask(c)
    PROVE  IInv'
<1> USE ConstantsAssumption DEF taskVars, eventVars, schedVars, queueVars, dispVars, sigVars,
           mainVars, schedOther, dispOther, mainOther, vars, Ends, AllTasks, DontExpire, Callers
<1>inv. /\ TypeOK /\ SingleOwner /\ PcInv /\ ShutdownInv /\ StoppedInv
       /\ ExpiryInv /\ EventsNeverExpire /\ ActiveIdsAreQueued /\ WindowInv
       /\ TimeoutHasDueEvent /\ TerminatedInv
  BY DEF IInv
<1>a. TypeOK'
  BY <1>inv, SMTT(30) DEF TypeOK, NotifyTask, InQueue
<1>b. SingleOwner'
  BY <1>inv, SMTT(30) DEF SingleOwner, TypeOK, PcInv, NotifyTask, InQueue
<1>c. PcInv'
  BY <1>inv, SMTT(30) DEF PcInv, TypeOK, Idle, InAsk, NotifyTask, InQueue
<1>d. ShutdownInv'
  BY <1>inv, SMTT(30)
     DEF ShutdownInv, TypeOK, PcInv, InFlush, InAsk, SingleOwner, NotifyTask, InQueue
<1>e. StoppedInv'
  BY <1>inv, SMTT(30) DEF StoppedInv, TypeOK, PcInv, SingleOwner, NotifyTask, InQueue
<1>f. ExpiryInv'
  BY <1>inv, SMTT(30) DEF ExpiryInv, TypeOK, SingleOwner, PcInv, NotifyTask, InQueue
<1>g. EventsNeverExpire'
  BY <1>inv, SMTT(30) DEF EventsNeverExpire, TypeOK, ExpiryInv, NotifyTask, InQueue
<1>h. ActiveIdsAreQueued'
  BY <1>inv, SMTT(30) DEF ActiveIdsAreQueued, TypeOK, NotifyTask, InQueue
<1>k. WindowInv'
  BY <1>inv, SMTT(30) DEF WindowInv, TypeOK, NotifyTask, InQueue
<1>i. TimeoutHasDueEvent'
  BY <1>inv, SMTT(30)
     DEF TimeoutHasDueEvent, IsTop, TypeOK, SingleOwner, PcInv, NotifyTask, InQueue
<1>j. TerminatedInv'
  BY <1>inv, SMTT(30) DEF TerminatedInv, InFlush, InAsk, NotifyTask, InQueue
<1> QED BY <1>a, <1>b, <1>c, <1>d, <1>e, <1>f, <1>g, <1>h, <1>k, <1>i, <1>j DEF IInv

\* The scheduler pops the event on top.
LEMMA SchedTimeoutKeeps ==
    ASSUME IInv, SchedTimeout
    PROVE  IInv'
<1> USE ConstantsAssumption DEF taskVars, eventVars, schedVars, queueVars, dispVars, sigVars,
           mainVars, schedOther, dispOther, mainOther, vars, Ends, AllTasks, DontExpire, Callers
<1>inv. /\ TypeOK /\ SingleOwner /\ PcInv /\ ShutdownInv /\ StoppedInv
       /\ ExpiryInv /\ EventsNeverExpire /\ ActiveIdsAreQueued /\ WindowInv
       /\ TimeoutHasDueEvent /\ TerminatedInv
  BY DEF IInv
<1>1. /\ eventList' \subseteq eventList /\ eventIds' \subseteq eventIds
      /\ schedTask' \in Tasks \cup {NoTask} /\ schedRun' \in BOOLEAN
      /\ schedPc' \in {"test", "handoff"}
  <2>1. CASE schedState = "TERMINATED"
    BY <1>inv, <2>1 DEF SchedTimeout, TypeOK
  <2>2. CASE schedState # "TERMINATED"
    <3>1. PICK t \in eventList : /\ eventList' = eventList \ {t} /\ schedTask' = t
                                 /\ eventIds' = eventIds \ {eventId[t]}
                                 /\ schedRun' = (eventId[t] \in eventIds)
                                 /\ schedPc' = "handoff"
      BY <2>2 DEF SchedTimeout
    <3>2. schedRun' = TRUE \/ schedRun' = FALSE
      <4> DEFINE active == eventId[t] \in eventIds
      <4>1. active \in BOOLEAN
        OBVIOUS
      <4>2. schedRun' = active
        BY <3>1, Zenon
      <4> HIDE DEF active
      <4> QED BY <4>1, <4>2, Zenon
    <3> QED BY <1>inv, <3>1, <3>2 DEF TypeOK
  <2> QED BY <2>1, <2>2
<1>a. TypeOK'
  <2>1. UNCHANGED <<expiration, outcome, schedUntil, taskList, taskNotify, schedOther>>
    BY DEF SchedTimeout
  <2> QED BY <1>inv, <1>1, <2>1 DEF TypeOK
<1>b. SingleOwner'
  BY <1>inv, <1>1, SMTT(30) DEF SingleOwner, TypeOK, PcInv, SchedTimeout, InQueue
<1>c. PcInv'
  BY <1>inv, <1>1, SMTT(30) DEF PcInv, TypeOK, Idle, InAsk, SchedTimeout, InQueue
<1>d. ShutdownInv'
  BY <1>inv, <1>1, SMTT(30)
     DEF ShutdownInv, TypeOK, PcInv, InFlush, InAsk, SingleOwner, SchedTimeout, InQueue
<1>e. StoppedInv'
  BY <1>inv, <1>1, SMTT(30) DEF StoppedInv, TypeOK, PcInv, SingleOwner, SchedTimeout, InQueue
<1>f. ExpiryInv'
  BY <1>inv, <1>1, SMTT(30) DEF ExpiryInv, TypeOK, SingleOwner, PcInv, SchedTimeout, InQueue
<1>g. EventsNeverExpire'
  BY <1>inv, <1>1, SMTT(30) DEF EventsNeverExpire, TypeOK, ExpiryInv, SchedTimeout, InQueue
<1>h. ActiveIdsAreQueued'
  <2>1. CASE schedState = "TERMINATED"
    BY <1>inv, <2>1 DEF SchedTimeout, ActiveIdsAreQueued
  <2>2. CASE schedState # "TERMINATED"
    <3>1. PICK t \in eventList : /\ eventList' = eventList \ {t}
                                 /\ eventIds' = eventIds \ {eventId[t]}
                                 /\ UNCHANGED <<eventId, cancelled, lapped>>
      BY <2>2 DEF SchedTimeout
    <3>2. \A i \in eventIds' : \E u \in eventList' : eventId'[u] = i
      BY <1>inv, <3>1 DEF ActiveIdsAreQueued
    <3>3. \A u \in eventList' \ lapped' : eventId[u] # eventId[t]
      BY <1>inv, <3>1 DEF ActiveIdsAreQueued
    <3> QED BY <1>inv, <3>1, <3>2, <3>3 DEF ActiveIdsAreQueued
  <2> QED BY <2>1, <2>2
<1>k. WindowInv'
  BY <1>inv, <1>1 DEF WindowInv, SchedTimeout
<1>i. TimeoutHasDueEvent'
  BY <1>inv, <1>1, SMTT(30)
     DEF TimeoutHasDueEvent, IsTop, TypeOK, SingleOwner, PcInv, SchedTimeout, InQueue
<1>j. TerminatedInv'
  BY <1>inv, <1>1, SMTT(30) DEF TerminatedInv, InFlush, InAsk, SchedTimeout, InQueue
<1> QED BY <1>a, <1>b, <1>c, <1>d, <1>e, <1>f, <1>g, <1>h, <1>k, <1>i, <1>j DEF IInv

\* The scheduler hands over the event it popped.
LEMMA HandOffKeeps ==
    ASSUME IInv, SchedHandOff, schedRun
    PROVE  IInv'
<1> USE ConstantsAssumption DEF taskVars, eventVars, schedVars, queueVars, dispVars, sigVars,
           mainVars, schedOther, dispOther, mainOther, vars, Ends, AllTasks, DontExpire, Callers
<1>inv. /\ TypeOK /\ SingleOwner /\ PcInv /\ ShutdownInv /\ StoppedInv
       /\ ExpiryInv /\ EventsNeverExpire /\ ActiveIdsAreQueued /\ WindowInv
       /\ TimeoutHasDueEvent /\ TerminatedInv
  BY DEF IInv
<1>1. /\ schedTask \in Tasks /\ outcome[schedTask] = "live" /\ ~InQueue(schedTask)
      /\ schedTask # cur /\ schedTask \notin eventList
  BY <1>inv DEF TypeOK, PcInv, SingleOwner, SchedHandOff
<1>2. Pushed(schedTask, DontExpire)
  <2>1. "sched" \in Callers \cup {"sched"} /\ DontExpire \in Nat /\ FALSE \in BOOLEAN
    OBVIOUS
  <2> HIDE DEF DontExpire
  <2> QED BY <1>inv, <1>1, <2>1, EnqueuePushes DEF SchedHandOff, SingleOwner
<1>3. /\ schedTask' = NoTask /\ schedRun' = FALSE /\ schedPc' = "test" /\ schedRun
      /\ UNCHANGED <<eventList, eventIds, schedUntil, schedOther>>
  BY DEF SchedHandOff
<1>a. TypeOK'
  <2>1. schedTask' \in Tasks \cup {NoTask} /\ schedRun' \in BOOLEAN /\ schedPc' = "test"
    BY <1>3
  <2>2. UNCHANGED <<now, eventId, cancelled, since, lapped, schedState, lastEventId,
                    eventList, eventIds, schedUntil, dispState, dispPc, cur, eventNotify, mainVars>>
    BY <1>3
  <2> QED BY <1>inv, <1>2, <2>1, <2>2, SMTT(60) DEF TypeOK, Pushed, Outcomes
<1>b. SingleOwner'
  BY <1>inv, <1>1, <1>2, <1>3, SMTT(30) DEF SingleOwner, TypeOK, PcInv, Pushed, Outcomes
<1>c. PcInv'
  BY <1>inv, <1>1, <1>2, <1>3, SMTT(30) DEF PcInv, TypeOK, Idle, InAsk, Pushed, Outcomes
<1>d. ShutdownInv'
  BY <1>inv, <1>1, <1>2, <1>3, SMTT(30)
     DEF ShutdownInv, TypeOK, PcInv, InFlush, InAsk, SingleOwner, Pushed, Outcomes
<1>e. StoppedInv'
  BY <1>inv, <1>1, <1>2, <1>3, SMTT(30) DEF StoppedInv, TypeOK, PcInv, SingleOwner, Pushed, Outcomes
<1>f. ExpiryInv'
  BY <1>inv, <1>1, <1>2, <1>3, SMTT(30) DEF ExpiryInv, TypeOK, SingleOwner, PcInv, Pushed, Outcomes
<1>g. EventsNeverExpire'
  BY <1>inv, <1>1, <1>2, <1>3, SMTT(30) DEF EventsNeverExpire, TypeOK, ExpiryInv, Pushed, Outcomes
<1>h. ActiveIdsAreQueued'
  BY <1>inv, <1>1, <1>2, <1>3, SMTT(30) DEF ActiveIdsAreQueued, TypeOK, Pushed, Outcomes
<1>k. WindowInv'
  BY <1>inv, <1>1, <1>2, <1>3, SMTT(30) DEF WindowInv, TypeOK, Pushed, Outcomes
<1>i. TimeoutHasDueEvent'
  BY <1>inv, <1>1, <1>2, <1>3, SMTT(30)
     DEF TimeoutHasDueEvent, IsTop, TypeOK, SingleOwner, PcInv, Pushed, Outcomes
<1>j. TerminatedInv'
  BY <1>inv, <1>1, <1>2, <1>3, SMTT(30) DEF TerminatedInv, InFlush, InAsk, Pushed, Outcomes
<1> QED BY <1>a, <1>b, <1>c, <1>d, <1>e, <1>f, <1>g, <1>h, <1>k, <1>i, <1>j DEF IInv

\* The scheduler deletes the stopped event it popped.
LEMMA DeleteStoppedKeeps ==
    ASSUME IInv, SchedHandOff, ~schedRun
    PROVE  IInv'
<1> USE ConstantsAssumption DEF taskVars, eventVars, schedVars, queueVars, dispVars, sigVars,
           mainVars, schedOther, dispOther, mainOther, vars, Ends, AllTasks, DontExpire, Callers
<1>inv. /\ TypeOK /\ SingleOwner /\ PcInv /\ ShutdownInv /\ StoppedInv
       /\ ExpiryInv /\ EventsNeverExpire /\ ActiveIdsAreQueued /\ WindowInv
       /\ TimeoutHasDueEvent /\ TerminatedInv
  BY DEF IInv
<1>1. /\ schedTask \in Tasks /\ outcome[schedTask] = "live" /\ ~InQueue(schedTask)
      /\ schedTask # cur /\ schedTask \notin eventList
  BY <1>inv DEF TypeOK, PcInv, SingleOwner, SchedHandOff
<1>2. /\ schedTask' = NoTask /\ schedRun' = FALSE /\ schedPc' = "test"
      /\ outcome' = [outcome EXCEPT ![schedTask] = "stopped"]
      /\ UNCHANGED <<expiration, taskList, taskNotify, eventList, eventIds, schedUntil, schedOther>>
  BY DEF SchedHandOff
<1>3. \A u : InQueue(u)' <=> InQueue(u)
  BY <1>2 DEF InQueue
<1>a. TypeOK'
  <2>1. schedTask' \in Tasks \cup {NoTask} /\ schedRun' \in BOOLEAN /\ schedPc' = "test"
    BY <1>2
  <2>2. /\ UNCHANGED <<now, expiration, eventId, cancelled, since, lapped, eventVars, schedUntil, queueVars,
                       dispVars, sigVars, mainVars>>
        /\ outcome' = [outcome EXCEPT ![schedTask] = "stopped"]
    BY <1>2
  <2> QED BY <1>inv, <1>1, <2>1, <2>2 DEF TypeOK
<1>b. SingleOwner'
  BY <1>inv, <1>1, <1>2, <1>3, SMTT(30) DEF SingleOwner, TypeOK, PcInv
<1>c. PcInv'
  BY <1>inv, <1>1, <1>2, <1>3, SMTT(30) DEF PcInv, TypeOK, Idle, InAsk
<1>d. ShutdownInv'
  BY <1>inv, <1>1, <1>2, <1>3, SMTT(30) DEF ShutdownInv, TypeOK, PcInv, InFlush, InAsk, SingleOwner
<1>e. StoppedInv'
  BY <1>inv, <1>1, <1>2, <1>3, SMTT(30) DEF StoppedInv, TypeOK, PcInv, SingleOwner
<1>f. ExpiryInv'
  BY <1>inv, <1>1, <1>2, <1>3, SMTT(30) DEF ExpiryInv, TypeOK, SingleOwner, PcInv
<1>g. EventsNeverExpire'
  BY <1>inv, <1>1, <1>2, <1>3, SMTT(30) DEF EventsNeverExpire, TypeOK, ExpiryInv
<1>h. ActiveIdsAreQueued'
  BY <1>inv, <1>1, <1>2, <1>3, SMTT(30) DEF ActiveIdsAreQueued, TypeOK
<1>k. WindowInv'
  BY <1>inv, <1>1, <1>2, <1>3, SMTT(30) DEF WindowInv, TypeOK
<1>i. TimeoutHasDueEvent'
  BY <1>inv, <1>1, <1>2, <1>3, SMTT(30) DEF TimeoutHasDueEvent, IsTop, TypeOK, SingleOwner, PcInv
<1>j. TerminatedInv'
  BY <1>inv, <1>1, <1>2, <1>3, SMTT(30) DEF TerminatedInv, InFlush, InAsk
<1> QED BY <1>a, <1>b, <1>c, <1>d, <1>e, <1>f, <1>g, <1>h, <1>k, <1>i, <1>j DEF IInv

\* The dispatcher takes the first task.
LEMMA DispTakeKeeps ==
    ASSUME IInv, DispTake
    PROVE  IInv'
<1> USE ConstantsAssumption DEF taskVars, eventVars, schedVars, queueVars, dispVars, sigVars,
           mainVars, schedOther, dispOther, mainOther, vars, Ends, AllTasks, DontExpire, Callers
<1>inv. /\ TypeOK /\ SingleOwner /\ PcInv /\ ShutdownInv /\ StoppedInv
       /\ ExpiryInv /\ EventsNeverExpire /\ ActiveIdsAreQueued /\ WindowInv
       /\ TimeoutHasDueEvent /\ TerminatedInv
  BY DEF IInv
<1>1. taskList # <<>> /\ dispState # "TERMINATED" => Popped /\ dispPc' = "run"
  BY <1>inv, TakePops DEF DispTake, SingleOwner
<1>2. ~(taskList # <<>> /\ dispState # "TERMINATED") => \A u : InQueue(u)' <=> InQueue(u)
  BY DEF DispTake, InQueue
<1>a. TypeOK'
  BY <1>inv, <1>1, <1>2, SMTT(30) DEF TypeOK, DispTake, Popped
<1>b. SingleOwner'
  BY <1>inv, <1>1, <1>2, SMTT(30) DEF SingleOwner, TypeOK, PcInv, DispTake, Popped
<1>c. PcInv'
  BY <1>inv, <1>1, <1>2, SMTT(30) DEF PcInv, TypeOK, Idle, InAsk, DispTake, Popped
<1>d. ShutdownInv'
  BY <1>inv, <1>1, <1>2, SMTT(30)
     DEF ShutdownInv, TypeOK, PcInv, InFlush, InAsk, SingleOwner, DispTake, Popped
<1>e. StoppedInv'
  BY <1>inv, <1>1, <1>2, SMTT(30) DEF StoppedInv, TypeOK, PcInv, SingleOwner, DispTake, Popped
<1>f. ExpiryInv'
  BY <1>inv, <1>1, <1>2, SMTT(30) DEF ExpiryInv, TypeOK, SingleOwner, PcInv, DispTake, Popped
<1>g. EventsNeverExpire'
  BY <1>inv, <1>1, <1>2, SMTT(30) DEF EventsNeverExpire, TypeOK, ExpiryInv, DispTake, Popped
<1>h. ActiveIdsAreQueued'
  BY <1>inv, <1>1, <1>2, SMTT(30) DEF ActiveIdsAreQueued, TypeOK, DispTake, Popped
<1>k. WindowInv'
  BY <1>inv, <1>1, <1>2, SMTT(30) DEF WindowInv, TypeOK, DispTake, Popped
<1>i. TimeoutHasDueEvent'
  BY <1>inv, <1>1, <1>2, SMTT(30)
     DEF TimeoutHasDueEvent, IsTop, TypeOK, SingleOwner, PcInv, DispTake, Popped
<1>j. TerminatedInv'
  BY <1>inv, <1>1, <1>2, SMTT(30) DEF TerminatedInv, InFlush, InAsk, DispTake, Popped
<1> QED BY <1>a, <1>b, <1>c, <1>d, <1>e, <1>f, <1>g, <1>h, <1>k, <1>i, <1>j DEF IInv

\* So does flush.
LEMMA FlushTakeKeeps ==
    ASSUME IInv, FlushTake
    PROVE  IInv'
<1> USE ConstantsAssumption DEF taskVars, eventVars, schedVars, queueVars, dispVars, sigVars,
           mainVars, schedOther, dispOther, mainOther, vars, Ends, AllTasks, DontExpire, Callers
<1>inv. /\ TypeOK /\ SingleOwner /\ PcInv /\ ShutdownInv /\ StoppedInv
       /\ ExpiryInv /\ EventsNeverExpire /\ ActiveIdsAreQueued /\ WindowInv
       /\ TimeoutHasDueEvent /\ TerminatedInv
  BY DEF IInv
<1>1. Popped
  BY <1>inv, TakePops DEF FlushTake, SingleOwner
<1>a. TypeOK'
  BY <1>inv, <1>1, SMTT(30) DEF TypeOK, FlushTake, Popped
<1>b. SingleOwner'
  BY <1>inv, <1>1, SMTT(30) DEF SingleOwner, TypeOK, PcInv, FlushTake, Popped
<1>c. PcInv'
  BY <1>inv, <1>1, SMTT(30) DEF PcInv, TypeOK, Idle, InAsk, FlushTake, Popped, ShutdownInv, InFlush
<1>d. ShutdownInv'
  BY <1>inv, <1>1, SMTT(30) DEF ShutdownInv, TypeOK, PcInv, InFlush, InAsk, SingleOwner, FlushTake, Popped
<1>e. StoppedInv'
  BY <1>inv, <1>1, SMTT(30) DEF StoppedInv, TypeOK, PcInv, SingleOwner, FlushTake, Popped
<1>f. ExpiryInv'
  BY <1>inv, <1>1, SMTT(30) DEF ExpiryInv, TypeOK, SingleOwner, PcInv, FlushTake, Popped
<1>g. EventsNeverExpire'
  BY <1>inv, <1>1, SMTT(30) DEF EventsNeverExpire, TypeOK, ExpiryInv, FlushTake, Popped
<1>h. ActiveIdsAreQueued'
  BY <1>inv, <1>1, SMTT(30) DEF ActiveIdsAreQueued, TypeOK, FlushTake, Popped
<1>k. WindowInv'
  BY <1>inv, <1>1, SMTT(30) DEF WindowInv, TypeOK, FlushTake, Popped
<1>i. TimeoutHasDueEvent'
  BY <1>inv, <1>1, SMTT(30) DEF TimeoutHasDueEvent, IsTop, TypeOK, SingleOwner, PcInv, FlushTake, Popped
<1>j. TerminatedInv'
  BY <1>inv, <1>1, SMTT(30) DEF TerminatedInv, InFlush, InAsk, FlushTake, Popped
<1> QED BY <1>a, <1>b, <1>c, <1>d, <1>e, <1>f, <1>g, <1>h, <1>k, <1>i, <1>j DEF IInv

\* addTask from a task body or from a network handler.
LEMMA AddTaskKeeps ==
    ASSUME IInv, NEW c \in Callers, NEW t \in Tasks, NEW e \in Nat,
           NEW front \in BOOLEAN, AddTask(c, t, e, front)
    PROVE  IInv'
<1> USE ConstantsAssumption DEF taskVars, eventVars, schedVars, queueVars, dispVars, sigVars,
           mainVars, schedOther, dispOther, mainOther, vars, Ends, AllTasks, DontExpire, Callers
<1>inv. /\ TypeOK /\ SingleOwner /\ PcInv /\ ShutdownInv /\ StoppedInv
       /\ ExpiryInv /\ EventsNeverExpire /\ ActiveIdsAreQueued /\ WindowInv
       /\ TimeoutHasDueEvent /\ TerminatedInv
  BY DEF IInv
<1>1. /\ t \notin eventList /\ t # schedTask /\ ~InQueue(t) /\ t # cur /\ outcome[t] = "new"
  BY <1>inv, NewIsFree DEF AddTask
<1>2. Pushed(t, e)
  BY <1>inv, <1>1, EnqueuePushes DEF AddTask, SingleOwner
<1>a. TypeOK'
  BY <1>inv, <1>1, <1>2, SMTT(30) DEF TypeOK, AddTask, Pushed, Outcomes
<1>b. SingleOwner'
  BY <1>inv, <1>1, <1>2, SMTT(30) DEF SingleOwner, TypeOK, PcInv, AddTask, Pushed, Outcomes
<1>c. PcInv'
  BY <1>inv, <1>1, <1>2, SMTT(30) DEF PcInv, TypeOK, Idle, InAsk, AddTask, Pushed, Outcomes
<1>d. ShutdownInv'
  BY <1>inv, <1>1, <1>2, SMTT(30)
     DEF ShutdownInv, TypeOK, PcInv, InFlush, InAsk, SingleOwner, AddTask, Pushed, Outcomes
<1>e. StoppedInv'
  BY <1>inv, <1>1, <1>2, SMTT(30) DEF StoppedInv, TypeOK, PcInv, SingleOwner, AddTask, Pushed, Outcomes
<1>f. ExpiryInv'
  BY <1>inv, <1>1, <1>2, SMTT(30) DEF ExpiryInv, TypeOK, SingleOwner, PcInv, AddTask, Pushed, Outcomes
<1>g. EventsNeverExpire'
  BY <1>inv, <1>1, <1>2, SMTT(30) DEF EventsNeverExpire, TypeOK, ExpiryInv, AddTask, Pushed, Outcomes
<1>h. ActiveIdsAreQueued'
  BY <1>inv, <1>1, <1>2, SMTT(30) DEF ActiveIdsAreQueued, TypeOK, AddTask, Pushed, Outcomes
<1>k. WindowInv'
  BY <1>inv, <1>1, <1>2, SMTT(30) DEF WindowInv, TypeOK, AddTask, Pushed, Outcomes
<1>i. TimeoutHasDueEvent'
  BY <1>inv, <1>1, <1>2, SMTT(30)
     DEF TimeoutHasDueEvent, IsTop, Pushed, AddTask
<1>j. TerminatedInv'
  BY <1>inv, <1>1, <1>2, SMTT(30) DEF TerminatedInv, InFlush, InAsk, AddTask, Pushed, Outcomes
<1> QED BY <1>a, <1>b, <1>c, <1>d, <1>e, <1>f, <1>g, <1>h, <1>k, <1>i, <1>j DEF IInv

\* The history of the ids at an addEvent.
LEMMA AddEventCounts ==
    ASSUME TypeOK, NEW c \in Callers, NEW t \in Tasks, NEW delay \in Delays,
           AddEvent(c, t, delay)
    PROVE  /\ since' \in [AllTasks -> 0..(MaxEventId - 1)]
           /\ lapped \subseteq lapped' /\ lapped' \subseteq Tasks
<1> USE ConstantsAssumption DEF AllTasks
<1>1. CASE schedState = "RUNNING"
  <2>1. CountsId(t)
    BY <1>1 DEF AddEvent
  <2>2. /\ since' = [u \in AllTasks |-> IF u = t \/ since[u] = MaxEventId - 1 THEN 0
                                        ELSE since[u] + 1]
        /\ since \in [AllTasks -> 0..(MaxEventId - 1)]
    BY <2>1 DEF CountsId, TypeOK
  <2>3. since' \in [AllTasks -> 0..(MaxEventId - 1)]
    BY <2>2
  <2> QED BY <2>1, <2>3 DEF CountsId, TypeOK
<1>2. CASE schedState # "RUNNING"
  BY <1>2 DEF AddEvent, TypeOK
<1> QED BY <1>1, <1>2

\* A queued event carries the id that addEvent gives out only if it is lapped; every
\* other one keeps its own to itself.
LEMMA AddEventIds ==
    ASSUME TypeOK, ActiveIdsAreQueued, WindowInv, StoppedInv, SingleOwner,
           NEW c \in Callers, NEW t \in Tasks, NEW delay \in Delays, outcome[t] = "new",
           AddEvent(c, t, delay)
    PROVE  /\ ActiveIdsAreQueued' /\ WindowInv'
           /\ \A u \in eventList : eventId'[u] = eventId[u]
           /\ \A u \in eventList \ lapped' :
                eventId[u] \in eventIds' <=> eventId[u] \in eventIds
<1> USE ConstantsAssumption DEF AllTasks
<1>1. CASE schedState # "RUNNING"
  BY <1>1 DEF ActiveIdsAreQueued, WindowInv, AddEvent
<1>2. CASE schedState = "RUNNING"
  <2> DEFINE twins == {u \in eventList : since[u] = MaxEventId - 1}
  <2>1. /\ eventId' = [eventId EXCEPT ![t] = NextEventId] /\ lastEventId' = NextEventId
        /\ eventIds' = eventIds \cup {NextEventId} /\ eventList' = eventList \cup {t}
        /\ since' = [u \in AllTasks |-> IF u = t \/ since[u] = MaxEventId - 1 THEN 0
                                        ELSE since[u] + 1]
        /\ lapped' = (IF twins = {} THEN lapped ELSE lapped \cup twins \cup {t})
        /\ cancelled' = cancelled
    BY <1>2 DEF AddEvent, CountsId
  <2>2. /\ t \notin eventList /\ t \in AllTasks /\ eventList \subseteq AllTasks
        /\ eventId \in [AllTasks -> 0..MaxEventId]
        /\ since \in [AllTasks -> 0..(MaxEventId - 1)]
        /\ lastEventId \in 0..MaxEventId /\ MaxEventId \in Nat \ {0}
    BY DEF TypeOK, SingleOwner
  <2>3. /\ eventId'[t] = NextEventId /\ since'[t] = 0
        /\ \A u \in eventList : /\ eventId'[u] = eventId[u]
                               /\ since'[u] = IF since[u] = MaxEventId - 1 THEN 0
                                             ELSE since[u] + 1
    BY <2>1, <2>2
  <2>4. ASSUME NEW u \in eventList
        PROVE  /\ eventId[u] = NextEventId => u \in twins
               /\ \/ eventId'[u] + since'[u] = lastEventId'
                  \/ eventId'[u] + since'[u] = lastEventId' + MaxEventId
    <3>1. \/ eventId[u] + since[u] = lastEventId
          \/ eventId[u] + since[u] = lastEventId + MaxEventId
      BY DEF WindowInv
    <3>2. eventId[u] \in 1..MaxEventId /\ since[u] \in 0..(MaxEventId - 1)
      BY <2>2 DEF WindowInv
    <3>3. eventId'[u] = eventId[u]
          /\ since'[u] = IF since[u] = MaxEventId - 1 THEN 0 ELSE since[u] + 1
      BY <2>3
    <3>4. lastEventId' = IF lastEventId >= MaxEventId THEN 1 ELSE lastEventId + 1
      BY <2>1, <2>2 DEF NextEventId
    <3>5. eventId[u] = NextEventId => u \in twins
      BY <2>2, <3>1, <3>2 DEF NextEventId
    <3>6. CASE since[u] = MaxEventId - 1
      BY <2>2, <3>1, <3>2, <3>3, <3>4, <3>5, <3>6
    <3>7. CASE since[u] # MaxEventId - 1
      <4>1. since'[u] = since[u] + 1 /\ eventId'[u] = eventId[u]
        BY <3>3, <3>7
      <4> HIDE DEF twins
      <4> QED BY <2>2, <3>1, <3>2, <3>4, <3>5, <3>7, <4>1
    <3> QED BY <3>6, <3>7
  <2>5. WindowInv'
    <3>1. ASSUME NEW u \in eventList'
          PROVE  /\ eventId'[u] # 0
                 /\ \/ eventId'[u] + since'[u] = lastEventId'
                    \/ eventId'[u] + since'[u] = lastEventId' + MaxEventId
      <4>1. CASE u = t
        BY <2>1, <2>2, <2>3, <4>1 DEF NextEventId
      <4>2. CASE u # t
        <5>1. u \in eventList
          BY <2>1, <4>2
        <5> QED BY <2>3, <2>4, <5>1 DEF WindowInv
      <4> QED BY <4>1, <4>2
    <3> QED BY <3>1 DEF WindowInv
  <2>6. twins \subseteq lapped' /\ (twins # {} => t \in lapped') /\ lapped \subseteq lapped'
    BY <2>1
  <2>7. \A u \in eventList : eventId[u] = NextEventId => u \in lapped' /\ t \in lapped'
    BY <2>4, <2>6
  <2> HIDE DEF twins
  <2>8. \A u \in eventList \ lapped' : eventId[u] \in eventIds' <=> eventId[u] \in eventIds
    BY <2>1, <2>7
  <2>9. t \notin cancelled \ lapped
    BY <2>2 DEF StoppedInv, SingleOwner
  <2>10. ActiveIdsAreQueued'
    <3>1. \A i \in eventIds' : \E u \in eventList' : eventId'[u] = i
      BY <2>1, <2>3 DEF ActiveIdsAreQueued
    <3>2. \A u \in eventList' \ lapped' : eventId'[u] \in eventIds' <=> u \notin cancelled'
      <4> SUFFICES ASSUME NEW u \in eventList' \ lapped'
                   PROVE  eventId'[u] \in eventIds' <=> u \notin cancelled
        BY <2>1
      <4>1. CASE u = t
        BY <2>1, <2>3, <2>6, <2>9, <4>1
      <4>2. CASE u # t
        BY <2>1, <2>3, <2>6, <2>8, <4>2 DEF ActiveIdsAreQueued
      <4> QED BY <4>1, <4>2
    <3>3. \A u, v \in eventList' : eventId'[u] = eventId'[v] /\ u # v => {u, v} \subseteq lapped'
      <4> SUFFICES ASSUME NEW u \in eventList', NEW v \in eventList',
                          eventId'[u] = eventId'[v], u # v
                   PROVE  u \in lapped' /\ v \in lapped'
        OBVIOUS
      <4>1. CASE u = t
        BY <2>1, <2>3, <2>7, <4>1
      <4>2. CASE v = t
        BY <2>1, <2>3, <2>7, <4>2
      <4>3. CASE u # t /\ v # t
        <5>1. u \in eventList /\ v \in eventList /\ eventId[u] = eventId[v]
          BY <2>1, <2>3, <4>3
        <5>2. {u, v} \subseteq lapped
          BY <5>1 DEF ActiveIdsAreQueued
        <5> QED BY <2>6, <5>2
      <4> QED BY <4>1, <4>2, <4>3
    <3> QED BY <3>1, <3>2, <3>3 DEF ActiveIdsAreQueued
  <2> QED BY <2>3, <2>5, <2>8, <2>10
<1> QED BY <1>1, <1>2

\* addEvent.
LEMMA AddEventKeeps ==
    ASSUME IInv, NEW c \in Callers, NEW t \in Tasks, NEW delay \in Delays,
           AddEvent(c, t, delay)
    PROVE  IInv'
<1> USE ConstantsAssumption DEF taskVars, eventVars, schedVars, queueVars, dispVars, sigVars,
           mainVars, schedOther, dispOther, mainOther, vars, Ends, AllTasks, DontExpire, Callers
<1>inv. /\ TypeOK /\ SingleOwner /\ PcInv /\ ShutdownInv /\ StoppedInv
       /\ ExpiryInv /\ EventsNeverExpire /\ ActiveIdsAreQueued /\ WindowInv
       /\ TimeoutHasDueEvent /\ TerminatedInv
  BY DEF IInv
<1>1. /\ t \notin eventList /\ t # schedTask /\ ~InQueue(t) /\ t # cur /\ outcome[t] = "new"
  BY <1>inv, NewIsFree DEF AddEvent
<1>2. NextEventId \in 1..MaxEventId
  BY <1>inv DEF NextEventId, TypeOK
<1>3. /\ since' \in [AllTasks -> 0..(MaxEventId - 1)]
      /\ lapped \subseteq lapped' /\ lapped' \subseteq Tasks
  BY <1>inv, <1>1, AddEventCounts, Zenon
<1>a. TypeOK'
  <2> DEFINE due == now + (IF delay < MinTicks THEN MinTicks ELSE delay)
  <2>1. due \in Nat
    BY <1>inv DEF TypeOK
  <2> HIDE DEF due
  <2>2. /\ UNCHANGED <<now, cancelled, schedState, schedVars, queueVars, dispVars, taskNotify,
                     mainVars>>
        /\ expiration' = [expiration EXCEPT ![t] = due]
    BY DEF AddEvent, due
  <2>3. CASE schedState = "RUNNING"
    <3>1. /\ lastEventId' = NextEventId /\ eventId' = [eventId EXCEPT ![t] = NextEventId]
          /\ eventIds' = eventIds \cup {NextEventId} /\ eventList' = eventList \cup {t}
          /\ eventNotify' \subseteq eventNotify \cup {c}
          /\ outcome' = [outcome EXCEPT ![t] = "live"]
      BY <2>3 DEF AddEvent
    <3> QED BY <1>inv, <1>2, <1>3, <2>1, <2>2, <3>1, SMTT(60) DEF TypeOK
  <2>4. CASE schedState # "RUNNING"
    <3>1. /\ UNCHANGED <<eventId, lastEventId, since, lapped, eventList, eventIds, eventNotify>>
          /\ outcome' = [outcome EXCEPT ![t] = "lost"]
      BY <2>4 DEF AddEvent
    <3> QED BY <1>inv, <2>1, <2>2, <3>1, SMTT(60) DEF TypeOK
  <2> QED BY <2>3, <2>4
<1>b. SingleOwner'
  BY <1>inv, <1>1, <1>2, SMTT(30) DEF SingleOwner, TypeOK, PcInv, AddEvent, InQueue
<1>c. PcInv'
  BY <1>inv, <1>1, <1>2, SMTT(30) DEF PcInv, TypeOK, Idle, InAsk, AddEvent, InQueue
<1>d. ShutdownInv'
  BY <1>inv, <1>1, <1>2, SMTT(30)
     DEF ShutdownInv, TypeOK, PcInv, InFlush, InAsk, SingleOwner, AddEvent, InQueue
<1>e. StoppedInv'
  <2> SUFFICES ASSUME NEW u \in cancelled \ lapped'
               PROVE  \/ u \in eventList' /\ eventId'[u] \notin eventIds'
                      \/ u = schedTask' /\ ~schedRun'
                      \/ outcome'[u] \in {"stopped", "lost"}
    BY DEF StoppedInv, AddEvent
  <2>1. u \in cancelled \ lapped /\ u \in AllTasks
    BY <1>inv, <1>3 DEF TypeOK
  <2>2. u # t
    BY <1>inv, <1>1, <2>1 DEF StoppedInv, SingleOwner
  <2>3. u \in eventList => eventId'[u] = eventId[u] /\ (eventId[u] \in eventIds' => eventId[u] \in eventIds)
    BY <1>inv, <1>1, <2>2, AddEventIds
  <2>4. outcome'[u] = outcome[u] /\ schedTask' = schedTask /\ schedRun' = schedRun
        /\ eventList \subseteq eventList'
    BY <1>inv, <2>1, <2>2 DEF AddEvent, TypeOK
  <2> QED BY <1>inv, <2>1, <2>3, <2>4 DEF StoppedInv
<1>f. ExpiryInv'
  BY <1>inv, <1>1, <1>2, SMTT(30) DEF ExpiryInv, TypeOK, SingleOwner, PcInv, AddEvent, InQueue
<1>g. EventsNeverExpire'
  BY <1>inv, <1>1, <1>2, SMTT(30) DEF EventsNeverExpire, TypeOK, ExpiryInv, AddEvent, InQueue
<1>h. ActiveIdsAreQueued'
  BY <1>inv, <1>1, AddEventIds
<1>k. WindowInv'
  BY <1>inv, <1>1, AddEventIds
<1>i. TimeoutHasDueEvent'
  BY <1>inv, <1>1, <1>2, SMTT(30)
     DEF TimeoutHasDueEvent, IsTop, TypeOK, SingleOwner, PcInv, AddEvent, InQueue
<1>j. TerminatedInv'
  BY <1>inv, <1>1, <1>2, SMTT(30) DEF TerminatedInv, InFlush, InAsk, AddEvent, InQueue
<1> QED BY <1>a, <1>b, <1>c, <1>d, <1>e, <1>f, <1>g, <1>h, <1>k, <1>i, <1>j DEF IInv

\* stopEvent.
LEMMA StopEventKeeps ==
    ASSUME IInv, NEW t \in Tasks, StopEvent(t)
    PROVE  IInv'
<1> USE ConstantsAssumption DEF taskVars, eventVars, schedVars, queueVars, dispVars, sigVars,
           mainVars, schedOther, dispOther, mainOther, vars, Ends, AllTasks, DontExpire, Callers
<1>inv. /\ TypeOK /\ SingleOwner /\ PcInv /\ ShutdownInv /\ StoppedInv
       /\ ExpiryInv /\ EventsNeverExpire /\ ActiveIdsAreQueued /\ WindowInv
       /\ TimeoutHasDueEvent /\ TerminatedInv
  BY DEF IInv
<1>a. TypeOK'
  <2>1. /\ cancelled' \subseteq cancelled \cup eventList /\ eventIds' \subseteq eventIds
        /\ UNCHANGED <<now, expiration, eventId, outcome, since, lapped, schedState,
                       lastEventId, eventList, schedVars, queueVars, dispVars, sigVars, mainVars>>
    BY DEF StopEvent
  <2> QED BY <1>inv, <2>1, SMTT(60) DEF TypeOK
<1>b. SingleOwner'
  BY <1>inv, SMTT(30) DEF SingleOwner, TypeOK, PcInv, StopEvent, InQueue
<1>c. PcInv'
  BY <1>inv, SMTT(30) DEF PcInv, TypeOK, Idle, InAsk, StopEvent, InQueue
<1>d. ShutdownInv'
  BY <1>inv, SMTT(30)
     DEF ShutdownInv, TypeOK, PcInv, InFlush, InAsk, SingleOwner, StopEvent, InQueue
<1>e. StoppedInv'
  BY <1>inv, SMTT(30) DEF StoppedInv, TypeOK, PcInv, SingleOwner, StopEvent, InQueue
<1>f. ExpiryInv'
  BY <1>inv, SMTT(30) DEF ExpiryInv, TypeOK, SingleOwner, PcInv, StopEvent, InQueue
<1>g. EventsNeverExpire'
  BY <1>inv, SMTT(30) DEF EventsNeverExpire, TypeOK, ExpiryInv, StopEvent, InQueue
<1>h. ActiveIdsAreQueued'
  BY <1>inv, SMTT(30) DEF ActiveIdsAreQueued, TypeOK, StopEvent, InQueue
<1>k. WindowInv'
  BY <1>inv, SMTT(30) DEF WindowInv, TypeOK, StopEvent, InQueue
<1>i. TimeoutHasDueEvent'
  BY <1>inv, SMTT(30)
     DEF TimeoutHasDueEvent, IsTop, TypeOK, SingleOwner, PcInv, StopEvent, InQueue
<1>j. TerminatedInv'
  BY <1>inv, SMTT(30) DEF TerminatedInv, InFlush, InAsk, StopEvent, InQueue
<1> QED BY <1>a, <1>b, <1>c, <1>d, <1>e, <1>f, <1>g, <1>h, <1>k, <1>i, <1>j DEF IInv

\* A task body asks for the shutdown.
LEMMA AskShutdownKeeps ==
    ASSUME IInv, AskShutdown
    PROVE  IInv'
<1> USE ConstantsAssumption DEF taskVars, eventVars, schedVars, queueVars, dispVars, sigVars,
           mainVars, schedOther, dispOther, mainOther, vars, Ends, AllTasks, DontExpire, Callers
<1>inv. /\ TypeOK /\ SingleOwner /\ PcInv /\ ShutdownInv /\ StoppedInv
       /\ ExpiryInv /\ EventsNeverExpire /\ ActiveIdsAreQueued /\ WindowInv
       /\ TimeoutHasDueEvent /\ TerminatedInv
  BY DEF IInv
<1>1. /\ ShutdownTask # schedTask /\ ~InQueue(ShutdownTask) /\ ShutdownTask # cur
      /\ outcome[ShutdownTask] = "new"
  BY <1>inv, NewIsFree DEF AskShutdown, ShutdownInv, InAsk
<1>2. Pushed(ShutdownTask, DontExpire)
  <2>1. "disp" \in Callers \cup {"sched"} /\ DontExpire \in Nat /\ FALSE \in BOOLEAN
    OBVIOUS
  <2> HIDE DEF DontExpire
  <2> QED BY <1>inv, <1>1, <2>1, EnqueuePushes DEF AskShutdown, SingleOwner
<1>a. TypeOK'
  BY <1>inv, <1>1, <1>2, SMTT(30) DEF TypeOK, AskShutdown, Ready, BodyRuns, Pushed, Outcomes
<1>b. SingleOwner'
  BY <1>inv, <1>1, <1>2, SMTT(30)
     DEF SingleOwner, TypeOK, PcInv, AskShutdown, Ready, BodyRuns, Pushed, Outcomes
<1>c. PcInv'
  BY <1>inv, <1>1, <1>2, SMTT(30)
     DEF PcInv, TypeOK, Idle, InAsk, AskShutdown, Ready, BodyRuns, Pushed, Outcomes
<1>d. ShutdownInv'
  BY <1>inv, <1>1, <1>2, SMTT(30)
     DEF ShutdownInv, TypeOK, PcInv, InFlush, InAsk, SingleOwner, AskShutdown, Ready, BodyRuns,
     Pushed, Outcomes
<1>e. StoppedInv'
  BY <1>inv, <1>1, <1>2, SMTT(30)
     DEF StoppedInv, TypeOK, PcInv, SingleOwner, AskShutdown, Ready, BodyRuns, Pushed, Outcomes
<1>f. ExpiryInv'
  BY <1>inv, <1>1, <1>2, SMTT(30)
     DEF ExpiryInv, TypeOK, SingleOwner, PcInv, AskShutdown, Ready, BodyRuns, Pushed, Outcomes
<1>g. EventsNeverExpire'
  BY <1>inv, <1>1, <1>2, SMTT(30)
     DEF EventsNeverExpire, TypeOK, ExpiryInv, AskShutdown, Ready, BodyRuns, Pushed, Outcomes
<1>h. ActiveIdsAreQueued'
  BY <1>inv, <1>1, <1>2, SMTT(30)
     DEF ActiveIdsAreQueued, TypeOK, AskShutdown, Ready, BodyRuns, Pushed, Outcomes
<1>k. WindowInv'
  BY <1>inv, <1>1, <1>2, SMTT(30)
     DEF WindowInv, TypeOK, AskShutdown, Ready, BodyRuns, Pushed, Outcomes
<1>i. TimeoutHasDueEvent'
  BY <1>inv, <1>1, <1>2, SMTT(30)
     DEF TimeoutHasDueEvent, IsTop, TypeOK, SingleOwner, PcInv, AskShutdown, Ready, BodyRuns,
     Pushed, Outcomes
<1>j. TerminatedInv'
  BY <1>inv, <1>1, <1>2, SMTT(30)
     DEF TerminatedInv, InFlush, InAsk, AskShutdown, Ready, BodyRuns, Pushed, Outcomes
<1> QED BY <1>a, <1>b, <1>c, <1>d, <1>e, <1>f, <1>g, <1>h, <1>k, <1>i, <1>j DEF IInv

-----------------------------------------------------------------------------
(* The theorems.                                                           *)

LEMMA InitKeeps == Init => IInv
<1> SUFFICES ASSUME Init PROVE IInv
  OBVIOUS
<1> USE ConstantsAssumption DEF Init, AllTasks, DontExpire, Callers
<1>1. TypeOK
  <2>1. taskList \in Seq(Tasks \cup {ShutdownTask}) /\ schedRun \in BOOLEAN /\ gameShutdown \in BOOLEAN
    BY EmptySeq
  <2>2. /\ expiration \in [AllTasks -> Nat] /\ eventId \in [AllTasks -> 0..MaxEventId]
        /\ outcome \in [AllTasks -> {"new", "live", "ran", "expired", "stopped", "lost"}]
        /\ now \in 0..MaxTime /\ lastEventId \in 0..MaxEventId
    OBVIOUS
  <2> QED BY <2>1, <2>2 DEF TypeOK
<1>2. \A t : ~InQueue(t)
  BY DEF InQueue, Contains
<1>3. IsInjective(taskList)
  BY DEF IsInjective
<1>4. /\ SingleOwner /\ PcInv /\ ShutdownInv /\ StoppedInv /\ ExpiryInv
      /\ EventsNeverExpire /\ ActiveIdsAreQueued /\ WindowInv /\ TimeoutHasDueEvent /\ TerminatedInv
  BY <1>2, <1>3 DEF SingleOwner, PcInv, ShutdownInv, StoppedInv, ExpiryInv, Idle, InAsk,
                    InFlush, EventsNeverExpire, ActiveIdsAreQueued, WindowInv,
                    TimeoutHasDueEvent, TerminatedInv
<1> QED BY <1>1, <1>4 DEF IInv

LEMMA StepKeeps == IInv /\ [Next]_vars => IInv'
<1> SUFFICES ASSUME IInv, [Next]_vars PROVE IInv'
  OBVIOUS
<1>1. CASE SchedStep
  BY <1>1, SchedulerQuiet, SchedTimeoutKeeps, HandOffKeeps, DeleteStoppedKeeps DEF SchedStep
<1>2. CASE SchedSpuriousWakeup
  BY <1>2, SchedulerQuiet
<1>3. CASE DispStep
  BY <1>3, DispatcherQuiet, ShutdownQuiet, DispTakeKeeps, FlushTakeKeeps DEF DispStep
<1>4. CASE DispSpuriousWakeup
  BY <1>4, DispatcherQuiet
<1>5. CASE CallStep
  <2>1. ASSUME NEW c \in Callers, NEW t \in Tasks,
               NEW e \in {DontExpire, now + TaskExpiration}, NEW front \in BOOLEAN,
               AddTask(c, t, e, front)
        PROVE  IInv'
    <3>1. e \in Nat
      BY ConstantsAssumption DEF IInv, TypeOK, DontExpire
    <3> QED BY <2>1, <3>1, AddTaskKeeps
  <2>2. ASSUME NEW c \in Callers, NEW t \in Tasks, NEW d \in Delays, AddEvent(c, t, d)
        PROVE  IInv'
    BY <2>2, AddEventKeeps
  <2>3. ASSUME NEW t \in Tasks, StopEvent(t) PROVE IInv'
    BY <2>3, StopEventKeeps
  <2>4. CASE AddTaskInFlush \/ AskShutdown
    BY <2>4, DispatcherQuiet, AskShutdownKeeps
  <2> QED BY <1>5, <2>1, <2>2, <2>3, <2>4 DEF CallStep
<1>6. CASE NotifyStep
  BY <1>6, NotifyEventKeeps, NotifyTaskKeeps DEF NotifyStep
<1>7. CASE MainStep
  BY <1>7, ShutdownQuiet DEF MainStep
<1>8. CASE Tick \/ UNCHANGED vars
  BY <1>8, ClockQuiet
<1> QED BY <1>1, <1>2, <1>3, <1>4, <1>5, <1>6, <1>7, <1>8 DEF Next

\* The invariant of every run of the three threads.
THEOREM Invariance == Spec => []IInv
BY InitKeeps, StepKeeps, PTL DEF Spec

\* Every variable stays in its type.
THEOREM TypeCorrect == Spec => []TypeOK
<1>1. IInv => TypeOK
  BY DEF IInv
<1> QED BY <1>1, Invariance, PTL

\* A stopped event never runs: stopEvent's TRUE is final (scheduler.cpp:156-180).
THEOREM StoppedStaysStopped == Spec => []StoppedNeverRuns
<1>1. IInv => StoppedNeverRuns
  <2> SUFFICES ASSUME IInv, NEW t \in cancelled \ lapped
               PROVE  ~InQueue(t) /\ cur # t /\ outcome[t] \notin {"ran", "expired"}
    BY DEF StoppedNeverRuns
  <2>1. t \in AllTasks /\ t # NoTask
    BY ConstantsAssumption DEF IInv, TypeOK, AllTasks
  <2> QED BY <2>1 DEF IInv, StoppedInv, SingleOwner
<1> QED BY <1>1, Invariance, PTL

\* A task has one owner and is deleted once (scheduler.cpp:73-104, tasks.cpp:75-96).
THEOREM TasksHaveOneOwner == Spec => []SingleOwner
<1>1. IInv => SingleOwner
  BY DEF IInv
<1> QED BY <1>1, Invariance, PTL

\* A timeout finds an event, and a due one (scheduler.cpp:66-77).
THEOREM TimeoutsAreDue == Spec => []TimeoutHasDueEvent
<1>1. IInv => TimeoutHasDueEvent
  BY DEF IInv
<1> QED BY <1>1, Invariance, PTL

\* No event is lost to the dispatcher's expiration (scheduler.cpp:95, tasks.cpp:85).
THEOREM EventsAreNotExpired == Spec => []EventsNeverExpire
<1>1. IInv => EventsNeverExpire
  BY DEF IInv
<1> QED BY <1>1, Invariance, PTL

\* stopEvent answers TRUE only for a queued event (scheduler.cpp:80-85, 127-130).
THEOREM ActiveIdsAreExact == Spec => []ActiveIdsAreQueued
<1>1. IInv => ActiveIdsAreQueued
  BY DEF IInv
<1> QED BY <1>1, Invariance, PTL

\* A terminated dispatcher keeps no task (tasks.cpp:111, 139-176).
THEOREM NothingIsStranded == Spec => []NothingStranded
<1>1. IInv => NothingStranded
  BY DEF IInv, TerminatedInv, InFlush, NothingStranded
<1> QED BY <1>1, Invariance, PTL

-----------------------------------------------------------------------------
(* The refinement mapping, one task at a time.                             *)

\* The deadline of a task, as TaskRuntime!Service maps it.
DueOf(t) == IF (t = schedTask /\ schedRun) \/ StatusOf(t) = "dropped"
            THEN DontExpire ELSE expiration[t]

Same(t)    == StatusOf(t)' = StatusOf(t) /\ DueOf(t)' = DueOf(t)
SameBut(t) == \A u \in AllTasks : u # t => Same(u)
Closed     == schedState # "RUNNING"

ServiceStep == [Service!Next]_(Service!vars)

\* Nothing that the callers of the service see changes.
LEMMA MapStutter ==
    ASSUME UNCHANGED <<now, since, lapped>>, Closed' <=> Closed, \A u \in AllTasks : Same(u)
    PROVE  ServiceStep
BY DEF Same, Closed, DueOf, ServiceStep, Service!vars

LEMMA MapAdvance ==
    ASSUME now' = now + 1, UNCHANGED <<since, lapped>>, Closed' <=> Closed, \A u \in AllTasks : Same(u)
    PROVE  ServiceStep
BY DEF Same, Closed, DueOf, ServiceStep, Service!Next, Service!Advance

LEMMA MapClose ==
    ASSUME UNCHANGED <<now, since, lapped>>, ~Closed, Closed', \A u \in AllTasks : Same(u)
    PROVE  ServiceStep
BY DEF Same, Closed, DueOf, ServiceStep, Service!Next, Service!Close

LEMMA MapSubmit ==
    ASSUME NEW t \in AllTasks, UNCHANGED <<now, since, lapped>>, Closed' <=> Closed, SameBut(t),
           StatusOf(t) = "new", StatusOf(t)' = "ready", DueOf(t)' \in Nat
    PROVE  ServiceStep
BY DEF SameBut, Same, Closed, DueOf, ServiceStep, Service!Next, Service!Submit, Service!Become

\* The new event t meets the queued ones that carry its id.
LEMMA MapSchedule ==
    ASSUME NEW t \in AllTasks, NEW T \in SUBSET AllTasks, t \notin T, now' = now,
           ~Closed, ~Closed',
           \A u \in AllTasks : u # t /\ u \notin T => Same(u),
           \A u \in T : /\ StatusOf(u) \in {"scheduled", "cancelled"} /\ since[u] = MaxEventId - 1
                        /\ StatusOf(u)' = "scheduled" /\ DueOf(u)' = DueOf(u),
           since' = [u \in AllTasks |-> IF u = t \/ since[u] = MaxEventId - 1 THEN 0
                                       ELSE since[u] + 1],
           lapped' = IF T = {} THEN lapped ELSE lapped \cup T \cup {t},
           StatusOf(t) = "new", StatusOf(t)' = "scheduled", DueOf(t)' \in Nat, DueOf(t)' > now
    PROVE  ServiceStep
BY DEF Same, Closed, DueOf, ServiceStep, Service!Next, Service!Schedule, Service!Lapping

\* The scheduler found that the id of t is no longer active.
LEMMA MapForget ==
    ASSUME NEW t \in AllTasks, UNCHANGED <<now, since, lapped>>, Closed' <=> Closed, SameBut(t),
           t \in lapped, StatusOf(t) = "scheduled",
           StatusOf(t)' = "dropped", DueOf(t)' = DontExpire
    PROVE  ServiceStep
BY DEF SameBut, Same, Closed, DueOf, ServiceStep, Service!Next, Service!Forget, Service!Become,
       DontExpire

LEMMA MapCancel ==
    ASSUME NEW t \in AllTasks, UNCHANGED <<now, since, lapped>>, Closed' <=> Closed, SameBut(t),
           StatusOf(t) = "scheduled", StatusOf(t)' = "cancelled", DueOf(t)' = DueOf(t)
    PROVE  ServiceStep
BY DEF SameBut, Same, Closed, DueOf, ServiceStep, Service!Next, Service!Cancel, Service!Become

LEMMA MapRelease ==
    ASSUME NEW t \in AllTasks, UNCHANGED <<now, since, lapped>>, Closed' <=> Closed, SameBut(t),
           StatusOf(t) = "scheduled", DueOf(t) <= now,
           StatusOf(t)' = "ready", DueOf(t)' = DontExpire
    PROVE  ServiceStep
BY DEF SameBut, Same, Closed, DueOf, ServiceStep, Service!Next, Service!Release, Service!Become,
       DontExpire

LEMMA MapStart ==
    ASSUME NEW t \in AllTasks, UNCHANGED <<now, since, lapped>>, Closed' <=> Closed, SameBut(t),
           StatusOf(t) = "ready", StatusOf(t)' = "started", DueOf(t)' = DueOf(t),
           DueOf(t) # DontExpire /\ DueOf(t) < now => Closed
    PROVE  ServiceStep
BY DEF SameBut, Same, Closed, DueOf, ServiceStep, Service!Next, Service!Start, Service!Become,
       Service!Overdue, DontExpire

LEMMA MapExpire ==
    ASSUME NEW t \in AllTasks, UNCHANGED <<now, since, lapped>>, Closed' <=> Closed, SameBut(t),
           StatusOf(t) = "ready", DueOf(t) # DontExpire, DueOf(t) < now,
           StatusOf(t)' = "dropped", DueOf(t)' = DontExpire
    PROVE  ServiceStep
BY DEF SameBut, Same, Closed, DueOf, ServiceStep, Service!Next, Service!Expire, Service!Become,
       Service!Overdue, DontExpire

LEMMA MapAbandon ==
    ASSUME NEW T \in SUBSET AllTasks, UNCHANGED <<now, since, lapped>>, Closed, Closed',
           \A t \in T : /\ StatusOf(t) \in {"new", "scheduled", "ready"}
                        /\ StatusOf(t)' = "dropped" /\ DueOf(t)' = DontExpire,
           \A u \in AllTasks \ T : Same(u)
    PROVE  ServiceStep
BY DEF Same, Closed, DueOf, ServiceStep, Service!Next, Service!Abandon, DontExpire

\* A single task that a closing service refuses.
LEMMA RefusedAbandons ==
    ASSUME NEW t \in AllTasks, UNCHANGED <<now, since, lapped>>, Closed, Closed', SameBut(t),
           StatusOf(t) \in {"new", "scheduled", "ready"},
           StatusOf(t)' = "dropped", DueOf(t)' = DontExpire
    PROVE  ServiceStep
<1>1. \A u \in AllTasks \ {t} : Same(u)
  BY DEF SameBut
<1> QED BY <1>1, MapAbandon, {t} \in SUBSET AllTasks

-----------------------------------------------------------------------------
(* The invariant that the mapping needs.                                   *)

\* The event that the scheduler took without an active id was stopped, or has shared
\* its id.
SchedulingInv == schedTask # NoTask /\ ~schedRun => schedTask \in cancelled \cup lapped

\* The scheduler is closed before the dispatcher, right after Game::shutdown was
\* submitted.
ClosingInv ==
    /\ dispState # "RUNNING" => Closed
    /\ outcome[ShutdownTask] # "new" /\ dispPc # "schedStop" => Closed
    /\ dispPc \in InAsk => outcome[ShutdownTask] # "new"

RInv == IInv /\ SchedulingInv /\ ClosingInv

-----------------------------------------------------------------------------
(* Each step keeps that invariant and is a step of the service.            *)

Refines == SchedulingInv' /\ ClosingInv' /\ ServiceStep

\* A step that changes only who waits for what.
Quiet == /\ now' = now
         /\ UNCHANGED <<expiration, cancelled, since, lapped, outcome, eventList, eventId, eventIds>>
         /\ UNCHANGED <<schedTask, schedRun, schedState, dispState, taskList, cur>>
         /\ \/ dispPc' = dispPc
            \/ dispPc \notin InAsk \cup {"run"} /\ dispPc' \notin InAsk \cup {"run"}

LEMMA QuietRefines ==
    ASSUME RInv, Quiet
    PROVE  Refines
<1>1. \A u \in AllTasks : Same(u)
  BY SMTT(30) DEF Quiet, Same, DueOf, StatusOf, Handled, InQueue
<1>2. ServiceStep
  BY <1>1, MapStutter DEF Closed, Quiet
<1>3. SchedulingInv' /\ ClosingInv'
  BY SMTT(30) DEF Quiet, RInv, SchedulingInv, ClosingInv, Closed, InAsk
<1> QED BY <1>2, <1>3 DEF Refines

\* The waits of the threads, their wakeups, and the end of main().
LEMMA WaitsRefine ==
    ASSUME RInv,
           \/ SchedTest \/ SchedWait \/ SchedTimedWait \/ SchedSpuriousWakeup
           \/ DispTest \/ DispWait \/ DispSpuriousWakeup \/ AddTaskInFlush
           \/ MainStep \/ NotifyStep \/ UNCHANGED vars
    PROVE  Refines
<1> USE ConstantsAssumption DEF taskVars, eventVars, schedVars, queueVars, dispVars, sigVars,
           mainVars, schedOther, dispOther, mainOther, vars, Ends, AllTasks, DontExpire, Callers
<1>1. CASE SchedTest
  BY <1>1, QuietRefines, SMTT(30) DEF Quiet, SchedTest, InAsk
<1>2. CASE SchedWait
  BY <1>2, QuietRefines, SMTT(30) DEF Quiet, SchedWait, InAsk
<1>3. CASE SchedTimedWait
  BY <1>3, QuietRefines, SMTT(30) DEF Quiet, SchedTimedWait, InAsk
<1>4. CASE SchedSpuriousWakeup
  BY <1>4, QuietRefines, SMTT(30) DEF Quiet, SchedSpuriousWakeup, InAsk
<1>5. CASE DispTest
  BY <1>5, QuietRefines, SMTT(30) DEF Quiet, DispTest, InAsk
<1>6. CASE DispWait
  BY <1>6, QuietRefines, SMTT(30) DEF Quiet, DispWait, InAsk
<1>7. CASE DispSpuriousWakeup
  BY <1>7, QuietRefines, SMTT(30) DEF Quiet, DispSpuriousWakeup, InAsk
<1>8. CASE AddTaskInFlush
  BY <1>8, QuietRefines, SMTT(30) DEF Quiet, AddTaskInFlush, InAsk
<1>9. CASE MainStep
  BY <1>9, QuietRefines, SMTT(30) DEF Quiet, MainStep, Die, JoinScheduler, JoinDispatcher
<1>10. CASE NotifyStep
  BY <1>10, QuietRefines, SMTT(30) DEF Quiet, NotifyStep, NotifyEvent, NotifyTask, InAsk
<1>11. CASE UNCHANGED vars
  BY <1>11, QuietRefines, SMTT(30) DEF Quiet
<1> QED BY <1>1, <1>2, <1>3, <1>4, <1>5, <1>6, <1>7, <1>8, <1>9, <1>10, <1>11

\* Time passes.
LEMMA TickRefines ==
    ASSUME RInv, Tick
    PROVE  Refines
<1> USE ConstantsAssumption DEF taskVars, eventVars, schedVars, queueVars, dispVars, sigVars,
           mainVars, schedOther, dispOther, mainOther, vars, Ends, AllTasks, DontExpire, Callers
<1>1. \A u \in AllTasks : Same(u)
  BY SMTT(30) DEF Tick, Same, DueOf, StatusOf, Handled, InQueue
<1>2. ServiceStep
  BY <1>1, MapAdvance DEF Closed, Tick
<1>3. SchedulingInv' /\ ClosingInv'
  BY SMTT(30) DEF Tick, RInv, SchedulingInv, ClosingInv, Closed, InAsk
<1> QED BY <1>2, <1>3 DEF Refines

\* A stopped event is still scheduled, or was deleted; it is not on its way to the
\* dispatcher.
LEMMA StoppedIsOut ==
    ASSUME RInv, NEW t \in cancelled \ lapped
    PROVE  /\ t \in Tasks /\ t # NoTask /\ ~InQueue(t) /\ t # cur
           /\ t = schedTask => ~schedRun
           /\ t \in eventList => eventId[t] \notin eventIds
           /\ outcome[t] \in {"live", "stopped", "lost"}
<1>1. t \in Tasks /\ t \in AllTasks /\ t # NoTask
  BY ConstantsAssumption DEF RInv, IInv, TypeOK, AllTasks
<1>2. \/ t \in eventList /\ eventId[t] \notin eventIds
      \/ t = schedTask /\ ~schedRun
      \/ outcome[t] \in {"stopped", "lost"}
  BY DEF RInv, IInv, StoppedInv
<1> QED BY <1>1, <1>2 DEF RInv, IInv, SingleOwner

\* The scheduler pops the event that is due: it is released, unless it was stopped.
LEMMA TimeoutRefines ==
    ASSUME RInv, SchedTimeout
    PROVE  Refines
<1> USE ConstantsAssumption DEF taskVars, eventVars, schedVars, queueVars, dispVars, sigVars,
           mainVars, schedOther, dispOther, mainOther, vars, Ends, AllTasks, DontExpire, Callers
<1>inv. /\ TypeOK /\ SingleOwner /\ PcInv /\ StoppedInv /\ ActiveIdsAreQueued
        /\ TimeoutHasDueEvent /\ SchedulingInv /\ ClosingInv
  BY DEF RInv, IInv
<1>1. CASE schedState = "TERMINATED"
  BY <1>1, QuietRefines, SMTT(30) DEF Quiet, SchedTimeout
<1>2. CASE schedState # "TERMINATED"
  <2>1. PICK t \in eventList :
          /\ IsTop(t, eventList) /\ eventList' = eventList \ {t} /\ schedTask' = t
          /\ schedRun' = (eventId[t] \in eventIds) /\ eventIds' = eventIds \ {eventId[t]}
    BY <1>2 DEF SchedTimeout
  <2>2. /\ now' = now /\ UNCHANGED <<expiration, cancelled, since, lapped, outcome, eventId>>
        /\ UNCHANGED <<schedState, dispState, taskList, cur, dispPc>>
        /\ schedPc = "timed" /\ schedUntil <= now
    BY DEF SchedTimeout
  <2>3. /\ t \in AllTasks /\ t \in Tasks /\ t # NoTask /\ schedTask = NoTask /\ outcome[t] = "live"
        /\ ~schedRun /\ ~InQueue(t) /\ t # cur
    BY <1>inv, <2>2 DEF PcInv, TypeOK, SingleOwner
  <2>4. expiration[t] <= now
    <3>1. PICK u \in eventList : expiration[u] <= schedUntil
      BY <1>inv, <1>2, <2>2 DEF TimeoutHasDueEvent
    <3>2. expiration[t] <= expiration[u]
      BY <2>1 DEF IsTop
    <3>3. expiration[t] \in Nat /\ expiration[u] \in Nat /\ schedUntil \in Nat /\ now \in Nat
      BY <1>inv DEF TypeOK
    <3> QED BY <2>2, <3>1, <3>2, <3>3
  <2>5. \A u : InQueue(u)' <=> InQueue(u)
    BY <2>2 DEF InQueue
  <2>6. SameBut(t)
    BY <2>1, <2>2, <2>3, <2>5, SMTT(30) DEF SameBut, Same, DueOf, StatusOf, Handled
  <2>7. SchedulingInv' /\ ClosingInv'
    <3>1. ~schedRun' => t \in cancelled \cup lapped
      BY <1>inv, <2>1 DEF ActiveIdsAreQueued
    <3>2. SchedulingInv'
      BY <2>1, <2>2, <3>1 DEF SchedulingInv
    <3>3. ClosingInv'
      BY <1>inv, <2>2 DEF ClosingInv, Closed
    <3> QED BY <3>2, <3>3
  <2>8. CASE t \in cancelled \ lapped
    <3>1. ~schedRun'
      BY <2>1, <2>8, StoppedIsOut
    <3>2. Same(t)
      BY <2>2, <2>3, <2>8, <3>1, SMTT(30) DEF Same, DueOf, StatusOf
    <3> QED BY <2>2, <2>6, <2>7, <3>2, MapStutter DEF Refines, SameBut, Closed
  <2>9. CASE t \notin cancelled \ lapped /\ schedRun'
    <3>1. /\ StatusOf(t) = "scheduled" /\ DueOf(t) = expiration[t]
          /\ StatusOf(t)' = "ready" /\ DueOf(t)' = DontExpire
      BY <2>1, <2>2, <2>3, <2>9, SMTT(30) DEF DueOf, StatusOf, Handled
    <3>2. ServiceStep
      BY <2>2, <2>3, <2>4, <2>6, <3>1, MapRelease DEF Closed
    <3> QED BY <2>7, <3>2 DEF Refines
  <2>10. CASE t \notin cancelled \ lapped /\ ~schedRun'
    <3>1. t \in lapped
      BY <1>inv, <2>1, <2>10 DEF ActiveIdsAreQueued
    <3>2. /\ StatusOf(t) = "scheduled" /\ StatusOf(t)' = "dropped" /\ DueOf(t)' = DontExpire
      BY <2>1, <2>2, <2>3, <2>10, SMTT(30) DEF DueOf, StatusOf, Handled
    <3>3. ServiceStep
      <4> HIDE DEF AllTasks, DontExpire
      <4> QED BY <2>2, <2>3, <2>6, <3>1, <3>2, MapForget DEF Closed
    <3> QED BY <2>7, <3>3 DEF Refines
  <2> QED BY <2>8, <2>9, <2>10
<1> QED BY <1>1, <1>2

\* The scheduler hands the popped event to the dispatcher, or deletes it if it was
\* stopped; a closed dispatcher refuses it.
LEMMA HandOffRefines ==
    ASSUME RInv, SchedHandOff
    PROVE  Refines
<1> USE ConstantsAssumption DEF taskVars, eventVars, schedVars, queueVars, dispVars, sigVars,
           mainVars, schedOther, dispOther, mainOther, vars, Ends, AllTasks, DontExpire, Callers
<1>inv. /\ TypeOK /\ SingleOwner /\ PcInv /\ SchedulingInv /\ ClosingInv
  BY DEF RInv, IInv
<1>0. PICK t \in AllTasks : t = schedTask
  BY <1>inv DEF SchedHandOff, PcInv, TypeOK
<1>1. /\ t = schedTask /\ t \in AllTasks /\ t \in Tasks /\ outcome[t] = "live" /\ t \notin eventList /\ ~InQueue(t)
      /\ t # cur /\ schedTask' = NoTask /\ ~schedRun' /\ t # NoTask
  BY <1>0, <1>inv DEF SchedHandOff, PcInv, TypeOK, SingleOwner
<1>2. /\ now' = now /\ UNCHANGED <<cancelled, since, lapped, eventList, eventId, eventIds>>
      /\ UNCHANGED <<schedState, dispState, cur, dispPc>>
  BY DEF SchedHandOff
<1>3. CASE ~schedRun
  <2>2. /\ outcome' = [outcome EXCEPT ![t] = "stopped"] /\ UNCHANGED <<expiration, taskList>>
    BY <1>1, <1>3 DEF SchedHandOff
  <2>3. outcome \in [AllTasks -> Outcomes] /\ t # ShutdownTask
    BY <1>inv, <1>1 DEF TypeOK, Outcomes
  <2>4. \A u \in AllTasks : Same(u)
    BY <1>1, <1>2, <1>3, <2>2, <2>3, SMTT(30) DEF Same, DueOf, StatusOf, Handled, InQueue, Final
  <2>5. SchedulingInv' /\ ClosingInv'
    BY <1>inv, <1>1, <1>2, <2>2, <2>3 DEF SchedulingInv, ClosingInv, Closed, InAsk
  <2> QED BY <1>2, <2>4, <2>5, MapStutter DEF Refines, Closed
<1>4. CASE schedRun
  <2>1. Pushed(t, DontExpire)
    <3>1. "sched" \in Callers \cup {"sched"} /\ DontExpire \in Nat /\ FALSE \in BOOLEAN
      OBVIOUS
    <3>2. Enqueue("sched", t, DontExpire, FALSE)
      BY <1>1, <1>4 DEF SchedHandOff
    <3>3. IsInjective(taskList)
      BY <1>inv DEF SingleOwner
    <3> HIDE DEF DontExpire
    <3> QED BY <1>inv, <1>1, <3>1, <3>2, <3>3, EnqueuePushes
  <2>2. /\ expiration' = [expiration EXCEPT ![t] = DontExpire]
        /\ outcome' = [outcome EXCEPT ![t] = IF dispState = "RUNNING" THEN "live" ELSE "lost"]
        /\ \A u : InQueue(u)' <=> InQueue(u) \/ (dispState = "RUNNING" /\ u = t)
        /\ outcome \in [AllTasks -> Outcomes] /\ expiration \in [AllTasks -> Nat]
        /\ t # ShutdownTask
    BY <1>inv, <1>1, <2>1 DEF Pushed, TypeOK, Outcomes
  <2>3. t \notin cancelled \ lapped
    BY <1>1, <1>4, StoppedIsOut
  <2>4. SameBut(t)
    BY <1>1, <1>2, <2>2, SMTT(30) DEF SameBut, Same, DueOf, StatusOf, Handled
  <2>5. StatusOf(t) = "ready" /\ DueOf(t) = DontExpire /\ DueOf(t)' = DontExpire
    BY <1>1, <1>2, <1>4, <2>2, <2>3, SMTT(30) DEF DueOf, StatusOf, Handled
  <2>6. SchedulingInv' /\ ClosingInv'
    BY <1>inv, <1>1, <1>2, <2>2 DEF SchedulingInv, ClosingInv, Closed, InAsk
  <2>7. CASE dispState = "RUNNING"
    <3>1. StatusOf(t)' = "ready"
      BY <1>1, <1>2, <2>2, <2>3, <2>7, SMTT(30) DEF StatusOf, Handled
    <3> QED BY <1>2, <2>4, <2>5, <2>6, <3>1, MapStutter DEF Refines, SameBut, Same, Closed
  <2>8. CASE dispState # "RUNNING"
    <3>1. StatusOf(t)' = "dropped"
      BY <1>1, <1>2, <2>2, <2>3, <2>8, SMTT(30) DEF StatusOf, Final
    <3>2. Closed /\ Closed'
      BY <1>inv, <1>2, <2>8 DEF ClosingInv, Closed
    <3> HIDE DEF AllTasks, DontExpire
    <3>3. ServiceStep
      BY <1>1, <1>2, <2>4, <2>5, <3>1, <3>2, RefusedAbandons
    <3> QED BY <2>6, <3>3 DEF Refines
  <2> QED BY <2>7, <2>8
<1> QED BY <1>3, <1>4

\* The dispatcher takes a task; what its callers see is the start of the body.
LEMMA TakeRefines ==
    ASSUME RInv, DispTake
    PROVE  Refines
<1> USE ConstantsAssumption DEF taskVars, eventVars, schedVars, queueVars, dispVars, sigVars,
           mainVars, schedOther, dispOther, mainOther, vars, Ends, AllTasks, DontExpire, Callers
<1>inv. /\ TypeOK /\ SingleOwner /\ PcInv /\ SchedulingInv /\ ClosingInv
  BY DEF RInv, IInv
<1>1. CASE taskList # <<>> /\ dispState # "TERMINATED"
  <2>1. Popped
    BY <1>inv, <1>1, TakePops DEF DispTake, SingleOwner
  <2>2. /\ now' = now /\ UNCHANGED <<expiration, cancelled, since, lapped, outcome, eventList, eventId, eventIds>>
        /\ UNCHANGED <<schedTask, schedRun, schedState, dispState>>
        /\ dispPc \in {"woken", "lock"} /\ dispPc' = "run"
    BY <1>1 DEF DispTake
  <2>3. \A u : Handled(u)' <=> Handled(u)
    BY <2>1, <2>2, SMTT(30) DEF Popped, Handled
  <2>4. \A u \in AllTasks : Same(u)
    BY <2>2, <2>3, SMTT(30) DEF Same, DueOf, StatusOf
  <2>5. SchedulingInv' /\ ClosingInv'
    BY <1>inv, <2>2 DEF SchedulingInv, ClosingInv, Closed, InAsk
  <2> QED BY <2>2, <2>4, <2>5, MapStutter DEF Refines, Closed
<1>2. CASE ~(taskList # <<>> /\ dispState # "TERMINATED")
  BY <1>2, QuietRefines, SMTT(30) DEF Quiet, DispTake, InAsk
<1> QED BY <1>1, <1>2

\* An expired task is deleted without running.
LEMMA ExpireRefines ==
    ASSUME RInv, DispExpire
    PROVE  Refines
<1> USE ConstantsAssumption DEF taskVars, eventVars, schedVars, queueVars, dispVars, sigVars,
           mainVars, schedOther, dispOther, mainOther, vars, Ends, AllTasks, DontExpire, Callers
<1>inv. /\ TypeOK /\ SingleOwner /\ PcInv /\ SchedulingInv /\ ClosingInv
  BY DEF RInv, IInv
<1>0. PICK t \in AllTasks : t = cur
  BY <1>inv DEF DispExpire, PcInv, Idle, TypeOK
<1>1. /\ t = cur /\ now' = now /\ UNCHANGED <<expiration, cancelled, since, lapped, eventList, eventId, eventIds>>
      /\ UNCHANGED <<schedTask, schedRun, schedState, dispState, taskList>>
      /\ outcome' = [outcome EXCEPT ![t] = "expired"] /\ dispPc = "run" /\ dispPc' = "test"
      /\ expiration[t] < now /\ cur' = NoTask
  BY <1>0 DEF DispExpire, HasExpired
<1>2. /\ t \in AllTasks /\ t # NoTask /\ outcome[t] = "live" /\ t \notin eventList
      /\ t # schedTask /\ ~InQueue(t) /\ t \notin cancelled \ lapped
      /\ outcome \in [AllTasks -> Outcomes]
  BY <1>inv, <1>1, StoppedIsOut DEF PcInv, Idle, TypeOK, SingleOwner, Outcomes
<1>3. SameBut(t)
  BY <1>1, <1>2, SMTT(30) DEF SameBut, Same, DueOf, StatusOf, Handled, InQueue
<1>4. /\ StatusOf(t) = "ready" /\ DueOf(t) = expiration[t]
      /\ StatusOf(t)' = "dropped" /\ DueOf(t)' = DontExpire
  BY <1>1, <1>2, SMTT(30) DEF DueOf, StatusOf, Handled, Final
<1>5. expiration[t] # DontExpire
  BY <1>inv, <1>1 DEF TypeOK
<1>6. SchedulingInv' /\ ClosingInv'
  BY <1>inv, <1>1, <1>2 DEF SchedulingInv, ClosingInv, Closed, InAsk
<1>7. ServiceStep
  BY <1>1, <1>2, <1>3, <1>4, <1>5, MapExpire DEF Closed
<1> QED BY <1>6, <1>7 DEF Refines

\* A task starts, in the dispatcher's loop or in its flush.
LEMMA StartRefines ==
    ASSUME RInv, DispStart \/ FlushTake
    PROVE  Refines
<1> USE ConstantsAssumption DEF taskVars, eventVars, schedVars, queueVars, dispVars, sigVars,
           mainVars, schedOther, dispOther, mainOther, vars, Ends, AllTasks, DontExpire, Callers
<1>inv. /\ TypeOK /\ SingleOwner /\ PcInv /\ ShutdownInv /\ SchedulingInv /\ ClosingInv
  BY DEF RInv, IInv
<1>1. CASE DispStart
  <2>0. PICK t \in AllTasks : t = cur
    BY <1>inv, <1>1 DEF DispStart, PcInv, Idle, TypeOK
  <2>1. /\ t = cur /\ now' = now /\ UNCHANGED <<expiration, cancelled, since, lapped, outcome, eventList, eventId, eventIds>>
        /\ UNCHANGED <<schedTask, schedRun, schedState, dispState, taskList, cur>>
        /\ dispPc = "run" /\ dispPc' \in {"schedShutdown", "exec"} /\ ~(expiration[t] < now)
    BY <1>1, <2>0 DEF DispStart, HasExpired
  <2>2. /\ t \in AllTasks /\ t # NoTask /\ outcome[t] = "live" /\ t \notin eventList
        /\ t # schedTask /\ ~InQueue(t) /\ t \notin cancelled \ lapped
    BY <1>inv, <2>1, StoppedIsOut DEF PcInv, Idle, TypeOK, SingleOwner
  <2>3. SameBut(t)
    BY <2>1, <2>2, SMTT(30) DEF SameBut, Same, DueOf, StatusOf, Handled, InQueue
  <2>4. /\ StatusOf(t) = "ready" /\ DueOf(t) = expiration[t]
        /\ StatusOf(t)' = "started" /\ DueOf(t)' = expiration[t]
    BY <2>1, <2>2, SMTT(30) DEF DueOf, StatusOf, Handled, InQueue
  <2>5. SchedulingInv' /\ ClosingInv'
    BY <1>inv, <2>1 DEF SchedulingInv, ClosingInv, Closed, InAsk
  <2>6. ServiceStep
    BY <2>1, <2>2, <2>3, <2>4, MapStart DEF Closed
  <2> QED BY <2>5, <2>6 DEF Refines
<1>2. CASE FlushTake
  <2>1. Popped
    BY <1>inv, <1>2, TakePops DEF FlushTake, SingleOwner
  <2>0. PICK t \in AllTasks : t = cur'
    BY <2>1 DEF Popped
  <2>2. /\ t = cur' /\ now' = now /\ UNCHANGED <<expiration, cancelled, since, lapped, outcome, eventList, eventId, eventIds>>
        /\ UNCHANGED <<schedTask, schedRun, schedState, dispState>>
        /\ dispPc = "flush" /\ dispPc' = "flushExec"
    BY <1>2, <2>0 DEF FlushTake
  <2>3. /\ t \in AllTasks /\ outcome[t] = "live" /\ t \notin eventList
        /\ t # schedTask /\ InQueue(t) /\ ~InQueue(t)' /\ t \notin cancelled \ lapped
    BY <1>inv, <2>1, <2>2, StoppedIsOut DEF Popped, InQueue, SingleOwner
  <2>4. SameBut(t)
    BY <2>1, <2>2, <2>3, SMTT(30) DEF SameBut, Same, DueOf, StatusOf, Handled, Popped
  <2>5. /\ StatusOf(t) = "ready" /\ DueOf(t) = expiration[t]
        /\ StatusOf(t)' = "started" /\ DueOf(t)' = expiration[t]
    BY <2>2, <2>3, SMTT(30) DEF DueOf, StatusOf, Handled, InQueue
  <2>6. Closed
    BY <1>inv, <2>2 DEF ClosingInv, ShutdownInv, InFlush
  <2>7. SchedulingInv' /\ ClosingInv'
    BY <1>inv, <2>2 DEF SchedulingInv, ClosingInv, Closed, InAsk
  <2>8. ServiceStep
    BY <2>2, <2>3, <2>4, <2>5, <2>6, MapStart DEF Closed
  <2> QED BY <2>7, <2>8 DEF Refines
<1> QED BY <1>1, <1>2

\* A body returned, and its task is deleted.
LEMMA FinishRefines ==
    ASSUME RInv, DispFinish \/ FlushFinish \/ FlushEnd
    PROVE  Refines
<1> USE ConstantsAssumption DEF taskVars, eventVars, schedVars, queueVars, dispVars, sigVars,
           mainVars, schedOther, dispOther, mainOther, vars, Ends, AllTasks, DontExpire, Callers
<1>inv. /\ TypeOK /\ SingleOwner /\ PcInv /\ ShutdownInv /\ SchedulingInv /\ ClosingInv
  BY DEF RInv, IInv
<1>1. PICK t \in AllTasks :
        /\ outcome' = [outcome EXCEPT ![t] = "ran"] /\ outcome[t] = "live"
        /\ t \notin eventList /\ t # schedTask /\ ~InQueue(t) /\ t \notin cancelled \ lapped
  <2>1. CASE DispFinish \/ FlushFinish
    <3>1. cur \in AllTasks /\ outcome' = [outcome EXCEPT ![cur] = "ran"]
      BY <1>inv, <2>1 DEF DispFinish, FlushFinish, PcInv, Idle, TypeOK
    <3> QED BY <1>inv, <3>1, StoppedIsOut DEF SingleOwner
  <2>2. CASE FlushEnd
    <3>1. /\ outcome' = [outcome EXCEPT ![ShutdownTask] = "ran"] /\ outcome[ShutdownTask] = "live"
          /\ ~InQueue(ShutdownTask) /\ ShutdownTask \notin Tasks
      BY <1>inv, <2>2 DEF FlushEnd, ShutdownInv, InFlush
    <3> QED BY <1>inv, <3>1 DEF TypeOK
  <2> QED BY <2>1, <2>2
<1>2. /\ now' = now /\ UNCHANGED <<expiration, cancelled, since, lapped, eventList, eventId, eventIds>>
      /\ UNCHANGED <<schedTask, schedRun, schedState, dispState, taskList>>
      /\ dispPc \in {"exec", "flushExec", "flush"} /\ dispPc' \in {"test", "flush"}
  BY DEF DispFinish, FlushFinish, FlushEnd
<1>3. outcome \in [AllTasks -> Outcomes]
  BY <1>inv DEF TypeOK, Outcomes
<1>4. \A u \in AllTasks : Same(u)
  BY <1>1, <1>2, <1>3, SMTT(30) DEF Same, DueOf, StatusOf, Handled, InQueue, Final
<1>5. SchedulingInv' /\ ClosingInv'
  BY <1>inv, <1>1, <1>2, <1>3 DEF SchedulingInv, ClosingInv, Closed, InAsk
<1> QED BY <1>2, <1>4, <1>5, MapStutter DEF Refines, Closed

\* g_scheduler.stop() closes the service; g_dispatcher.stop() comes after it.
LEMMA StopRefines ==
    ASSUME RInv, SchedulerStop \/ DispatcherStop
    PROVE  Refines
<1> USE ConstantsAssumption DEF taskVars, eventVars, schedVars, queueVars, dispVars, sigVars,
           mainVars, schedOther, dispOther, mainOther, vars, Ends, AllTasks, DontExpire, Callers
<1>inv. SchedulingInv /\ ClosingInv
  BY DEF RInv, IInv
<1>1. /\ now' = now /\ UNCHANGED <<expiration, cancelled, since, lapped, outcome, eventList, eventId, eventIds>>
      /\ UNCHANGED <<schedTask, schedRun, taskList, cur>>
      /\ dispPc \in InAsk /\ dispPc' \in {"dispStop", "exec"}
  BY DEF SchedulerStop, DispatcherStop, InAsk
<1>2. \A u \in AllTasks : Same(u)
  BY <1>1, SMTT(30) DEF Same, DueOf, StatusOf, Handled, InQueue, InAsk
<1>3. Closed'
  BY <1>inv DEF SchedulerStop, DispatcherStop, ClosingInv, Closed, InAsk
<1>4. ServiceStep
  BY <1>1, <1>2, <1>3, MapStutter, MapClose
<1>5. SchedulingInv' /\ ClosingInv'
  BY <1>inv, <1>1, <1>3 DEF SchedulingInv, ClosingInv, InAsk
<1> QED BY <1>4, <1>5 DEF Refines

\* Game::shutdown drops the events that were not stopped.
LEMMA SchedulerShutdownRefines ==
    ASSUME RInv, SchedulerShutdown
    PROVE  Refines
<1> USE ConstantsAssumption DEF taskVars, eventVars, schedVars, queueVars, dispVars, sigVars,
           mainVars, schedOther, dispOther, mainOther, vars, Ends, AllTasks, DontExpire, Callers
<1>inv. /\ TypeOK /\ SingleOwner /\ PcInv /\ SchedulingInv /\ ClosingInv
  BY DEF RInv, IInv
<1> DEFINE T == eventList \ (cancelled \ lapped)
<1>1. /\ now' = now /\ UNCHANGED <<expiration, cancelled, since, lapped, eventId, schedTask, schedRun>>
      /\ UNCHANGED <<dispState, taskList, cur>>
      /\ dispPc = "schedShutdown" /\ dispPc' = "dispShutdown"
      /\ schedState' = "TERMINATED" /\ eventList' = {} /\ eventIds' = {}
      /\ \A u \in AllTasks : outcome'[u] = IF u \in eventList THEN "lost" ELSE outcome[u]
  BY DEF SchedulerShutdown
<1>2. ShutdownTask \in AllTasks /\ outcome[ShutdownTask] = "live"
  BY <1>inv, <1>1 DEF PcInv, SingleOwner
<1>3. Closed /\ Closed'
  BY <1>inv, <1>1, <1>2 DEF ClosingInv, Closed
<1>4. \A u \in eventList : u \in AllTasks /\ outcome[u] = "live" /\ u # schedTask /\ ~InQueue(u) /\ u # cur
  BY <1>inv DEF TypeOK, SingleOwner
<1>5. \A u \in T : /\ StatusOf(u) \in {"new", "scheduled", "ready"}
                   /\ StatusOf(u)' = "dropped" /\ DueOf(u)' = DontExpire
  BY <1>1, <1>4, SMTT(30) DEF DueOf, StatusOf, Final
<1>6. \A u \in AllTasks \ T : Same(u)
  BY <1>1, <1>4, SMTT(30) DEF Same, DueOf, StatusOf, Handled, InQueue
<1>7. T \in SUBSET AllTasks
  BY <1>4
<1> HIDE DEF T
<1>8. ServiceStep
  BY <1>1, <1>3, <1>5, <1>6, <1>7, MapAbandon
<1>9. SchedulingInv'
  BY <1>inv, <1>1 DEF SchedulingInv
<1>10. ClosingInv'
  BY <1>1, <1>3 DEF ClosingInv, InAsk
<1> QED BY <1>8, <1>9, <1>10 DEF Refines

\* The dispatcher's own shutdown begins the flush.
LEMMA DispatcherShutdownRefines ==
    ASSUME RInv, DispatcherShutdown
    PROVE  Refines
<1> USE ConstantsAssumption DEF taskVars, eventVars, schedVars, queueVars, dispVars, sigVars,
           mainVars, schedOther, dispOther, mainOther, vars, Ends, AllTasks, DontExpire, Callers
<1>inv. /\ TypeOK /\ SingleOwner /\ PcInv /\ SchedulingInv /\ ClosingInv
  BY DEF RInv, IInv
<1>1. /\ now' = now /\ UNCHANGED <<expiration, cancelled, since, lapped, outcome, eventList, eventId, eventIds>>
      /\ UNCHANGED <<schedTask, schedRun, schedState, taskList>>
      /\ dispPc = "dispShutdown" /\ dispPc' = "flush"
  BY DEF DispatcherShutdown
<1>2. \A u \in AllTasks : Same(u)
  BY <1>1, SMTT(30) DEF Same, DueOf, StatusOf, Handled, InQueue
<1>3. outcome[ShutdownTask] = "live"
  BY <1>inv, <1>1 DEF PcInv, SingleOwner
<1>4. Closed /\ Closed'
  BY <1>inv, <1>1, <1>3 DEF ClosingInv, Closed
<1>5. SchedulingInv' /\ ClosingInv'
  BY <1>inv, <1>1, <1>4 DEF SchedulingInv, ClosingInv, InAsk
<1> QED BY <1>1, <1>2, <1>4, <1>5, MapStutter DEF Refines

\* A submitted task is accepted, or refused by a dispatcher that is closed.
LEMMA PushRefines ==
    ASSUME RInv, NEW t \in AllTasks, NEW e \in Nat, Pushed(t, e), outcome[t] = "new",
           now' = now, UNCHANGED <<cancelled, since, lapped, eventList, schedTask, schedRun, schedState, cur>>,
           dispPc' = dispPc \/ (dispPc # "run" /\ dispPc' # "run")
    PROVE  ServiceStep
<1> USE ConstantsAssumption DEF taskVars, eventVars, schedVars, queueVars, dispVars, sigVars,
           mainVars, schedOther, dispOther, mainOther, vars, Ends, AllTasks, DontExpire, Callers
<1>1. /\ t \notin eventList /\ t # schedTask /\ ~InQueue(t) /\ t # cur /\ t \notin cancelled \ lapped
  BY NewIsFree, StoppedIsOut DEF RInv, IInv
<1>2. /\ expiration' = [expiration EXCEPT ![t] = e]
      /\ outcome' = [outcome EXCEPT ![t] = IF dispState = "RUNNING" THEN "live" ELSE "lost"]
      /\ \A u : InQueue(u)' <=> InQueue(u) \/ (dispState = "RUNNING" /\ u = t)
      /\ outcome \in [AllTasks -> Outcomes] /\ expiration \in [AllTasks -> Nat]
  BY DEF Pushed, RInv, IInv, TypeOK, Outcomes
<1>3. SameBut(t)
  BY <1>1, <1>2, SMTT(30) DEF SameBut, Same, DueOf, StatusOf, Handled
<1>4. StatusOf(t) = "new"
  BY <1>1, SMTT(30) DEF StatusOf, Final
<1>5. CASE dispState = "RUNNING"
  <2>1. StatusOf(t)' = "ready" /\ DueOf(t)' = e
    BY <1>1, <1>2, <1>5, SMTT(30) DEF DueOf, StatusOf, Handled
  <2> QED BY <1>3, <1>4, <2>1, MapSubmit DEF Closed
<1>6. CASE dispState # "RUNNING"
  <2>1. StatusOf(t)' = "dropped" /\ DueOf(t)' = DontExpire
    BY <1>1, <1>2, <1>6, SMTT(30) DEF DueOf, StatusOf, Final
  <2>2. Closed /\ Closed'
    BY <1>6 DEF RInv, ClosingInv, Closed
  <2> HIDE DEF AllTasks, DontExpire
  <2> QED BY <1>3, <1>4, <2>1, <2>2, RefusedAbandons
<1> QED BY <1>5, <1>6

\* addTask.
LEMMA AddTaskRefines ==
    ASSUME RInv, NEW c \in Callers, NEW t \in Tasks, NEW e \in Nat,
           NEW front \in BOOLEAN, AddTask(c, t, e, front)
    PROVE  Refines
<1> USE ConstantsAssumption DEF taskVars, eventVars, schedVars, queueVars, dispVars, sigVars,
           mainVars, schedOther, dispOther, mainOther, vars, Ends, AllTasks, DontExpire, Callers
<1>inv. /\ TypeOK /\ SingleOwner /\ PcInv /\ SchedulingInv /\ ClosingInv
  BY DEF RInv, IInv
<1>1. /\ t \in AllTasks /\ t # ShutdownTask /\ ~InQueue(t) /\ outcome[t] = "new"
  BY <1>inv, NewIsFree DEF AddTask
<1>2. Pushed(t, e)
  BY <1>inv, <1>1, EnqueuePushes DEF AddTask, SingleOwner
<1>3. /\ now' = now /\ UNCHANGED <<cancelled, since, lapped, eventList, eventId, eventIds>>
      /\ UNCHANGED <<schedTask, schedRun, schedState, dispState, cur, dispPc>>
  BY DEF AddTask
<1>4. ServiceStep
  BY <1>1, <1>2, <1>3, PushRefines
<1>5. outcome'[ShutdownTask] = outcome[ShutdownTask]
  BY <1>inv, <1>1, <1>2 DEF Pushed, TypeOK
<1>6. SchedulingInv' /\ ClosingInv'
  BY <1>inv, <1>3, <1>5 DEF SchedulingInv, ClosingInv, Closed, InAsk
<1> QED BY <1>4, <1>6 DEF Refines

\* A body asks for the shutdown: it submits Game::shutdown.
LEMMA AskRefines ==
    ASSUME RInv, AskShutdown
    PROVE  Refines
<1> USE ConstantsAssumption DEF taskVars, eventVars, schedVars, queueVars, dispVars, sigVars,
           mainVars, schedOther, dispOther, mainOther, vars, Ends, AllTasks, DontExpire, Callers
<1>inv. /\ TypeOK /\ SingleOwner /\ PcInv /\ ShutdownInv /\ SchedulingInv /\ ClosingInv
  BY DEF RInv, IInv
<1>1. ShutdownTask \in AllTasks /\ ~InQueue(ShutdownTask) /\ outcome[ShutdownTask] = "new"
  BY <1>inv, NewIsFree DEF AskShutdown, ShutdownInv, InAsk
<1>2. DontExpire \in Nat /\ Pushed(ShutdownTask, DontExpire)
  <2>1. "disp" \in Callers \cup {"sched"} /\ DontExpire \in Nat /\ FALSE \in BOOLEAN
    OBVIOUS
  <2> HIDE DEF DontExpire
  <2> QED BY <1>inv, <1>1, <2>1, EnqueuePushes DEF AskShutdown, SingleOwner
<1>3. /\ now' = now /\ UNCHANGED <<cancelled, since, lapped, eventList, eventId, eventIds>>
      /\ UNCHANGED <<schedTask, schedRun, schedState, dispState, cur>>
      /\ dispPc = "exec" /\ dispPc' = "schedStop"
  BY DEF AskShutdown
<1>4. ServiceStep
  <2> HIDE DEF DontExpire, AllTasks
  <2> QED BY <1>1, <1>2, <1>3, PushRefines
<1>5. outcome'[ShutdownTask] \in {"live", "lost"}
  BY <1>inv, <1>1, <1>2 DEF Pushed, TypeOK
<1>6. SchedulingInv' /\ ClosingInv'
  BY <1>inv, <1>3, <1>5 DEF SchedulingInv, ClosingInv, Closed, InAsk
<1> QED BY <1>4, <1>6 DEF Refines

\* addEvent.
LEMMA AddEventRefines ==
    ASSUME RInv, NEW c \in Callers, NEW t \in Tasks, NEW delay \in Delays,
           AddEvent(c, t, delay)
    PROVE  Refines
<1> USE ConstantsAssumption DEF taskVars, eventVars, schedVars, queueVars, dispVars, sigVars,
           mainVars, schedOther, dispOther, mainOther, vars, Ends, AllTasks, DontExpire, Callers
<1>inv. /\ TypeOK /\ SingleOwner /\ PcInv /\ SchedulingInv /\ ClosingInv
        /\ ActiveIdsAreQueued /\ WindowInv /\ StoppedInv
  BY DEF RInv, IInv
<1>1. /\ t \in AllTasks /\ t # ShutdownTask /\ outcome[t] = "new" /\ t \notin eventList
      /\ t # schedTask /\ ~InQueue(t) /\ t # cur /\ t \notin cancelled \ lapped
  BY <1>inv, NewIsFree, StoppedIsOut DEF AddEvent
<1> DEFINE due == now + (IF delay < MinTicks THEN MinTicks ELSE delay)
<1>2. due \in Nat /\ due > now
  BY <1>inv DEF TypeOK
<1> HIDE DEF due
<1>3. /\ now' = now /\ UNCHANGED <<cancelled, schedTask, schedRun, schedState, dispState>>
      /\ UNCHANGED <<taskList, cur, dispPc>> /\ expiration' = [expiration EXCEPT ![t] = due]
  BY DEF AddEvent, due
<1>4. /\ outcome \in [AllTasks -> Outcomes] /\ expiration \in [AllTasks -> Nat]
      /\ eventId \in [AllTasks -> 0..MaxEventId]
  BY <1>inv DEF TypeOK, Outcomes
<1>5. StatusOf(t) = "new"
  BY <1>1, SMTT(30) DEF StatusOf, Final
<1>6. CASE schedState = "RUNNING"
  <2>1. /\ eventId' = [eventId EXCEPT ![t] = NextEventId] /\ eventList' = eventList \cup {t}
        /\ eventIds' = eventIds \cup {NextEventId} /\ outcome' = [outcome EXCEPT ![t] = "live"]
    BY <1>6 DEF AddEvent
  <2> DEFINE T == {u \in eventList : since[u] = MaxEventId - 1}
  <2>2. /\ since' = [u \in AllTasks |-> IF u = t \/ since[u] = MaxEventId - 1 THEN 0
                                        ELSE since[u] + 1]
        /\ lapped' = (IF T = {} THEN lapped ELSE lapped \cup T \cup {t})
    BY <1>6 DEF AddEvent, CountsId
  <2>3. /\ T \in SUBSET AllTasks /\ t \notin T /\ T \subseteq eventList
        /\ \A u \in T : since[u] = MaxEventId - 1 /\ u \in lapped'
        /\ \A u : u # t /\ u \notin T => (u \in lapped' <=> u \in lapped)
    BY <1>inv, <1>1, <2>2 DEF TypeOK
  <2> HIDE DEF T
  <2>4. \A u \in eventList : outcome[u] = "live" /\ u # schedTask /\ ~InQueue(u) /\ u # cur
    BY <1>inv DEF SingleOwner, TypeOK
  <2>5. ASSUME NEW u \in AllTasks, u # t, u \notin T PROVE Same(u)
    BY <1>1, <1>3, <1>4, <2>1, <2>3, <2>5, SMTT(30) DEF Same, DueOf, StatusOf, Handled, InQueue
  <2>7. ASSUME NEW u \in T
        PROVE  /\ StatusOf(u) \in {"scheduled", "cancelled"}
               /\ StatusOf(u)' = "scheduled" /\ DueOf(u)' = DueOf(u)
    <3>1. /\ u \in AllTasks /\ u # t /\ u \in eventList /\ u \in lapped' /\ outcome[u] = "live"
          /\ u # schedTask
      BY <2>3, <2>4
    <3> QED BY <1>1, <1>3, <1>4, <2>1, <3>1, SMTT(30) DEF DueOf, StatusOf
  <2>8. t \notin cancelled \ lapped'
    BY <1>1, <2>2
  <2>9. StatusOf(t)' = "scheduled" /\ DueOf(t)' = due
    BY <1>1, <1>3, <1>4, <2>1, <2>8, SMTT(30) DEF DueOf, StatusOf
  <2>10. ServiceStep
    <3> HIDE DEF AllTasks, DontExpire
    <3> QED BY <1>1, <1>2, <1>3, <1>5, <1>6, <2>2, <2>3, <2>5, <2>7, <2>9, MapSchedule DEF Closed
  <2>11. SchedulingInv'
    BY <1>inv, <1>1, <1>3, <2>2 DEF SchedulingInv
  <2>6. ClosingInv'
    BY <1>inv, <1>1, <1>3, <1>4, <2>1 DEF ClosingInv, Closed, InAsk
  <2> QED BY <2>10, <2>11, <2>6 DEF Refines
<1>7. CASE schedState # "RUNNING"
  <2>1. /\ outcome' = [outcome EXCEPT ![t] = "lost"] /\ lapped' = lapped /\ since' = since
        /\ UNCHANGED <<eventId, eventList, eventIds>>
    BY <1>7 DEF AddEvent
  <2>2. SameBut(t)
    BY <1>1, <1>3, <1>4, <2>1, SMTT(30) DEF SameBut, Same, DueOf, StatusOf, Handled, InQueue
  <2>3. StatusOf(t)' = "dropped" /\ DueOf(t)' = DontExpire
    <3>1. t \notin cancelled' \ lapped' /\ outcome'[t] = "lost"
      BY <1>1, <1>3, <1>4, <2>1
    <3> QED BY <3>1, SMTT(30) DEF DueOf, StatusOf, Final
  <2>4. ServiceStep
    <3> HIDE DEF AllTasks, DontExpire
    <3> QED BY <1>1, <1>3, <1>5, <1>7, <2>1, <2>2, <2>3, RefusedAbandons DEF Closed
  <2>5. SchedulingInv' /\ ClosingInv'
    BY <1>inv, <1>1, <1>3, <1>4, <2>1 DEF SchedulingInv, ClosingInv, Closed, InAsk
  <2> QED BY <2>4, <2>5 DEF Refines
<1> QED BY <1>6, <1>7

\* stopEvent: the one queued event with that id is cancelled; if it is lapped, the
\* service had given up its promise already.
LEMMA StopEventRefines ==
    ASSUME RInv, NEW t \in Tasks, StopEvent(t)
    PROVE  Refines
<1> USE ConstantsAssumption DEF taskVars, eventVars, schedVars, queueVars, dispVars, sigVars,
           mainVars, schedOther, dispOther, mainOther, vars, Ends, AllTasks, DontExpire, Callers
<1>inv. /\ TypeOK /\ SingleOwner /\ PcInv /\ ActiveIdsAreQueued /\ SchedulingInv /\ ClosingInv
  BY DEF RInv, IInv
<1>1. /\ now' = now /\ UNCHANGED <<expiration, outcome, since, lapped, eventList, eventId>>
      /\ UNCHANGED <<schedTask, schedRun, schedState, dispState, taskList, cur, dispPc>>
      /\ eventIds' = eventIds \ {eventId[t]} /\ eventId[t] \in eventIds
      /\ cancelled' = cancelled \cup {v \in AllTasks : v \in eventList /\ eventId[v] = eventId[t]}
  BY DEF StopEvent
<1>2. PICK u \in eventList : eventId[u] = eventId[t]
  BY <1>inv, <1>1 DEF ActiveIdsAreQueued
<1>3. /\ u \in AllTasks /\ outcome[u] = "live" /\ u # schedTask /\ ~InQueue(u) /\ u # cur
      /\ \A v \in eventList : v \in AllTasks
  BY <1>inv DEF TypeOK, SingleOwner
<1>4. SchedulingInv' /\ ClosingInv'
  BY <1>inv, <1>1 DEF SchedulingInv, ClosingInv, Closed, InAsk
<1>5. CASE u \in lapped
  <2>1. \A v \in eventList : eventId[v] = eventId[t] => v \in lapped
    BY <1>inv, <1>2, <1>5 DEF ActiveIdsAreQueued
  <2>2. cancelled' \ lapped = cancelled \ lapped
    BY <1>1, <2>1
  <2>3. \A v : v \in cancelled' \ lapped' <=> v \in cancelled \ lapped
    BY <1>1, <2>2
  <2>4. \A v \in AllTasks : Same(v)
    BY <1>1, <2>3, SMTT(30) DEF Same, DueOf, StatusOf, Handled, InQueue
  <2> QED BY <1>1, <1>4, <2>4, MapStutter DEF Refines, Closed
<1>6. CASE u \notin lapped
  <2>1. \A v \in eventList : eventId[v] = eventId[t] <=> v = u
    BY <1>inv, <1>2, <1>6 DEF ActiveIdsAreQueued
  <2>2. cancelled' = cancelled \cup {u}
    BY <1>1, <1>2, <1>3, <2>1
  <2>3. u \notin cancelled
    BY <1>inv, <1>1, <1>2, <1>6 DEF ActiveIdsAreQueued
  <2>4. SameBut(u)
    BY <1>1, <2>2, SMTT(30) DEF SameBut, Same, DueOf, StatusOf, Handled, InQueue
  <2>5. StatusOf(u) = "scheduled" /\ StatusOf(u)' = "cancelled" /\ DueOf(u)' = DueOf(u)
    BY <1>1, <1>2, <1>3, <1>6, <2>2, <2>3, SMTT(30) DEF DueOf, StatusOf
  <2>6. ServiceStep
    BY <1>1, <1>3, <2>4, <2>5, MapCancel DEF Closed
  <2> QED BY <1>4, <2>6 DEF Refines
<1> QED BY <1>5, <1>6

-----------------------------------------------------------------------------
(* The theorem.                                                            *)

LEMMA InitRefines == Init => RInv /\ Service!Init
<1> SUFFICES ASSUME Init PROVE RInv /\ Service!Init
  OBVIOUS
<1> USE ConstantsAssumption
<1>1. SchedulingInv /\ ClosingInv
  BY DEF Init, SchedulingInv, ClosingInv, InAsk, AllTasks
<1>2. \A t \in AllTasks : StatusOf(t) = "new" /\ DueOf(t) = DontExpire
  BY DEF Init, StatusOf, DueOf, Final
<1>3. Service!Init
  BY <1>2 DEF Init, Service!Init, DueOf
<1> QED BY <1>1, <1>3, InitKeeps DEF RInv

LEMMA StepRefines == RInv /\ [Next]_vars => RInv' /\ ServiceStep
<1> SUFFICES ASSUME RInv, [Next]_vars PROVE RInv' /\ ServiceStep
  OBVIOUS
<1>1. IInv'
  BY StepKeeps DEF RInv
<1>2. Refines
  <2>1. CASE SchedStep \/ SchedSpuriousWakeup
    BY <2>1, WaitsRefine, TimeoutRefines, HandOffRefines DEF SchedStep
  <2>2. CASE DispStep \/ DispSpuriousWakeup
    BY <2>2, WaitsRefine, TakeRefines, ExpireRefines, StartRefines, FinishRefines, StopRefines,
       SchedulerShutdownRefines, DispatcherShutdownRefines DEF DispStep
  <2>3. CASE CallStep
    <3>1. ASSUME NEW c \in Callers, NEW t \in Tasks,
                 NEW e \in {DontExpire, now + TaskExpiration}, NEW front \in BOOLEAN,
                 AddTask(c, t, e, front)
          PROVE  Refines
      <4>1. e \in Nat
        BY ConstantsAssumption DEF RInv, IInv, TypeOK, DontExpire
      <4> QED BY <3>1, <4>1, AddTaskRefines
    <3>2. ASSUME NEW c \in Callers, NEW t \in Tasks, NEW d \in Delays, AddEvent(c, t, d)
          PROVE  Refines
      BY <3>2, AddEventRefines
    <3>3. ASSUME NEW t \in Tasks, StopEvent(t) PROVE Refines
      BY <3>3, StopEventRefines
    <3>4. CASE AddTaskInFlush \/ AskShutdown
      BY <3>4, WaitsRefine, AskRefines
    <3> QED BY <2>3, <3>1, <3>2, <3>3, <3>4 DEF CallStep
  <2>4. CASE NotifyStep \/ MainStep \/ UNCHANGED vars
    BY <2>4, WaitsRefine
  <2>5. CASE Tick
    BY <2>5, TickRefines
  <2> QED BY <2>1, <2>2, <2>3, <2>4, <2>5 DEF Next
<1> QED BY <1>1, <1>2 DEF RInv, Refines

\* The three threads implement the event service: whatever the interleaving, a
\* caller of g_dispatcher and g_scheduler sees a task that starts at most once, not
\* before its time, not after its cancellation, and is dropped only by its own
\* expiration or by a shutdown (tasks.cpp:58-176, scheduler.cpp:41-220).
THEOREM ImplementsService == Spec => ImplementsEventService
<1>1. Init => RInv /\ Service!Init
  BY InitRefines
<1>2. RInv /\ [Next]_vars => RInv' /\ [Service!Next]_(Service!vars)
  BY StepRefines DEF ServiceStep
<1> QED BY <1>1, <1>2, PTL DEF Spec, ImplementsEventService, Service!Spec

=============================================================================
