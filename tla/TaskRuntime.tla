---------------------------- MODULE TaskRuntime ----------------------------
(***************************************************************************)
(* The three threads every other part of the server runs on.               *)
(*                                                                         *)
(*   scheduler   Scheduler::schedulerThread: sleeps until the earliest      *)
(*               event is due, then hands it to the dispatcher              *)
(*   dispatcher  Dispatcher::dispatcherThread: runs every game task, one    *)
(*               after the other; one of them may set GAME_STATE_SHUTDOWN   *)
(*   io          main(): io_service::run() for the network, then joins the  *)
(*               other two threads and exits                                *)
(*                                                                         *)
(* A critical section is one step.  notify_one is called after the lock is   *)
(* released, so a caller owes a notification for a while (eventNotify,       *)
(* taskNotify) and other threads run in between.  m_taskLock is held across  *)
(* steps only by Dispatcher::flush.  Condition variables may wake for no     *)
(* reason.  Tasks are opaque: a body calls addTask, addEvent and stopEvent   *)
(* any number of times.  The loader task that main() runs first is not       *)
(* modelled: Init is the server with its threads started.                    *)
(* An operator whose name has an underscore (X_How) is X with a bug; no        *)
(* specification uses it.                                                     *)
(***************************************************************************)
EXTENDS Integers, SequencesExt

CONSTANTS Tasks,          \* the tasks that callers submit
          ShutdownTask,   \* the task of Game::shutdown
          NoTask,         \* a null Task*
          Delays,         \* the delays callers give createSchedulerTask
          MinTicks,       \* SCHEDULER_MINTICKS
          TaskExpiration, \* DISPATCHER_TASK_EXPIRATION
          MaxEventId,     \* bound: 0xFFFFFFFF
          MaxTime         \* bound: the clock stops here

ASSUME ConstantsAssumption ==
    /\ ShutdownTask \notin Tasks /\ NoTask \notin Tasks \cup {ShutdownTask}
    /\ Delays \subseteq Nat \ {0}
    /\ MinTicks \in Nat \ {0} /\ TaskExpiration \in Nat
    /\ MaxEventId \in Nat \ {0} /\ MaxTime \in Nat

AllTasks   == Tasks \cup {ShutdownTask}
DontExpire == MaxTime + 1   \* not_a_date_time: the clock never passes it

VARIABLES
    now,          \* boost::get_system_time()
    expiration,   \* Task::m_expiration
    eventId,      \* SchedulerTask::m_eventid, 0 while none is assigned
    outcome,      \* history: what became of the task object
    cancelled,    \* history: the tasks stopEvent answered TRUE for
    since,        \* history: ids given out since the task got its own, modulo MaxEventId
    lapped,       \* history: queued events whose id was given out again, and who got it
    schedState, lastEventId, eventList, eventIds,          \* Scheduler
    schedPc, schedUntil, schedTask, schedRun,              \* schedulerThread
    dispState, taskList,                                   \* Dispatcher
    dispPc, cur,                                           \* dispatcherThread
    eventNotify, taskNotify,  \* callers that still owe m_eventSignal, m_taskSignal
    gameShutdown, \* gameState = GAME_STATE_SHUTDOWN
    ioState,      \* the io_service: running, stopping (death timer set) or dead
    mainPc        \* main(): in run(), in the two joins, or exited

taskVars  == <<expiration, eventId, outcome, cancelled, since, lapped>>
eventVars == <<schedState, lastEventId, eventList, eventIds>>
schedVars == <<schedPc, schedUntil, schedTask, schedRun>>
queueVars == <<dispState, taskList>>
dispVars  == <<dispPc, cur>>
sigVars   == <<eventNotify, taskNotify>>
mainVars  == <<gameShutdown, ioState, mainPc>>
vars == <<now, taskVars, eventVars, schedVars, queueVars, dispVars, sigVars, mainVars>>

Init ==
    /\ now = 0
    /\ expiration = [t \in AllTasks |-> DontExpire]
    /\ eventId = [t \in AllTasks |-> 0]
    /\ outcome = [t \in AllTasks |-> "new"]
    /\ cancelled = {} /\ since = [t \in AllTasks |-> 0] /\ lapped = {}
    /\ schedState = "RUNNING" /\ lastEventId = 0 /\ eventList = {} /\ eventIds = {}
    /\ schedPc = "test" /\ schedUntil = 0 /\ schedTask = NoTask /\ schedRun = FALSE
    /\ dispState = "RUNNING" /\ taskList = <<>>
    /\ dispPc = "test" /\ cur = NoTask
    /\ eventNotify = {} /\ taskNotify = {}
    /\ gameShutdown = FALSE /\ ioState = "running" /\ mainPc = "run"

-----------------------------------------------------------------------------
(* Who may call, and what the calls do.                                    *)

\* Dispatcher::flush runs the tasks with m_taskLock held.
TaskLockFree == dispPc \notin {"flush", "flushExec", "stuck"}

\* The dispatcher thread calls from a task body, the io thread from a handler.
BodyRuns == dispPc \in {"exec", "flushExec"} /\ cur # ShutdownTask
IoRuns   == mainPc = "run" /\ ioState # "dead"
Ready(c) == /\ c \notin eventNotify \cup taskNotify
            /\ (c = "io" /\ IoRuns) \/ (c = "disp" /\ BodyRuns)
Callers  == {"io", "disp"}

InQueue(t) == Contains(taskList, t)
Ends(t, how) == outcome' = [outcome EXCEPT ![t] = how]

\* addTask signals when the list was empty before the push.
SignalsDispatcher_AfterPush == taskList # <<>>
SignalsDispatcher == taskList = <<>>

\* Dispatcher::addTask, called by c, for a task whose m_expiration is e.  A task
\* that is refused is never deleted.
Enqueue(c, t, e, pushFront) ==
    /\ TaskLockFree
    /\ expiration' = [expiration EXCEPT ![t] = e]
    /\ IF dispState = "RUNNING"
       THEN /\ taskList' = IF pushFront THEN Cons(t, taskList) ELSE Append(taskList, t)
            /\ taskNotify' = IF SignalsDispatcher /\ c # "disp"
                             THEN taskNotify \cup {c} ELSE taskNotify
            /\ Ends(t, "live")
       ELSE Ends(t, "lost") /\ UNCHANGED <<taskList, taskNotify>>

AddTask(c, t, e, pushFront) ==
    /\ Ready(c) /\ outcome[t] = "new"
    /\ Enqueue(c, t, e, pushFront)
    /\ UNCHANGED <<now, eventId, cancelled, since, lapped, eventVars, schedVars, dispState,
                   dispVars, eventNotify, mainVars>>

\* addTask from a task that flush runs: the thread locks the boost::mutex it holds.
AddTaskInFlush ==
    /\ Ready("disp") /\ dispPc = "flushExec"
    /\ dispPc' = "stuck"
    /\ UNCHANGED <<now, taskVars, eventVars, schedVars, queueVars, cur, sigVars, mainVars>>

\* The task that m_eventList.top() returns; ties are broken by the heap.
IsTop(t, S) == t \in S /\ \A u \in S : expiration[t] <= expiration[u]

NextEventId_NoWrap == lastEventId + 1
NextEventId == (IF lastEventId >= MaxEventId THEN 0 ELSE lastEventId) + 1

\* addEvent signals when the new event is on top of the heap; on a tie either is.
SignalsScheduler_BeforePush(due) ==
    {eventList # {} /\ \A u \in eventList : due < expiration[u]}
SignalsScheduler(due) ==
    {\A u \in eventList : due < expiration[u], \A u \in eventList : due <= expiration[u]}

\* The history of the ids, when t gets one.  Nothing in addEvent looks whether a
\* queued event still carries it: those that have seen all the other ids go by do.
CountsId(t) ==
    LET twins == {u \in eventList : since[u] = MaxEventId - 1}
    IN /\ since' = [u \in AllTasks |-> IF u = t \/ since[u] = MaxEventId - 1 THEN 0
                                       ELSE since[u] + 1]
       /\ lapped' = IF twins = {} THEN lapped ELSE lapped \cup twins \cup {t}

\* createSchedulerTask(delay) and Scheduler::addEvent, called by c.  Bound: the clock
\* can reach the event.
AddEvent(c, t, delay) ==
    LET due == now + (IF delay < MinTicks THEN MinTicks ELSE delay)
    IN /\ Ready(c) /\ outcome[t] = "new"
       /\ due <= MaxTime
       /\ expiration' = [expiration EXCEPT ![t] = due]
       /\ IF schedState = "RUNNING"
          THEN /\ lastEventId' = NextEventId
               /\ eventId' = [eventId EXCEPT ![t] = NextEventId]
               /\ CountsId(t)
               /\ eventIds' = eventIds \cup {NextEventId}
               /\ eventList' = eventList \cup {t}
               /\ \E signal \in SignalsScheduler(due) :
                    eventNotify' = IF signal THEN eventNotify \cup {c} ELSE eventNotify
               /\ Ends(t, "live")
          ELSE /\ Ends(t, "lost")
               /\ UNCHANGED <<eventId, lastEventId, since, lapped, eventList, eventIds, eventNotify>>
       /\ UNCHANGED <<now, cancelled, schedState, schedVars, queueVars, dispVars,
                      taskNotify, mainVars>>

\* Scheduler::stopEvent with the id that addEvent returned for t (it may be stale
\* by now, or 0).  Its answer is whether the id was active.
StopEvent(t) ==
    /\ Ready("disp")
    /\ eventId[t] # 0 /\ eventId[t] \in eventIds
    /\ eventIds' = eventIds \ {eventId[t]}
    /\ cancelled' = cancelled \cup {u \in AllTasks : u \in eventList /\ eventId[u] = eventId[t]}
    /\ UNCHANGED <<now, expiration, eventId, outcome, since, lapped, schedState, lastEventId,
                   eventList, schedVars, queueVars, dispVars, sigVars, mainVars>>

\* notify_one, after the lock is released: wakes the one thread that may wait.
NotifyEvent(c) ==
    /\ c \in eventNotify /\ eventNotify' = eventNotify \ {c}
    /\ schedPc' = IF schedPc \in {"wait", "timed"} THEN "test" ELSE schedPc
    /\ UNCHANGED <<now, taskVars, eventVars, schedUntil, schedTask, schedRun, queueVars,
                   dispVars, taskNotify, mainVars>>

NotifyTask(c) ==
    /\ c \in taskNotify /\ taskNotify' = taskNotify \ {c}
    /\ dispPc' = IF dispPc = "wait" THEN "woken" ELSE dispPc
    /\ UNCHANGED <<now, taskVars, eventVars, schedVars, queueVars, cur, eventNotify, mainVars>>

-----------------------------------------------------------------------------
(* schedulerThread                                                         *)

schedOther == <<now, eventId, cancelled, since, lapped, schedState, lastEventId, dispState,
                dispVars, eventNotify, mainVars>>

\* while(m_threadState != STATE_TERMINATED), read without the lock.
SchedTest ==
    /\ schedPc = "test" /\ "sched" \notin taskNotify
    /\ schedPc' = IF schedState = "TERMINATED" THEN "done" ELSE "lock"
    /\ UNCHANGED <<expiration, outcome, eventList, eventIds, schedUntil, schedTask, schedRun,
                   taskList, taskNotify, schedOther>>

SchedWait ==
    /\ schedPc = "lock" /\ eventList = {}
    /\ schedPc' = "wait"
    /\ UNCHANGED <<expiration, outcome, eventList, eventIds, schedUntil, schedTask, schedRun,
                   taskList, taskNotify, schedOther>>

SchedTimedWait ==
    /\ schedPc = "lock"
    /\ \E t \in eventList : IsTop(t, eventList) /\ schedUntil' = expiration[t]
    /\ schedPc' = "timed"
    /\ UNCHANGED <<expiration, outcome, eventList, eventIds, schedTask, schedRun, taskList,
                   taskNotify, schedOther>>

SchedSpuriousWakeup ==
    /\ schedPc \in {"wait", "timed"} /\ schedPc' = "test"
    /\ UNCHANGED <<expiration, outcome, eventList, eventIds, schedUntil, schedTask, schedRun,
                   taskList, taskNotify, schedOther>>

SchedTimeout_IgnoresStop ==
    /\ schedPc = "timed" /\ schedUntil <= now /\ schedState # "TERMINATED"
    /\ \E t \in eventList :
         /\ IsTop(t, eventList)
         /\ eventList' = eventList \ {t} /\ eventIds' = eventIds \ {eventId[t]}
         /\ schedTask' = t /\ schedRun' = TRUE /\ schedPc' = "handoff"
    /\ UNCHANGED <<expiration, outcome, schedUntil, taskList, taskNotify, schedOther>>

SchedTimeout_KeepsId ==
    /\ schedPc = "timed" /\ schedUntil <= now /\ schedState # "TERMINATED"
    /\ \E t \in eventList :
         /\ IsTop(t, eventList)
         /\ eventList' = eventList \ {t} /\ UNCHANGED eventIds
         /\ schedTask' = t /\ schedRun' = (eventId[t] \in eventIds) /\ schedPc' = "handoff"
    /\ UNCHANGED <<expiration, outcome, schedUntil, taskList, taskNotify, schedOther>>

\* timed_wait returned false: pop the event that is on top now.
SchedTimeout ==
    /\ schedPc = "timed" /\ schedUntil <= now
    /\ IF schedState = "TERMINATED"
       THEN schedPc' = "test" /\ UNCHANGED <<eventList, eventIds, schedTask, schedRun>>
       ELSE \E t \in eventList :
              /\ IsTop(t, eventList)
              /\ eventList' = eventList \ {t}
              /\ schedTask' = t
              /\ schedRun' = (eventId[t] \in eventIds)
              /\ eventIds' = eventIds \ {eventId[t]}
              /\ schedPc' = "handoff"
    /\ UNCHANGED <<expiration, outcome, schedUntil, taskList, taskNotify, schedOther>>

SchedHandOff_KeepsExpiration ==
    /\ schedPc = "handoff"
    /\ IF schedRun
       THEN Enqueue("sched", schedTask, expiration[schedTask], FALSE)
       ELSE Ends(schedTask, "stopped") /\ UNCHANGED <<expiration, taskList, taskNotify>>
    /\ schedTask' = NoTask /\ schedRun' = FALSE /\ schedPc' = "test"
    /\ UNCHANGED <<eventList, eventIds, schedUntil, schedOther>>

SchedHandOff ==
    /\ schedPc = "handoff"
    /\ IF schedRun
       THEN Enqueue("sched", schedTask, DontExpire, FALSE)
       ELSE Ends(schedTask, "stopped") /\ UNCHANGED <<expiration, taskList, taskNotify>>
    /\ schedTask' = NoTask /\ schedRun' = FALSE /\ schedPc' = "test"
    /\ UNCHANGED <<eventList, eventIds, schedUntil, schedOther>>

-----------------------------------------------------------------------------
(* dispatcherThread                                                        *)

dispOther == <<now, expiration, eventId, cancelled, since, lapped, lastEventId, schedVars,
               eventNotify>>

DispTest ==
    /\ dispPc = "test"
    /\ dispPc' = IF dispState = "TERMINATED" THEN "done" ELSE "lock"
    /\ UNCHANGED <<outcome, schedState, eventList, eventIds, queueVars, cur, taskNotify,
                   mainVars, dispOther>>

DispWait ==
    /\ dispPc = "lock" /\ taskList = <<>>
    /\ dispPc' = "wait"
    /\ UNCHANGED <<outcome, schedState, eventList, eventIds, queueVars, cur, taskNotify,
                   mainVars, dispOther>>

DispSpuriousWakeup ==
    /\ dispPc = "wait" /\ dispPc' = "woken"
    /\ UNCHANGED <<outcome, schedState, eventList, eventIds, queueVars, cur, taskNotify,
                   mainVars, dispOther>>

DispTake_NoPop ==
    /\ dispPc = "woken" \/ (dispPc = "lock" /\ taskList # <<>>)
    /\ IF taskList # <<>> /\ dispState # "TERMINATED"
       THEN dispPc' = "run" /\ cur' = Head(taskList) /\ UNCHANGED taskList
       ELSE dispPc' = "test" /\ UNCHANGED <<cur, taskList>>
    /\ UNCHANGED <<outcome, schedState, eventList, eventIds, dispState, taskNotify, mainVars,
                   dispOther>>

\* Take the first task, if there is one.
DispTake ==
    /\ dispPc = "woken" \/ (dispPc = "lock" /\ taskList # <<>>)
    /\ IF taskList # <<>> /\ dispState # "TERMINATED"
       THEN dispPc' = "run" /\ cur' = Head(taskList) /\ taskList' = Tail(taskList)
       ELSE dispPc' = "test" /\ UNCHANGED <<cur, taskList>>
    /\ UNCHANGED <<outcome, schedState, eventList, eventIds, dispState, taskNotify, mainVars,
                   dispOther>>

HasExpired_AtDeadline(t) == expiration[t] <= now
HasExpired(t) == expiration[t] < now

DispExpire ==
    /\ dispPc = "run" /\ HasExpired(cur)
    /\ Ends(cur, "expired") /\ cur' = NoTask /\ dispPc' = "test"
    /\ UNCHANGED <<schedState, eventList, eventIds, queueVars, taskNotify, mainVars, dispOther>>

DispStart ==
    /\ dispPc = "run" /\ ~HasExpired(cur)
    /\ dispPc' = IF cur = ShutdownTask THEN "schedShutdown" ELSE "exec"
    /\ UNCHANGED <<outcome, schedState, eventList, eventIds, queueVars, cur, taskNotify,
                   mainVars, dispOther>>

\* The body, sendAll and clearSpectatorCache returned; delete task.
DispFinish ==
    /\ dispPc = "exec" /\ "disp" \notin eventNotify
    /\ Ends(cur, "ran") /\ cur' = NoTask /\ dispPc' = "test"
    /\ UNCHANGED <<schedState, eventList, eventIds, queueVars, taskNotify, mainVars, dispOther>>

\* A body calls setGameState(GAME_STATE_SHUTDOWN): addTask(Game::shutdown), then
\* g_scheduler.stop(), then g_dispatcher.stop().
AskShutdown ==
    /\ dispPc = "exec" /\ Ready("disp") /\ ~gameShutdown
    /\ Enqueue("disp", ShutdownTask, DontExpire, FALSE)
    /\ dispPc' = "schedStop"
    /\ UNCHANGED <<now, eventId, cancelled, since, lapped, eventVars, schedVars, dispState, cur,
                   eventNotify, mainVars>>

SchedulerStop ==
    /\ dispPc = "schedStop" /\ dispPc' = "dispStop"
    /\ schedState' = "CLOSING"
    /\ UNCHANGED <<outcome, eventList, eventIds, queueVars, cur, taskNotify, mainVars, dispOther>>

DispatcherStop ==
    /\ dispPc = "dispStop" /\ dispPc' = "exec"
    /\ dispState' = "CLOSING" /\ gameShutdown' = TRUE
    /\ UNCHANGED <<outcome, schedState, eventList, eventIds, taskList, cur, taskNotify, ioState,
                   mainPc, dispOther>>

SchedulerShutdown_Closing ==
    /\ dispPc = "schedShutdown" /\ dispPc' = "dispShutdown"
    /\ schedState' = "CLOSING" /\ eventList' = {} /\ eventIds' = {}
    /\ outcome' = [t \in AllTasks |-> IF t \in eventList THEN "lost" ELSE outcome[t]]
    /\ UNCHANGED <<queueVars, cur, taskNotify, mainVars, dispOther>>

\* Game::shutdown: g_scheduler.shutdown() drops every event and notifies nobody...
SchedulerShutdown ==
    /\ dispPc = "schedShutdown" /\ dispPc' = "dispShutdown"
    /\ schedState' = "TERMINATED" /\ eventList' = {} /\ eventIds' = {}
    /\ outcome' = [t \in AllTasks |-> IF t \in eventList THEN "lost" ELSE outcome[t]]
    /\ UNCHANGED <<queueVars, cur, taskNotify, mainVars, dispOther>>

DispatcherShutdown_NoFlush ==
    /\ dispPc = "dispShutdown" /\ dispPc' = "test"
    /\ dispState' = "TERMINATED" /\ cur' = NoTask
    /\ UNCHANGED <<outcome, schedState, eventList, eventIds, taskList, taskNotify, mainVars,
                   dispOther>>

\* ... g_dispatcher.shutdown() takes m_taskLock and flushes ...
DispatcherShutdown ==
    /\ dispPc = "dispShutdown" /\ dispPc' = "flush"
    /\ dispState' = "TERMINATED" /\ cur' = NoTask
    /\ UNCHANGED <<outcome, schedState, eventList, eventIds, taskList, taskNotify, mainVars,
                   dispOther>>

FlushTake ==
    /\ dispPc = "flush" /\ taskList # <<>>
    /\ dispPc' = "flushExec" /\ cur' = Head(taskList) /\ taskList' = Tail(taskList)
    /\ UNCHANGED <<outcome, schedState, eventList, eventIds, dispState, taskNotify, mainVars,
                   dispOther>>

FlushFinish ==
    /\ dispPc = "flushExec"
    /\ Ends(cur, "ran") /\ cur' = NoTask /\ dispPc' = "flush"
    /\ UNCHANGED <<schedState, eventList, eventIds, queueVars, taskNotify, mainVars, dispOther>>

\* ... and service_manager->stop() sets the death timer.  Game::shutdown returns.
FlushEnd ==
    /\ dispPc = "flush" /\ taskList = <<>>
    /\ dispPc' = "test" /\ Ends(ShutdownTask, "ran") /\ ioState' = "stopping"
    /\ UNCHANGED <<schedState, eventList, eventIds, queueVars, cur, taskNotify, gameShutdown,
                   mainPc, dispOther>>

-----------------------------------------------------------------------------
(* main() and time                                                         *)

mainOther == <<now, taskVars, eventVars, schedVars, queueVars, dispVars, sigVars, gameShutdown>>

\* The death timer fires on the io thread between two handlers: io_service::stop().
Die == /\ ioState = "stopping" /\ "io" \notin eventNotify \cup taskNotify
       /\ ioState' = "dead" /\ mainPc' = "joinSched"
       /\ UNCHANGED mainOther

JoinScheduler == /\ mainPc = "joinSched" /\ schedPc = "done" /\ mainPc' = "joinDisp"
                 /\ UNCHANGED <<ioState, mainOther>>

JoinDispatcher == /\ mainPc = "joinDisp" /\ dispPc = "done" /\ mainPc' = "exited"
                  /\ UNCHANGED <<ioState, mainOther>>

Tick == /\ now < MaxTime /\ now' = now + 1
        /\ UNCHANGED <<taskVars, eventVars, schedVars, queueVars, dispVars, sigVars, mainVars>>

SchedStep == SchedTest \/ SchedWait \/ SchedTimedWait \/ SchedTimeout \/ SchedHandOff

DispStep == \/ DispTest \/ DispWait \/ DispTake \/ DispExpire \/ DispStart \/ DispFinish
            \/ SchedulerStop \/ DispatcherStop \/ SchedulerShutdown \/ DispatcherShutdown
            \/ FlushTake \/ FlushFinish \/ FlushEnd

CallStep == \/ \E c \in Callers, t \in Tasks :
                 \/ \E e \in {DontExpire, now + TaskExpiration}, front \in BOOLEAN :
                      AddTask(c, t, e, front)
                 \/ \E d \in Delays : AddEvent(c, t, d)
            \/ \E t \in Tasks : StopEvent(t)
            \/ AddTaskInFlush \/ AskShutdown

NotifyStep == \E c \in Callers \cup {"sched"} : NotifyEvent(c) \/ NotifyTask(c)

MainStep == Die \/ JoinScheduler \/ JoinDispatcher

Next == \/ SchedStep \/ SchedSpuriousWakeup \/ DispStep \/ DispSpuriousWakeup
        \/ CallStep \/ NotifyStep \/ MainStep \/ Tick

\* The operating system runs every thread that can run, a timed wait whose moment
\* has passed returns, a task body returns, and time goes on.  Nobody promises a
\* spurious wakeup, nor that a caller makes a call.
Fairness == /\ WF_vars(SchedStep) /\ SF_vars(SchedTimeout) /\ WF_vars(DispStep)
            /\ WF_vars(MainStep) /\ WF_vars(Tick)
            /\ \A c \in Callers \cup {"sched"} : WF_vars(NotifyEvent(c)) /\ WF_vars(NotifyTask(c))

Spec == Init /\ [][Next]_vars
FairSpec == Spec /\ Fairness
-----------------------------------------------------------------------------
(* Properties                                                              *)

\* Every variable keeps its range: ids stay within 32 bits (NextEventId), each thread is at
\* one of its places, and only threads that may owe a notification do.
TypeOK ==
    /\ now \in 0..MaxTime
    /\ expiration \in [AllTasks -> Nat]
    /\ eventId \in [AllTasks -> 0..MaxEventId]
    /\ outcome \in [AllTasks -> {"new", "live", "ran", "expired", "stopped", "lost"}]
    /\ cancelled \subseteq Tasks /\ lapped \subseteq Tasks
    /\ since \in [AllTasks -> 0..(MaxEventId - 1)]
    /\ schedState \in {"RUNNING", "CLOSING", "TERMINATED"}
    /\ lastEventId \in 0..MaxEventId
    /\ eventList \subseteq Tasks /\ eventIds \subseteq 1..MaxEventId
    /\ schedPc \in {"test", "lock", "wait", "timed", "handoff", "done"}
    /\ schedUntil \in Nat
    /\ schedTask \in Tasks \cup {NoTask} /\ schedRun \in BOOLEAN
    /\ dispState \in {"RUNNING", "CLOSING", "TERMINATED"}
    /\ taskList \in Seq(AllTasks)
    /\ dispPc \in {"test", "lock", "wait", "woken", "run", "exec", "schedStop", "dispStop",
                   "schedShutdown", "dispShutdown", "flush", "flushExec", "stuck", "done"}
    /\ cur \in AllTasks \cup {NoTask}
    /\ eventNotify \subseteq Callers /\ taskNotify \subseteq Callers \cup {"sched"}
    /\ gameShutdown \in BOOLEAN
    /\ ioState \in {"running", "stopping", "dead"}
    /\ mainPc \in {"run", "joinSched", "joinDisp", "exited"}

\* Once stopEvent has answered TRUE for an event, its task is never handed to the
\* dispatcher, whichever thread the answer raced with: callers free what the task
\* points at as soon as they have the answer (Spawn, Raid, Player walk events).  An
\* event that waited until its id was given out again is the exception.
StoppedNeverRuns ==
    \A t \in cancelled \ lapped : /\ ~InQueue(t) /\ cur # t
                         /\ outcome[t] \notin {"ran", "expired"}

\* A task object has one owner, and none once it was deleted: no thread runs or
\* deletes a task that another one still holds.
SingleOwner ==
    /\ IsInjective(taskList)
    /\ \A t \in AllTasks :
         /\ t \in eventList => t # schedTask /\ ~InQueue(t) /\ t # cur
         /\ t = schedTask => ~InQueue(t) /\ t # cur
         /\ InQueue(t) => t # cur
         /\ t \in eventList \/ t = schedTask \/ InQueue(t) \/ t = cur => outcome[t] = "live"

\* When timed_wait times out there is an event to pop, and it is due: top() is
\* never called on an empty heap and no event fires early, although the heap may
\* have changed since the wait began (scheduler.cpp:75).
TimeoutHasDueEvent ==
    schedPc = "timed" /\ schedState # "TERMINATED"
      => \E t \in eventList : IsTop(t, eventList) /\ expiration[t] <= schedUntil

\* An event handed over by the scheduler is never thrown away as an expired
\* dispatcher task, however late the dispatcher gets to it (scheduler.cpp:94).
EventsNeverExpire == \A t \in Tasks : outcome[t] = "expired" => eventId[t] = 0

\* stopEvent's answer is exact: an active id is that of an event still in the list,
\* and a queued event has its id active unless it was stopped.  Two queued events can
\* share an id, and only then may the second clause fail them: an event that is still
\* queued when MaxEventId more ids have been given out loses its own to a younger one.
ActiveIdsAreQueued ==
    /\ \A i \in eventIds : \E t \in eventList : eventId[t] = i
    /\ \A t \in eventList \ lapped : eventId[t] \in eventIds <=> t \notin cancelled
    /\ \A t, u \in eventList : eventId[t] = eventId[u] /\ t # u => {t, u} \subseteq lapped

\* The flush leaves nothing behind, and nothing is queued after it: no task is
\* accepted by a dispatcher that will not run it.
NothingStranded ==
    dispState = "TERMINATED" /\ dispPc \notin {"flush", "flushExec", "stuck"} => taskList = <<>>

\* No wakeup is lost: an event leaves the heap, although notify_one comes after the
\* unlock and the scheduler may be between its test and its wait.
EventsLeaveTheHeap == \A t \in Tasks : t \in eventList ~> t \notin eventList

\* A queued task leaves the queue, unless the dispatcher locked itself out in flush.
TasksLeaveTheQueue == \A t \in Tasks : InQueue(t) ~> ~InQueue(t) \/ dispPc = "stuck"

\* The comment at otserv.cpp:121-124: a server shut down by internal means clears its
\* run file.  closeRunfile runs when main() exits.
InternalShutdownClearsRunfile == gameShutdown ~> mainPc = "exited"

-----------------------------------------------------------------------------
(* What it implements: EventService.  A task that runs has "started"; a popped  *)
(* event whose id was active is already "ready" during the hand-over.           *)

Final == [new |-> "new", ran |-> "started", expired |-> "dropped", stopped |-> "dropped",
          lost |-> "dropped"]

Handled(t) == t = schedTask \/ InQueue(t) \/ (dispPc = "run" /\ cur = t)

StatusOf(t) ==
    IF t \in cancelled \ lapped THEN "cancelled"
    ELSE IF outcome[t] # "live" THEN Final[outcome[t]]
    ELSE IF t \in eventList THEN "scheduled"
    ELSE IF t = schedTask /\ ~schedRun THEN "dropped"
    ELSE IF Handled(t) THEN "ready" ELSE "started"

Service == INSTANCE EventService WITH
    Task <- AllTasks, Forever <- DontExpire, Ids <- MaxEventId, time <- now, age <- since,
    closing <- schedState # "RUNNING",
    status <- [t \in AllTasks |-> StatusOf(t)],
    deadline <- [t \in AllTasks |-> IF (t = schedTask /\ schedRun) \/ StatusOf(t) = "dropped"
                                    THEN DontExpire ELSE expiration[t]]

ImplementsEventService == Service!Spec
=============================================================================
