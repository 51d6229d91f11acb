---------------------------- MODULE EventService ----------------------------
(***************************************************************************)
(* What the game, the network code and the scripts may rely on when they    *)
(* hand a task to g_dispatcher or g_scheduler, with no thread, lock, queue  *)
(* or condition variable in sight: a task starts at most once; a delayed    *)
(* task never starts before its time and never after stopEvent answered     *)
(* TRUE for it; a task with an expiration never starts after it, and any     *)
(* other accepted task is never dropped, both as long as nobody closed the   *)
(* service.  The ids that name delayed tasks come round: a delayed task that  *)
(* has met another one with its id may be dropped, and can not be cancelled.  *)
(* TaskRuntime is shown to implement this specification.                     *)
(***************************************************************************)
EXTENDS Naturals

CONSTANTS Task,     \* the tasks
          Ids,      \* how many ids there are for delayed tasks
          Forever   \* the deadline of a task without an expiration

VARIABLES time,      \* the clock
          status,    \* what became of each task
          deadline,  \* scheduled task: its earliest start; ready task: its latest start
          age,       \* ids given out since the task got its own, modulo Ids
          lapped,    \* the delayed tasks that have shared an id with another one
          closing    \* somebody asked the service to shut down

vars == <<time, status, deadline, age, lapped, closing>>

Status == {"new", "scheduled", "ready", "started", "cancelled", "dropped"}

Init == /\ time = 0
        /\ status = [t \in Task |-> "new"]
        /\ deadline = [t \in Task |-> Forever]
        /\ age = [t \in Task |-> 0] /\ lapped = {} /\ closing = FALSE

Advance == /\ time' = time + 1
           /\ UNCHANGED <<status, deadline, age, lapped, closing>>

Become(t, s) == status' = [status EXCEPT ![t] = s]

Submit(t) == /\ status[t] = "new" /\ Become(t, "ready")
             /\ deadline' = [deadline EXCEPT ![t] = deadline'[t]]
             /\ deadline'[t] \in Nat \cup {Forever}
             /\ UNCHANGED <<time, age, lapped, closing>>

\* The tasks that may still carry the id that is given out next.
Lapping == {u \in Task : status[u] \in {"scheduled", "cancelled"} /\ age[u] = Ids - 1}

\* Those that do carry it meet t: one that was cancelled is scheduled again.
Schedule(t) == /\ status[t] = "new"
               /\ \E T \in SUBSET Lapping :
                    /\ status' = [u \in Task |-> IF u = t \/ u \in T THEN "scheduled"
                                                ELSE status[u]]
                    /\ lapped' = IF T = {} THEN lapped ELSE lapped \cup T \cup {t}
               /\ age' = [u \in Task |-> IF u = t \/ age[u] = Ids - 1 THEN 0 ELSE age[u] + 1]
               /\ deadline' = [deadline EXCEPT ![t] = deadline'[t]]
               /\ deadline'[t] \in Nat /\ deadline'[t] > time
               /\ ~closing
               /\ UNCHANGED <<time, closing>>

Cancel(t) == /\ status[t] = "scheduled" /\ Become(t, "cancelled")
             /\ UNCHANGED <<time, deadline, age, lapped, closing>>

\* Another task with the id of t was cancelled, or released.
Forget(t) == /\ t \in lapped /\ status[t] = "scheduled" /\ Become(t, "dropped")
             /\ deadline' = [deadline EXCEPT ![t] = Forever]
             /\ UNCHANGED <<time, age, lapped, closing>>

Release(t) == /\ status[t] = "scheduled" /\ deadline[t] <= time
              /\ Become(t, "ready")
              /\ deadline' = [deadline EXCEPT ![t] = Forever]
              /\ UNCHANGED <<time, age, lapped, closing>>

Overdue(t) == deadline[t] # Forever /\ deadline[t] < time

Start(t) == /\ status[t] = "ready" /\ Become(t, "started")
            /\ Overdue(t) => closing
            /\ UNCHANGED <<time, deadline, age, lapped, closing>>

Expire(t) == /\ status[t] = "ready" /\ Overdue(t)
             /\ Become(t, "dropped")
             /\ deadline' = [deadline EXCEPT ![t] = Forever]
             /\ UNCHANGED <<time, age, lapped, closing>>

Close == /\ ~closing /\ closing' = TRUE
         /\ UNCHANGED <<time, status, deadline, age, lapped>>

\* Tasks refused, or thrown away, by a service that is shutting down.
Abandon == /\ closing
           /\ \E T \in SUBSET {t \in Task : status[t] \in {"new", "scheduled", "ready"}} :
                /\ status' = [t \in Task |-> IF t \in T THEN "dropped" ELSE status[t]]
                /\ deadline' = [t \in Task |-> IF t \in T THEN Forever ELSE deadline[t]]
           /\ UNCHANGED <<time, age, lapped, closing>>

Next == \/ Advance \/ Close \/ Abandon
        \/ \E t \in Task : \/ Submit(t) \/ Schedule(t) \/ Cancel(t) \/ Forget(t)
                           \/ Release(t) \/ Start(t) \/ Expire(t)

Spec == Init /\ [][Next]_vars
=============================================================================
