----------------------------- MODULE OsWaitqueue -----------------------------
(***************************************************************************)
(* Wait queues: src/os_waitqueue.c on top of the scheduler.                *)
(*                                                                         *)
(* os_waitqueue_wait is not a critical area.  It puts the caller's node on *)
(* the queue in one and puts the caller to sleep in another, and the timer *)
(* may take the hart from it between the two.  os_mutex_lock makes the     *)
(* same call inside a critical area of its own, where the two are one step *)
(* (WaitAtomically).                                                       *)
(***************************************************************************)
EXTENDS OsTask

CONSTANT Waitqueue   \* the wait queues (os_waitqueue_t)

VARIABLES
  waiting_list,  \* queue -> sequence of the tasks whose node is on it
  adding         \* tasks in os_waitqueue_wait between os_waitqueue_add and os_task_sleep

waitqueueVars == <<waiting_list, adding>>
wqVars == <<taskVars, waitqueueVars>>

WqInit ==
  /\ Init
  /\ waiting_list = [q \in Waitqueue |-> <<>>]
  /\ adding = {}

-----------------------------------------------------------------------------
\* Task code can start a new kernel call.
Calls(self) == Runs(self) /\ self \notin adding

\* Mutant: the node goes to the front.
os_waitqueue_add_Front(q, t) == waiting_list' = [waiting_list EXCEPT ![q] = <<t>> \o @]

os_waitqueue_add(q, t) == waiting_list' = [waiting_list EXCEPT ![q] = Append(@, t)]
os_waitqueue_empty(q) == waiting_list[q] = <<>>
os_waitqueue_get_head(q) == IF os_waitqueue_empty(q) THEN NULL ELSE Head(waiting_list[q])

\* os_waitqueue_wait from a caller that has not masked interrupts.
os_waitqueue_wait(self, q) ==
  /\ Calls(self)
  /\ os_waitqueue_add(q, current_task)
  /\ adding' = adding \cup {self}
  /\ UNCHANGED taskVars

os_waitqueue_wait_sleep(self) ==
  /\ Runs(self)
  /\ self \in adding
  /\ adding' = adding \ {self}
  /\ SleepCurrent
  /\ UNCHANGED waiting_list

\* Mutant: the caller's critical area ends before the sleep.
WaitAtomically_Split(q) ==
  /\ os_waitqueue_add(q, current_task)
  /\ adding' = adding \cup {current_task}
  /\ UNCHANGED taskVars

\* os_waitqueue_wait from a caller inside a critical area.
WaitAtomically(q) ==
  /\ os_waitqueue_add(q, current_task)
  /\ SleepCurrent
  /\ UNCHANGED adding

\* Mutant: the task is woken and its node stays.
WakeHead_NodeKept(q) ==
  IF os_waitqueue_empty(q)
  THEN UNCHANGED wqVars
  ELSE Wakeup(Head(waiting_list[q])) /\ UNCHANGED waitqueueVars

\* The body of os_waitqueue_wakeup: the head's node leaves the queue, then the
\* task is woken if it sleeps.
WakeHead(q) ==
  IF os_waitqueue_empty(q)
  THEN UNCHANGED wqVars
  ELSE /\ waiting_list' = [waiting_list EXCEPT ![q] = Tail(@)]
       /\ Wakeup(Head(waiting_list[q]))
       /\ UNCHANGED adding

os_waitqueue_wakeup(self, q) == Calls(self) /\ WakeHead(q)

-----------------------------------------------------------------------------
\* The rest of what a task does: it starts others, yields, exits.
OtherCall(self) ==
  /\ \/ Calls(self) /\ os_task_yield(self)
     \/ Calls(self) /\ \E t \in Task : os_task_startup(self, t)
     \/ Calls(self) /\ os_syscall_exit(self)
     \/ os_syscall_exit_schedule(self)
  /\ UNCHANGED waitqueueVars

SystemStep ==
  /\ os_task_scheduler_start \/ os_task_idle_entry \/ os_tick_handler \/ trap_exit
  /\ UNCHANGED waitqueueVars

\* A task's step when the queues it may wait on and wake are those of Q.
WqTaskCall(self, Q) ==
  \/ \E q \in Q : os_waitqueue_wait(self, q) \/ os_waitqueue_wakeup(self, q)
  \/ os_waitqueue_wait_sleep(self)
  \/ OtherCall(self)

-----------------------------------------------------------------------------
WqTypeOK ==
  /\ TypeOK
  /\ waiting_list \in [Waitqueue -> Seq(Task)]
  /\ adding \in SUBSET Task

Queued(t) == \E q \in Waitqueue : Contains(waiting_list[q], t)

\* A queue node is a local variable of the call that waits: a node on a queue is
\* that of a task still inside os_waitqueue_wait (asleep or about to sleep), and
\* no task is on two queues or twice on one.  A node that outlived its call would
\* be a dangling pointer into a stack.
NodesOutliveNoCall ==
  \A q \in Waitqueue :
    /\ IsInjective(waiting_list[q])
    /\ \A t \in Task : Contains(waiting_list[q], t) =>
         /\ task_state[t] = "SLEEPING" \/ t \in adding
         /\ \A r \in Waitqueue \ {q} : ~Contains(waiting_list[r], t)

\* os_waitqueue_wakeup takes the longest waiting task only, and a woken task that
\* was asleep is at once runnable.
WakesInOrder ==
  [][ \A q \in Waitqueue :
        \/ waiting_list'[q] = waiting_list[q]
        \/ \E t \in Task : waiting_list'[q] = Append(waiting_list[q], t)
        \/ /\ waiting_list[q] # <<>>
           /\ waiting_list'[q] = Tail(waiting_list[q])
           /\ ~ (task_state'[Head(waiting_list[q])] = "SLEEPING"
                 /\ task_state[Head(waiting_list[q])] = "SLEEPING") ]_wqVars

\* "Wake up one task of the wait queue": a task that was woken is not left asleep,
\* so every sleeping task still has its node on a queue for somebody to find.
SleepersAreQueued == \A t \in Task : task_state[t] = "SLEEPING" => Queued(t)
=============================================================================
