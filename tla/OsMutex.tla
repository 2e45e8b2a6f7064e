------------------------------- MODULE OsMutex -------------------------------
(***************************************************************************)
(* Recursive mutexes: src/os_mutex.c on top of the wait queues.            *)
(*                                                                         *)
(* A mutex's wait queue bears the name of the mutex.  A contended lock     *)
(* sleeps inside os_mutex_lock; the call returns when the task next runs,  *)
(* and it returns without looking at the mutex again: the unlocker must    *)
(* have made it the owner.  "locking" and "held" record what the callers   *)
(* know, calls that sleep and calls that have returned; the code has no    *)
(* such variables.                                                         *)
(***************************************************************************)
EXTENDS OsWaitqueue

CONSTANTS
  Mutex,     \* the mutexes
  MaxDepth   \* bound of the model: how deeply a task nests locks of one mutex

ASSUME MutexAssumption ==
  /\ Mutex \subseteq Waitqueue
  /\ NULL \notin Mutex
  /\ MaxDepth \in Nat \ {0}

VARIABLES
  locked,   \* mutex -> locked
  owner,    \* mutex -> owner, NULL if none
  refcnt,   \* mutex -> locks its owner has nested
  locking,  \* task -> the mutex it sleeps for inside os_mutex_lock, NULL if none
  held      \* mutex -> task -> its lock calls that returned and are not unlocked

mutexVars == <<locked, owner, refcnt, locking, held>>
muVars == <<wqVars, mutexVars>>

MuInit ==
  /\ WqInit
  /\ locked = [m \in Mutex |-> FALSE]
  /\ owner = [m \in Mutex |-> NULL]
  /\ refcnt = [m \in Mutex |-> 0]
  /\ locking = [t \in Task |-> NULL]
  /\ held = [m \in Mutex |-> [t \in Task |-> 0]]

-----------------------------------------------------------------------------
\* Task code can call a mutex operation.
MuCalls(self) == Calls(self) /\ locking[self] = NULL

LockFree(m) ==
  /\ ~locked[m]
  /\ refcnt' = [refcnt EXCEPT ![m] = 1]
  /\ owner' = [owner EXCEPT ![m] = current_task]
  /\ locked' = [locked EXCEPT ![m] = TRUE]
  /\ held' = [held EXCEPT ![m][current_task] = @ + 1]
  /\ UNCHANGED <<wqVars, locking>>

\* Mutant: a nested lock is not counted.
LockAgain_NotCounted(m) ==
  /\ locked[m]
  /\ owner[m] = current_task
  /\ held' = [held EXCEPT ![m][current_task] = @ + 1]
  /\ UNCHANGED <<wqVars, locked, owner, refcnt, locking>>

LockAgain(m) ==
  /\ locked[m]
  /\ owner[m] = current_task
  /\ refcnt' = [refcnt EXCEPT ![m] = @ + 1]
  /\ held' = [held EXCEPT ![m][current_task] = @ + 1]
  /\ UNCHANGED <<wqVars, locked, owner, locking>>

LockContended(m) ==
  /\ locked[m]
  /\ owner[m] # current_task
  /\ WaitAtomically(m)
  /\ locking' = [locking EXCEPT ![current_task] = m]
  /\ UNCHANGED <<locked, owner, refcnt, held>>

os_mutex_lock(self, m) ==
  /\ MuCalls(self)
  /\ held[m][self] < MaxDepth
  /\ LockFree(m) \/ LockAgain(m) \/ LockContended(m)

\* A contended call returns, some time after its task was woken.
os_mutex_lock_return(self) ==
  /\ Runs(self)
  /\ locking[self] # NULL
  /\ held' = [held EXCEPT ![locking[self]][self] = @ + 1]
  /\ locking' = [locking EXCEPT ![self] = NULL]
  /\ UNCHANGED <<wqVars, locked, owner, refcnt>>

UnlockNested(m) ==
  /\ refcnt[m] # 1
  /\ refcnt' = [refcnt EXCEPT ![m] = @ - 1]
  /\ UNCHANGED <<wqVars, locked, owner>>

\* Mutant: the mutex is released and the waiter woken to find it, the mistake
\* the comment in os_mutex_unlock warns of.
UnlockHandOff_Released(m) ==
  /\ refcnt[m] = 1
  /\ os_waitqueue_get_head(m) # NULL
  /\ refcnt' = [refcnt EXCEPT ![m] = 0]
  /\ owner' = [owner EXCEPT ![m] = NULL]
  /\ locked' = [locked EXCEPT ![m] = FALSE]
  /\ WakeHead(m)

\* The head of the queue becomes the owner before it is woken.
UnlockHandOff(m) ==
  /\ refcnt[m] = 1
  /\ os_waitqueue_get_head(m) # NULL
  /\ refcnt' = [refcnt EXCEPT ![m] = 1]
  /\ owner' = [owner EXCEPT ![m] = os_waitqueue_get_head(m)]
  /\ WakeHead(m)
  /\ UNCHANGED locked

\* Mutant: the flag is left set.
UnlockFree_StillLocked(m) ==
  /\ refcnt[m] = 1
  /\ os_waitqueue_get_head(m) = NULL
  /\ refcnt' = [refcnt EXCEPT ![m] = 0]
  /\ owner' = [owner EXCEPT ![m] = NULL]
  /\ UNCHANGED <<wqVars, locked>>

UnlockFree(m) ==
  /\ refcnt[m] = 1
  /\ os_waitqueue_get_head(m) = NULL
  /\ refcnt' = [refcnt EXCEPT ![m] = 0]
  /\ owner' = [owner EXCEPT ![m] = NULL]
  /\ locked' = [locked EXCEPT ![m] = FALSE]
  /\ UNCHANGED wqVars

\* Callers unlock what they have locked.  The three assertions at the head of
\* os_mutex_unlock are the invariant UnlockAssertionsHold.
os_mutex_unlock(self, m) ==
  /\ MuCalls(self)
  /\ held[m][self] > 0
  /\ UnlockNested(m) \/ UnlockHandOff(m) \/ UnlockFree(m)
  /\ held' = [held EXCEPT ![m][self] = @ - 1]
  /\ UNCHANGED locking

-----------------------------------------------------------------------------
HoldsNone(self) == \A m \in Mutex : held[m][self] = 0

MuTaskCall(self) ==
  \/ \E m \in Mutex : os_mutex_lock(self, m) \/ os_mutex_unlock(self, m)
  \/ os_mutex_lock_return(self)
  \/ /\ locking[self] = NULL
     /\ WqTaskCall(self, Waitqueue \ Mutex)
     \* A system call gives its locks back before the task can exit.
     /\ task_state'[self] = "STOPPED" => HoldsNone(self)
     /\ UNCHANGED mutexVars

MuNext ==
  \/ SystemStep /\ UNCHANGED mutexVars
  \/ \E self \in Task \ {task_idle} : MuTaskCall(self)

(***************************************************************************)
(* A critical section is finite: a holder that is given the hart again and *)
(* again in the end makes its last unlock.  A call whose task runs again   *)
(* returns.                                                                *)
(***************************************************************************)
MuFairness ==
  /\ WF_muVars(os_task_scheduler_start /\ UNCHANGED <<waitqueueVars, mutexVars>>)
  /\ WF_muVars(os_task_idle_entry /\ UNCHANGED <<waitqueueVars, mutexVars>>)
  /\ WF_muVars(os_tick_handler /\ UNCHANGED <<waitqueueVars, mutexVars>>)
  /\ WF_muVars(trap_exit /\ UNCHANGED <<waitqueueVars, mutexVars>>)
  /\ \A t \in Task :
       /\ SF_muVars(os_mutex_lock_return(t))
       /\ \A m \in Mutex : /\ SF_muVars(os_mutex_unlock(t, m))
                           /\ SF_muVars(held[m][t] = 1 /\ os_mutex_unlock(t, m))

MuSpec == MuInit /\ [][MuNext]_muVars
MuFairSpec == MuSpec /\ MuFairness

-----------------------------------------------------------------------------
MuTypeOK ==
  /\ WqTypeOK
  /\ locked \in [Mutex -> BOOLEAN]
  /\ owner \in [Mutex -> Task \cup {NULL}]
  /\ refcnt \in [Mutex -> Nat]
  /\ locking \in [Task -> Mutex \cup {NULL}]
  /\ held \in [Mutex -> [Task -> Nat]]

\* The mutex and its queue agree: it is locked exactly while it has an owner and
\* a count, only a locked mutex has waiters, and they are the tasks asleep in
\* os_mutex_lock, none of them the owner.
MutexConsistent ==
  \A m \in Mutex :
    /\ locked[m] <=> owner[m] # NULL
    /\ locked[m] <=> refcnt[m] > 0
    /\ waiting_list[m] # <<>> => locked[m]
    /\ \A t \in Task : Contains(waiting_list[m], t) =>
         t # owner[m] /\ locking[t] = m /\ task_state[t] = "SLEEPING"

\* Whoever may unlock passes the assertions of os_mutex_unlock: it is the owner,
\* and the count is the number of its returned calls.
UnlockAssertionsHold ==
  \A m \in Mutex : \A t \in Task :
    held[m][t] > 0 => locked[m] /\ owner[m] = t /\ refcnt[m] = held[m][t]

\* A task inside os_mutex_lock is either asleep on the mutex's queue or has been
\* made the owner with a count of one: the call never returns without the lock.
LockReturnsAsOwner ==
  \A t \in Task : locking[t] # NULL =>
    \/ task_state[t] = "SLEEPING" /\ Contains(waiting_list[locking[t]], t)
    \/ task_state[t] # "SLEEPING" /\ owner[locking[t]] = t /\ refcnt[locking[t]] = 1

\* The mutex, its queue, its owner and the calls inside it agree.
MutexExact == MuTypeOK /\ MutexConsistent /\ UnlockAssertionsHold /\ LockReturnsAsOwner

(***************************************************************************)
(* Each mutex implements RecursiveLock.  A task the unlocker has made the  *)
(* owner still stands first in line until its call returns.                *)
(***************************************************************************)
GrantedFirst(m) == owner[m] # NULL /\ locking[owner[m]] = m
Line(m) == IF GrantedFirst(m) THEN <<owner[m]>> \o waiting_list[m] ELSE waiting_list[m]

Locks == INSTANCE RecursiveLock WITH Lock <- Mutex, holds <- held,
                                      line <- [m \in Mutex |-> Line(m)]

\* Mutual exclusion, recursion and first come first served, for callers.
ImplementsRecursiveLock == Locks!Spec

\* A task that waits for a mutex gets it, if critical sections are finite and
\* its users have the same priority.
LockEventuallyReturns == \A t \in Task : locking[t] # NULL ~> locking[t] = NULL
=============================================================================
