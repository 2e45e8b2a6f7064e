------------------------------- MODULE OsTask -------------------------------
(***************************************************************************)
(* The task scheduler: src/os_task.c, the timer tick of src/os_tick.c and  *)
(* the deferred context switch of arch/riscv64/interrupt_gcc.S, on the one *)
(* hart the kernel runs on.                                                *)
(*                                                                         *)
(* OS_ENTER_CRITICAL_AREA masks interrupts, so the body of a critical area *)
(* is one action.  A trap also runs with interrupts masked, but it is two  *)
(* actions: the C handler, which may change current_task, and the assembly *)
(* exit path, which is what really moves the hart to another task.         *)
(*                                                                         *)
(* A failed OS_ASSERT never returns (os_assert_handler ends in a trap that *)
(* prints and spins): it sets "halted" and the system stops.               *)
(***************************************************************************)
EXTENDS Naturals, Sequences, SequencesExt

CONSTANTS
  Task,              \* the kernel threads (os_task_t), initialised by os_task_init
  task_idle,         \* the idle thread, started by os_task_scheduler_init
  task_main,         \* the thread the idle thread starts
  NULL,              \* OS_NULL
  TASK_PRIORITY_MAX, \* the lowest priority; 0 is the highest
  priority,          \* task -> priority, fixed by os_task_init
  tick_init          \* task -> ticks of a time slice, fixed by os_task_init

Priority == 0..TASK_PRIORITY_MAX

ASSUME TaskAssumption ==
  /\ task_idle \in Task
  /\ task_main \in Task \ {task_idle}
  /\ NULL \notin Task
  /\ TASK_PRIORITY_MAX \in Nat
  /\ priority \in [Task -> Priority]
  /\ tick_init \in [Task -> Nat]

VARIABLES
  current_task,           \* the task the scheduler last chose, NULL before the start
  task_state,             \* task -> RUNNING, READY, SLEEPING or STOPPED
  task_list,              \* the tasks os_task_startup has been called for
  priority_ready_list,    \* priority -> sequence of the ready tasks
  tick_remaining,         \* task -> ticks left of its slice
  need_lazy_task_switch,  \* a switch is pending until the trap returns
  lazy_old_task,          \* ... from this task
  lazy_next_task,         \* ... to this one
  in_trap,                \* the hart is between trap entry and sret
  cpu,                    \* the task whose context the hart holds, NULL at boot
  halted                  \* an OS_ASSERT has failed

readyVars == <<task_state, task_list, priority_ready_list, tick_remaining>>
switchVars == <<need_lazy_task_switch, lazy_old_task, lazy_next_task, cpu>>
taskVars == <<current_task, readyVars, switchVars, in_trap, halted>>

TaskState == {"RUNNING", "READY", "SLEEPING", "STOPPED"}

Init ==
  /\ current_task = NULL
  /\ task_state = [t \in Task |-> "READY"]
  /\ task_list = {task_idle}
  /\ priority_ready_list =
       [p \in Priority |-> IF p = priority[task_idle] THEN <<task_idle>> ELSE <<>>]
  /\ tick_remaining = tick_init
  /\ need_lazy_task_switch = FALSE
  /\ lazy_old_task = NULL
  /\ lazy_next_task = NULL
  /\ in_trap = FALSE
  /\ cpu = NULL
  /\ halted = FALSE

-----------------------------------------------------------------------------
(***************************************************************************)
(* The scheduler, called with the task states st, the ready lists rd and   *)
(* the remaining ticks tk its caller has already written.                  *)
(***************************************************************************)

\* os_list_insert_tail and the removal of a list's head, on the ready lists.
insert_tail(rd, t) == [rd EXCEPT ![priority[t]] = Append(@, t)]
remove_head(rd, p) == [rd EXCEPT ![p] = Tail(@)]

\* Mutant: the scan stops one list short.
Nonempty_ShortScan(rd) == {p \in Priority : p < TASK_PRIORITY_MAX /\ rd[p] # <<>>}

\* The ready lists get_next_task finds something in.
Nonempty(rd) == {p \in Priority : rd[p] # <<>>}

\* Mutant: the scan runs from the other end.
get_next_task_LowestFirst(rd, p) == p \in Nonempty(rd) /\ \A q \in Nonempty(rd) : q <= p

\* The priority whose list get_next_task takes the head of.
get_next_task(rd, p) == p \in Nonempty(rd) /\ \A q \in Nonempty(rd) : p <= q

\* The switch itself: deferred to the trap exit inside an interrupt,
\* arch_task_switch otherwise.
Dispatch(old, next, irq) ==
  IF irq
  THEN /\ need_lazy_task_switch' = TRUE
       /\ lazy_old_task' = old
       /\ lazy_next_task' = next
       /\ cpu' = cpu
  ELSE /\ cpu' = next
       /\ UNCHANGED <<need_lazy_task_switch, lazy_old_task, lazy_next_task>>

\* The running task keeps the hart when every ready task has a lower priority.
KeepCurrent(st, rd, tk, p) ==
  /\ st[current_task] = "RUNNING"
  /\ p > priority[current_task]
  /\ task_state' = st
  /\ priority_ready_list' = rd
  /\ tick_remaining' = tk
  /\ UNCHANGED <<current_task, switchVars, halted>>

\* Mutant: the chosen task stays on its ready list.
SwitchTo_NoRemove(st, rd, tk, p, irq) ==
  /\ st[current_task] = "RUNNING" => p <= priority[current_task]
  /\ priority_ready_list' = IF st[current_task] = "RUNNING" THEN insert_tail(rd, current_task) ELSE rd
  /\ task_state' = [st EXCEPT ![current_task] = IF @ = "RUNNING" THEN "READY" ELSE @,
                              ![Head(rd[p])] = "RUNNING"]
  /\ current_task' = Head(rd[p])
  /\ tick_remaining' = tk
  /\ Dispatch(current_task, Head(rd[p]), irq)
  /\ UNCHANGED halted

\* Mutant: the outgoing task is requeued whatever its state.
SwitchTo_RequeueAlways(st, rd, tk, p, irq) ==
  /\ st[current_task] = "RUNNING" => p <= priority[current_task]
  /\ priority_ready_list' = insert_tail(remove_head(rd, p), current_task)
  /\ task_state' = [st EXCEPT ![current_task] = "READY", ![Head(rd[p])] = "RUNNING"]
  /\ current_task' = Head(rd[p])
  /\ tick_remaining' = tk
  /\ Dispatch(current_task, Head(rd[p]), irq)
  /\ UNCHANGED halted

\* Mutant: the outgoing task is requeued but still marked RUNNING.
SwitchTo_StaleState(st, rd, tk, p, irq) ==
  /\ st[current_task] = "RUNNING" => p <= priority[current_task]
  /\ priority_ready_list' = insert_tail(remove_head(rd, p), current_task)
  /\ task_state' = [st EXCEPT ![Head(rd[p])] = "RUNNING"]
  /\ current_task' = Head(rd[p])
  /\ tick_remaining' = tk
  /\ Dispatch(current_task, Head(rd[p]), irq)
  /\ UNCHANGED halted

\* Otherwise the head of list p takes it; a task that still runs goes to the
\* tail of its own list, and an exhausted slice is refilled.
SwitchTo(st, rd, tk, p, irq) ==
  LET next == Head(rd[p])
      preempted == st[current_task] = "RUNNING"
      rest == remove_head(rd, p)
  IN  /\ preempted => p <= priority[current_task]
      /\ priority_ready_list' = IF preempted THEN insert_tail(rest, current_task) ELSE rest
      /\ task_state' = [t \in Task |->
                          IF t = next THEN "RUNNING"
                          ELSE IF t = current_task /\ preempted THEN "READY" ELSE st[t]]
      /\ tick_remaining' = [tk EXCEPT ![current_task] = IF @ = 0 THEN tick_init[current_task] ELSE @]
      /\ current_task' = next
      /\ Dispatch(current_task, next, irq)
      /\ UNCHANGED halted

\* OS_ASSERT(next_task != OS_NULL): nothing is ready.
NothingReady(st, rd, tk) ==
  /\ Nonempty(rd) = {}
  /\ halted' = TRUE
  /\ task_state' = st
  /\ priority_ready_list' = rd
  /\ tick_remaining' = tk
  /\ UNCHANGED <<current_task, switchVars>>

os_task_schedule(st, rd, tk, irq) ==
  \/ NothingReady(st, rd, tk)
  \/ \E p \in Priority :
       /\ get_next_task(rd, p)
       /\ KeepCurrent(st, rd, tk, p) \/ SwitchTo(st, rd, tk, p, irq)

-----------------------------------------------------------------------------
(***************************************************************************)
(* Calls made by the running task "self".                                  *)
(***************************************************************************)

\* The hart executes self's code, outside any trap.
OnCpu(self) == ~halted /\ ~in_trap /\ cpu = self

\* Task code can call into the kernel.
Runs(self) == OnCpu(self) /\ task_state[self] = "RUNNING"

\* The first context switch, from the boot stack; the timer is still masked.
os_task_scheduler_start ==
  /\ current_task = NULL
  /\ current_task' = task_idle
  /\ task_state' = [task_state EXCEPT ![task_idle] = "RUNNING"]
  /\ priority_ready_list' = remove_head(priority_ready_list, priority[task_idle])
  /\ cpu' = task_idle
  /\ UNCHANGED <<task_list, tick_remaining, need_lazy_task_switch, lazy_old_task,
                 lazy_next_task, in_trap, halted>>

\* A task is put on the ready list; nothing is scheduled.
os_task_startup(self, t) ==
  /\ Runs(self)
  /\ t \notin task_list
  /\ task_list' = task_list \cup {t}
  /\ priority_ready_list' = insert_tail(priority_ready_list, t)
  /\ UNCHANGED <<current_task, task_state, tick_remaining, switchVars, in_trap, halted>>

os_task_yield(self) ==
  /\ Runs(self)
  /\ os_task_schedule(task_state, priority_ready_list, tick_remaining, FALSE)
  /\ UNCHANGED <<task_list, in_trap>>

\* The body of os_task_sleep, for the callers that add to it.
SleepCurrent ==
  /\ os_task_schedule([task_state EXCEPT ![current_task] = "SLEEPING"],
                      priority_ready_list, tick_remaining, FALSE)
  /\ UNCHANGED <<task_list, in_trap>>

os_task_sleep(self) == Runs(self) /\ SleepCurrent

\* Mutant: the woken task is queued, and nothing is scheduled.
Wakeup_NoSchedule(t) ==
  IF task_state[t] = "SLEEPING"
  THEN /\ task_state' = [task_state EXCEPT ![t] = "READY"]
       /\ priority_ready_list' = insert_tail(priority_ready_list, t)
       /\ UNCHANGED <<current_task, task_list, tick_remaining, switchVars, in_trap, halted>>
  ELSE UNCHANGED taskVars

\* The body of os_task_wakeup: only a sleeping task is made ready, and the
\* scheduler runs at once.
Wakeup(t) ==
  IF task_state[t] = "SLEEPING"
  THEN /\ os_task_schedule([task_state EXCEPT ![t] = "READY"],
                           insert_tail(priority_ready_list, t), tick_remaining, FALSE)
       /\ UNCHANGED <<task_list, in_trap>>
  ELSE UNCHANGED taskVars

os_task_wakeup(self, t) == Runs(self) /\ Wakeup(t)

\* os_syscall_exit stops the task in one critical area ...
os_syscall_exit(self) ==
  /\ Runs(self)
  /\ task_state' = [task_state EXCEPT ![current_task] = "STOPPED"]
  /\ UNCHANGED <<current_task, task_list, priority_ready_list, tick_remaining,
                 switchVars, in_trap, halted>>

\* ... and schedules in another: a tick can come between the two.
os_syscall_exit_schedule(self) ==
  /\ OnCpu(self)
  /\ task_state[self] = "STOPPED"
  /\ os_task_schedule(task_state, priority_ready_list, tick_remaining, FALSE)
  /\ UNCHANGED <<task_list, in_trap>>

\* The idle thread starts task_main, then yields for ever.
os_task_idle_entry ==
  \/ os_task_startup(task_idle, task_main)
  \/ task_main \in task_list /\ os_task_yield(task_idle)

-----------------------------------------------------------------------------
(***************************************************************************)
(* The timer interrupt.                                                    *)
(***************************************************************************)

\* Mutant: the count is not tested before it is decremented.
os_tick_handler_Underflow ==
  /\ ~halted /\ ~in_trap /\ cpu # NULL
  /\ in_trap' = TRUE
  /\ tick_remaining' = [tick_remaining EXCEPT ![current_task] = @ - 1]
  /\ UNCHANGED <<current_task, task_state, task_list, priority_ready_list, switchVars, halted>>

\* Mutant: an exhausted slice is refilled and the task goes on.
os_tick_handler_NoSchedule ==
  /\ ~halted /\ ~in_trap /\ cpu # NULL
  /\ in_trap' = TRUE
  /\ tick_remaining' = [tick_remaining EXCEPT
                          ![current_task] = IF @ > 0 THEN @ - 1 ELSE tick_init[current_task]]
  /\ UNCHANGED <<current_task, task_state, task_list, priority_ready_list, switchVars, halted>>

os_tick_handler ==
  /\ ~halted
  /\ ~in_trap
  /\ cpu # NULL
  /\ in_trap' = TRUE
  /\ \/ /\ tick_remaining[current_task] > 0
        /\ tick_remaining' = [tick_remaining EXCEPT ![current_task] = @ - 1]
        /\ UNCHANGED <<current_task, task_state, task_list, priority_ready_list, switchVars, halted>>
     \/ /\ tick_remaining[current_task] = 0
        /\ os_task_schedule(task_state, priority_ready_list,
                            [tick_remaining EXCEPT ![current_task] = tick_init[current_task]], TRUE)
        /\ UNCHANGED task_list

\* Mutant: the request flag is not cleared.
trap_exit_FlagKept ==
  /\ ~halted /\ in_trap
  /\ in_trap' = FALSE
  /\ cpu' = IF need_lazy_task_switch THEN lazy_next_task ELSE cpu
  /\ UNCHANGED <<current_task, readyVars, need_lazy_task_switch, lazy_old_task, lazy_next_task, halted>>

\* The assembly after trap_handler: carry out a pending switch, then sret.
trap_exit ==
  /\ ~halted
  /\ in_trap
  /\ in_trap' = FALSE
  /\ need_lazy_task_switch' = FALSE
  /\ cpu' = IF need_lazy_task_switch THEN lazy_next_task ELSE cpu
  /\ UNCHANGED <<current_task, readyVars, lazy_old_task, lazy_next_task, halted>>

-----------------------------------------------------------------------------
TaskCall(self) ==
  \/ os_task_yield(self)
  \/ os_task_sleep(self)
  \/ \E t \in Task : os_task_startup(self, t) \/ os_task_wakeup(self, t)
  \/ os_syscall_exit(self)
  \/ os_syscall_exit_schedule(self)

Next ==
  \/ os_task_scheduler_start
  \/ os_task_idle_entry
  \/ \E self \in Task \ {task_idle} : TaskCall(self)
  \/ os_tick_handler
  \/ trap_exit

(***************************************************************************)
(* The timer keeps firing, since every critical area ends by unmasking     *)
(* interrupts, and a trap handler returns.  Nothing is assumed of what     *)
(* tasks do with their time: even the idle loop and the second half of an  *)
(* exit may be slow for ever.                                              *)
(***************************************************************************)
Fairness ==
  /\ WF_taskVars(os_task_scheduler_start)
  /\ WF_taskVars(os_tick_handler)
  /\ WF_taskVars(trap_exit)

Spec == Init /\ [][Next]_taskVars /\ Fairness

-----------------------------------------------------------------------------
TypeOK ==
  /\ current_task \in Task \cup {NULL}
  /\ task_state \in [Task -> TaskState]
  /\ task_list \in SUBSET Task
  /\ priority_ready_list \in [Priority -> Seq(Task)]
  /\ tick_remaining \in [Task -> Nat]
  /\ need_lazy_task_switch \in BOOLEAN
  /\ lazy_old_task \in Task \cup {NULL}
  /\ lazy_next_task \in Task \cup {NULL}
  /\ in_trap \in BOOLEAN
  /\ cpu \in Task \cup {NULL}
  /\ halted \in BOOLEAN

Started(t, s) == t \in task_list /\ task_state[t] = s

\* The ready lists hold exactly the started tasks that are READY, each once and
\* in the list of its own priority: a task never runs from two lists, is never
\* lost by a switch, and a sleeper or the running task is in none
\* (insertions and removals of os_task_schedule, os_task_startup, os_task_wakeup).
ReadyListsExact ==
  \A p \in Priority :
    /\ IsInjective(priority_ready_list[p])
    /\ \A t \in Task :
         Contains(priority_ready_list[p], t) <=> priority[t] = p /\ Started(t, "READY")

\* Only current_task is RUNNING; while the system lives current_task is RUNNING,
\* or STOPPED between the two halves of os_syscall_exit, and the idle thread
\* stays runnable.
CurrentIsRunning ==
  /\ \A t \in Task : task_state[t] = "RUNNING" => t = current_task
  /\ current_task # NULL =>
       /\ current_task \in task_list
       /\ ~halted => task_state[current_task] \in {"RUNNING", "STOPPED"}
  /\ task_idle \in task_list
  /\ task_state[task_idle] \in {"READY", "RUNNING"}
  /\ \A t \in Task \ task_list : task_state[t] = "READY"

\* Outside a trap the hart runs what the scheduler chose.  Inside one it still
\* runs the interrupted task, and a pending switch leads from exactly that task
\* to current_task (need_lazy_task_switch and its consumer in interrupt_gcc.S).
HartFollowsScheduler ==
  IF need_lazy_task_switch
  THEN in_trap /\ lazy_old_task = cpu /\ lazy_next_task = current_task
  ELSE cpu = current_task

\* The assertion of os_task_schedule can fail only when the idle thread is the
\* one running and every other started task sleeps or has stopped.
HaltsOnlyWhenIdle ==
  halted => /\ current_task = task_idle
            /\ \A t \in task_list \ {task_idle} : task_state[t] \in {"SLEEPING", "STOPPED"}

\* A switch never passes over a ready task of higher priority: get_next_task and
\* the priority test of os_task_schedule, on every path that reaches them.
SwitchesToHighest ==
  [][ current_task' # current_task /\ current_task # NULL =>
        \A t \in Task : Started(t, "READY")' => priority[current_task'] <= priority[t] ]_taskVars

\* A ready task of higher priority than the current one exists only because
\* os_task_startup, which does not schedule, put it there: waking, preempting,
\* sleeping and exiting never leave the hart with a lower priority.
Outranked ==
  /\ current_task # NULL
  /\ \E t \in Task : Started(t, "READY") /\ priority[t] < priority[current_task]
OnlyStartupOutranks ==
  [][ Outranked' => Outranked \/ task_list' # task_list ]_taskVars

\* A stopped task is never made runnable again, though a tick may find it still
\* current after os_syscall_exit has marked it.
StoppedStaysStopped ==
  [][ \A t \in Task : task_state[t] = "STOPPED" => task_state'[t] = "STOPPED" ]_taskVars

\* Round robin: a started READY task with no runnable task of higher priority
\* does not stay READY for ever; the ticks of its peers run out.
HighestReady(t) ==
  /\ Started(t, "READY")
  /\ \A u \in Task : priority[u] < priority[t] =>
       ~(Started(u, "READY") \/ Started(u, "RUNNING"))
PeersTakeTurns == \A t \in Task : []<>(~HighestReady(t))
=============================================================================
