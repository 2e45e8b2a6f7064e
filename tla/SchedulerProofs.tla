-------------------------- MODULE SchedulerProofs --------------------------
(***************************************************************************)
(* Proofs about the scheduler, wait queues and mutexes, for every set of   *)
(* tasks, priorities, slices, queues and mutexes and every nesting depth.  *)
(*                                                                         *)
(* Every path through the kernel ends in os_task_schedule, called with     *)
(* states and lists its caller has already changed.  SchedulablePre says   *)
(* what the callers establish, lemma ScheduleStep what the scheduler makes *)
(* of it; each action is then one application of the lemma.                *)
(*                                                                         *)
(* The second part uses the scheduler's proof as it stands: a step of a    *)
(* mutex is a step of the scheduler.  What mutexes need to know beyond     *)
(* SchedInv is who sleeps: its first lemmas say what each call does to the *)
(* sleepers.                                                               *)
(***************************************************************************)
EXTENDS OsMutex, TLAPS

-----------------------------------------------------------------------------
(***************************************************************************)
(* Sequences without repetition: appending and removing the head.          *)
(***************************************************************************)

\* os_list_insert_tail adds exactly one element.
LEMMA AppendContains ==
  ASSUME NEW S, NEW s \in Seq(S), NEW e \in S
  PROVE  /\ Append(s, e) \in Seq(S)
         /\ \A x : Contains(Append(s, e), x) <=> Contains(s, x) \/ x = e
         /\ IsInjective(s) /\ ~Contains(s, e) => IsInjective(Append(s, e))
<1>1. /\ Append(s, e) \in Seq(S)
      /\ Len(Append(s, e)) = Len(s) + 1
      /\ \A i \in 1..Len(s) : Append(s, e)[i] = s[i]
      /\ Append(s, e)[Len(s) + 1] = e
      /\ DOMAIN Append(s, e) = 1..(Len(s) + 1)
      /\ DOMAIN s = 1..Len(s)
      /\ Len(s) \in Nat
  OBVIOUS
<1>2. \A x : Contains(Append(s, e), x) <=> Contains(s, x) \/ x = e
  BY <1>1 DEF Contains
<1>3. ASSUME IsInjective(s), ~Contains(s, e)
      PROVE  IsInjective(Append(s, e))
  BY <1>1, <1>3 DEF Contains, IsInjective
<1>. QED BY <1>1, <1>2, <1>3

\* Removing the head of a list without repetition removes exactly that element.
LEMMA TailContains ==
  ASSUME NEW S, NEW s \in Seq(S), s # <<>>, IsInjective(s)
  PROVE  /\ Head(s) \in S
         /\ Tail(s) \in Seq(S)
         /\ IsInjective(Tail(s))
         /\ Contains(s, Head(s))
         /\ \A x : Contains(Tail(s), x) <=> Contains(s, x) /\ x # Head(s)
<1>1. /\ Tail(s) \in Seq(S)
      /\ Len(Tail(s)) = Len(s) - 1
      /\ \A i \in 1..(Len(s) - 1) : Tail(s)[i] = s[i + 1]
      /\ DOMAIN Tail(s) = 1..(Len(s) - 1)
      /\ DOMAIN s = 1..Len(s)
      /\ Len(s) \in Nat
      /\ Len(s) > 0
      /\ Head(s) = s[1]
      /\ Head(s) \in S
  OBVIOUS
<1>2. IsInjective(Tail(s))
  BY <1>1 DEF IsInjective
<1>3. Contains(s, Head(s))
  BY <1>1 DEF Contains
<1>4. \A x : Contains(Tail(s), x) => Contains(s, x) /\ x # Head(s)
  BY <1>1 DEF Contains, IsInjective
<1>5. ASSUME NEW x, Contains(s, x), x # Head(s)
      PROVE  Contains(Tail(s), x)
  <2>1. PICK i \in 1..Len(s) : s[i] = x
    BY <1>5 DEF Contains
  <2>2. i - 1 \in 1..(Len(s) - 1) /\ Tail(s)[i - 1] = x
    BY <1>1, <1>5, <2>1
  <2>. QED BY <1>1, <2>2 DEF Contains
<1>. QED BY <1>1, <1>2, <1>3, <1>4, <1>5

-----------------------------------------------------------------------------
(***************************************************************************)
(* The inductive invariant.                                                *)
(***************************************************************************)

\* Before the first switch only the idle thread has been started.
Booting == current_task = NULL => ~in_trap /\ ~halted /\ task_list = {task_idle}

SchedInv ==
  /\ TypeOK
  /\ ReadyListsExact
  /\ CurrentIsRunning
  /\ HartFollowsScheduler
  /\ HaltsOnlyWhenIdle
  /\ Booting

\* ReadyListsExact of given states and lists.
Exact(st, rd) ==
  \A p \in Priority :
    /\ IsInjective(rd[p])
    /\ \A t \in Task :
         Contains(rd[p], t) <=> priority[t] = p /\ t \in task_list /\ st[t] = "READY"

\* CurrentIsRunning of given states, except that current_task may be going to
\* sleep.
OneRuns(st) ==
  /\ current_task \in task_list
  /\ st[current_task] # "READY"
  /\ \A t \in Task : st[t] = "RUNNING" => t = current_task
  /\ task_idle \in task_list
  /\ st[task_idle] \in {"READY", "RUNNING"}
  /\ \A t \in Task \ task_list : st[t] = "READY"

\* What every step does: it keeps the invariant, revives no stopped task, and
\* after a switch, or unless it started a task, no ready task outranks the
\* current one more than before.
StepOK ==
  /\ SchedInv'
  /\ \A t \in Task : task_state[t] = "STOPPED" => task_state'[t] = "STOPPED"
  /\ current_task' # current_task => current_task' \in Task /\ ~Outranked'
  /\ Outranked' => Outranked \/ task_list' # task_list

\* What the callers of os_task_schedule establish.
SchedulablePre(st, rd, tk, irq) ==
  /\ TypeOK
  /\ st \in [Task -> TaskState]
  /\ rd \in [Priority -> Seq(Task)]
  /\ tk \in [Task -> Nat]
  /\ irq \in BOOLEAN
  /\ Exact(st, rd)
  /\ OneRuns(st)
  /\ \A t \in Task : task_state[t] = "STOPPED" => st[t] = "STOPPED"
  /\ ~halted /\ ~need_lazy_task_switch /\ cpu = current_task
  /\ task_list' = task_list
  /\ in_trap' = irq

\* The head of the list get_next_task chooses is a started READY task of that
\* priority, none is more urgent, and it is not the current one.
LEMMA NextTask ==
  ASSUME NEW st, NEW rd, NEW tk, NEW irq, SchedulablePre(st, rd, tk, irq),
         NEW p \in Priority, get_next_task(rd, p)
  PROVE  /\ Head(rd[p]) \in Task
         /\ Head(rd[p]) \in task_list
         /\ Head(rd[p]) # current_task
         /\ priority[Head(rd[p])] = p
         /\ st[Head(rd[p])] = "READY"
         /\ \A t \in task_list : st[t] = "READY" => p <= priority[t]
<1>. USE TaskAssumption DEF SchedulablePre
<1>1. rd[p] # <<>> /\ rd[p] \in Seq(Task) /\ IsInjective(rd[p])
  BY DEF get_next_task, Nonempty, Exact
<1>2. Head(rd[p]) \in Task /\ Contains(rd[p], Head(rd[p]))
  BY <1>1, TailContains
<1>3. /\ Head(rd[p]) \in task_list
      /\ priority[Head(rd[p])] = p
      /\ st[Head(rd[p])] = "READY"
  BY <1>2 DEF Exact
<1>4. Head(rd[p]) # current_task
  BY <1>3 DEF OneRuns
<1>5. ASSUME NEW t \in task_list, st[t] = "READY"
      PROVE  p <= priority[t]
  <2>1. t \in Task /\ priority[t] \in Priority
    BY DEF TypeOK
  <2>2. Contains(rd[priority[t]], t)
    BY <1>5, <2>1 DEF Exact
  <2>3. rd[priority[t]] # <<>>
    BY <2>1, <2>2 DEF Contains
  <2>. QED BY <2>1, <2>3 DEF get_next_task, Nonempty
<1>. QED BY <1>2, <1>3, <1>4, <1>5

\* A switch moves the chosen task out of the ready lists and a preempted one in,
\* and changes nothing else about them.
LEMMA SwitchLists ==
  ASSUME NEW st, NEW rd, NEW tk, NEW irq, SchedulablePre(st, rd, tk, irq),
         NEW p \in Priority, get_next_task(rd, p), SwitchTo(st, rd, tk, p, irq)
  PROVE  /\ priority_ready_list' \in [Priority -> Seq(Task)]
         /\ ReadyListsExact'
<1>. DEFINE next == Head(rd[p])
            rest == remove_head(rd, p)
            back == st[current_task] = "RUNNING"
            home == priority[current_task]
<1>1. /\ next \in Task /\ next \in task_list /\ next # current_task
      /\ priority[next] = p /\ st[next] = "READY"
  BY NextTask
<1>. USE TaskAssumption DEF SchedulablePre
<1>2. current_task \in Task /\ home \in Priority /\ st[current_task] # "READY"
  BY DEF OneRuns, TypeOK
<1>3. /\ rest \in [Priority -> Seq(Task)]
      /\ \A q \in Priority :
           /\ IsInjective(rest[q])
           /\ \A t \in Task : Contains(rest[q], t) <=>
                priority[t] = q /\ t \in task_list /\ st[t] = "READY" /\ t # next
  <2>1. /\ rd[p] # <<>> /\ rd[p] \in Seq(Task) /\ IsInjective(rd[p])
        /\ rd \in [Priority -> Seq(Task)]
    BY DEF get_next_task, Nonempty, Exact
  <2>2. /\ Tail(rd[p]) \in Seq(Task)
        /\ IsInjective(Tail(rd[p]))
        /\ \A x : Contains(Tail(rd[p]), x) <=> Contains(rd[p], x) /\ x # next
    BY <2>1, TailContains
  <2>3. rest = [rd EXCEPT ![p] = Tail(rd[p])]
    BY DEF remove_head
  <2>4. rest \in [Priority -> Seq(Task)] /\ rest[p] = Tail(rd[p])
        /\ \A q \in Priority : q # p => rest[q] = rd[q]
    BY <2>2, <2>3
  <2>. HIDE DEF rest, next
  <2>5. ASSUME NEW q \in Priority
        PROVE  /\ IsInjective(rest[q])
               /\ \A t \in Task : Contains(rest[q], t) <=>
                    priority[t] = q /\ t \in task_list /\ st[t] = "READY" /\ t # next
    <3>1. CASE q = p
      <4>1. rest[q] = Tail(rd[p])
        BY <2>4, <3>1
      <4>2. \A t \in Task : Contains(rd[p], t) <=>
              priority[t] = q /\ t \in task_list /\ st[t] = "READY"
        BY <3>1 DEF Exact
      <4>. QED BY <2>2, <4>1, <4>2
    <3>2. CASE q # p
      BY <1>1, <2>4, <3>2 DEF Exact
    <3>. QED BY <3>1, <3>2
  <2>. QED BY <2>4, <2>5
<1>4. /\ task_state' = [t \in Task |-> IF t = next THEN "RUNNING"
                                     ELSE IF t = current_task /\ back THEN "READY" ELSE st[t]]
      /\ priority_ready_list' = IF back THEN insert_tail(rest, current_task) ELSE rest
  BY DEF SwitchTo
<1>. HIDE DEF rest, next
<1>5. CASE ~back
  BY <1>1, <1>2, <1>3, <1>4, <1>5 DEF ReadyListsExact, Started
<1>6. CASE back
  <2>1. ~Contains(rest[home], current_task)
    BY <1>2, <1>3
  <2>2. /\ Append(rest[home], current_task) \in Seq(Task)
        /\ \A x : Contains(Append(rest[home], current_task), x)
                    <=> Contains(rest[home], x) \/ x = current_task
        /\ IsInjective(Append(rest[home], current_task))
    BY <1>2, <1>3, <2>1, AppendContains
  <2>3. priority_ready_list' = [rest EXCEPT ![home] = Append(rest[home], current_task)]
    BY <1>4, <1>6 DEF insert_tail
  <2>4. /\ priority_ready_list' \in [Priority -> Seq(Task)]
        /\ priority_ready_list'[home] = Append(rest[home], current_task)
        /\ \A q \in Priority : q # home => priority_ready_list'[q] = rest[q]
    BY <1>2, <1>3, <2>2, <2>3
  <2>5. \A t \in Task : (t \in task_list' /\ task_state'[t] = "READY")
                          <=> t = current_task \/ (t \in task_list /\ st[t] = "READY" /\ t # next)
    BY <1>1, <1>2, <1>4, <1>6 DEF OneRuns
  <2>6. ASSUME NEW q \in Priority
        PROVE  /\ IsInjective(priority_ready_list'[q])
               /\ \A t \in Task : Contains(priority_ready_list'[q], t) <=>
                    priority[t] = q /\ t \in task_list' /\ task_state'[t] = "READY"
    <3>1. CASE q = home
      <4>1. priority_ready_list'[q] = Append(rest[home], current_task)
        BY <2>4, <3>1
      <4>2. \A t \in Task : Contains(rest[home], t) <=>
              priority[t] = q /\ t \in task_list /\ st[t] = "READY" /\ t # next
        BY <1>2, <1>3, <3>1
      <4>3. priority[current_task] = q
        BY <3>1
      <4>. HIDE DEF home
      <4>. QED BY <2>2, <2>5, <4>1, <4>2, <4>3
    <3>2. CASE q # home
      BY <1>3, <2>4, <2>5, <3>2
    <3>. QED BY <3>1, <3>2
  <2>. QED BY <2>4, <2>6 DEF ReadyListsExact, Started
<1>. QED BY <1>5, <1>6

\* Whatever os_task_schedule does, it restores the invariant, and no ready task
\* is left that outranks the current one.
LEMMA ScheduleStep ==
  ASSUME NEW st, NEW rd, NEW tk, NEW irq, SchedulablePre(st, rd, tk, irq),
         os_task_schedule(st, rd, tk, irq)
  PROVE  StepOK
<1>1. /\ current_task \in Task /\ current_task # NULL
      /\ priority[current_task] \in Priority
      /\ tick_init \in [Task -> Nat]
  BY TaskAssumption DEF SchedulablePre, OneRuns, TypeOK
<1>2. CASE NothingReady(st, rd, tk)
  <2>. USE <1>2 DEF NothingReady, SchedulablePre
  <2>1. TypeOK'
    BY DEF TypeOK, switchVars
  <2>2. ReadyListsExact'
    BY DEF Exact, ReadyListsExact, Started
  <2>3. CurrentIsRunning'
    BY <1>1 DEF OneRuns, CurrentIsRunning
  <2>4. HartFollowsScheduler'
    BY DEF HartFollowsScheduler, switchVars
  <2>5. \A t \in task_list : st[t] # "READY"
    <3>1. SUFFICES ASSUME NEW t \in task_list, st[t] = "READY" PROVE FALSE
      OBVIOUS
    <3>2. t \in Task /\ priority[t] \in Priority
      BY TaskAssumption DEF TypeOK
    <3>3. Contains(rd[priority[t]], t)
      BY <3>1, <3>2 DEF Exact
    <3>4. rd[priority[t]] # <<>>
      BY <3>2, <3>3 DEF Contains
    <3>. QED BY <3>2, <3>4 DEF Nonempty
  <2>6. HaltsOnlyWhenIdle'
    BY <2>5, TaskAssumption DEF HaltsOnlyWhenIdle, OneRuns, TypeOK, TaskState
  <2>7. Booting'
    BY <1>1 DEF Booting
  <2>8. ~Outranked'
    BY <2>5 DEF Outranked, Started
  <2>. QED BY <2>1, <2>2, <2>3, <2>4, <2>6, <2>7, <2>8 DEF SchedInv, StepOK
<1>3. ASSUME NEW p \in Priority, get_next_task(rd, p), KeepCurrent(st, rd, tk, p)
      PROVE  StepOK
  <2>. USE <1>3 DEF KeepCurrent, SchedulablePre
  <2>1. TypeOK'
    BY DEF TypeOK, switchVars
  <2>2. ReadyListsExact'
    BY DEF Exact, ReadyListsExact, Started
  <2>3. CurrentIsRunning'
    BY <1>1 DEF OneRuns, CurrentIsRunning
  <2>4. HartFollowsScheduler'
    BY DEF HartFollowsScheduler, switchVars
  <2>5. HaltsOnlyWhenIdle' /\ Booting'
    BY <1>1 DEF HaltsOnlyWhenIdle, Booting
  <2>6. \A t \in task_list : st[t] = "READY" => p <= priority[t]
    BY <1>3, NextTask
  <2>7. ~Outranked'
    <3>1. ASSUME NEW t \in Task, t \in task_list, st[t] = "READY",
                 priority[t] < priority[current_task]
          PROVE  FALSE
      <4>1. p <= priority[t] /\ p > priority[current_task]
        BY <2>6, <3>1
      <4>2. p \in Nat /\ priority[t] \in Nat /\ priority[current_task] \in Nat
        BY <1>1, TaskAssumption DEF Priority
      <4>. QED BY <3>1, <4>1, <4>2
    <3>. QED BY <3>1 DEF Outranked, Started
  <2>. QED BY <2>1, <2>2, <2>3, <2>4, <2>5, <2>7 DEF SchedInv, StepOK
<1>4. ASSUME NEW p \in Priority, get_next_task(rd, p), SwitchTo(st, rd, tk, p, irq)
      PROVE  StepOK
  <2>. DEFINE next == Head(rd[p])
  <2>1. /\ next \in Task /\ next \in task_list /\ next # current_task
        /\ st[next] = "READY" /\ priority[next] = p
        /\ \A t \in task_list : st[t] = "READY" => p <= priority[t]
    BY <1>4, NextTask
  <2>2. /\ priority_ready_list' \in [Priority -> Seq(Task)]
        /\ ReadyListsExact'
    BY <1>4, SwitchLists
  <2>3. /\ task_state' = [t \in Task |->
             IF t = next THEN "RUNNING"
             ELSE IF t = current_task /\ st[current_task] = "RUNNING" THEN "READY" ELSE st[t]]
        /\ tick_remaining' = [tk EXCEPT ![current_task] =
                               IF @ = 0 THEN tick_init[current_task] ELSE @]
        /\ current_task' = next
        /\ Dispatch(current_task, next, irq)
        /\ halted' = halted
        /\ st[current_task] = "RUNNING" => p <= priority[current_task]
    BY <1>4 DEF SwitchTo
  <2>. HIDE DEF next
  <2>. USE DEF SchedulablePre
  <2>4. TypeOK'
    <3>1. task_state' \in [Task -> TaskState]
      BY <2>3 DEF TaskState
    <3>2. tick_remaining' \in [Task -> Nat]
      BY <1>1, <2>3
    <3>. QED BY <1>1, <2>1, <2>2, <2>3, <3>1, <3>2 DEF TypeOK, Dispatch
  <2>5. CurrentIsRunning'
    BY <1>1, <2>1, <2>3, TaskAssumption DEF CurrentIsRunning, OneRuns, TypeOK
  <2>6. HartFollowsScheduler'
    BY <2>3 DEF HartFollowsScheduler, Dispatch
  <2>7. HaltsOnlyWhenIdle' /\ Booting'
    BY <2>1, <2>3, TaskAssumption DEF HaltsOnlyWhenIdle, Booting
  <2>8. ~Outranked'
    <3>1. ASSUME NEW t \in Task, t \in task_list, task_state'[t] = "READY", priority[t] < p
          PROVE  FALSE
      <4>1. t # next /\ (st[t] = "READY" \/ (t = current_task /\ st[t] = "RUNNING"))
        BY <2>3, <3>1
      <4>2. p <= priority[t]
        BY <2>1, <2>3, <3>1, <4>1
      <4>3. p \in Nat /\ priority[t] \in Nat
        BY TaskAssumption DEF Priority
      <4>. QED BY <3>1, <4>2, <4>3
    <3>. QED BY <2>1, <2>3, <3>1 DEF Outranked, Started
  <2>9. \A t \in Task : task_state[t] = "STOPPED" => task_state'[t] = "STOPPED"
    BY <2>1, <2>3
  <2>. QED BY <2>1, <2>2, <2>3, <2>4, <2>5, <2>6, <2>7, <2>8, <2>9 DEF SchedInv, StepOK
<1>. QED BY <1>2, <1>3, <1>4 DEF os_task_schedule

-----------------------------------------------------------------------------
(***************************************************************************)
(* The invariant holds at boot and every action keeps it.                  *)
(***************************************************************************)

LEMMA InitInv == Init => SchedInv
<1>. SUFFICES ASSUME Init PROVE SchedInv
  OBVIOUS
<1>. USE TaskAssumption DEF Init
<1>1. TypeOK
  <2>1. <<>> \in Seq(Task) /\ <<task_idle>> \in Seq(Task)
    OBVIOUS
  <2>2. priority_ready_list \in [Priority -> Seq(Task)]
    BY <2>1
  <2>3. task_state \in [Task -> TaskState]
    BY DEF TaskState
  <2>. QED BY <2>2, <2>3 DEF TypeOK
<1>2. ReadyListsExact
  <2>1. SUFFICES ASSUME NEW p \in Priority
                 PROVE  /\ IsInjective(priority_ready_list[p])
                        /\ \A t \in Task : Contains(priority_ready_list[p], t)
                             <=> priority[t] = p /\ Started(t, "READY")
    BY DEF ReadyListsExact
  <2>2. CASE p = priority[task_idle]
    <3>1. priority_ready_list[p] = <<task_idle>>
      BY <2>2
    <3>2. IsInjective(<<task_idle>>) /\ \A x : Contains(<<task_idle>>, x) <=> x = task_idle
      BY DEF IsInjective, Contains
    <3>. QED BY <2>2, <3>1, <3>2 DEF Started
  <2>3. CASE p # priority[task_idle]
    <3>1. priority_ready_list[p] = <<>>
      BY <2>3
    <3>2. IsInjective(<<>>) /\ \A x : ~Contains(<<>>, x)
      BY DEF IsInjective, Contains
    <3>. QED BY <2>3, <3>1, <3>2 DEF Started
  <2>. QED BY <2>2, <2>3
<1>3. CurrentIsRunning /\ HartFollowsScheduler /\ HaltsOnlyWhenIdle /\ Booting
  BY DEF CurrentIsRunning, HartFollowsScheduler, HaltsOnlyWhenIdle, Booting
<1>. QED BY <1>1, <1>2, <1>3 DEF SchedInv

\* The ready lists rd hold exactly the tasks of R.
Holds(rd, R) ==
  \A p \in Priority :
    /\ IsInjective(rd[p])
    /\ \A t \in Task : Contains(rd[p], t) <=> priority[t] = p /\ t \in R

ReadySet(L, st) == {t \in Task : t \in L /\ st[t] = "READY"}

\* Adding a task that is in no list to the list of its priority.
LEMMA InsertExact ==
  ASSUME NEW t \in Task, NEW rd \in [Priority -> Seq(Task)], NEW R, Holds(rd, R), t \notin R
  PROVE  /\ insert_tail(rd, t) \in [Priority -> Seq(Task)]
         /\ Holds(insert_tail(rd, t), R \cup {t})
<1>. DEFINE home == priority[t]
<1>1. home \in Priority /\ ~Contains(rd[home], t)
  BY TaskAssumption DEF Holds
<1>2. /\ Append(rd[home], t) \in Seq(Task)
      /\ \A x : Contains(Append(rd[home], t), x) <=> Contains(rd[home], x) \/ x = t
      /\ IsInjective(Append(rd[home], t))
  BY <1>1, AppendContains DEF Holds
<1>3. insert_tail(rd, t) = [rd EXCEPT ![home] = Append(rd[home], t)]
  BY DEF insert_tail
<1>4. /\ insert_tail(rd, t) \in [Priority -> Seq(Task)]
      /\ insert_tail(rd, t)[home] = Append(rd[home], t)
      /\ \A q \in Priority : q # home => insert_tail(rd, t)[q] = rd[q]
  BY <1>1, <1>2, <1>3
<1>5. ASSUME NEW p \in Priority
      PROVE  /\ IsInjective(insert_tail(rd, t)[p])
             /\ \A u \in Task : Contains(insert_tail(rd, t)[p], u)
                  <=> priority[u] = p /\ u \in R \cup {t}
  <2>1. CASE p = home
    <3>1. insert_tail(rd, t)[p] = Append(rd[home], t)
      BY <1>4, <2>1
    <3>2. \A u \in Task : Contains(rd[home], u) <=> priority[u] = p /\ u \in R
      BY <2>1 DEF Holds
    <3>3. priority[t] = p
      BY <2>1
    <3>. HIDE DEF home
    <3>. QED BY <1>2, <3>1, <3>2, <3>3
  <2>2. CASE p # home
    BY <1>4, <2>2 DEF Holds
  <2>. QED BY <2>1, <2>2
<1>. QED BY <1>4, <1>5 DEF Holds

\* What a call of the running task may assume.
LEMMA AtCall ==
  ASSUME SchedInv, NEW self \in Task, OnCpu(self)
  PROVE  /\ current_task = self /\ cpu = self
         /\ self \in task_list
         /\ task_state[self] \in {"RUNNING", "STOPPED"}
         /\ ~need_lazy_task_switch /\ ~halted /\ ~in_trap
BY TaskAssumption DEF SchedInv, OnCpu, HartFollowsScheduler, CurrentIsRunning

\* A step of something else changes nothing here.
LEMMA StutterStep == SchedInv /\ UNCHANGED taskVars => StepOK
BY DEF SchedInv, TypeOK, ReadyListsExact, Started, CurrentIsRunning, HartFollowsScheduler,
       HaltsOnlyWhenIdle, Booting, taskVars, readyVars, switchVars, StepOK, Outranked

\* The first switch takes the idle thread off its list.
LEMMA StartStep ==
  ASSUME SchedInv, os_task_scheduler_start
  PROVE  StepOK
<1>. USE TaskAssumption
<1>. DEFINE p0 == priority[task_idle]
<1>1. /\ current_task = NULL /\ current_task' = task_idle
      /\ task_state' = [task_state EXCEPT ![task_idle] = "RUNNING"]
      /\ priority_ready_list' = remove_head(priority_ready_list, p0)
      /\ cpu' = task_idle
      /\ UNCHANGED <<task_list, tick_remaining, need_lazy_task_switch, lazy_old_task,
                      lazy_next_task, in_trap, halted>>
  BY DEF os_task_scheduler_start
<1>2. TypeOK /\ ReadyListsExact /\ CurrentIsRunning /\ HartFollowsScheduler /\ Booting
  BY DEF SchedInv
<1>3. p0 \in Priority /\ ~need_lazy_task_switch /\ cpu = NULL /\ task_list = {task_idle}
      /\ ~in_trap /\ ~halted
  BY <1>1, <1>2 DEF HartFollowsScheduler, Booting
<1>4. task_state \in [Task -> TaskState] /\ task_state[task_idle] = "READY"
      /\ \A t \in Task : task_state[t] # "RUNNING"
  BY <1>1, <1>2 DEF CurrentIsRunning, TypeOK
<1>5. /\ priority_ready_list \in [Priority -> Seq(Task)]
      /\ \A p \in Priority :
           /\ IsInjective(priority_ready_list[p])
           /\ \A t \in Task : Contains(priority_ready_list[p], t) <=> p = p0 /\ t = task_idle
  BY <1>2, <1>3, <1>4 DEF ReadyListsExact, Started, TypeOK
<1>6. Contains(priority_ready_list[p0], task_idle)
  BY <1>3, <1>5
<1>7. priority_ready_list[p0] # <<>> /\ priority_ready_list[p0] \in Seq(Task)
  BY <1>3, <1>5, <1>6 DEF Contains
<1>8. /\ Tail(priority_ready_list[p0]) \in Seq(Task)
      /\ IsInjective(Tail(priority_ready_list[p0]))
      /\ \A t \in Task : ~Contains(Tail(priority_ready_list[p0]), t)
  <2>1. /\ Head(priority_ready_list[p0]) = task_idle
        /\ \A x : Contains(Tail(priority_ready_list[p0]), x) <=>
                     Contains(priority_ready_list[p0], x) /\ x # Head(priority_ready_list[p0])
        /\ Tail(priority_ready_list[p0]) \in Seq(Task)
        /\ IsInjective(Tail(priority_ready_list[p0]))
    BY <1>3, <1>5, <1>7, TailContains
  <2>. QED BY <1>3, <1>5, <2>1
<1>9. /\ priority_ready_list' \in [Priority -> Seq(Task)]
      /\ priority_ready_list'[p0] = Tail(priority_ready_list[p0])
      /\ \A q \in Priority : q # p0 => priority_ready_list'[q] = priority_ready_list[q]
  BY <1>1, <1>3, <1>5, <1>8 DEF remove_head
<1>10. /\ task_list' = {task_idle} /\ task_state' \in [Task -> TaskState]
       /\ task_state'[task_idle] = "RUNNING"
       /\ \A t \in Task \ {task_idle} : task_state'[t] = task_state[t]
  BY <1>1, <1>3, <1>4 DEF TaskState
<1>. HIDE DEF p0
<1>11. ReadyListsExact'
  <2>1. ASSUME NEW p \in Priority
        PROVE  /\ IsInjective(priority_ready_list'[p])
               /\ \A t \in Task : ~Contains(priority_ready_list'[p], t)
    <3>1. CASE p = p0
      BY <1>8, <1>9, <3>1
    <3>2. CASE p # p0
      BY <1>5, <1>9, <3>2
    <3>. QED BY <3>1, <3>2
  <2>. QED BY <1>10, <2>1 DEF ReadyListsExact, Started
<1>12. TypeOK'
  BY <1>1, <1>2, <1>9, <1>10 DEF TypeOK
<1>13. CurrentIsRunning'
  BY <1>1, <1>3, <1>4, <1>10, <1>2 DEF CurrentIsRunning
<1>14. HartFollowsScheduler' /\ HaltsOnlyWhenIdle' /\ Booting'
  BY <1>1, <1>3 DEF HartFollowsScheduler, HaltsOnlyWhenIdle, Booting
<1>15. \A t \in Task : task_state[t] = "STOPPED" => task_state'[t] = "STOPPED"
  BY <1>4, <1>10
<1>16. ~Outranked'
  BY <1>10 DEF Outranked, Started
<1>. QED BY <1>1, <1>11, <1>12, <1>13, <1>14, <1>15, <1>16 DEF SchedInv, StepOK

LEMMA StartupStep ==
  ASSUME SchedInv, NEW self \in Task, NEW t \in Task, os_task_startup(self, t)
  PROVE  StepOK
<1>. USE TaskAssumption
<1>1. /\ t \notin task_list
      /\ task_list' = task_list \cup {t}
      /\ priority_ready_list' = insert_tail(priority_ready_list, t)
      /\ UNCHANGED <<current_task, task_state, tick_remaining, switchVars, in_trap, halted>>
      /\ OnCpu(self)
  BY DEF os_task_startup, Runs
<1>2. TypeOK /\ ReadyListsExact /\ CurrentIsRunning /\ HartFollowsScheduler
  BY DEF SchedInv
<1>3. task_state[t] = "READY"
  BY <1>1, <1>2 DEF CurrentIsRunning
<1>4. priority_ready_list' \in [Priority -> Seq(Task)] /\ ReadyListsExact'
  <2>1. Holds(priority_ready_list, ReadySet(task_list, task_state))
    BY <1>2 DEF Holds, ReadySet, ReadyListsExact, Started
  <2>2. /\ priority_ready_list' \in [Priority -> Seq(Task)]
        /\ Holds(priority_ready_list', ReadySet(task_list, task_state) \cup {t})
    BY <1>1, <1>2, <2>1, InsertExact DEF TypeOK, ReadySet
  <2>3. ReadySet(task_list, task_state) \cup {t} = ReadySet(task_list', task_state')
    BY <1>1, <1>3 DEF ReadySet
  <2>. QED BY <2>2, <2>3 DEF Holds, ReadySet, ReadyListsExact, Started
<1>5. TypeOK'
  BY <1>1, <1>2, <1>4 DEF TypeOK, switchVars
<1>6. CurrentIsRunning' /\ HartFollowsScheduler'
  BY <1>1, <1>2, <1>3 DEF CurrentIsRunning, HartFollowsScheduler, switchVars
<1>7. HaltsOnlyWhenIdle' /\ Booting'
  BY <1>1, AtCall DEF HaltsOnlyWhenIdle, Booting, SchedInv
<1>8. task_list' # task_list
  BY <1>1
<1>. QED BY <1>1, <1>4, <1>5, <1>6, <1>7, <1>8 DEF SchedInv, StepOK

\* A call that schedules with nothing changed first: yielding, and the second
\* half of an exit.
LEMMA ResumePre ==
  ASSUME SchedInv, NEW self \in Task, OnCpu(self), UNCHANGED <<task_list, in_trap>>
  PROVE  SchedulablePre(task_state, priority_ready_list, tick_remaining, FALSE)
BY AtCall DEF SchedulablePre, SchedInv, TypeOK, Exact, OneRuns, ReadyListsExact,
              CurrentIsRunning, Started

LEMMA ResumeStep ==
  ASSUME SchedInv, NEW self \in Task, OnCpu(self),
         os_task_schedule(task_state, priority_ready_list, tick_remaining, FALSE),
         UNCHANGED <<task_list, in_trap>>
  PROVE  StepOK
BY ResumePre, ScheduleStep

\* A task other than the idle thread goes to sleep.
LEMMA SleepPre ==
  ASSUME SchedInv, NEW self \in Task \ {task_idle}, os_task_sleep(self)
  PROVE  /\ SchedulablePre([task_state EXCEPT ![current_task] = "SLEEPING"],
                           priority_ready_list, tick_remaining, FALSE)
         /\ os_task_schedule([task_state EXCEPT ![current_task] = "SLEEPING"],
                             priority_ready_list, tick_remaining, FALSE)
<1>. DEFINE st == [task_state EXCEPT ![current_task] = "SLEEPING"]
<1>1. /\ OnCpu(self) /\ task_state[self] = "RUNNING"
      /\ os_task_schedule(st, priority_ready_list, tick_remaining, FALSE)
      /\ UNCHANGED <<task_list, in_trap>>
  BY DEF os_task_sleep, SleepCurrent, Runs
<1>2. /\ current_task = self /\ cpu = self /\ self \in task_list
      /\ ~need_lazy_task_switch /\ ~halted /\ ~in_trap
  BY <1>1, AtCall
<1>3. TypeOK /\ ReadyListsExact /\ CurrentIsRunning
  BY DEF SchedInv
<1>4. /\ st \in [Task -> TaskState] /\ st[self] = "SLEEPING"
      /\ \A t \in Task : t # self => st[t] = task_state[t]
  BY <1>2, <1>3 DEF TypeOK, TaskState
<1>. HIDE DEF st
<1>5. Exact(st, priority_ready_list)
  BY <1>1, <1>3, <1>4 DEF Exact, ReadyListsExact, Started
<1>6. OneRuns(st)
  BY <1>2, <1>3, <1>4, TaskAssumption DEF OneRuns, CurrentIsRunning, TypeOK
<1>7. SchedulablePre(st, priority_ready_list, tick_remaining, FALSE)
  BY <1>1, <1>2, <1>3, <1>4, <1>5, <1>6 DEF SchedulablePre, TypeOK
<1>. QED BY <1>1, <1>7 DEF st

LEMMA SleepStep ==
  ASSUME SchedInv, NEW self \in Task \ {task_idle}, os_task_sleep(self)
  PROVE  StepOK
BY SleepPre, ScheduleStep

\* A sleeping task is woken.
LEMMA WakeupPre ==
  ASSUME SchedInv, NEW self \in Task, NEW t \in Task, os_task_wakeup(self, t),
         task_state[t] = "SLEEPING"
  PROVE  /\ SchedulablePre([task_state EXCEPT ![t] = "READY"],
                           insert_tail(priority_ready_list, t), tick_remaining, FALSE)
         /\ os_task_schedule([task_state EXCEPT ![t] = "READY"],
                             insert_tail(priority_ready_list, t), tick_remaining, FALSE)
<1>. DEFINE st == [task_state EXCEPT ![t] = "READY"]
            rd == insert_tail(priority_ready_list, t)
<1>1. /\ OnCpu(self) /\ task_state[self] = "RUNNING"
      /\ os_task_schedule(st, rd, tick_remaining, FALSE)
      /\ UNCHANGED <<task_list, in_trap>>
  BY DEF os_task_wakeup, Wakeup, Runs
<1>2. /\ current_task = self /\ cpu = self /\ self \in task_list
      /\ ~need_lazy_task_switch /\ ~halted /\ ~in_trap
  BY <1>1, AtCall
<1>3. TypeOK /\ ReadyListsExact /\ CurrentIsRunning
  BY DEF SchedInv
<1>4. /\ st \in [Task -> TaskState] /\ st[t] = "READY"
      /\ \A u \in Task : u # t => st[u] = task_state[u]
      /\ t # self /\ t \in task_list /\ t # task_idle
  BY <1>1, <1>3 DEF TypeOK, TaskState, CurrentIsRunning
<1>. HIDE DEF st
<1>5. Exact(st, rd) /\ rd \in [Priority -> Seq(Task)]
  <2>1. Holds(priority_ready_list, ReadySet(task_list, task_state))
    BY <1>3 DEF Holds, ReadySet, ReadyListsExact, Started
  <2>2. /\ rd \in [Priority -> Seq(Task)]
        /\ Holds(rd, ReadySet(task_list, task_state) \cup {t})
    BY <1>3, <2>1, InsertExact DEF TypeOK, ReadySet
  <2>3. ReadySet(task_list, task_state) \cup {t} = ReadySet(task_list, st)
    BY <1>4 DEF ReadySet
  <2>. HIDE DEF rd
  <2>. QED BY <2>2, <2>3 DEF Holds, ReadySet, Exact
<1>6. OneRuns(st)
  BY <1>1, <1>2, <1>3, <1>4 DEF OneRuns, CurrentIsRunning, TypeOK
<1>7. SchedulablePre(st, rd, tick_remaining, FALSE)
  BY <1>1, <1>2, <1>3, <1>4, <1>5, <1>6 DEF SchedulablePre, TypeOK
<1>. QED BY <1>1, <1>7 DEF st, rd

LEMMA WakeupStep ==
  ASSUME SchedInv, NEW self \in Task, NEW t \in Task, os_task_wakeup(self, t)
  PROVE  StepOK
<1>1. CASE task_state[t] # "SLEEPING"
  BY <1>1, StutterStep DEF os_task_wakeup, Wakeup
<1>2. CASE task_state[t] = "SLEEPING"
  BY <1>2, WakeupPre, ScheduleStep
<1>. QED BY <1>1, <1>2

\* The first half of an exit only marks the running task.
LEMMA ExitStep ==
  ASSUME SchedInv, NEW self \in Task \ {task_idle}, os_syscall_exit(self)
  PROVE  StepOK
<1>1. /\ OnCpu(self) /\ task_state[self] = "RUNNING"
      /\ task_state' = [task_state EXCEPT ![current_task] = "STOPPED"]
      /\ UNCHANGED <<current_task, task_list, priority_ready_list, tick_remaining,
                      switchVars, in_trap, halted>>
  BY DEF os_syscall_exit, Runs
<1>2. /\ current_task = self /\ cpu = self /\ self \in task_list
      /\ ~need_lazy_task_switch /\ ~halted /\ ~in_trap
  BY <1>1, AtCall
<1>3. TypeOK /\ ReadyListsExact /\ CurrentIsRunning /\ HartFollowsScheduler
  BY DEF SchedInv
<1>4. /\ task_state' \in [Task -> TaskState] /\ task_state'[self] = "STOPPED"
      /\ \A t \in Task : t # self => task_state'[t] = task_state[t]
  BY <1>1, <1>2, <1>3 DEF TypeOK, TaskState
<1>5. TypeOK'
  BY <1>1, <1>3, <1>4 DEF TypeOK, switchVars
<1>6. ReadyListsExact'
  BY <1>1, <1>3, <1>4 DEF ReadyListsExact, Started
<1>7. CurrentIsRunning'
  BY <1>1, <1>2, <1>3, <1>4, TaskAssumption DEF CurrentIsRunning
<1>8. HartFollowsScheduler' /\ HaltsOnlyWhenIdle' /\ Booting'
  BY <1>1, <1>2, <1>3, TaskAssumption
  DEF HartFollowsScheduler, HaltsOnlyWhenIdle, Booting, switchVars
<1>9. Outranked' => Outranked
  BY <1>1, <1>2, <1>4 DEF Outranked, Started
<1>. QED BY <1>1, <1>2, <1>4, <1>5, <1>6, <1>7, <1>8, <1>9 DEF SchedInv, StepOK

\* A tick that finds the slice used up schedules, inside the trap.
LEMMA TickPre ==
  ASSUME SchedInv, os_tick_handler, UNCHANGED task_list
  PROVE  SchedulablePre(task_state, priority_ready_list,
                        [tick_remaining EXCEPT ![current_task] = tick_init[current_task]], TRUE)
<1>. DEFINE tk == [tick_remaining EXCEPT ![current_task] = tick_init[current_task]]
<1>1. ~halted /\ ~in_trap /\ cpu # NULL /\ in_trap' = TRUE
  BY DEF os_tick_handler
<1>2. TypeOK /\ ReadyListsExact /\ CurrentIsRunning /\ HartFollowsScheduler
  BY DEF SchedInv
<1>3. ~need_lazy_task_switch /\ cpu = current_task /\ current_task \in Task /\ current_task # NULL
  BY <1>1, <1>2 DEF HartFollowsScheduler, TypeOK
<1>4. tk \in [Task -> Nat]
  BY <1>2, <1>3, TaskAssumption DEF TypeOK
<1>. HIDE DEF tk
<1>5. SchedulablePre(task_state, priority_ready_list, tk, TRUE)
  BY <1>1, <1>2, <1>3, <1>4
  DEF SchedulablePre, TypeOK, Exact, OneRuns, ReadyListsExact, CurrentIsRunning, Started
<1>. QED BY <1>5 DEF tk

\* A tick counts down, or refills the slice and schedules lazily.
LEMMA TickStep ==
  ASSUME SchedInv, os_tick_handler
  PROVE  StepOK
<1>1. ~halted /\ ~in_trap /\ cpu # NULL /\ in_trap' = TRUE
  BY DEF os_tick_handler
<1>2. TypeOK /\ ReadyListsExact /\ CurrentIsRunning /\ HartFollowsScheduler
  BY DEF SchedInv
<1>3. ~need_lazy_task_switch /\ cpu = current_task /\ current_task \in Task /\ current_task # NULL
  BY <1>1, <1>2 DEF HartFollowsScheduler, TypeOK
<1>4. CASE /\ tick_remaining[current_task] > 0
           /\ tick_remaining' = [tick_remaining EXCEPT ![current_task] = @ - 1]
           /\ UNCHANGED <<current_task, task_state, task_list, priority_ready_list, switchVars, halted>>
  <2>1. tick_remaining' \in [Task -> Nat]
    BY <1>2, <1>3, <1>4 DEF TypeOK
  <2>2. TypeOK'
    BY <1>1, <1>2, <1>4, <2>1 DEF TypeOK, switchVars
  <2>3. ReadyListsExact' /\ CurrentIsRunning'
    BY <1>2, <1>4 DEF ReadyListsExact, Started, CurrentIsRunning
  <2>4. HartFollowsScheduler' /\ HaltsOnlyWhenIdle' /\ Booting'
    BY <1>1, <1>2, <1>3, <1>4 DEF HartFollowsScheduler, HaltsOnlyWhenIdle, Booting, switchVars
  <2>5. Outranked' => Outranked
    BY <1>4 DEF Outranked, Started
  <2>. QED BY <1>4, <2>2, <2>3, <2>4, <2>5 DEF SchedInv, StepOK
<1>5. ASSUME os_task_schedule(task_state, priority_ready_list,
                [tick_remaining EXCEPT ![current_task] = tick_init[current_task]], TRUE),
             UNCHANGED task_list
      PROVE  StepOK
  BY <1>5, TickPre, ScheduleStep
<1>. QED BY <1>4, <1>5 DEF os_tick_handler

\* The trap exit carries a pending switch out.
LEMMA TrapExitStep ==
  ASSUME SchedInv, trap_exit
  PROVE  StepOK
<1>. USE DEF SchedInv, trap_exit, readyVars
<1>1. TypeOK'
  BY DEF TypeOK
<1>2. ReadyListsExact' /\ CurrentIsRunning'
  BY DEF ReadyListsExact, Started, CurrentIsRunning
<1>3. HartFollowsScheduler'
  BY DEF HartFollowsScheduler
<1>4. HaltsOnlyWhenIdle' /\ Booting'
  BY DEF HaltsOnlyWhenIdle, Booting
<1>5. Outranked' => Outranked
  BY DEF Outranked, Started
<1>. QED BY <1>1, <1>2, <1>3, <1>4, <1>5 DEF StepOK

\* SchedInv is inductive.
LEMMA NextInv == SchedInv /\ [Next]_taskVars => StepOK
<1>. SUFFICES ASSUME SchedInv, [Next]_taskVars PROVE StepOK
  OBVIOUS
<1>1. CASE os_task_scheduler_start
  BY <1>1, StartStep
<1>2. CASE os_task_idle_entry
  <2>1. CASE os_task_startup(task_idle, task_main)
    BY <2>1, StartupStep, TaskAssumption
  <2>2. CASE os_task_yield(task_idle)
    BY <2>2, ResumeStep, TaskAssumption DEF os_task_yield, Runs
  <2>. QED BY <1>2, <2>1, <2>2 DEF os_task_idle_entry
<1>3. ASSUME NEW self \in Task \ {task_idle}, TaskCall(self)
      PROVE  StepOK
  <2>1. CASE os_task_yield(self)
    BY <2>1, ResumeStep DEF os_task_yield, Runs
  <2>2. CASE os_task_sleep(self)
    BY <2>2, SleepStep
  <2>3. ASSUME NEW t \in Task, os_task_startup(self, t)
        PROVE  StepOK
    BY <2>3, StartupStep
  <2>4. ASSUME NEW t \in Task, os_task_wakeup(self, t)
        PROVE  StepOK
    BY <2>4, WakeupStep
  <2>5. CASE os_syscall_exit(self)
    BY <2>5, ExitStep
  <2>6. CASE os_syscall_exit_schedule(self)
    BY <2>6, ResumeStep DEF os_syscall_exit_schedule
  <2>. QED BY <1>3, <2>1, <2>2, <2>3, <2>4, <2>5, <2>6 DEF TaskCall
<1>4. CASE os_tick_handler
  BY <1>4, TickStep
<1>5. CASE trap_exit
  BY <1>5, TrapExitStep
<1>6. CASE UNCHANGED taskVars
  BY <1>6, StutterStep
<1>. QED BY <1>1, <1>2, <1>3, <1>4, <1>5, <1>6 DEF Next

\* The scheduler's invariant, from which the theorems below are read off.
THEOREM SchedulerInvariant == Spec => []SchedInv
BY InitInv, NextInv, PTL DEF Spec, StepOK

\* Type correctness: in particular no slice counter of os_tick_handler goes
\* below zero, whatever tick_init is.
THEOREM TypeCorrect == Spec => []TypeOK
BY SchedulerInvariant, PTL DEF SchedInv

\* The ready lists hold exactly the started READY tasks, each once, in the list
\* of its priority, for any number of tasks and priorities.
THEOREM ReadyListsAreExact == Spec => []ReadyListsExact
BY SchedulerInvariant, PTL DEF SchedInv

\* Exactly the task os_task_schedule chose last can be RUNNING, and the idle
\* thread is always runnable.
THEOREM OnlyCurrentRuns == Spec => []CurrentIsRunning
BY SchedulerInvariant, PTL DEF SchedInv

\* The lazy switch of the trap path never leaves the hart on another task than
\* the scheduler chose.
THEOREM HartRunsTheChosenTask == Spec => []HartFollowsScheduler
BY SchedulerInvariant, PTL DEF SchedInv

\* The assertion of os_task_schedule fails in no other situation than the idle
\* thread alone.
THEOREM AssertionNeedsIdle == Spec => []HaltsOnlyWhenIdle
BY SchedulerInvariant, PTL DEF SchedInv

LEMMA StepsAreOK == Spec => [][StepOK]_taskVars
<1>1. SchedInv /\ [Next]_taskVars => [StepOK]_taskVars
  BY NextInv
<1>. QED BY <1>1, SchedulerInvariant, PTL DEF Spec

\* A stopped task never comes back, whatever interrupts its exit.
THEOREM StoppedForGood == Spec => StoppedStaysStopped
<1>1. [StepOK]_taskVars =>
        [\A t \in Task : task_state[t] = "STOPPED" => task_state'[t] = "STOPPED"]_taskVars
  BY DEF StepOK
<1>. QED BY <1>1, StepsAreOK, PTL DEF StoppedStaysStopped

\* No switch passes over a more urgent ready task.
THEOREM UrgentFirst == Spec => SwitchesToHighest
<1>1. [StepOK]_taskVars =>
        [current_task' # current_task /\ current_task # NULL =>
           \A t \in Task : Started(t, "READY")' =>
              priority[current_task'] <= priority[t]]_taskVars
  <2>1. SUFFICES ASSUME StepOK, current_task' # current_task, current_task # NULL,
                        NEW t \in Task, Started(t, "READY")'
                 PROVE  priority[current_task'] <= priority[t]
    OBVIOUS
  <2>2. current_task' \in Task /\ ~Outranked'
    BY <2>1 DEF StepOK
  <2>3. current_task' # NULL /\ ~(priority[t] < priority[current_task'])
    BY <2>1, <2>2, TaskAssumption DEF Outranked
  <2>4. priority[t] \in Nat /\ priority[current_task'] \in Nat
    BY <2>1, <2>2, TaskAssumption DEF Priority
  <2>. QED BY <2>3, <2>4
<1>. QED BY <1>1, StepsAreOK, PTL DEF SwitchesToHighest

\* Only starting a task can leave a more urgent one waiting.
THEOREM NothingElseOutranks == Spec => OnlyStartupOutranks
<1>1. [StepOK]_taskVars => [Outranked' => Outranked \/ task_list' # task_list]_taskVars
  BY DEF StepOK
<1>. QED BY <1>1, StepsAreOK, PTL DEF OnlyStartupOutranks

-----------------------------------------------------------------------------
(***************************************************************************)
(* Wait queues and mutexes.                                                *)
(***************************************************************************)

Asleep(t) == task_state[t] = "SLEEPING"

\* The sleepers are the same tasks after the step.
SameSleepers == \A t \in Task : Asleep(t)' <=> Asleep(t)

\* os_task_schedule puts nobody to sleep and wakes nobody.
LEMMA ScheduleKeepsSleepers ==
  ASSUME NEW st, NEW rd, NEW tk, NEW irq, SchedulablePre(st, rd, tk, irq),
         os_task_schedule(st, rd, tk, irq)
  PROVE  \A t \in Task : task_state'[t] = "SLEEPING" <=> st[t] = "SLEEPING"
<1>1. CASE NothingReady(st, rd, tk)
  BY <1>1 DEF NothingReady
<1>2. ASSUME NEW p \in Priority, get_next_task(rd, p), KeepCurrent(st, rd, tk, p)
      PROVE  \A t \in Task : task_state'[t] = "SLEEPING" <=> st[t] = "SLEEPING"
  BY <1>2 DEF KeepCurrent
<1>3. ASSUME NEW p \in Priority, get_next_task(rd, p), SwitchTo(st, rd, tk, p, irq)
      PROVE  \A t \in Task : task_state'[t] = "SLEEPING" <=> st[t] = "SLEEPING"
  <2>1. st[Head(rd[p])] = "READY"
    BY <1>3, NextTask
  <2>2. task_state' = [t \in Task |->
           IF t = Head(rd[p]) THEN "RUNNING"
           ELSE IF t = current_task /\ st[current_task] = "RUNNING" THEN "READY" ELSE st[t]]
    BY <1>3 DEF SwitchTo
  <2>. QED BY <2>1, <2>2
<1>. QED BY <1>1, <1>2, <1>3 DEF os_task_schedule

LEMMA ResumeSleepers ==
  ASSUME SchedInv, NEW self \in Task, OnCpu(self),
         os_task_schedule(task_state, priority_ready_list, tick_remaining, FALSE),
         UNCHANGED <<task_list, in_trap>>
  PROVE  SameSleepers
BY ResumePre, ScheduleKeepsSleepers DEF SameSleepers, Asleep

\* os_task_sleep: the caller sleeps, and nobody else is affected.
LEMMA SleepSleepers ==
  ASSUME SchedInv, NEW self \in Task \ {task_idle}, os_task_sleep(self)
  PROVE  \A t \in Task : Asleep(t)' <=> Asleep(t) \/ t = self
<1>1. current_task = self
  BY AtCall DEF os_task_sleep, Runs
<1>2. task_state \in [Task -> TaskState]
  BY DEF SchedInv, TypeOK
<1>3. \A t \in Task : task_state'[t] = "SLEEPING"
                        <=> [task_state EXCEPT ![current_task] = "SLEEPING"][t] = "SLEEPING"
  BY SleepPre, ScheduleKeepsSleepers
<1>. QED BY <1>1, <1>2, <1>3 DEF Asleep

\* os_task_wakeup: the woken task does not sleep, and nobody else is affected.
LEMMA WakeupSleepers ==
  ASSUME SchedInv, NEW self \in Task, NEW u \in Task, os_task_wakeup(self, u)
  PROVE  \A t \in Task : Asleep(t)' <=> Asleep(t) /\ t # u
<1>1. CASE ~Asleep(u)
  BY <1>1 DEF os_task_wakeup, Wakeup, Asleep, taskVars, readyVars
<1>2. CASE Asleep(u)
  <2>1. task_state \in [Task -> TaskState]
    BY DEF SchedInv, TypeOK
  <2>2. \A t \in Task : task_state'[t] = "SLEEPING"
                          <=> [task_state EXCEPT ![u] = "READY"][t] = "SLEEPING"
    BY <1>2, WakeupPre, ScheduleKeepsSleepers DEF Asleep
  <2>. QED BY <2>1, <2>2 DEF Asleep
<1>. QED BY <1>1, <1>2

LEMMA TickSleepers ==
  ASSUME SchedInv, os_tick_handler
  PROVE  SameSleepers
<1>1. ASSUME UNCHANGED task_state PROVE SameSleepers
  BY <1>1 DEF SameSleepers, Asleep
<1>2. ASSUME os_task_schedule(task_state, priority_ready_list,
                [tick_remaining EXCEPT ![current_task] = tick_init[current_task]], TRUE),
             UNCHANGED task_list
      PROVE  SameSleepers
  BY <1>2, TickPre, ScheduleKeepsSleepers DEF SameSleepers, Asleep
<1>. QED BY <1>1, <1>2 DEF os_tick_handler

\* Neither the timer, nor the idle thread, nor the calls that do not concern wait
\* queues change who sleeps.
LEMMA SystemSleepers ==
  ASSUME SchedInv, os_task_scheduler_start \/ os_task_idle_entry \/ os_tick_handler \/ trap_exit
  PROVE  SameSleepers
<1>1. CASE os_task_scheduler_start
  <2>1. task_state \in [Task -> TaskState] /\ task_state[task_idle] # "SLEEPING"
    BY DEF SchedInv, TypeOK, CurrentIsRunning
  <2>. QED BY <1>1, <2>1 DEF os_task_scheduler_start, SameSleepers, Asleep
<1>2. CASE os_task_idle_entry
  BY <1>2, ResumeSleepers, TaskAssumption
  DEF os_task_idle_entry, os_task_startup, os_task_yield, Runs, SameSleepers, Asleep
<1>3. CASE os_tick_handler
  BY <1>3, TickSleepers
<1>4. CASE trap_exit
  BY <1>4 DEF trap_exit, readyVars, SameSleepers, Asleep
<1>. QED BY <1>1, <1>2, <1>3, <1>4

LEMMA OtherSleepers ==
  ASSUME SchedInv, NEW self \in Task, OtherCall(self)
  PROVE  SameSleepers
<1>1. CASE os_task_yield(self)
  BY <1>1, ResumeSleepers DEF os_task_yield, Runs
<1>2. ASSUME NEW t \in Task, os_task_startup(self, t)
      PROVE  SameSleepers
  BY <1>2 DEF os_task_startup, SameSleepers, Asleep
<1>3. CASE os_syscall_exit(self)
  <2>1. task_state \in [Task -> TaskState] /\ current_task = self /\ task_state[self] = "RUNNING"
    BY <1>3, AtCall DEF SchedInv, TypeOK, os_syscall_exit, Runs
  <2>. QED BY <1>3, <2>1 DEF os_syscall_exit, SameSleepers, Asleep
<1>4. CASE os_syscall_exit_schedule(self)
  BY <1>4, ResumeSleepers DEF os_syscall_exit_schedule
<1>. QED BY <1>1, <1>2, <1>3, <1>4 DEF OtherCall

-----------------------------------------------------------------------------
(***************************************************************************)
(* The inductive invariant.                                                *)
(***************************************************************************)
OnQueue(q, t) == Contains(waiting_list[q], t)

\* A task that is about to sleep does not sleep yet.
WaitInv ==
  /\ waiting_list \in [Waitqueue -> Seq(Task)]
  /\ adding \in SUBSET Task
  /\ NodesOutliveNoCall
  /\ \A t \in adding : ~Asleep(t)

\* The count of a mutex is that of its owner's returned calls, or one while the
\* owner's call has not returned.
CountIsOwners ==
  \A m \in Mutex : \A t \in Task :
    owner[m] = t => held[m][t] = IF locking[t] = m THEN 0 ELSE refcnt[m]

\* A task inside os_mutex_lock does not hold that mutex, is in no other call, and on
\* no queue but those of mutexes.
LockingIsExclusive ==
  /\ \A t \in Task : locking[t] # NULL => t \notin adding /\ held[locking[t]][t] = 0
  /\ \A q \in Waitqueue \ Mutex : \A t \in Task : OnQueue(q, t) => locking[t] = NULL

MutexInv ==
  /\ locked \in [Mutex -> BOOLEAN]
  /\ owner \in [Mutex -> Task \cup {NULL}]
  /\ refcnt \in [Mutex -> Nat]
  /\ locking \in [Task -> Mutex \cup {NULL}]
  /\ held \in [Mutex -> [Task -> Nat]]
  /\ MutexConsistent
  /\ UnlockAssertionsHold
  /\ LockReturnsAsOwner
  /\ CountIsOwners
  /\ LockingIsExclusive

MuInv == SchedInv /\ WaitInv /\ MutexInv

\* A task that makes a call is the current one, awake, and on no queue.
LEMMA AtMutexCall ==
  ASSUME SchedInv, WaitInv, NEW self \in Task, Calls(self)
  PROVE  /\ current_task = self /\ ~Asleep(self) /\ self \notin adding
         /\ \A q \in Waitqueue : ~OnQueue(q, self)
BY AtCall DEF Calls, Runs, Asleep, OnQueue, WaitInv, NodesOutliveNoCall

\* os_waitqueue_add adds one node, to one queue.
LEMMA AddNode ==
  ASSUME WaitInv, NEW q \in Waitqueue, NEW t \in Task,
         \A r \in Waitqueue : ~OnQueue(r, t), os_waitqueue_add(q, t)
  PROVE  /\ waiting_list' \in [Waitqueue -> Seq(Task)]
         /\ waiting_list'[q] = Append(waiting_list[q], t)
         /\ \A r \in Waitqueue \ {q} : waiting_list'[r] = waiting_list[r]
         /\ \A r \in Waitqueue : IsInjective(waiting_list'[r])
         /\ \A r \in Waitqueue : \A u \in Task :
              OnQueue(r, u)' <=> OnQueue(r, u) \/ (r = q /\ u = t)
<1>1. /\ waiting_list[q] \in Seq(Task)
      /\ \A r \in Waitqueue : IsInjective(waiting_list[r])
      /\ waiting_list \in [Waitqueue -> Seq(Task)]
      /\ ~Contains(waiting_list[q], t)
  BY DEF WaitInv, NodesOutliveNoCall, OnQueue
<1>2. /\ Append(waiting_list[q], t) \in Seq(Task)
      /\ \A x : Contains(Append(waiting_list[q], t), x) <=> Contains(waiting_list[q], x) \/ x = t
      /\ IsInjective(Append(waiting_list[q], t))
  BY <1>1, AppendContains
<1>3. /\ waiting_list' \in [Waitqueue -> Seq(Task)]
      /\ waiting_list'[q] = Append(waiting_list[q], t)
      /\ \A r \in Waitqueue \ {q} : waiting_list'[r] = waiting_list[r]
  BY <1>1, <1>2 DEF os_waitqueue_add
<1>. QED BY <1>1, <1>2, <1>3 DEF OnQueue

\* os_waitqueue_wakeup removes the head's node and no other.
LEMMA RemoveNode ==
  ASSUME WaitInv, NEW q \in Waitqueue, waiting_list[q] # <<>>,
         waiting_list' = [waiting_list EXCEPT ![q] = Tail(@)]
  PROVE  /\ Head(waiting_list[q]) \in Task
         /\ OnQueue(q, Head(waiting_list[q]))
         /\ waiting_list' \in [Waitqueue -> Seq(Task)]
         /\ waiting_list'[q] = Tail(waiting_list[q])
         /\ \A r \in Waitqueue \ {q} : waiting_list'[r] = waiting_list[r]
         /\ \A r \in Waitqueue : IsInjective(waiting_list'[r])
         /\ \A r \in Waitqueue : \A u \in Task :
              OnQueue(r, u)' <=> OnQueue(r, u) /\ u # Head(waiting_list[q])
<1>1. /\ waiting_list[q] \in Seq(Task)
      /\ \A r \in Waitqueue : IsInjective(waiting_list[r])
      /\ waiting_list \in [Waitqueue -> Seq(Task)]
  BY DEF WaitInv, NodesOutliveNoCall
<1>2. /\ Head(waiting_list[q]) \in Task
      /\ Tail(waiting_list[q]) \in Seq(Task)
      /\ IsInjective(Tail(waiting_list[q]))
      /\ Contains(waiting_list[q], Head(waiting_list[q]))
      /\ \A x : Contains(Tail(waiting_list[q]), x)
                  <=> Contains(waiting_list[q], x) /\ x # Head(waiting_list[q])
  BY <1>1, TailContains
<1>3. /\ waiting_list' \in [Waitqueue -> Seq(Task)]
      /\ waiting_list'[q] = Tail(waiting_list[q])
      /\ \A r \in Waitqueue \ {q} : waiting_list'[r] = waiting_list[r]
  BY <1>1, <1>2
<1>4. \A r \in Waitqueue \ {q} : ~OnQueue(r, Head(waiting_list[q]))
  BY <1>2 DEF WaitInv, NodesOutliveNoCall, OnQueue
<1>. QED BY <1>1, <1>2, <1>3, <1>4 DEF OnQueue

LEMMA MuInitInv == MuInit => MuInv
<1>. SUFFICES ASSUME MuInit PROVE MuInv
  OBVIOUS
<1>. USE TaskAssumption, MutexAssumption DEF MuInit, WqInit
<1>1. SchedInv
  BY InitInv
<1>2. \A t \in Task : ~Asleep(t)
  BY DEF Init, Asleep
<1>3. /\ <<>> \in Seq(Task) /\ IsInjective(<<>>)
      /\ \A x : ~Contains(<<>>, x)
  BY DEF IsInjective, Contains
<1>4. WaitInv
  BY <1>2, <1>3 DEF WaitInv, NodesOutliveNoCall
<1>5. MutexConsistent
  BY <1>3 DEF MutexConsistent
<1>6. UnlockAssertionsHold /\ LockReturnsAsOwner /\ CountIsOwners
  BY DEF UnlockAssertionsHold, LockReturnsAsOwner, CountIsOwners
<1>7. LockingIsExclusive
  BY DEF LockingIsExclusive
<1>. QED BY <1>1, <1>4, <1>5, <1>6, <1>7 DEF MuInv, MutexInv

-----------------------------------------------------------------------------
(***************************************************************************)
(* Wait queues.  Q are queues that are not those of mutexes.               *)
(***************************************************************************)

\* A step that changes neither queues, nor mutexes, nor who sleeps.
LEMMA FieldsUnchanged ==
  ASSUME MutexInv, UNCHANGED mutexVars
  PROVE  /\ UnlockAssertionsHold' /\ CountIsOwners'
         /\ \A m \in Mutex : /\ locked'[m] <=> owner'[m] # NULL
                             /\ locked'[m] <=> refcnt'[m] > 0
<1>. USE DEF mutexVars
<1>1. UnlockAssertionsHold' /\ CountIsOwners'
  BY DEF MutexInv, UnlockAssertionsHold, CountIsOwners
<1>2. \A m \in Mutex : /\ locked[m] <=> owner[m] # NULL
                       /\ locked[m] <=> refcnt[m] > 0
  BY DEF MutexInv, MutexConsistent
<1>. QED BY <1>1, <1>2

LEMMA QuietStep ==
  ASSUME WaitInv, MutexInv, SameSleepers, UNCHANGED <<waitqueueVars, mutexVars>>
  PROVE  WaitInv' /\ MutexInv'
<1>. USE DEF waitqueueVars, mutexVars
<1>1. WaitInv'
  BY DEF WaitInv, NodesOutliveNoCall, SameSleepers, Asleep
<1>2. MutexConsistent'
  BY DEF MutexInv, MutexConsistent, SameSleepers, Asleep
<1>3. LockReturnsAsOwner'
  BY DEF MutexInv, LockReturnsAsOwner, SameSleepers, Asleep
<1>4. LockingIsExclusive'
  BY DEF MutexInv, LockingIsExclusive, OnQueue
<1>. QED BY <1>1, <1>2, <1>3, <1>4, FieldsUnchanged DEF MutexInv

LEMMA WaitStep ==
  ASSUME MuInv, NEW self \in Task, NEW q \in Waitqueue \ Mutex, locking[self] = NULL,
         os_waitqueue_wait(self, q), UNCHANGED mutexVars
  PROVE  WaitInv' /\ MutexInv'
<1>. USE DEF MuInv
<1>1. /\ current_task = self /\ ~Asleep(self)
      /\ \A r \in Waitqueue : ~OnQueue(r, self)
      /\ os_waitqueue_add(q, self)
      /\ adding' = adding \cup {self}
      /\ \A t \in Task : Asleep(t)' <=> Asleep(t)
  BY AtMutexCall DEF os_waitqueue_wait, taskVars, readyVars, Asleep
<1>2. /\ waiting_list' \in [Waitqueue -> Seq(Task)]
      /\ \A r \in Waitqueue \ {q} : waiting_list'[r] = waiting_list[r]
      /\ \A r \in Waitqueue : IsInjective(waiting_list'[r])
      /\ \A r \in Waitqueue : \A u \in Task :
           OnQueue(r, u)' <=> OnQueue(r, u) \/ (r = q /\ u = self)
  BY <1>1, AddNode
<1>3. WaitInv'
  BY <1>1, <1>2 DEF WaitInv, NodesOutliveNoCall, OnQueue, Asleep
<1>4. \A m \in Mutex : m \in Waitqueue \ {q} /\ waiting_list'[m] = waiting_list[m]
  BY <1>2, MutexAssumption
<1>5. UnlockAssertionsHold' /\ CountIsOwners'
  BY FieldsUnchanged
<1>. USE DEF mutexVars
<1>6. MutexConsistent'
  BY <1>1, <1>4 DEF MutexInv, MutexConsistent, Asleep
<1>7. LockReturnsAsOwner'
  BY <1>1, <1>4 DEF MutexInv, LockReturnsAsOwner, Asleep
<1>8. LockingIsExclusive'
  BY <1>1, <1>2 DEF MutexInv, LockingIsExclusive
<1>. QED BY <1>3, <1>5, <1>6, <1>7, <1>8 DEF MutexInv

LEMMA WaitSleepStep ==
  ASSUME MuInv, NEW self \in Task \ {task_idle}, locking[self] = NULL,
         os_waitqueue_wait_sleep(self), UNCHANGED mutexVars
  PROVE  WaitInv' /\ MutexInv'
<1>. USE DEF MuInv
<1>1. os_task_sleep(self) /\ self \in adding /\ adding' = adding \ {self}
      /\ UNCHANGED waiting_list
  BY DEF os_waitqueue_wait_sleep, os_task_sleep
<1>2. \A t \in Task : Asleep(t)' <=> Asleep(t) \/ t = self
  BY <1>1, SleepSleepers
<1>3. WaitInv'
  BY <1>1, <1>2 DEF WaitInv, NodesOutliveNoCall, Asleep
<1>. USE DEF mutexVars
<1>4. MutexConsistent' /\ UnlockAssertionsHold' /\ CountIsOwners'
  BY <1>1, <1>2 DEF MutexInv, MutexConsistent, UnlockAssertionsHold, CountIsOwners, Asleep
<1>5. LockReturnsAsOwner'
  BY <1>1, <1>2 DEF MutexInv, LockReturnsAsOwner, Asleep
<1>6. LockingIsExclusive'
  BY <1>1 DEF MutexInv, LockingIsExclusive, OnQueue
<1>. QED BY <1>3, <1>4, <1>5, <1>6 DEF MutexInv

\* What waking the head of a queue that is not empty does to queues and sleepers.
LEMMA WakeHeadStep ==
  ASSUME MuInv, NEW self \in Task, NEW q \in Waitqueue, Calls(self),
         waiting_list[q] # <<>>, WakeHead(q)
  PROVE  /\ os_task_wakeup(self, Head(waiting_list[q]))
         /\ Head(waiting_list[q]) \in Task
         /\ OnQueue(q, Head(waiting_list[q]))
         /\ \A r \in Waitqueue \ {q} : waiting_list'[r] = waiting_list[r]
         /\ waiting_list'[q] = Tail(waiting_list[q])
         /\ UNCHANGED adding
         /\ \A r \in Waitqueue : \A u \in Task :
              OnQueue(r, u)' <=> OnQueue(r, u) /\ u # Head(waiting_list[q])
         /\ \A t \in Task : Asleep(t)' <=> Asleep(t) /\ t # Head(waiting_list[q])
         /\ WaitInv'
<1>. USE DEF MuInv
<1>1. /\ waiting_list' = [waiting_list EXCEPT ![q] = Tail(@)]
      /\ os_task_wakeup(self, Head(waiting_list[q]))
      /\ UNCHANGED adding
  BY DEF WakeHead, os_waitqueue_empty, os_task_wakeup, Calls
<1>2. /\ Head(waiting_list[q]) \in Task
      /\ OnQueue(q, Head(waiting_list[q]))
      /\ waiting_list' \in [Waitqueue -> Seq(Task)]
      /\ waiting_list'[q] = Tail(waiting_list[q])
      /\ \A r \in Waitqueue \ {q} : waiting_list'[r] = waiting_list[r]
      /\ \A r \in Waitqueue : IsInjective(waiting_list'[r])
      /\ \A r \in Waitqueue : \A u \in Task :
           OnQueue(r, u)' <=> OnQueue(r, u) /\ u # Head(waiting_list[q])
  BY <1>1, RemoveNode
<1>3. \A t \in Task : Asleep(t)' <=> Asleep(t) /\ t # Head(waiting_list[q])
  BY <1>1, <1>2, WakeupSleepers
<1>4. WaitInv'
  BY <1>1, <1>2, <1>3 DEF WaitInv, NodesOutliveNoCall, OnQueue, Asleep
<1>. QED BY <1>1, <1>2, <1>3, <1>4

LEMMA WaitqueueWakeupStep ==
  ASSUME MuInv, NEW self \in Task, NEW q \in Waitqueue \ Mutex,
         os_waitqueue_wakeup(self, q), UNCHANGED mutexVars
  PROVE  WaitInv' /\ MutexInv'
<1>. USE DEF MuInv
<1>1. CASE waiting_list[q] = <<>>
  <2>1. UNCHANGED wqVars
    BY <1>1 DEF os_waitqueue_wakeup, WakeHead, os_waitqueue_empty
  <2>. QED BY <2>1, QuietStep DEF wqVars, taskVars, readyVars, SameSleepers, Asleep
<1>2. CASE waiting_list[q] # <<>>
  <2>. DEFINE h == Head(waiting_list[q])
  <2>1. /\ h \in Task /\ OnQueue(q, h) /\ WaitInv' /\ adding' = adding
        /\ \A r \in Waitqueue \ {q} : waiting_list'[r] = waiting_list[r]
        /\ \A r \in Waitqueue : \A u \in Task : OnQueue(r, u)' <=> OnQueue(r, u) /\ u # h
        /\ \A t \in Task : Asleep(t)' <=> Asleep(t) /\ t # h
    BY <1>2, WakeHeadStep DEF os_waitqueue_wakeup
  <2>. HIDE DEF h
  <2>2. locking[h] = NULL
    BY <2>1 DEF MutexInv, LockingIsExclusive
  <2>3. \A m \in Mutex : m \in Waitqueue \ {q} /\ waiting_list'[m] = waiting_list[m]
    BY <2>1, MutexAssumption
  <2>4. UnlockAssertionsHold' /\ CountIsOwners'
    BY FieldsUnchanged
  <2>. USE DEF mutexVars
  <2>5. MutexConsistent'
    <3>1. ASSUME NEW m \in Mutex, NEW t \in Task, Contains(waiting_list[m], t)
          PROVE  t # owner[m] /\ locking[t] = m /\ Asleep(t)' /\ m # NULL
      BY <2>1, <2>2, <3>1, MutexAssumption DEF MutexInv, MutexConsistent, Asleep
    <3>2. \A m \in Mutex : waiting_list[m] # <<>> => locked[m]
      BY DEF MutexInv, MutexConsistent
    <3>. QED BY <2>3, <3>1, <3>2, FieldsUnchanged DEF MutexConsistent, Asleep
  <2>6. LockReturnsAsOwner'
    BY <2>1, <2>2, <2>3 DEF MutexInv, LockReturnsAsOwner, Asleep
  <2>7. LockingIsExclusive'
    BY <2>1 DEF MutexInv, LockingIsExclusive
  <2>. QED BY <2>1, <2>4, <2>5, <2>6, <2>7 DEF MutexInv
<1>. QED BY <1>1, <1>2

-----------------------------------------------------------------------------
(***************************************************************************)
(* Mutexes.                                                                *)
(***************************************************************************)

\* What the running task knows of a mutex.
LEMMA AtMutex ==
  ASSUME MuInv, NEW self \in Task, MuCalls(self), NEW m \in Mutex
  PROVE  /\ m \in Waitqueue /\ m # NULL /\ self # NULL
         /\ current_task = self /\ ~Asleep(self) /\ self \notin adding /\ locking[self] = NULL
         /\ \A q \in Waitqueue : ~OnQueue(q, self)
         /\ locked[m] <=> owner[m] # NULL
         /\ locked[m] <=> refcnt[m] > 0
         /\ held[m][self] > 0 => owner[m] = self /\ refcnt[m] = held[m][self]
         /\ owner[m] = self => held[m][self] = refcnt[m]
         /\ refcnt[m] \in Nat /\ held[m][self] \in Nat
<1>. USE DEF MuInv, MuCalls
<1>1. /\ m \in Waitqueue /\ m # NULL /\ self # NULL
      /\ current_task = self /\ ~Asleep(self) /\ self \notin adding /\ locking[self] = NULL
      /\ \A q \in Waitqueue : ~OnQueue(q, self)
  BY AtMutexCall, TaskAssumption, MutexAssumption
<1>2. /\ locked[m] <=> owner[m] # NULL
      /\ locked[m] <=> refcnt[m] > 0
  BY DEF MutexInv, MutexConsistent
<1>3. /\ held[m][self] > 0 => owner[m] = self /\ refcnt[m] = held[m][self]
      /\ owner[m] = self => held[m][self] = refcnt[m]
      /\ refcnt[m] \in Nat /\ held[m][self] \in Nat
  BY <1>1 DEF MutexInv, UnlockAssertionsHold, CountIsOwners
<1>. QED BY <1>1, <1>2, <1>3

\* Task t now knows of n locks of mutex m.
HeldBecomes(m, t, n) == held' = [held EXCEPT ![m][t] = n]

LEMMA HeldStep ==
  ASSUME MutexInv, NEW m \in Mutex, NEW t \in Task, NEW n \in Nat, HeldBecomes(m, t, n)
  PROVE  /\ held' \in [Mutex -> [Task -> Nat]]
         /\ held'[m][t] = n
         /\ \A l \in Mutex : \A u \in Task : l # m \/ u # t => held'[l][u] = held[l][u]
<1>1. held \in [Mutex -> [Task -> Nat]]
  BY DEF MutexInv
<1>2. held' = [held EXCEPT ![m] = [held[m] EXCEPT ![t] = n]]
  BY DEF HeldBecomes
<1>. QED BY <1>1, <1>2

\* Steps that take no node off a queue and put none on, and change nobody's sleep.
LEMMA KeepsWaiting ==
  ASSUME WaitInv, UNCHANGED wqVars
  PROVE  WaitInv' /\ SameSleepers /\ \A q \in Waitqueue : \A t \in Task : OnQueue(q, t)' <=> OnQueue(q, t)
BY DEF WaitInv, NodesOutliveNoCall, wqVars, taskVars, readyVars, waitqueueVars, SameSleepers,
       Asleep, OnQueue

\* Locking a free mutex.
LEMMA LockFreeStep ==
  ASSUME MuInv, NEW self \in Task, NEW m \in Mutex, MuCalls(self), LockFree(m)
  PROVE  WaitInv' /\ MutexInv'
<1>. USE DEF MuInv
<1>1. /\ m \in Waitqueue /\ m # NULL /\ self # NULL
      /\ current_task = self /\ locking[self] = NULL
      /\ owner[m] = NULL /\ held[m][self] = 0
  BY AtMutex DEF LockFree
<1>2. /\ ~locked[m] /\ refcnt' = [refcnt EXCEPT ![m] = 1]
      /\ owner' = [owner EXCEPT ![m] = self]
      /\ locked' = [locked EXCEPT ![m] = TRUE]
      /\ HeldBecomes(m, self, 1)
      /\ locking' = locking /\ UNCHANGED wqVars
  BY <1>1 DEF LockFree, HeldBecomes
<1>3. /\ WaitInv' /\ waiting_list' = waiting_list
      /\ adding' = adding /\ task_state' = task_state
      /\ waiting_list[m] = <<>>
  BY <1>2, KeepsWaiting DEF MutexInv, MutexConsistent, wqVars, taskVars, readyVars, waitqueueVars
<1>4. /\ held' \in [Mutex -> [Task -> Nat]]
      /\ held'[m][self] = 1
      /\ \A l \in Mutex : \A u \in Task : l # m \/ u # self => held'[l][u] = held[l][u]
  BY <1>2, HeldStep
<1>5. /\ refcnt' \in [Mutex -> Nat] /\ refcnt'[m] = 1
      /\ owner' \in [Mutex -> Task \cup {NULL}] /\ owner'[m] = self
      /\ locked' \in [Mutex -> BOOLEAN] /\ locked'[m] = TRUE
      /\ locking' \in [Task -> Mutex \cup {NULL}]
      /\ \A l \in Mutex \ {m} : refcnt'[l] = refcnt[l] /\ owner'[l] = owner[l] /\ locked'[l] = locked[l]
  BY <1>2 DEF MutexInv
<1>6. \A t \in Task : held[m][t] = 0
  BY <1>2 DEF MutexInv, UnlockAssertionsHold
<1>7. MutexConsistent'
  <2>1. ASSUME NEW l \in Mutex \ {m}
        PROVE  /\ locked'[l] <=> owner'[l] # NULL
               /\ locked'[l] <=> refcnt'[l] > 0
               /\ waiting_list'[l] # <<>> => locked'[l]
               /\ \A t \in Task : Contains(waiting_list'[l], t) =>
                    t # owner'[l] /\ locking'[t] = l /\ task_state'[t] = "SLEEPING"
    BY <1>2, <1>3, <1>5 DEF MutexInv, MutexConsistent
  <2>2. \A t \in Task : ~Contains(waiting_list'[m], t)
    BY <1>3 DEF Contains
  <2>. QED BY <1>1, <1>3, <1>5, <2>1, <2>2 DEF MutexConsistent
<1>8. UnlockAssertionsHold'
  BY <1>4, <1>5, <1>6 DEF MutexInv, UnlockAssertionsHold
<1>9. LockReturnsAsOwner'
  <2>1. \A t \in Task : ~Contains(waiting_list[m], t)
    BY <1>3 DEF Contains
  <2>2. \A t \in Task : locking[t] # m
    BY <1>1, <2>1, TaskAssumption DEF MutexInv, LockReturnsAsOwner
  <2>. QED BY <1>2, <1>3, <1>5, <2>2 DEF MutexInv, LockReturnsAsOwner
<1>10. CountIsOwners'
  BY <1>1, <1>2, <1>4, <1>5 DEF MutexInv, CountIsOwners
<1>11. LockingIsExclusive'
  BY <1>1, <1>2, <1>3, <1>4 DEF MutexInv, LockingIsExclusive, OnQueue
<1>. QED BY <1>3, <1>4, <1>5, <1>7, <1>8, <1>9, <1>10, <1>11 DEF MutexInv

\* Locking it again.
LEMMA LockAgainStep ==
  ASSUME MuInv, NEW self \in Task, NEW m \in Mutex, MuCalls(self), LockAgain(m)
  PROVE  WaitInv' /\ MutexInv'
<1>. USE DEF MuInv
<1>1. /\ m \in Waitqueue /\ m # NULL /\ self # NULL
      /\ current_task = self /\ locking[self] = NULL
      /\ owner[m] = self /\ held[m][self] = refcnt[m] /\ refcnt[m] \in Nat
  BY AtMutex DEF LockAgain
<1>2. /\ locked[m] /\ refcnt' = [refcnt EXCEPT ![m] = refcnt[m] + 1]
      /\ HeldBecomes(m, self, refcnt[m] + 1)
      /\ UNCHANGED <<wqVars, locked, owner, locking>>
  BY <1>1 DEF LockAgain, HeldBecomes
<1>3. WaitInv' /\ waiting_list' = waiting_list /\ adding' = adding /\ task_state' = task_state
  BY <1>2, KeepsWaiting DEF wqVars, taskVars, readyVars, waitqueueVars
<1>4. /\ held' \in [Mutex -> [Task -> Nat]]
      /\ held'[m][self] = refcnt[m] + 1
      /\ \A l \in Mutex : \A u \in Task : l # m \/ u # self => held'[l][u] = held[l][u]
  BY <1>1, <1>2, HeldStep
<1>5. /\ refcnt' \in [Mutex -> Nat] /\ refcnt'[m] = refcnt[m] + 1
      /\ \A l \in Mutex \ {m} : refcnt'[l] = refcnt[l]
  BY <1>1, <1>2 DEF MutexInv
<1>6. MutexConsistent'
  <2>1. \A l \in Mutex : refcnt'[l] > 0 <=> refcnt[l] > 0
    BY <1>1, <1>2, <1>5 DEF MutexInv, MutexConsistent
  <2>. QED BY <1>2, <1>3, <2>1 DEF MutexInv, MutexConsistent
<1>7. UnlockAssertionsHold'
  BY <1>1, <1>2, <1>4, <1>5 DEF MutexInv, UnlockAssertionsHold
<1>8. LockReturnsAsOwner'
  BY <1>1, <1>2, <1>3, <1>5 DEF MutexInv, LockReturnsAsOwner
<1>9. CountIsOwners'
  BY <1>1, <1>2, <1>4, <1>5 DEF MutexInv, CountIsOwners
<1>10. LockingIsExclusive'
  BY <1>1, <1>2, <1>3, <1>4 DEF MutexInv, LockingIsExclusive, OnQueue
<1>. QED BY <1>2, <1>3, <1>4, <1>5, <1>6, <1>7, <1>8, <1>9, <1>10 DEF MutexInv

\* Finding it taken: the caller is on the mutex's queue and asleep, in one step.
LEMMA LockContendedStep ==
  ASSUME MuInv, NEW self \in Task \ {task_idle}, NEW m \in Mutex, MuCalls(self), LockContended(m)
  PROVE  WaitInv' /\ MutexInv'
<1>. USE DEF MuInv
<1>1. /\ m \in Waitqueue /\ m # NULL /\ self # NULL
      /\ current_task = self /\ self \notin adding /\ locking[self] = NULL
      /\ \A q \in Waitqueue : ~OnQueue(q, self)
      /\ locked[m] /\ owner[m] # self /\ held[m][self] = 0
      /\ owner[m] # NULL
  BY AtMutex DEF LockContended
<1>2. /\ os_waitqueue_add(m, self) /\ os_task_sleep(self) /\ adding' = adding
      /\ locking' = [locking EXCEPT ![self] = m]
      /\ UNCHANGED <<locked, owner, refcnt, held>>
  BY <1>1 DEF LockContended, WaitAtomically, os_task_sleep, MuCalls, Calls
<1>3. /\ waiting_list' \in [Waitqueue -> Seq(Task)]
      /\ \A r \in Waitqueue \ {m} : waiting_list'[r] = waiting_list[r]
      /\ \A r \in Waitqueue : IsInjective(waiting_list'[r])
      /\ \A r \in Waitqueue : \A u \in Task :
           OnQueue(r, u)' <=> OnQueue(r, u) \/ (r = m /\ u = self)
  BY <1>1, <1>2, AddNode
<1>4. \A t \in Task : Asleep(t)' <=> Asleep(t) \/ t = self
  BY <1>2, SleepSleepers
<1>5. WaitInv'
  <2>1. ASSUME NEW q \in Waitqueue, NEW t \in Task, OnQueue(q, t)'
        PROVE  /\ Asleep(t)' \/ t \in adding'
               /\ \A r \in Waitqueue \ {q} : ~OnQueue(r, t)'
    <3>1. CASE t = self
      BY <1>1, <1>3, <1>4, <2>1, <3>1
    <3>2. CASE t # self
      BY <1>2, <1>3, <1>4, <2>1, <3>2 DEF WaitInv, NodesOutliveNoCall, OnQueue, Asleep
    <3>. QED BY <3>1, <3>2
  <2>2. NodesOutliveNoCall'
    BY <1>3, <2>1 DEF NodesOutliveNoCall, OnQueue, Asleep
  <2>3. adding' \in SUBSET Task /\ \A t \in adding' : ~Asleep(t)'
    BY <1>1, <1>2, <1>4 DEF WaitInv
  <2>. QED BY <1>3, <2>2, <2>3 DEF WaitInv
<1>6. /\ locking' \in [Task -> Mutex \cup {NULL}] /\ locking'[self] = m
      /\ \A t \in Task : t # self => locking'[t] = locking[t]
  BY <1>2 DEF MutexInv
<1>7. \A l \in Mutex : l \in Waitqueue /\ l # NULL
  BY MutexAssumption
<1>8. MutexConsistent'
  <2>1. ASSUME NEW l \in Mutex
        PROVE  /\ locked'[l] <=> owner'[l] # NULL
               /\ locked'[l] <=> refcnt'[l] > 0
               /\ waiting_list'[l] # <<>> => locked'[l]
    BY <1>1, <1>2, <1>3, <1>7 DEF MutexInv, MutexConsistent
  <2>2. ASSUME NEW l \in Mutex, NEW t \in Task, OnQueue(l, t)'
        PROVE  t # owner'[l] /\ locking'[t] = l /\ Asleep(t)'
    <3>1. CASE t = self
      BY <1>1, <1>2, <1>3, <1>4, <1>6, <1>7, <2>2, <3>1
    <3>2. CASE t # self
      BY <1>2, <1>3, <1>4, <1>6, <1>7, <2>2, <3>2 DEF MutexInv, MutexConsistent, OnQueue, Asleep
    <3>. QED BY <3>1, <3>2
  <2>. QED BY <2>1, <2>2 DEF MutexConsistent, OnQueue, Asleep
<1>9. UnlockAssertionsHold' /\ CountIsOwners'
  <2>1. UnlockAssertionsHold'
    BY <1>2 DEF MutexInv, UnlockAssertionsHold
  <2>2. ASSUME NEW l \in Mutex, NEW t \in Task, owner[l] = t
        PROVE  locking'[t] = l <=> locking[t] = l
    BY <1>1, <1>6, <1>7, <2>2
  <2>. QED BY <1>2, <2>1, <2>2 DEF MutexInv, CountIsOwners
<1>10. LockReturnsAsOwner'
  <2>1. ASSUME NEW t \in Task, NEW l \in Mutex, locking'[t] = l
        PROVE  \/ Asleep(t)' /\ OnQueue(l, t)'
               \/ ~Asleep(t)' /\ owner'[l] = t /\ refcnt'[l] = 1
    <3>1. CASE t = self
      BY <1>1, <1>3, <1>4, <1>6, <2>1, <3>1
    <3>2. CASE t # self
      <4>1. locking[t] = l /\ l # NULL /\ l \in Waitqueue
        BY <1>6, <1>7, <2>1, <3>2
      <4>2. \/ Asleep(t) /\ OnQueue(l, t)
            \/ ~Asleep(t) /\ owner[l] = t /\ refcnt[l] = 1
        BY <4>1 DEF MutexInv, LockReturnsAsOwner, Asleep, OnQueue
      <4>. QED BY <1>2, <1>3, <1>4, <3>2, <4>1, <4>2
    <3>. QED BY <3>1, <3>2
  <2>. QED BY <1>6, <2>1 DEF LockReturnsAsOwner, Asleep, OnQueue
<1>11. LockingIsExclusive'
  BY <1>1, <1>2, <1>3, <1>6 DEF MutexInv, LockingIsExclusive
<1>. QED BY <1>2, <1>5, <1>6, <1>8, <1>9, <1>10, <1>11 DEF MutexInv

\* The return of a contended call.
LEMMA LockReturnStep ==
  ASSUME MuInv, NEW self \in Task, os_mutex_lock_return(self)
  PROVE  WaitInv' /\ MutexInv'
<1>. USE DEF MuInv
<1>. DEFINE m == locking[self]
<1>1. /\ m \in Mutex /\ m # NULL /\ ~Asleep(self)
      /\ owner[m] = self /\ refcnt[m] = 1 /\ held[m][self] = 0
  BY DEF os_mutex_lock_return, Runs, Asleep, MutexInv, LockReturnsAsOwner, LockingIsExclusive
<1>2. /\ HeldBecomes(m, self, 1)
      /\ locking' = [locking EXCEPT ![self] = NULL]
      /\ UNCHANGED <<wqVars, locked, owner, refcnt>>
  BY <1>1 DEF os_mutex_lock_return, HeldBecomes
<1>3. /\ WaitInv' /\ waiting_list' = waiting_list
      /\ adding' = adding /\ task_state' = task_state
  BY <1>2, KeepsWaiting DEF wqVars, taskVars, readyVars, waitqueueVars
<1>4. /\ locking' \in [Task -> Mutex \cup {NULL}] /\ locking'[self] = NULL
      /\ \A t \in Task : t # self => locking'[t] = locking[t]
  BY <1>2 DEF MutexInv
<1>5. locking[self] = m
  OBVIOUS
<1>. HIDE DEF m
<1>6. /\ held' \in [Mutex -> [Task -> Nat]]
      /\ held'[m][self] = 1
      /\ \A l \in Mutex : \A u \in Task : l # m \/ u # self => held'[l][u] = held[l][u]
  BY <1>1, <1>2, HeldStep
<1>7. MutexConsistent'
  <2>1. ASSUME NEW l \in Mutex, NEW t \in Task, Contains(waiting_list[l], t)
        PROVE  t # self
    BY <1>1, <2>1 DEF MutexInv, MutexConsistent, Asleep
  <2>. QED BY <1>2, <1>3, <1>4, <2>1 DEF MutexInv, MutexConsistent
<1>8. UnlockAssertionsHold'
  <2>1. locked[m] = TRUE
    BY <1>1, TaskAssumption DEF MutexInv, MutexConsistent
  <2>. QED BY <1>1, <1>2, <1>6, <2>1 DEF MutexInv, UnlockAssertionsHold
<1>9. LockReturnsAsOwner'
  BY <1>2, <1>3, <1>4 DEF MutexInv, LockReturnsAsOwner
<1>10. CountIsOwners'
  BY <1>1, <1>2, <1>4, <1>5, <1>6, MutexAssumption DEF MutexInv, CountIsOwners
<1>11. LockingIsExclusive'
  BY <1>1, <1>2, <1>3, <1>4, <1>6 DEF MutexInv, LockingIsExclusive, OnQueue
<1>. QED BY <1>2, <1>3, <1>4, <1>6, <1>7, <1>8, <1>9, <1>10, <1>11 DEF MutexInv

\* An unlock leaves its caller with one lock less.
UnlockHeld(m, self) ==
  /\ held[m][self] > 0
  /\ held' = [held EXCEPT ![m][self] = @ - 1]
  /\ UNCHANGED locking

LEMMA UnlockFacts ==
  ASSUME MuInv, NEW self \in Task, NEW m \in Mutex, MuCalls(self), UnlockHeld(m, self)
  PROVE  /\ owner[m] = self /\ refcnt[m] = held[m][self] /\ refcnt[m] \in Nat \ {0}
         /\ locked[m] /\ locking[self] = NULL
         /\ \A t \in Task : t # self => held[m][t] = 0
         /\ held' \in [Mutex -> [Task -> Nat]]
         /\ held'[m][self] = refcnt[m] - 1
         /\ \A l \in Mutex : \A u \in Task : l # m \/ u # self => held'[l][u] = held[l][u]
<1>. USE DEF MuInv
<1>1. /\ owner[m] = self /\ refcnt[m] = held[m][self] /\ refcnt[m] \in Nat \ {0}
      /\ locking[self] = NULL /\ self # NULL
  BY AtMutex DEF UnlockHeld
<1>2. locked[m] = TRUE
  BY <1>1 DEF MutexInv, MutexConsistent
<1>3. \A t \in Task : t # self => held[m][t] = 0
  BY <1>1 DEF MutexInv, UnlockAssertionsHold
<1>4. HeldBecomes(m, self, refcnt[m] - 1) /\ refcnt[m] - 1 \in Nat
  BY <1>1 DEF UnlockHeld, HeldBecomes
<1>5. /\ held' \in [Mutex -> [Task -> Nat]]
      /\ held'[m][self] = refcnt[m] - 1
      /\ \A l \in Mutex : \A u \in Task : l # m \/ u # self => held'[l][u] = held[l][u]
  BY <1>4, HeldStep
<1>. QED BY <1>1, <1>2, <1>3, <1>5

LEMMA UnlockNestedStep ==
  ASSUME MuInv, NEW self \in Task, NEW m \in Mutex, MuCalls(self), UnlockHeld(m, self),
         UnlockNested(m)
  PROVE  WaitInv' /\ MutexInv'
<1>1. /\ owner[m] = self /\ refcnt[m] = held[m][self] /\ refcnt[m] \in Nat \ {0}
      /\ locked[m] /\ locking[self] = NULL
      /\ held' \in [Mutex -> [Task -> Nat]]
      /\ held'[m][self] = refcnt[m] - 1
      /\ \A l \in Mutex : \A u \in Task : l # m \/ u # self => held'[l][u] = held[l][u]
  BY UnlockFacts
<1>. USE DEF MuInv
<1>2. /\ refcnt[m] # 1 /\ refcnt' = [refcnt EXCEPT ![m] = @ - 1]
      /\ UNCHANGED <<wqVars, locked, owner, locking>>
  BY DEF UnlockNested, UnlockHeld
<1>3. WaitInv' /\ waiting_list' = waiting_list /\ adding' = adding /\ task_state' = task_state
  BY <1>2, KeepsWaiting DEF wqVars, taskVars, readyVars, waitqueueVars
<1>4. /\ refcnt' \in [Mutex -> Nat] /\ refcnt'[m] = refcnt[m] - 1 /\ refcnt'[m] > 0
      /\ \A l \in Mutex \ {m} : refcnt'[l] = refcnt[l]
  BY <1>1, <1>2 DEF MutexInv
<1>5. MutexConsistent'
  <2>1. \A l \in Mutex : refcnt'[l] > 0 <=> refcnt[l] > 0
    BY <1>1, <1>4
  <2>. QED BY <1>2, <1>3, <2>1 DEF MutexInv, MutexConsistent
<1>6. UnlockAssertionsHold'
  BY <1>1, <1>2, <1>4 DEF MutexInv, UnlockAssertionsHold
<1>7. LockReturnsAsOwner'
  <2>1. \A t \in Task : locking[t] = m => t # self
    BY <1>1, MutexAssumption
  <2>. QED BY <1>1, <1>2, <1>3, <1>4, <2>1 DEF MutexInv, LockReturnsAsOwner
<1>8. CountIsOwners'
  BY <1>1, <1>2, <1>4, MutexAssumption DEF MutexInv, CountIsOwners
<1>9. LockingIsExclusive'
  BY <1>1, <1>2, <1>3, <1>4 DEF MutexInv, LockingIsExclusive, OnQueue
<1>. QED BY <1>1, <1>2, <1>3, <1>4, <1>5, <1>6, <1>7, <1>8, <1>9 DEF MutexInv

\* The last unlock when somebody waits: the head of the queue is the owner before it
\* is woken.
LEMMA UnlockHandOffStep ==
  ASSUME MuInv, NEW self \in Task, NEW m \in Mutex, MuCalls(self), UnlockHeld(m, self),
         UnlockHandOff(m)
  PROVE  WaitInv' /\ MutexInv'
<1>. DEFINE h == Head(waiting_list[m])
<1>1. /\ owner[m] = self /\ refcnt[m] = held[m][self]
      /\ locked[m] /\ locking[self] = NULL
      /\ \A t \in Task : t # self => held[m][t] = 0
      /\ held' \in [Mutex -> [Task -> Nat]]
      /\ held'[m][self] = refcnt[m] - 1
      /\ \A l \in Mutex : \A u \in Task : l # m \/ u # self => held'[l][u] = held[l][u]
  BY UnlockFacts
<1>. USE DEF MuInv
<1>2. /\ m \in Waitqueue /\ waiting_list[m] # <<>> /\ refcnt[m] = 1
      /\ os_waitqueue_get_head(m) = h /\ WakeHead(m) /\ Calls(self)
      /\ refcnt' = [refcnt EXCEPT ![m] = 1]
      /\ owner' = [owner EXCEPT ![m] = h]
      /\ UNCHANGED <<locked, locking>>
  BY MutexAssumption
  DEF UnlockHandOff, UnlockHeld, os_waitqueue_get_head, os_waitqueue_empty, MuCalls
<1>3. /\ h \in Task /\ OnQueue(m, h) /\ WaitInv' /\ adding' = adding
      /\ \A r \in Waitqueue \ {m} : waiting_list'[r] = waiting_list[r]
      /\ \A r \in Waitqueue : \A u \in Task : OnQueue(r, u)' <=> OnQueue(r, u) /\ u # h
      /\ \A t \in Task : Asleep(t)' <=> Asleep(t) /\ t # h
  BY <1>2, WakeHeadStep
<1>. HIDE DEF h
<1>4. h # self /\ locking[h] = m /\ h # NULL /\ m # NULL
  BY <1>1, <1>3, TaskAssumption, MutexAssumption DEF MutexInv, MutexConsistent, OnQueue
<1>5. /\ refcnt' \in [Mutex -> Nat] /\ refcnt'[m] = 1
      /\ owner' \in [Mutex -> Task \cup {NULL}] /\ owner'[m] = h
      /\ \A l \in Mutex \ {m} : refcnt'[l] = refcnt[l] /\ owner'[l] = owner[l]
      /\ held'[m][self] = 0
      /\ \A l \in Mutex : l \in Waitqueue /\ l # NULL
  BY <1>1, <1>2, <1>3, MutexAssumption DEF MutexInv
<1>6. MutexConsistent'
  <2>1. ASSUME NEW l \in Mutex
        PROVE  /\ locked'[l] <=> owner'[l] # NULL
               /\ locked'[l] <=> refcnt'[l] > 0
               /\ waiting_list'[l] # <<>> => locked'[l]
    <3>1. CASE l = m
      BY <1>1, <1>2, <1>4, <1>5, <3>1
    <3>2. CASE l # m
      <4>1. /\ locked'[l] = locked[l] /\ owner'[l] = owner[l] /\ refcnt'[l] = refcnt[l]
            /\ waiting_list'[l] = waiting_list[l]
        BY <1>2, <1>3, <1>5, <3>2
      <4>2. /\ locked[l] <=> owner[l] # NULL
            /\ locked[l] <=> refcnt[l] > 0
            /\ waiting_list[l] # <<>> => locked[l]
        BY DEF MutexInv, MutexConsistent
      <4>. QED BY <4>1, <4>2
    <3>. QED BY <3>1, <3>2
  <2>2. ASSUME NEW l \in Mutex, NEW t \in Task, OnQueue(l, t)'
        PROVE  t # owner'[l] /\ locking'[t] = l /\ Asleep(t)'
    <3>1. OnQueue(l, t) /\ t # h
      BY <1>3, <1>5, <2>2
    <3>2. t # owner[l] /\ locking[t] = l /\ Asleep(t)
      BY <3>1 DEF MutexInv, MutexConsistent, OnQueue, Asleep
    <3>. QED BY <1>2, <1>3, <1>5, <3>1, <3>2
  <2>. QED BY <2>1, <2>2 DEF MutexConsistent, OnQueue, Asleep
<1>7. UnlockAssertionsHold'
  BY <1>1, <1>2, <1>4, <1>5 DEF MutexInv, UnlockAssertionsHold
<1>8. LockReturnsAsOwner'
  <2>1. ASSUME NEW t \in Task, NEW l \in Mutex, locking[t] = l
        PROVE  \/ Asleep(t)' /\ OnQueue(l, t)'
               \/ ~Asleep(t)' /\ owner'[l] = t /\ refcnt'[l] = 1
    <3>1. \/ Asleep(t) /\ OnQueue(l, t)
          \/ ~Asleep(t) /\ owner[l] = t /\ refcnt[l] = 1
      BY <1>5, <2>1 DEF MutexInv, LockReturnsAsOwner, Asleep, OnQueue
    <3>2. CASE t = h
      BY <1>3, <1>4, <1>5, <2>1, <3>2
    <3>3. CASE t # h
      BY <1>1, <1>3, <1>5, <2>1, <3>1, <3>3
    <3>. QED BY <3>2, <3>3
  <2>. QED BY <1>2, <2>1 DEF MutexInv, LockReturnsAsOwner, Asleep, OnQueue
<1>9. CountIsOwners'
  BY <1>1, <1>2, <1>4, <1>5 DEF MutexInv, CountIsOwners
<1>10. LockingIsExclusive'
  <2>1. ASSUME NEW t \in Task, NEW l \in Mutex, locking[t] = l
        PROVE  t \notin adding' /\ held'[l][t] = 0
    <3>1. t \notin adding /\ held[l][t] = 0
      BY <1>5, <2>1 DEF MutexInv, LockingIsExclusive
    <3>. QED BY <1>1, <1>3, <1>5, <3>1
  <2>2. ASSUME NEW q \in Waitqueue \ Mutex, NEW t \in Task, OnQueue(q, t)'
        PROVE  locking'[t] = NULL
    BY <1>2, <1>3, <2>2 DEF MutexInv, LockingIsExclusive
  <2>. QED BY <1>2, <2>1, <2>2 DEF MutexInv, LockingIsExclusive
<1>. QED BY <1>1, <1>2, <1>3, <1>5, <1>6, <1>7, <1>8, <1>9, <1>10 DEF MutexInv

\* The last unlock when nobody waits.
LEMMA UnlockFreeStep ==
  ASSUME MuInv, NEW self \in Task, NEW m \in Mutex, MuCalls(self), UnlockHeld(m, self),
         UnlockFree(m)
  PROVE  WaitInv' /\ MutexInv'
<1>1. /\ owner[m] = self /\ refcnt[m] = held[m][self]
      /\ locked[m] /\ locking[self] = NULL
      /\ \A t \in Task : t # self => held[m][t] = 0
      /\ held' \in [Mutex -> [Task -> Nat]]
      /\ held'[m][self] = refcnt[m] - 1
      /\ \A l \in Mutex : \A u \in Task : l # m \/ u # self => held'[l][u] = held[l][u]
  BY UnlockFacts
<1>. USE DEF MuInv
<1>2. /\ refcnt[m] = 1 /\ os_waitqueue_get_head(m) = NULL
      /\ refcnt' = [refcnt EXCEPT ![m] = 0]
      /\ owner' = [owner EXCEPT ![m] = NULL]
      /\ locked' = [locked EXCEPT ![m] = FALSE]
      /\ UNCHANGED <<wqVars, locking>>
  BY DEF UnlockFree, UnlockHeld
<1>3. WaitInv' /\ waiting_list' = waiting_list /\ adding' = adding /\ task_state' = task_state
  BY <1>2, KeepsWaiting DEF wqVars, taskVars, readyVars, waitqueueVars
<1>4. waiting_list[m] = <<>>
  <2>1. ASSUME waiting_list[m] # <<>> PROVE FALSE
    <3>1. waiting_list[m] \in Seq(Task)
      BY MutexAssumption DEF WaitInv
    <3>2. Head(waiting_list[m]) \in Task
      BY <2>1, <3>1
    <3>. QED BY <1>2, <2>1, <3>2, TaskAssumption DEF os_waitqueue_get_head, os_waitqueue_empty
  <2>. QED BY <2>1
<1>5. /\ refcnt' \in [Mutex -> Nat] /\ refcnt'[m] = 0
      /\ owner' \in [Mutex -> Task \cup {NULL}] /\ owner'[m] = NULL
      /\ locked' \in [Mutex -> BOOLEAN] /\ locked'[m] = FALSE
      /\ \A l \in Mutex \ {m} : refcnt'[l] = refcnt[l] /\ owner'[l] = owner[l] /\ locked'[l] = locked[l]
      /\ held'[m][self] = 0
  BY <1>1, <1>2 DEF MutexInv
<1>6. \A t \in Task : ~Contains(waiting_list[m], t)
  BY <1>4 DEF Contains
<1>7. \A t \in Task : locking[t] # m
  BY <1>1, <1>6, MutexAssumption DEF MutexInv, LockReturnsAsOwner
<1>8. MutexConsistent'
  <2>1. ASSUME NEW l \in Mutex \ {m}
        PROVE  /\ locked'[l] <=> owner'[l] # NULL
               /\ locked'[l] <=> refcnt'[l] > 0
               /\ waiting_list'[l] # <<>> => locked'[l]
               /\ \A t \in Task : Contains(waiting_list'[l], t) =>
                    t # owner'[l] /\ locking'[t] = l /\ task_state'[t] = "SLEEPING"
    BY <1>2, <1>3, <1>5 DEF MutexInv, MutexConsistent
  <2>. QED BY <1>3, <1>4, <1>5, <1>6, <2>1 DEF MutexConsistent
<1>9. UnlockAssertionsHold'
  <2>1. \A t \in Task : held'[m][t] = 0
    BY <1>1, <1>5
  <2>2. ASSUME NEW l \in Mutex \ {m}, NEW t \in Task, held'[l][t] > 0
        PROVE  locked'[l] /\ owner'[l] = t /\ refcnt'[l] = held'[l][t]
    BY <1>1, <1>5, <2>2 DEF MutexInv, UnlockAssertionsHold
  <2>. QED BY <2>1, <2>2 DEF UnlockAssertionsHold
<1>10. LockReturnsAsOwner'
  BY <1>2, <1>3, <1>5, <1>7 DEF MutexInv, LockReturnsAsOwner
<1>11. CountIsOwners'
  BY <1>1, <1>2, <1>5, TaskAssumption DEF MutexInv, CountIsOwners
<1>12. LockingIsExclusive'
  BY <1>1, <1>2, <1>3, <1>5, <1>7 DEF MutexInv, LockingIsExclusive, OnQueue
<1>. QED BY <1>1, <1>2, <1>3, <1>5, <1>8, <1>9, <1>10, <1>11, <1>12 DEF MutexInv

-----------------------------------------------------------------------------
(***************************************************************************)
(* Every step keeps the invariant.                                         *)
(***************************************************************************)
LEMMA MuTaskCallStep ==
  ASSUME MuInv, NEW self \in Task \ {task_idle}, MuTaskCall(self)
  PROVE  WaitInv' /\ MutexInv' /\ [Next]_taskVars
<1>. USE DEF MuInv
<1>1. ASSUME NEW m \in Mutex, os_mutex_lock(self, m)
      PROVE  WaitInv' /\ MutexInv' /\ [Next]_taskVars
  <2>1. MuCalls(self)
    BY <1>1 DEF os_mutex_lock
  <2>2. CASE LockFree(m)
    BY <2>1, <2>2, LockFreeStep DEF LockFree, wqVars
  <2>3. CASE LockAgain(m)
    BY <2>1, <2>3, LockAgainStep DEF LockAgain, wqVars
  <2>4. CASE LockContended(m)
    <3>1. os_task_sleep(self)
      BY <2>1, <2>4 DEF LockContended, WaitAtomically, os_task_sleep, MuCalls, Calls
    <3>. QED BY <2>1, <2>4, <3>1, LockContendedStep DEF Next, TaskCall
  <2>. QED BY <1>1, <2>2, <2>3, <2>4 DEF os_mutex_lock
<1>2. ASSUME NEW m \in Mutex, os_mutex_unlock(self, m)
      PROVE  WaitInv' /\ MutexInv' /\ [Next]_taskVars
  <2>1. MuCalls(self) /\ UnlockHeld(m, self)
    BY <1>2 DEF os_mutex_unlock, UnlockHeld
  <2>2. CASE UnlockNested(m)
    BY <2>1, <2>2, UnlockNestedStep DEF UnlockNested, wqVars
  <2>3. CASE UnlockHandOff(m)
    <3>1. m \in Waitqueue /\ waiting_list[m] # <<>> /\ WakeHead(m) /\ Calls(self)
      BY <2>1, <2>3, MutexAssumption
      DEF UnlockHandOff, os_waitqueue_get_head, os_waitqueue_empty, MuCalls
    <3>2. os_task_wakeup(self, Head(waiting_list[m])) /\ Head(waiting_list[m]) \in Task
      BY <3>1, WakeHeadStep
    <3>3. Next
      BY <3>2 DEF Next, TaskCall
    <3>. QED BY <2>1, <2>3, <3>3, UnlockHandOffStep
  <2>4. CASE UnlockFree(m)
    BY <2>1, <2>4, UnlockFreeStep DEF UnlockFree, wqVars
  <2>. QED BY <1>2, <2>2, <2>3, <2>4 DEF os_mutex_unlock
<1>3. CASE os_mutex_lock_return(self)
  BY <1>3, LockReturnStep DEF os_mutex_lock_return, wqVars
<1>4. ASSUME locking[self] = NULL, WqTaskCall(self, Waitqueue \ Mutex), UNCHANGED mutexVars
      PROVE  WaitInv' /\ MutexInv' /\ [Next]_taskVars
  <2>1. ASSUME NEW q \in Waitqueue \ Mutex, os_waitqueue_wait(self, q)
        PROVE  WaitInv' /\ MutexInv' /\ [Next]_taskVars
    BY <1>4, <2>1, WaitStep DEF os_waitqueue_wait
  <2>2. ASSUME NEW q \in Waitqueue \ Mutex, os_waitqueue_wakeup(self, q)
        PROVE  WaitInv' /\ MutexInv' /\ [Next]_taskVars
    <3>1. CASE waiting_list[q] = <<>>
      BY <1>4, <2>2, <3>1, WaitqueueWakeupStep
      DEF os_waitqueue_wakeup, WakeHead, os_waitqueue_empty, wqVars
    <3>2. CASE waiting_list[q] # <<>>
      <4>1. os_task_wakeup(self, Head(waiting_list[q])) /\ Head(waiting_list[q]) \in Task
        BY <2>2, <3>2, WakeHeadStep DEF os_waitqueue_wakeup
      <4>2. Next
        BY <4>1 DEF Next, TaskCall
      <4>. QED BY <1>4, <2>2, <4>2, WaitqueueWakeupStep
    <3>. QED BY <3>1, <3>2
  <2>3. CASE os_waitqueue_wait_sleep(self)
    <3>1. os_task_sleep(self)
      BY <2>3 DEF os_waitqueue_wait_sleep, os_task_sleep
    <3>. QED BY <1>4, <2>3, <3>1, WaitSleepStep DEF Next, TaskCall
  <2>4. CASE OtherCall(self)
    <3>1. SameSleepers
      BY <2>4, OtherSleepers
    <3>2. WaitInv' /\ MutexInv'
      BY <1>4, <2>4, <3>1, QuietStep DEF OtherCall
    <3>3. Next
      BY <2>4 DEF OtherCall, Next, TaskCall
    <3>. QED BY <3>2, <3>3
  <2>. QED BY <1>4, <2>1, <2>2, <2>3, <2>4 DEF WqTaskCall
<1>. QED BY <1>1, <1>2, <1>3, <1>4 DEF MuTaskCall

LEMMA MuNextInv == MuInv /\ [MuNext]_muVars => MuInv'
<1>. SUFFICES ASSUME MuInv, [MuNext]_muVars PROVE MuInv'
  OBVIOUS
<1>1. CASE SystemStep /\ UNCHANGED mutexVars
  <2>1. SameSleepers /\ Next
    BY <1>1, SystemSleepers DEF SystemStep, MuInv, Next
  <2>2. WaitInv' /\ MutexInv'
    BY <1>1, <2>1, QuietStep DEF SystemStep, MuInv
  <2>. QED BY <2>1, <2>2, NextInv DEF MuInv, StepOK
<1>2. ASSUME NEW self \in Task \ {task_idle}, MuTaskCall(self)
      PROVE  MuInv'
  <2>1. WaitInv' /\ MutexInv' /\ [Next]_taskVars
    BY <1>2, MuTaskCallStep
  <2>. QED BY <2>1, NextInv DEF MuInv, StepOK
<1>3. CASE UNCHANGED muVars
  <2>1. SameSleepers /\ UNCHANGED taskVars
    BY <1>3 DEF muVars, wqVars, taskVars, readyVars, SameSleepers, Asleep
  <2>2. WaitInv' /\ MutexInv'
    BY <1>3, <2>1, QuietStep DEF muVars, wqVars, MuInv
  <2>. QED BY <2>1, <2>2, NextInv DEF MuInv, StepOK
<1>. QED BY <1>1, <1>2, <1>3 DEF MuNext

LEMMA MuInvariant == MuSpec => []MuInv
BY MuInitInv, MuNextInv, PTL DEF MuSpec

LEMMA MuInvImplies == MuInv => MutexExact /\ NodesOutliveNoCall
BY DEF MuInv, WaitInv, MutexInv, SchedInv, MutexExact, MuTypeOK, WqTypeOK

\* A mutex, its queue, its owner and the calls inside it agree: the assertions of
\* os_mutex_unlock hold for whoever may call it, a contended os_mutex_lock returns only
\* as owner, and the waiters are the sleepers on the mutex's queue.
THEOREM MutexesAreExact == MuSpec => []MutexExact
BY MuInvariant, MuInvImplies, PTL

\* A queue node, a local variable of the waiting call, is on a queue only while
\* its call lasts.
THEOREM NodesLastAsLongAsCalls == MuSpec => []NodesOutliveNoCall
BY MuInvariant, MuInvImplies, PTL

-----------------------------------------------------------------------------
(***************************************************************************)
(* Order of wake-ups.                                                      *)
(***************************************************************************)

\* WakesInOrder of one step.
InOrder ==
  \A q \in Waitqueue :
    \/ waiting_list'[q] = waiting_list[q]
    \/ \E t \in Task : waiting_list'[q] = Append(waiting_list[q], t)
    \/ /\ waiting_list[q] # <<>>
       /\ waiting_list'[q] = Tail(waiting_list[q])
       /\ ~ (task_state'[Head(waiting_list[q])] = "SLEEPING"
             /\ task_state[Head(waiting_list[q])] = "SLEEPING")

LEMMA AddInOrder ==
  ASSUME MuInv, NEW self \in Task, NEW q \in Waitqueue, Calls(self), os_waitqueue_add(q, self)
  PROVE  InOrder
<1>1. /\ waiting_list'[q] = Append(waiting_list[q], self)
      /\ \A r \in Waitqueue \ {q} : waiting_list'[r] = waiting_list[r]
  BY AtMutexCall, AddNode DEF MuInv
<1>. QED BY <1>1 DEF InOrder

LEMMA WakeInOrder ==
  ASSUME MuInv, NEW self \in Task, NEW q \in Waitqueue, Calls(self), WakeHead(q)
  PROVE  InOrder
<1>1. CASE waiting_list[q] = <<>>
  BY <1>1 DEF WakeHead, os_waitqueue_empty, wqVars, waitqueueVars, InOrder
<1>2. CASE waiting_list[q] # <<>>
  <2>1. /\ Head(waiting_list[q]) \in Task
        /\ waiting_list'[q] = Tail(waiting_list[q])
        /\ \A r \in Waitqueue \ {q} : waiting_list'[r] = waiting_list[r]
        /\ task_state'[Head(waiting_list[q])] # "SLEEPING"
    <3>1. /\ Head(waiting_list[q]) \in Task
          /\ waiting_list'[q] = Tail(waiting_list[q])
          /\ \A r \in Waitqueue \ {q} : waiting_list'[r] = waiting_list[r]
          /\ \A t \in Task : Asleep(t)' <=> Asleep(t) /\ t # Head(waiting_list[q])
      BY <1>2, WakeHeadStep
    <3>. QED BY <3>1 DEF Asleep
  <2>. QED BY <1>2, <2>1 DEF InOrder
<1>. QED BY <1>1, <1>2

LEMMA KeepsOrder == UNCHANGED waiting_list => InOrder
BY DEF InOrder

LEMMA MuNextInOrder == MuInv /\ [MuNext]_muVars => InOrder
<1>. SUFFICES ASSUME MuInv, [MuNext]_muVars PROVE InOrder
  OBVIOUS
<1>1. CASE SystemStep /\ UNCHANGED mutexVars
  BY <1>1, KeepsOrder DEF SystemStep, waitqueueVars
<1>2. ASSUME NEW self \in Task \ {task_idle}, MuTaskCall(self)
      PROVE  InOrder
  <2>1. ASSUME NEW m \in Mutex, os_mutex_lock(self, m)
        PROVE  InOrder
    <3>1. m \in Waitqueue /\ Calls(self) /\ current_task = self
      BY <2>1, AtMutexCall, MutexAssumption DEF os_mutex_lock, MuCalls, MuInv
    <3>2. CASE LockFree(m) \/ LockAgain(m)
      BY <3>2, KeepsOrder DEF LockFree, LockAgain, wqVars, waitqueueVars
    <3>3. CASE LockContended(m)
      BY <3>1, <3>3, AddInOrder DEF LockContended, WaitAtomically
    <3>. QED BY <2>1, <3>2, <3>3 DEF os_mutex_lock
  <2>2. ASSUME NEW m \in Mutex, os_mutex_unlock(self, m)
        PROVE  InOrder
    <3>1. m \in Waitqueue /\ Calls(self)
      BY <2>2, MutexAssumption DEF os_mutex_unlock, MuCalls
    <3>2. CASE UnlockNested(m) \/ UnlockFree(m)
      BY <3>2, KeepsOrder DEF UnlockNested, UnlockFree, wqVars, waitqueueVars
    <3>3. CASE UnlockHandOff(m)
      BY <3>1, <3>3, WakeInOrder DEF UnlockHandOff
    <3>. QED BY <2>2, <3>2, <3>3 DEF os_mutex_unlock
  <2>3. CASE os_mutex_lock_return(self)
    BY <2>3, KeepsOrder DEF os_mutex_lock_return, wqVars, waitqueueVars
  <2>4. ASSUME WqTaskCall(self, Waitqueue \ Mutex) PROVE InOrder
    <3>1. ASSUME NEW q \in Waitqueue, os_waitqueue_wait(self, q)
          PROVE  InOrder
      BY <3>1, AtMutexCall, AddInOrder DEF os_waitqueue_wait, MuInv
    <3>2. ASSUME NEW q \in Waitqueue, os_waitqueue_wakeup(self, q)
          PROVE  InOrder
      BY <3>2, WakeInOrder DEF os_waitqueue_wakeup
    <3>3. CASE os_waitqueue_wait_sleep(self) \/ OtherCall(self)
      BY <3>3, KeepsOrder DEF os_waitqueue_wait_sleep, OtherCall, waitqueueVars
    <3>. QED BY <2>4, <3>1, <3>2, <3>3 DEF WqTaskCall
  <2>. QED BY <1>2, <2>1, <2>2, <2>3, <2>4 DEF MuTaskCall
<1>3. CASE UNCHANGED muVars
  BY <1>3, KeepsOrder DEF muVars, wqVars, waitqueueVars
<1>. QED BY <1>1, <1>2, <1>3 DEF MuNext

\* os_waitqueue_wakeup takes the task that has waited longest and no other, and does not
\* leave it asleep.
THEOREM LongestWaiterFirst == MuSpec => WakesInOrder
<1>1. MuInv /\ [MuNext]_muVars =>
        [\A q \in Waitqueue :
           \/ waiting_list'[q] = waiting_list[q]
           \/ \E t \in Task : waiting_list'[q] = Append(waiting_list[q], t)
           \/ /\ waiting_list[q] # <<>>
              /\ waiting_list'[q] = Tail(waiting_list[q])
              /\ ~ (task_state'[Head(waiting_list[q])] = "SLEEPING"
                    /\ task_state[Head(waiting_list[q])] = "SLEEPING")]_wqVars
  BY MuNextInOrder DEF InOrder
<1>. QED BY <1>1, MuInvariant, PTL DEF MuSpec, WakesInOrder

-----------------------------------------------------------------------------
(***************************************************************************)
(* Each mutex implements RecursiveLock.                                    *)
(***************************************************************************)

\* The lines of RecursiveLock under the refinement mapping.
Lines == [m \in Mutex |-> Line(m)]

\* Somebody who is put first in a line, and the rest of it.
LEMMA FirstInLine ==
  ASSUME NEW e \in Task, NEW s \in Seq(Task)
  PROVE  /\ <<e>> \o s # <<>>
         /\ Head(<<e>> \o s) = e
         /\ Tail(<<e>> \o s) = s
         /\ \A i \in DOMAIN (<<e>> \o s) : (<<e>> \o s)[i] = e \/ Contains(s, (<<e>> \o s)[i])
         /\ \A t \in Task : Append(<<e>> \o s, t) = <<e>> \o Append(s, t)
<1>1. /\ <<e>> \o s \in Seq(Task)
      /\ Len(<<e>> \o s) = Len(s) + 1
      /\ (<<e>> \o s)[1] = e
      /\ \A i \in 1..Len(s) : (<<e>> \o s)[i + 1] = s[i]
      /\ DOMAIN (<<e>> \o s) = 1..(Len(s) + 1)
      /\ Len(s) \in Nat
  OBVIOUS
<1>2. <<e>> \o s # <<>> /\ Head(<<e>> \o s) = e
  BY <1>1
<1>3. Tail(<<e>> \o s) = s
  OBVIOUS
<1>4. ASSUME NEW i \in 1..(Len(s) + 1)
      PROVE  (<<e>> \o s)[i] = e \/ Contains(s, (<<e>> \o s)[i])
  <2>1. CASE i = 1
    BY <1>1, <2>1
  <2>2. CASE i # 1
    <3>1. i - 1 \in 1..Len(s) /\ (<<e>> \o s)[i] = s[i - 1]
      BY <1>1, <2>2
    <3>. QED BY <1>1, <3>1 DEF Contains
  <2>. QED BY <2>1, <2>2
<1>5. ASSUME NEW t \in Task
      PROVE  Append(<<e>> \o s, t) = <<e>> \o Append(s, t)
  OBVIOUS
<1>. QED BY <1>1, <1>2, <1>3, <1>4, <1>5

\* Whoever is neither asleep on the queue nor the owner is not in line.
LEMMA LineOf ==
  ASSUME MuInv, NEW m \in Mutex
  PROVE  /\ Lines[m] = IF GrantedFirst(m) THEN <<owner[m]>> \o waiting_list[m]
                       ELSE waiting_list[m]
         /\ GrantedFirst(m) => owner[m] \in Task
         /\ waiting_list[m] \in Seq(Task)
BY MutexAssumption DEF Lines, Line, GrantedFirst, MuInv, MutexInv, WaitInv

LEMMA GrantedLine ==
  ASSUME MuInv, NEW m \in Mutex, GrantedFirst(m)
  PROVE  /\ Lines[m] = <<owner[m]>> \o waiting_list[m]
         /\ Lines[m] # <<>>
         /\ Head(Lines[m]) = owner[m]
         /\ Tail(Lines[m]) = waiting_list[m]
         /\ \A i \in DOMAIN Lines[m] : Lines[m][i] = owner[m] \/ OnQueue(m, Lines[m][i])
         /\ \A t \in Task : Append(Lines[m], t) = <<owner[m]>> \o Append(waiting_list[m], t)
<1>1. /\ owner[m] \in Task /\ waiting_list[m] \in Seq(Task)
      /\ Lines[m] = <<owner[m]>> \o waiting_list[m]
  BY LineOf
<1>. DEFINE e == owner[m]
            s == waiting_list[m]
<1>2. e \in Task /\ s \in Seq(Task)
  BY <1>1
<1>. HIDE DEF e, s
<1>3. /\ <<e>> \o s # <<>>
      /\ Head(<<e>> \o s) = e
      /\ Tail(<<e>> \o s) = s
      /\ \A i \in DOMAIN (<<e>> \o s) : (<<e>> \o s)[i] = e \/ Contains(s, (<<e>> \o s)[i])
      /\ \A t \in Task : Append(<<e>> \o s, t) = <<e>> \o Append(s, t)
  BY <1>2, FirstInLine
<1>. QED BY <1>1, <1>3 DEF e, s, OnQueue

\* A step that changes nothing a lock's callers know, nor owner, nor queues of mutexes.
LEMMA LineQuiet ==
  ASSUME UNCHANGED <<held, owner, locking>>,
         \A m \in Mutex : waiting_list'[m] = waiting_list[m]
  PROVE  UNCHANGED Locks!lockVars
BY DEF Locks!lockVars, Line, GrantedFirst

\* Lines that stay as they are: the mutex's owner neither gets nor loses a place in line.
LEMMA LinesKept ==
  ASSUME NEW m \in Mutex, ~GrantedFirst(m), ~GrantedFirst(m)', UNCHANGED waiting_list,
         UNCHANGED locking, \A l \in Mutex \ {m} : owner'[l] = owner[l]
  PROVE  UNCHANGED Lines
<1>1. \A l \in Mutex : Line(l)' = Line(l)
  <2>1. ASSUME NEW l \in Mutex, l # m PROVE Line(l)' = Line(l)
    BY <2>1 DEF Line, GrantedFirst
  <2>2. Line(m)' = Line(m)
    BY DEF Line
  <2>. QED BY <2>1, <2>2
<1>. QED BY <1>1 DEF Lines

LEMMA LockFreeEnters ==
  ASSUME MuInv, NEW self \in Task, NEW m \in Mutex, MuCalls(self), LockFree(m)
  PROVE  Locks!Enter(m, self)
<1>1. /\ m # NULL /\ self # NULL /\ current_task = self /\ locking[self] = NULL
      /\ owner[m] = NULL /\ ~locked[m]
  BY AtMutex DEF LockFree
<1>2. /\ held' = [held EXCEPT ![m][self] = @ + 1]
      /\ owner' = [owner EXCEPT ![m] = self]
      /\ UNCHANGED <<waiting_list, locking>>
  BY <1>1 DEF LockFree, wqVars, waitqueueVars
<1>3. owner'[m] = self /\ \A l \in Mutex \ {m} : owner'[l] = owner[l]
  BY <1>2 DEF MuInv, MutexInv
<1>4. waiting_list[m] = <<>> /\ \A t \in Task : held[m][t] = 0
  BY <1>1 DEF MuInv, MutexInv, MutexConsistent, UnlockAssertionsHold
<1>5. ~GrantedFirst(m) /\ ~GrantedFirst(m)'
  BY <1>1, <1>2, <1>3 DEF GrantedFirst
<1>6. UNCHANGED Lines
  BY <1>2, <1>3, <1>5, LinesKept
<1>7. Lines[m] = <<>>
  BY <1>4, <1>5, LineOf
<1>. QED BY <1>2, <1>4, <1>6, <1>7 DEF Locks!Enter, Locks!Free, Lines

LEMMA LockAgainEnters ==
  ASSUME MuInv, NEW self \in Task, NEW m \in Mutex, MuCalls(self), LockAgain(m)
  PROVE  Locks!Enter(m, self)
<1>1. /\ current_task = self /\ held[m][self] > 0
  BY AtMutex DEF LockAgain
<1>2. /\ held' = [held EXCEPT ![m][self] = @ + 1]
      /\ UNCHANGED <<waiting_list, locking, owner>>
  BY <1>1 DEF LockAgain, wqVars, waitqueueVars
<1>3. UNCHANGED Lines
  BY <1>2 DEF Lines, Line, GrantedFirst
<1>. QED BY <1>1, <1>2, <1>3 DEF Locks!Enter, Lines

LEMMA LockContendedAsks ==
  ASSUME MuInv, NEW self \in Task, NEW m \in Mutex, MuCalls(self), LockContended(m)
  PROVE  Locks!Ask(m, self)
<1>1. /\ m \in Waitqueue /\ m # NULL /\ current_task = self /\ locking[self] = NULL
      /\ ~OnQueue(m, self) /\ \A q \in Waitqueue : ~OnQueue(q, self)
      /\ owner[m] # self /\ owner[m] # NULL /\ held[m][self] = 0
  BY AtMutex DEF LockContended
<1>2. /\ os_waitqueue_add(m, self)
      /\ locking' = [locking EXCEPT ![self] = m]
      /\ UNCHANGED <<owner, held>>
  BY <1>1 DEF LockContended, WaitAtomically
<1>3. /\ waiting_list'[m] = Append(waiting_list[m], self)
      /\ \A l \in Mutex \ {m} : waiting_list'[l] = waiting_list[l]
  BY <1>1, <1>2, AddNode, MutexAssumption DEF MuInv
<1>4. /\ locking'[self] = m /\ \A t \in Task : t # self => locking'[t] = locking[t]
      /\ owner \in [Mutex -> Task \cup {NULL}]
  BY <1>2 DEF MuInv, MutexInv
<1>5. \A l \in Mutex : GrantedFirst(l)' <=> GrantedFirst(l)
  <2>1. ASSUME NEW l \in Mutex, owner[l] # self PROVE GrantedFirst(l)' <=> GrantedFirst(l)
    BY <1>2, <1>4, <2>1 DEF GrantedFirst
  <2>2. ASSUME NEW l \in Mutex, owner[l] = self PROVE ~GrantedFirst(l) /\ ~GrantedFirst(l)'
    BY <1>1, <1>2, <1>4, <2>2, MutexAssumption DEF GrantedFirst
  <2>. QED BY <2>1, <2>2
<1>6. Lines' = [Lines EXCEPT ![m] = Append(@, self)]
  <2>1. ASSUME NEW l \in Mutex \ {m} PROVE Line(l)' = Line(l)
    BY <1>2, <1>3, <1>5 DEF Line
  <2>2. Line(m)' = Append(Line(m), self)
    <3>1. CASE GrantedFirst(m)
      <4>1. Line(m)' = <<owner[m]>> \o Append(waiting_list[m], self)
        BY <1>2, <1>3, <1>5, <3>1 DEF Line
      <4>2. Append(Lines[m], self) = <<owner[m]>> \o Append(waiting_list[m], self)
        BY <3>1, GrantedLine
      <4>. QED BY <4>1, <4>2 DEF Lines
    <3>2. CASE ~GrantedFirst(m)
      BY <1>3, <1>5, <3>2 DEF Line
    <3>. QED BY <3>1, <3>2
  <2>. QED BY <2>1, <2>2 DEF Lines
<1>7. \A i \in DOMAIN Lines[m] : Lines[m][i] # self
  <2>1. CASE GrantedFirst(m)
    <3>1. \A i \in DOMAIN Lines[m] : Lines[m][i] = owner[m] \/ OnQueue(m, Lines[m][i])
      BY <2>1, GrantedLine
    <3>. QED BY <1>1, <3>1
  <2>2. CASE ~GrantedFirst(m)
    <3>1. Lines[m] = waiting_list[m] /\ waiting_list[m] \in Seq(Task)
      BY <2>2, LineOf
    <3>2. DOMAIN waiting_list[m] = 1..Len(waiting_list[m])
      BY <3>1
    <3>. QED BY <1>1, <3>1, <3>2 DEF OnQueue, Contains
  <2>. QED BY <2>1, <2>2
<1>8. (\E t \in Task : held[m][t] # 0) \/ Lines[m] # <<>>
  <2>1. PICK t \in Task : owner[m] = t
    BY <1>1, <1>4
  <2>2. CASE locking[t] = m
    <3>1. GrantedFirst(m)
      BY <1>1, <2>1, <2>2 DEF GrantedFirst
    <3>. QED BY <3>1, GrantedLine
  <2>3. CASE locking[t] # m
    <3>1. held[m][t] = refcnt[m] /\ refcnt[m] > 0
      BY <1>1, <2>1, <2>3 DEF MuInv, MutexInv, CountIsOwners, MutexConsistent
    <3>. QED BY <3>1
  <2>. QED BY <2>2, <2>3
<1>. QED BY <1>1, <1>2, <1>6, <1>7, <1>8 DEF Locks!Ask, Locks!Free, Lines

LEMMA ReturnIsGrant ==
  ASSUME MuInv, NEW self \in Task, os_mutex_lock_return(self)
  PROVE  \E m \in Mutex : Locks!Grant(m)
<1>1. PICK m \in Mutex : locking[self] = m
  BY DEF os_mutex_lock_return, MuInv, MutexInv
<1>2. m # NULL /\ ~Asleep(self) /\ owner[m] = self /\ held[m][self] = 0
  BY <1>1, MutexAssumption
  DEF os_mutex_lock_return, Runs, Asleep, MuInv, MutexInv, LockReturnsAsOwner, LockingIsExclusive
<1>3. /\ held' = [held EXCEPT ![m][self] = 1]
      /\ locking' = [locking EXCEPT ![self] = NULL]
      /\ UNCHANGED <<waiting_list, owner>>
  BY <1>1, <1>2 DEF os_mutex_lock_return, wqVars, waitqueueVars
<1>4. /\ locking'[self] = NULL /\ \A t \in Task : t # self => locking'[t] = locking[t]
      /\ owner \in [Mutex -> Task \cup {NULL}]
  BY <1>3 DEF MuInv, MutexInv
<1>5. GrantedFirst(m) /\ ~GrantedFirst(m)'
  BY <1>1, <1>2, <1>3, <1>4, TaskAssumption DEF GrantedFirst
<1>6. \A t \in Task : held[m][t] = 0
  BY <1>2 DEF MuInv, MutexInv, UnlockAssertionsHold
<1>7. Lines[m] # <<>> /\ Head(Lines[m]) = self /\ Tail(Lines[m]) = waiting_list[m]
  BY <1>2, <1>5, GrantedLine
<1>8. Lines' = [Lines EXCEPT ![m] = Tail(@)]
  <2>1. ASSUME NEW l \in Mutex \ {m} PROVE Line(l)' = Line(l)
    <3>1. GrantedFirst(l)' <=> GrantedFirst(l)
      <4>1. CASE owner[l] = self
        BY <1>1, <1>3, <1>4, <4>1, MutexAssumption DEF GrantedFirst
      <4>2. CASE owner[l] # self
        BY <1>3, <1>4, <4>2 DEF GrantedFirst
      <4>. QED BY <4>1, <4>2
    <3>. QED BY <1>3, <3>1 DEF Line
  <2>2. Line(m)' = Tail(Lines[m])
    BY <1>3, <1>5, <1>7 DEF Line
  <2>. QED BY <2>1, <2>2 DEF Lines
<1>. QED BY <1>3, <1>6, <1>7, <1>8 DEF Locks!Grant, Locks!Free, Lines

LEMMA UnlockLeaves ==
  ASSUME MuInv, NEW self \in Task, NEW m \in Mutex, os_mutex_unlock(self, m)
  PROVE  Locks!Leave(m, self)
<1>1. MuCalls(self) /\ UnlockHeld(m, self)
  BY DEF os_mutex_unlock, UnlockHeld
<1>2. owner[m] = self /\ locking[self] = NULL /\ m # NULL /\ m \in Waitqueue
  BY <1>1, UnlockFacts, MutexAssumption
<1>3. ~GrantedFirst(m) /\ Line(m) = waiting_list[m]
  BY <1>2 DEF GrantedFirst, Line
<1>4. UNCHANGED Lines
  <2>1. CASE UnlockNested(m)
    BY <1>1, <2>1 DEF UnlockNested, UnlockHeld, wqVars, waitqueueVars, Lines, Line, GrantedFirst
  <2>2. CASE UnlockHandOff(m)
    <3>. DEFINE h == Head(waiting_list[m])
    <3>1. /\ waiting_list[m] # <<>> /\ os_waitqueue_get_head(m) = h
          /\ WakeHead(m) /\ Calls(self)
          /\ owner' = [owner EXCEPT ![m] = h]
      BY <1>1, <2>2 DEF UnlockHandOff, os_waitqueue_get_head, os_waitqueue_empty, MuCalls
    <3>2. /\ h \in Task /\ OnQueue(m, h)
          /\ waiting_list'[m] = Tail(waiting_list[m])
          /\ \A l \in Waitqueue \ {m} : waiting_list'[l] = waiting_list[l]
      BY <1>2, <3>1, WakeHeadStep
    <3>3. locking[h] = m /\ UNCHANGED locking
      BY <1>1, <3>2 DEF MuInv, MutexInv, MutexConsistent, OnQueue, UnlockHeld
    <3>4. owner'[m] = h /\ \A l \in Mutex \ {m} : owner'[l] = owner[l]
      BY <3>1 DEF MuInv, MutexInv
    <3>5. waiting_list[m] = <<h>> \o Tail(waiting_list[m])
      <4>1. waiting_list[m] \in Seq(Task)
        BY LineOf
      <4>. QED BY <3>1, <4>1
    <3>. HIDE DEF h
    <3>6. GrantedFirst(m)'
      BY <3>2, <3>3, <3>4, TaskAssumption DEF GrantedFirst
    <3>7. Line(m)' = Line(m)
      BY <1>3, <3>2, <3>4, <3>5, <3>6 DEF Line
    <3>8. ASSUME NEW l \in Mutex \ {m} PROVE Line(l)' = Line(l)
      BY <3>2, <3>3, <3>4, MutexAssumption DEF Line, GrantedFirst
    <3>. QED BY <3>7, <3>8 DEF Lines
  <2>3. CASE UnlockFree(m)
    <3>1. /\ owner' = [owner EXCEPT ![m] = NULL]
          /\ UNCHANGED <<waiting_list, locking>>
      BY <1>1, <2>3 DEF UnlockFree, UnlockHeld, wqVars, waitqueueVars
    <3>2. owner'[m] = NULL /\ \A l \in Mutex \ {m} : owner'[l] = owner[l]
      BY <3>1 DEF MuInv, MutexInv
    <3>3. ~GrantedFirst(m)'
      BY <3>2 DEF GrantedFirst
    <3>. QED BY <1>3, <3>1, <3>2, <3>3, LinesKept
  <2>. QED BY <2>1, <2>2, <2>3 DEF os_mutex_unlock
<1>. QED BY <1>1, <1>4 DEF Locks!Leave, UnlockHeld, Lines

LEMMA MuNextLocks == MuInv /\ [MuNext]_muVars => [Locks!Next]_(Locks!lockVars)
<1>. SUFFICES ASSUME MuInv, [MuNext]_muVars PROVE [Locks!Next]_(Locks!lockVars)
  OBVIOUS
<1>1. CASE SystemStep /\ UNCHANGED mutexVars
  BY <1>1, LineQuiet DEF SystemStep, waitqueueVars, mutexVars
<1>2. ASSUME NEW self \in Task \ {task_idle}, MuTaskCall(self)
      PROVE  [Locks!Next]_(Locks!lockVars)
  <2>1. ASSUME NEW m \in Mutex, os_mutex_lock(self, m)
        PROVE  Locks!Next
    <3>1. Locks!Enter(m, self) \/ Locks!Ask(m, self)
      BY <2>1, LockFreeEnters, LockAgainEnters, LockContendedAsks DEF os_mutex_lock
    <3>. QED BY <3>1 DEF Locks!Next
  <2>2. ASSUME NEW m \in Mutex, os_mutex_unlock(self, m)
        PROVE  Locks!Next
    BY <2>2, UnlockLeaves DEF Locks!Next
  <2>3. CASE os_mutex_lock_return(self)
    BY <2>3, ReturnIsGrant DEF Locks!Next
  <2>4. ASSUME WqTaskCall(self, Waitqueue \ Mutex), UNCHANGED mutexVars
        PROVE  UNCHANGED Locks!lockVars
    <3>1. \A m \in Mutex : waiting_list'[m] = waiting_list[m]
      <4>1. ASSUME NEW q \in Waitqueue \ Mutex, os_waitqueue_wait(self, q), NEW m \in Mutex
            PROVE  waiting_list'[m] = waiting_list[m]
        BY <4>1, MutexAssumption DEF os_waitqueue_wait, os_waitqueue_add, MuInv, WaitInv
      <4>2. ASSUME NEW q \in Waitqueue \ Mutex, os_waitqueue_wakeup(self, q), NEW m \in Mutex
            PROVE  waiting_list'[m] = waiting_list[m]
        BY <4>2, MutexAssumption
        DEF os_waitqueue_wakeup, WakeHead, wqVars, waitqueueVars, MuInv, WaitInv
      <4>3. CASE os_waitqueue_wait_sleep(self) \/ OtherCall(self)
        BY <4>3 DEF os_waitqueue_wait_sleep, OtherCall, waitqueueVars
      <4>. QED BY <2>4, <4>1, <4>2, <4>3 DEF WqTaskCall
    <3>. QED BY <2>4, <3>1, LineQuiet DEF mutexVars
  <2>. QED BY <1>2, <2>1, <2>2, <2>3, <2>4 DEF MuTaskCall
<1>3. CASE UNCHANGED muVars
  BY <1>3, LineQuiet DEF muVars, wqVars, waitqueueVars, mutexVars
<1>. QED BY <1>1, <1>2, <1>3 DEF MuNext

LEMMA MuInitLocks == MuInit => Locks!Init
<1>. SUFFICES ASSUME MuInit PROVE Locks!Init
  OBVIOUS
<1>1. /\ waiting_list = [q \in Waitqueue |-> <<>>]
      /\ owner = [m \in Mutex |-> NULL]
      /\ held = [m \in Mutex |-> [t \in Task |-> 0]]
  BY DEF MuInit, WqInit
<1>2. \A m \in Mutex : Line(m) = <<>>
  BY <1>1, MutexAssumption DEF Line, GrantedFirst
<1>3. [m \in Mutex |-> Line(m)] = [m \in Mutex |-> <<>>]
  BY <1>2
<1>. QED BY <1>1, <1>3 DEF Locks!Init

\* Each mutex is, to its callers, a recursive lock with one holder that is granted in
\* the order of the calls, however the scheduler and the timer interrupt them.
THEOREM MutexesAreRecursiveLocks == MuSpec => ImplementsRecursiveLock
<1>1. MuSpec => Locks!Init /\ [][Locks!Next]_(Locks!lockVars)
  BY MuInitLocks, MuNextLocks, MuInvariant, PTL DEF MuSpec
<1>. QED BY <1>1, PTL DEF ImplementsRecursiveLock, Locks!Spec

\* No two tasks are ever inside one mutex, under any preemption.
THEOREM MutualExclusion == MuSpec => []Locks!OneHolder
<1>1. MuInv => Locks!OneHolder
  BY DEF MuInv, MutexInv, UnlockAssertionsHold, Locks!OneHolder
<1>. QED BY <1>1, MuInvariant, PTL

-----------------------------------------------------------------------------
(***************************************************************************)
(* Where mutexes are all there is to wait for, as in the kernel, nobody is *)
(* ever in the unmasked os_waitqueue_wait, and whoever sleeps does so in   *)
(* os_mutex_lock.                                                          *)
(***************************************************************************)
SleepsInLock ==
  /\ adding = {}
  /\ \A t \in Task : Asleep(t) => locking[t] # NULL

\* A step that puts nobody to sleep and ends no lock call.
LEMMA SleepsKept ==
  ASSUME SleepsInLock, \A t \in Task : Asleep(t)' => Asleep(t), UNCHANGED <<adding, locking>>
  PROVE  SleepsInLock'
BY DEF SleepsInLock

LEMMA LockSleeps ==
  ASSUME MuInv, SleepsInLock, NEW self \in Task \ {task_idle}, NEW m \in Mutex, os_mutex_lock(self, m)
  PROVE  SleepsInLock'
<1>. USE DEF MuInv
<1>1. MuCalls(self)
  BY DEF os_mutex_lock
<1>2. CASE LockFree(m) \/ LockAgain(m)
  BY <1>2, SleepsKept DEF LockFree, LockAgain, wqVars, waitqueueVars, taskVars, readyVars, Asleep
<1>3. CASE LockContended(m)
  <2>1. m # NULL /\ current_task = self
    BY <1>1, <1>3, AtMutex DEF LockContended
  <2>2. /\ os_task_sleep(self) /\ adding' = adding
        /\ locking' = [locking EXCEPT ![self] = m]
    BY <1>1, <1>3, <2>1 DEF LockContended, WaitAtomically, os_task_sleep, MuCalls, Calls
  <2>3. \A t \in Task : Asleep(t)' <=> Asleep(t) \/ t = self
    BY <2>2, SleepSleepers
  <2>4. locking \in [Task -> Mutex \cup {NULL}]
    BY DEF MutexInv
  <2>. QED BY <2>1, <2>2, <2>3, <2>4 DEF SleepsInLock
<1>. QED BY <1>2, <1>3 DEF os_mutex_lock

LEMMA ReturnSleeps ==
  ASSUME MuInv, SleepsInLock, NEW self \in Task \ {task_idle}, os_mutex_lock_return(self)
  PROVE  SleepsInLock'
<1>. USE DEF MuInv
<1>1. ~Asleep(self) /\ locking \in [Task -> Mutex \cup {NULL}]
  BY AtCall DEF os_mutex_lock_return, Runs, Asleep, MutexInv
<1>2. \A t \in Task : Asleep(t)' <=> Asleep(t)
  BY DEF os_mutex_lock_return, wqVars, taskVars, readyVars, Asleep
<1>3. adding' = adding /\ locking' = [locking EXCEPT ![self] = NULL]
  BY DEF os_mutex_lock_return, wqVars, waitqueueVars
<1>. QED BY <1>1, <1>2, <1>3 DEF SleepsInLock

LEMMA UnlockSleeps ==
  ASSUME MuInv, SleepsInLock, NEW self \in Task \ {task_idle}, NEW m \in Mutex, os_mutex_unlock(self, m)
  PROVE  SleepsInLock'
<1>. USE DEF MuInv
<1>1. MuCalls(self) /\ UNCHANGED locking
  BY DEF os_mutex_unlock
<1>2. CASE UnlockNested(m) \/ UnlockFree(m)
  BY <1>1, <1>2, SleepsKept DEF UnlockNested, UnlockFree, wqVars, waitqueueVars, taskVars, readyVars, Asleep
<1>3. CASE UnlockHandOff(m)
  <2>1. m \in Waitqueue /\ waiting_list[m] # <<>> /\ WakeHead(m) /\ Calls(self)
    BY <1>1, <1>3, MutexAssumption
    DEF UnlockHandOff, os_waitqueue_get_head, os_waitqueue_empty, MuCalls
  <2>2. os_task_wakeup(self, Head(waiting_list[m])) /\ Head(waiting_list[m]) \in Task
    BY <2>1, WakeHeadStep
  <2>3. \A t \in Task : Asleep(t)' => Asleep(t)
    BY <2>2, WakeupSleepers
  <2>4. UNCHANGED adding
    BY <2>1 DEF WakeHead, os_waitqueue_empty
  <2>. QED BY <1>1, <2>3, <2>4, SleepsKept
<1>. QED BY <1>2, <1>3 DEF os_mutex_unlock

LEMMA StepSleeps ==
  ASSUME Waitqueue = Mutex, MuInv, SleepsInLock, [MuNext]_muVars
  PROVE  SleepsInLock'
<1>1. CASE SystemStep /\ UNCHANGED mutexVars
  <2>1. SameSleepers
    BY <1>1, SystemSleepers DEF SystemStep, MuInv
  <2>. QED BY <1>1, <2>1, SleepsKept DEF SystemStep, waitqueueVars, mutexVars, SameSleepers
<1>2. ASSUME NEW self \in Task \ {task_idle}, MuTaskCall(self)
      PROVE  SleepsInLock'
  <2>1. CASE \E m \in Mutex : os_mutex_lock(self, m) \/ os_mutex_unlock(self, m)
    BY <2>1, LockSleeps, UnlockSleeps
  <2>2. CASE os_mutex_lock_return(self)
    BY <2>2, ReturnSleeps
  <2>3. CASE WqTaskCall(self, Waitqueue \ Mutex) /\ UNCHANGED mutexVars
    <3>1. ~os_waitqueue_wait_sleep(self)
      BY DEF os_waitqueue_wait_sleep, SleepsInLock
    <3>2. OtherCall(self)
      BY <2>3, <3>1 DEF WqTaskCall
    <3>3. SameSleepers
      BY <3>2, OtherSleepers DEF MuInv
    <3>. QED BY <2>3, <3>2, <3>3, SleepsKept DEF OtherCall, waitqueueVars, mutexVars, SameSleepers
  <2>. QED BY <1>2, <2>1, <2>2, <2>3 DEF MuTaskCall
<1>3. CASE UNCHANGED muVars
  BY <1>3, SleepsKept DEF muVars, mutexVars, wqVars, waitqueueVars, taskVars, readyVars, Asleep
<1>. QED BY <1>1, <1>2, <1>3 DEF MuNext

\* os_mutex_lock and os_mutex_unlock lose no wake-up: where tasks wait for mutexes only,
\* which is all the kernel does, every sleeping task has its node on a queue.
THEOREM NoWakeupIsLost ==
  ASSUME Waitqueue = Mutex
  PROVE  MuSpec => []SleepersAreQueued
<1>1. MuInit => SleepsInLock
  BY TaskAssumption DEF MuInit, WqInit, Init, SleepsInLock, Asleep
<1>2. MuInv /\ SleepsInLock /\ [MuNext]_muVars => SleepsInLock'
  BY StepSleeps
<1>3. MuInv /\ SleepsInLock => SleepersAreQueued
  <2>. SUFFICES ASSUME MuInv, SleepsInLock, NEW t \in Task, Asleep(t) PROVE Queued(t)
    BY DEF SleepersAreQueued, Asleep
  <2>1. locking[t] # NULL /\ locking[t] \in Mutex
    BY DEF SleepsInLock, MuInv, MutexInv
  <2>2. Contains(waiting_list[locking[t]], t)
    BY <2>1 DEF MuInv, MutexInv, LockReturnsAsOwner, Asleep
  <2>. QED BY <2>1, <2>2 DEF Queued
<1>. QED BY <1>1, <1>2, <1>3, MuInvariant, PTL DEF MuSpec
=============================================================================
