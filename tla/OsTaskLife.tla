----------------------------- MODULE OsTaskLife -----------------------------
(***************************************************************************)
(* Tasks as objects: creation and removal (src/os_task.c), the first user  *)
(* program (src/bsp/qemu-virt-rv64/src/task_main_entry.c), clone, execve   *)
(* and exit (src/os_syscall.c, src/os_elf.c), with the pids, page tables   *)
(* and descriptor tables they hand around.                                 *)
(*                                                                         *)
(* The kernel's own tasks create each other in a row, each before the next *)
(* runs, and clone masks interrupts throughout: no two creations overlap,  *)
(* and a creation is one step.  execve runs with interrupts enabled, but   *)
(* touches nothing another task looks at.                                  *)
(*                                                                         *)
(* Of a page table only the reference count is kept; what it maps is       *)
(* OsMmu's subject.  A table that has been removed, or never got a first   *)
(* level, is not "live".  Memory may run out at every allocation.          *)
(***************************************************************************)
EXTENDS OsFd, SequencesExt

CONSTANTS
  task_idle, task_main, task_user,  \* the tasks of the kernel's own code
  Cloned,            \* ids of tasks that clone allocates, a bound of the model
  Pid,               \* 0 .. OS_TASK_MAX_NUM - 1
  kernel_pagetable,
  Vtable,            \* ids of the other page tables, a bound of the model
  SizeMax            \* the largest os_size_t

KernelTask == {task_idle, task_main, task_user}
Task == KernelTask \cup Cloned

TaskRec ==
  [pid : Pid, parent : Task \cup {NULL}, child_list : Seq(Task), fd_table : Table,
   vtable : Vtable \cup {kernel_pagetable}, state : {"ready", "started", "stub", "user", "stopped"}]
VtableRec == [refcnt : 0..SizeMax, live : BOOLEAN]

\* More tasks than SizeMax are not there to be counted: each takes memory.
ASSUME TaskLifeAssumption ==
  /\ task_idle # task_main /\ task_idle # task_user /\ task_main # task_user
  /\ Cloned \cap KernelTask = {} /\ IsFiniteSet(Cloned)
  /\ Pid \subseteq Nat /\ Vtable \subseteq Nat /\ kernel_pagetable \notin Vtable
  /\ NULL \notin Task \cup TaskRec \cup VtableRec
  /\ SizeMax \in Nat /\ Cardinality(Cloned) < SizeMax

VARIABLES
  tcb,        \* task -> pid, parent, child_list, vtable, fd_table, state ("stub": it
              \* runs os_task_user_entry's code, "user": a program); or NULL
  pid_bitmap, \* os_task_pid_bitmap: the free pids
  pid_map,    \* os_task_pid_to_task_hashmap
  vtables     \* page table -> refcnt, live; or NULL when it is free memory

lifeVars == <<tcb, pid_bitmap, pid_map, vtables>>
vars == <<lifeVars, fdVars, fault, exhausted>>

Exists(t) == tcb[t] # NULL
Tasks == {t \in Task : Exists(t)}

\* refcnt++ and refcnt-- of an os_size_t.
RefcntInc(x) == IF x = SizeMax THEN 0 ELSE x + 1
RefcntDec(x) == IF x = 0 THEN SizeMax ELSE x - 1

Ref(V, v) == [V EXCEPT ![v].refcnt = RefcntInc(@)]
Unref(V, v) == [V EXCEPT ![v].refcnt = RefcntDec(@)]

FreshVtable == Min({v \in Vtable : vtables[v] = NULL})
VtableLeft == \E v \in Vtable : vtables[v] = NULL

-----------------------------------------------------------------------------
\* The task tree.  os_list_insert_tail on the child list of p.
Adopt(T, t, p) ==
  [T EXCEPT ![p].child_list = Append(@, t), ![t].parent = p]

\* os_list_node_remove of t's child node.
Leave(T, t) ==
  [T EXCEPT ![T[t].parent].child_list = RemoveAt(@, CHOOSE i \in DOMAIN @ : @[i] = t)]

\* os_task_remove: its children go to its parent, in their order.
os_task_remove(T, t) ==
  LET p == T[t].parent
      adopted == [Leave(T, t) EXCEPT ![p].child_list = @ \o T[t].child_list]
  IN [u \in DOMAIN T |->
        IF u = t THEN NULL
        ELSE IF adopted[u] # NULL /\ adopted[u].parent = t
             THEN [adopted[u] EXCEPT !.parent = p] ELSE adopted[u]]

\* os_task_remove lets the page table go and, with the last reference, removes it.
ReleaseVtable(V, v) ==
  IF V[v].refcnt = 1 THEN [V EXCEPT ![v] = NULL] ELSE Unref(V, v)

\* A task as os_task_init leaves it, before it joins the tree.
NewTask(pid, x) ==
  [pid |-> pid, parent |-> NULL, child_list |-> <<>>, vtable |-> kernel_pagetable,
   fd_table |-> x, state |-> "ready"]

\* Mutant: the pid is found but not taken.
os_task_get_new_pid_NotTaken(t) ==
  /\ pid_map' = [pid_map EXCEPT ![Min(pid_bitmap)] = t]
  /\ UNCHANGED pid_bitmap

\* os_task_get_new_pid and the entry that maps it to the task.
os_task_get_new_pid(t) ==
  /\ pid_bitmap' = pid_bitmap \ {Min(pid_bitmap)}
  /\ pid_map' = [pid_map EXCEPT ![Min(pid_bitmap)] = t]

\* The task t that creator p makes when nothing fails.
InitTask(t, p) ==
  LET new == [tcb EXCEPT ![t] = NewTask(Min(pid_bitmap), Min(FreeTables))]
  IN IF p = NULL THEN new ELSE Adopt(new, t, p)

\* os_task_init can succeed.
CanInit(t) ==
  /\ ~Exists(t)
  /\ pid_bitmap # {}
  /\ FreeTables # {}

\* os_task_scheduler_init has created the idle thread.
Init ==
  /\ FdInit
  /\ pid_bitmap = Pid
  /\ pid_map = [p \in Pid |-> NULL]
  /\ vtables = [v \in Vtable \cup {kernel_pagetable} |->
                  IF v = kernel_pagetable THEN [refcnt |-> 0, live |-> TRUE] ELSE NULL]
  /\ tcb = [t \in Task |-> NULL]

-----------------------------------------------------------------------------
\* Whose turn it is to create the kernel task t, and who creates it: the scheduler's
\* initialisation the idle thread, the idle thread main, main the first user task.
Creator(t) == CASE t = task_idle -> NULL [] t = task_main -> task_idle [] t = task_user -> task_main

MayCreate(t) ==
  /\ ~Exists(t)
  /\ Creator(t) # NULL => Exists(Creator(t))
  /\ fault = NULL

\* os_task_init and os_task_startup of a kernel task.
CreateKernelTask(t) ==
  /\ MayCreate(t)
  /\ CanInit(t)
  /\ tcb' = [InitTask(t, Creator(t)) EXCEPT ![t].state = "started"]
  /\ os_task_get_new_pid(t)
  /\ vtables' = Ref(vtables, kernel_pagetable)
  /\ fd_tables' = [fd_tables EXCEPT ![Min(FreeTables)] = NewTable]
  /\ UNCHANGED <<fnode_refcnt, fault, exhausted>>

\* os_task_init fails: an assertion stops the boot, or main starts the user task all
\* the same; without a descriptor table the result is OS_ERR_OK.
CreateKernelTaskFails(t) ==
  /\ MayCreate(t)
  /\ fault' = IF t = task_user THEN "uninitialised_task" ELSE "boot_assertion"
  /\ exhausted' = TRUE
  /\ UNCHANGED <<lifeVars, fdVars>>

\* A program runs in task t.
InUserSpace(t) ==
  /\ Exists(t)
  /\ tcb[t].state = "user"
  /\ fault = NULL

\* os_task_user_entry: the task's first page table, on which it runs a few lines that
\* do nothing but execve.  Nobody counts a reference to it, and the reference to the
\* kernel's table stays counted.
os_task_user_entry(t) ==
  /\ Exists(t)
  /\ tcb[t].state = "started"
  /\ VtableLeft
  /\ fault = NULL
  /\ vtables' = [vtables EXCEPT ![FreshVtable] = [refcnt |-> 0, live |-> TRUE]]
  /\ tcb' = [tcb EXCEPT ![t].vtable = FreshVtable, ![t].state = "stub"]
  /\ UNCHANGED <<pid_bitmap, pid_map, fdVars, fault, exhausted>>

-----------------------------------------------------------------------------
\* Mutant: the child stays on the caller's list as well.
CloneTree_OnTwoLists(t, c) == Adopt(InitTask(c, t), c, tcb[t].parent)

\* os_syscall_clone.  The child becomes a child of the caller's parent.
CloneTree(t, c) == Adopt(Leave(InitTask(c, t), c), c, tcb[t].parent)

\* What every clone that gets past os_task_init does.
CloneInit(t, c) ==
  /\ InUserSpace(t)
  /\ CanInit(c)
  /\ os_task_get_new_pid(c)

\* Mutant: the child of a shared address space is not counted.
CloneVm_NotCounted(t) == vtables

\* The child shares the caller's page table; the kernel's stays counted for it.
CloneVm(t) == Ref(Ref(vtables, kernel_pagetable), tcb[t].vtable)

clone_vm(t, c) ==
  /\ CloneInit(t, c)
  /\ tcb' = [CloneTree(t, c) EXCEPT ![c].vtable = tcb[t].vtable]
  /\ vtables' = CloneVm(t)
  /\ fd_tables' = [fd_tables EXCEPT ![Min(FreeTables)] = NewTable]
  /\ UNCHANGED <<fnode_refcnt, fault, exhausted>>

\* The child gets a table of its own, of which nobody counts a reference.
clone_copy(t, c) ==
  /\ CloneInit(t, c)
  /\ VtableLeft
  /\ tcb' = [CloneTree(t, c) EXCEPT ![c].vtable = FreshVtable]
  /\ vtables' = [vtables EXCEPT ![FreshVtable] = [refcnt |-> 0, live |-> TRUE]]
  /\ fd_tables' = [fd_tables EXCEPT ![Min(FreeTables)] = NewTable]
  /\ UNCHANGED <<fnode_refcnt, fault, exhausted>>

\* There is no memory for its first level: the child is removed again, all but its pid,
\* and its table's count goes from 0 below.
clone_copy_fails(t, c) ==
  /\ CloneInit(t, c)
  /\ VtableLeft
  /\ LET child == [CloneTree(t, c) EXCEPT ![c].vtable = FreshVtable]
         empty == [vtables EXCEPT ![FreshVtable] = [refcnt |-> 0, live |-> FALSE]]
     IN /\ tcb' = os_task_remove(child, c)
        /\ vtables' = ReleaseVtable(empty, FreshVtable)
  /\ exhausted' = TRUE
  /\ UNCHANGED <<fdVars, fault>>

\* A child without initialisation, or without page table, is removed.
clone_faults(t) ==
  /\ InUserSpace(t)
  /\ fault' \in {"uninitialised_task", "no_vtable"}
  /\ exhausted' = TRUE
  /\ UNCHANGED <<lifeVars, fdVars>>

os_syscall_clone(t) ==
  \/ \E c \in Cloned : clone_vm(t, c) \/ clone_copy(t, c) \/ clone_copy_fails(t, c)
  \/ clone_faults(t)

-----------------------------------------------------------------------------
\* os_elf_load and os_syscall_execve.  The descriptor of the program file is a local
\* variable and is never closed, whether the call succeeds or not.
ExecMay(t, f) ==
  /\ Exists(t)
  /\ tcb[t].state \in {"stub", "user"}
  /\ fault = NULL
  /\ fnode_refcnt[f] < MaxOpen[f]

\* A failed call returns to the program; behind the first one there is none.
ExecReturns(t) == fault' = IF tcb[t].state = "stub" THEN "runs_into_data" ELSE NULL

\* The file is no program, or memory runs out while it is loaded; some of the
\* returns keep the new page table's memory.
exec_refused(t, f) ==
  /\ ExecMay(t, f)
  /\ VtableLeft
  /\ NodeOpened(f)
  /\ vtables' \in {vtables, [vtables EXCEPT ![FreshVtable] = [refcnt |-> 0, live |-> TRUE]]}
  /\ ExecReturns(t)
  /\ UNCHANGED <<tcb, pid_bitmap, pid_map, fd_tables, exhausted>>

\* The old page table is let go and, with the last reference, removed.
ReleaseOldVtable(t) ==
  LET V == Unref(vtables, tcb[t].vtable)
  IN IF V[tcb[t].vtable].refcnt = 0 THEN [V EXCEPT ![tcb[t].vtable].live = FALSE] ELSE V

\* Standard input, output and error of a new program.
StdTable ==
  WithDescriptor(WithDescriptor(WithDescriptor(
    [NewTable EXCEPT !.free = @ \ {0, 1, 2}], 0, Console), 1, Console), 2, Console)

\* Nodes after the program file and n consoles have been opened.
ExecOpens(f, n) ==
  fnode_refcnt' = [g \in File |->
    fnode_refcnt[g] + (IF g = f THEN 1 ELSE 0) + (IF g = Console THEN n ELSE 0)]

\* Mutant: the old descriptor table is forgotten.
InstallTable_OldKept(t, x) == [fd_tables EXCEPT ![x] = StdTable]

InstallTable(t, x) ==
  os_file_fd_table_remove(tcb[t].fd_table, [fd_tables EXCEPT ![x] = StdTable])

exec_ok(t, f) ==
  /\ ExecMay(t, f)
  /\ VtableLeft
  /\ FreeTables # {}
  /\ fnode_refcnt[Console] + 3 <= MaxOpen[Console]
  /\ ExecOpens(f, 3)
  /\ vtables' = [ReleaseOldVtable(t) EXCEPT ![FreshVtable] = [refcnt |-> 1, live |-> TRUE]]
  /\ fd_tables' = InstallTable(t, Min(FreeTables))
  /\ tcb' = [tcb EXCEPT ![t].vtable = FreshVtable, ![t].fd_table = Min(FreeTables),
                        ![t].state = "user"]
  /\ UNCHANGED <<pid_bitmap, pid_map, fault, exhausted>>

\* The rest of the call allocates memory while the hart still translates through the
\* page table that has been removed.
exec_on_freed_table(t) ==
  /\ \E f \in File \ {Console} : ExecMay(t, f)
  /\ ~ReleaseOldVtable(t)[tcb[t].vtable].live
  /\ fault' = "freed_vtable"
  /\ UNCHANGED <<lifeVars, fdVars, exhausted>>

\* The descriptor table, or the nth console, cannot be had: the old descriptor table
\* comes back, the old page table does not, and the consoles opened stay open.
exec_fails_late(t, f, n) ==
  /\ ExecMay(t, f)
  /\ fnode_refcnt[Console] + n <= MaxOpen[Console]
  /\ ExecOpens(f, n)
  /\ vtables' = ReleaseOldVtable(t)
  /\ exhausted' = TRUE
  /\ ExecReturns(t)
  /\ UNCHANGED <<tcb, pid_bitmap, pid_map, fd_tables>>

os_syscall_execve(t) ==
  \/ exec_on_freed_table(t)
  \/ \E f \in File \ {Console} :
    exec_refused(t, f) \/ exec_ok(t, f) \/ \E n \in 0..2 : exec_fails_late(t, f, n)

os_syscall_exit(t) ==
  /\ InUserSpace(t)
  /\ tcb' = [tcb EXCEPT ![t].state = "stopped"]
  /\ UNCHANGED <<pid_bitmap, pid_map, vtables, fdVars, fault, exhausted>>

Syscall(t) ==
  \/ os_syscall_clone(t)
  \/ os_syscall_execve(t)
  \/ os_syscall_exit(t)
  \/ /\ InUserSpace(t)
     /\ \/ os_syscall_openat(tcb[t].fd_table)
        \/ \E fd \in Fdid : os_syscall_close(tcb[t].fd_table, fd)
     /\ UNCHANGED lifeVars

Next ==
  \/ \E t \in KernelTask :
       CreateKernelTask(t) \/ CreateKernelTaskFails(t)
  \/ os_task_user_entry(task_user)
  \/ \E t \in Task : Syscall(t)

Spec == Init /\ [][Next]_vars

-----------------------------------------------------------------------------
\* os_task_get_task_by_pid, and the results of getpid and getppid.
os_task_get_task_by_pid(pid) == pid_map[pid]

os_syscall_getpid(t) == tcb[t].pid

os_syscall_getppid(t) == tcb[tcb[t].parent].pid

\* The tasks os_task_print_tree prints, in its order, to a depth no tree exceeds.
os_task_print_tree ==
  LET below[n \in 0..Cardinality(Tasks)] ==
        [t \in Tasks |->
          IF n = 0 THEN <<t>>
          ELSE <<t>> \o FlattenSeq([i \in DOMAIN tcb[t].child_list |->
                                      below[n - 1][tcb[t].child_list[i]]])]
  IN IF Exists(task_idle) THEN below[Cardinality(Tasks)][task_idle] ELSE <<>>

\* The tree os_task_print_tree walks has every task in it, once, below the parent it
\* names: neither clone nor the removal of its child loses or repeats one.
TaskTree ==
  /\ IsInjective(os_task_print_tree)
  /\ ToSet(os_task_print_tree) = Tasks
  /\ \A t \in Tasks : \A c \in ToSet(tcb[t].child_list) : tcb[c].parent = t

\* "pid map normal" (os_task_print_tree): the pid of every task leads back to it and is
\* taken, also when pids of children that could not be made have been lost; getpid and
\* getppid never name the same task.
PidMapNormal ==
  \A t \in Tasks :
    /\ os_task_get_task_by_pid(os_syscall_getpid(t)) = t
    /\ os_syscall_getpid(t) \notin pid_bitmap
    /\ tcb[t].parent # NULL => os_syscall_getppid(t) # os_syscall_getpid(t)

\* The tree and the pid table name the same tasks.
TasksFound == TaskTree /\ PidMapNormal

\* Every task has a descriptor table of its own with one reference, and there are no
\* others: neither a clone that fails nor an exec leaks or shares one.
TablesExact ==
  /\ LiveTables = {tcb[t].fd_table : t \in Tasks}
  /\ \A x \in LiveTables : fd_tables[x].refcnt = 1
  /\ \A t, u \in Tasks : tcb[t].fd_table = tcb[u].fd_table => t = u

\* Descriptor tables belong to tasks, descriptors to tables and nodes to descriptors.
DescriptorsExact == TablesExact /\ NodesCoverDescriptors /\ DescriptorsKeepTheirIds

\* As long as memory has not run out, the page table of every task is there: the exec
\* of one of two tasks that share a table leaves the other its table.
TasksKeepTheirVtable ==
  ~exhausted => \A t \in Tasks : vtables[tcb[t].vtable] # NULL /\ vtables[tcb[t].vtable].live

\* What programs can bring about without memory running out: an openat that fails, an
\* exec from an unshared table, a first program that does not load.
FaultsOnlyWhenExhausted ==
  fault \in {NULL, "unlinked_node", "freed_vtable", "runs_into_data"} \/ exhausted
=============================================================================
