# DreamOS verification

TLA+ models of the DreamOS kernel (RISC-V, one hart), TLC configurations that
check them on small instances, and TLAPS proofs for every instance. Paths below
are relative to the repository root, which holds the kernel in `src/`, `arch/`
and `bsp/` (`PROJECT.json` writes them with one more `src/` in front).

1. [The system](#1-the-system): inventory of components
2. [The modules](#2-the-modules): what models what
3. [The runs](#3-the-runs): questions, bounds, results
4. [Fairness](#4-fairness)
5. [What is proved](#5-what-is-proved)
6. [Where the code does something else than it says](#6-findings)
7. [What is not modelled](#7-what-is-not-modelled)
8. [Plan](#8-plan)

## 1. The system

DreamOS runs kernel threads (`os_task_t`) on one hart. Atomicity comes from
one mechanism, `OS_ENTER_CRITICAL_AREA`, which masks interrupts and restores
them at the end; so two tasks interleave between critical areas and nowhere
inside one. The only interrupt that schedules is the timer. Everything above
the scheduler (files, devices, the VFS) is protected by recursive mutexes made of
wait queues, made of `os_task_sleep` and `os_task_wakeup`.

| component | state it keeps | operations | talks to |
|---|---|---|---|
| **Task scheduler** `os_task.c`, `os_tick.c`, trap exit in `interrupt_gcc.S` | `current_task`, a state and slice per task, a ready list per priority, the pending ("lazy") switch | start, startup, yield, sleep, wakeup, exit, tick, trap exit | called by all; switches register contexts |
| **Wait queues** `os_waitqueue.c` | a list of nodes, each a local variable of the waiting call | wait, wakeup | sleep and wakeup of the scheduler |
| **Mutexes** `os_mutex.c` | `locked`, `owner`, `refcnt`, a wait queue | lock, unlock | wait queues |
| **Buddy system** `memory/os_memory_page.c` | free lists by order, metadata per page, `page_allocated` | init, alloc, free | nothing |
| **Slub allocator** `memory/os_memory_slub.c`, `os_memory.c` | per cache a list of slubs with free objects and its length; per slub a free list and a count | alloc, free, expand | buddy system |
| **File manager** `os_file.c` | list of file nodes with counts, a descriptor table per task | open, close, read, write, ioctl, lseek ... | VFS, file systems, memory |
| **VFS** `os_vfs.c` | mount points with counts of children and open files, file system types | mount, unmount, stat, path normalisation | file systems |
| **romfs, devfs** `vfs/*.c` | romfs: an image; devfs: none | open, close, read, stat ... | devfs calls the device manager |
| **Device manager** `os_device.c` | list of devices with counts | register, open, close, read, write, ioctl | drivers |
| **Task lifecycle** `os_task.c`, `task_main_entry.c`, `os_syscall.c`, `os_elf.c` | pid bitmap, pid table, task tree, reference counts of page tables and descriptor tables | init, remove, clone, execve, exit | memory, MMU, files |
| **Descriptor tables** `os_file.c`, `os_syscall.c` | per task: free ids, id to descriptor, a lock | create, remove, openat, close | files |
| **MMU** `os_mmu.c`, `arch_mmu.c` | page tables of three levels | map, unmap, find, copy, switch, remove; copies between user and kernel | buddy system |
| **Containers** `os_bitmap.c`, `os_hashmap.c`, `os_list.h` | - | insert, remove, search | used by all |
| **Traps and switches** `interrupt_gcc.S`, `syscall_gcc.S`, `arch_asm.S`, `stackframe.h`, `arch_trap.c` | registers, `sstatus`, `sscratch`, the stacks of tasks and of interrupts | trap entry and exit, system call entry and exit, task switch, first entry of user space | scheduler, system calls |
| **Formatted output** `os_io.c` | the buffer | `os_printf` and its kin | terminal |
| **Crash dumps** `os_debug.c`, `tools/osdebugsupport` | symbol tables in the kernel image | build the tables; search them | formatted output |
| **System calls** `os_syscall.c`, `arch_syscall.c` | handler table | dispatch; argument checks; stubs | all of the above |
| **Boot, board support, firmware** `os_init.c`, `bsp/`, `sbi.h` | - | initialise in order, UART, timer | all |

What is hard in them, and what makes each correct:

- **Scheduler.** `os_task_schedule` runs in two contexts: in a task it switches
  at once; in the timer trap it records the switch, which the assembly
  exit path carries out later. `os_syscall_exit` marks a task STOPPED in
  one critical area and schedules in another. *Correct when* every started task is in
  exactly the place its state says, the hart never parts from the task the
  scheduler chose, priorities are respected, peers take turns, and a stopped
  task stays stopped.
- **Wait queues and mutexes.** Waiting is "queue, then sleep", in two critical areas
  unless the caller masks interrupts. A contended `os_mutex_lock` returns without
  looking at the mutex again: the unlocker has to have made it the owner. *Correct
  when* nobody sleeps where nobody can find it, a queue node never outlives its call,
  and callers see a recursive first-come-first-served lock.
- **Memory.** The buddy system merges on the strength of metadata that may be stale;
  the slub allocator keeps a list and its length separately and believes the length.
  *Correct when* no byte has two owners, nothing leaks, free memory is not left in
  halves, and counters say what the lists hold.
- **Files, VFS, devices.** Each call nests up to five mutexes and lets some go while it still
  waits for others; nodes, mount points and devices are counted and freed by count.
  *Correct when* the counts are exact at every interleaving, nothing freed is used,
  locks are taken in one order and are given back on every error path.
- **Task lifecycle, descriptor tables.** Long error paths that undo half-made tasks; `execve` lets go of the
  old page table before it is sure to succeed; a child moves from one parent's list to another's. *Correct when* the
  task tree and the pid table name the same tasks, every task keeps the tables it uses, and whatever
  is undefined happens only when memory or ids have run out.
- **MMU.** Ranges that begin or end inside blocks of three sizes; tables shared with the kernel's. *Correct
  when* a page table translates what its owners asked for and nothing else, and every frame has one owner.
- **Containers.** Searches that go by whole words where they can, chains shared by colliding keys. *Correct when* they
  do what a sequence, a function or a set would.
- **Traps and switches.** A timer interrupt may come in user code, in kernel code and in the middle of a system
  call, and may end in another task; frames move from stack to stack. *Correct when* no task notices.
- **Formatted output, dumps.** Widths and signs share a counter that goes below zero; a binary search reads the
  item before its table. *Correct when* the text is the one C's printf prints, and the symbol the nearest one.

`PROJECT.json` lists the hazards with their source lines and the properties that cover each.

## 2. The modules

```
OsTask  <--  OsWaitqueue  <--  OsMutex ---implements---> RecursiveLock
                                  ^
                           SchedulerProofs     (scheduler, wait queues and mutexes)

OsDevice  <--  OsVfs  <--  OsFile  <--  OsFileProofs   (mutexes as RecursiveLock promises them)

OsMemoryPage  <--  OsMemory ---implements---> HeapAllocator
                      ^
               OsMemoryProofs

OsFd  <--  OsTaskLife  <--  OsTaskLifeProofs           OsTrap  <--  OsTrapProofs
OsList  <--  OsHashmap, OsBitmap, OsDebug, OsIo  <--  StructureProofs         OsMmu  <--  OsMmuProofs
```

An arrow `<--` is EXTENDS: the module on the right composes its own component with
the one on the left. `DataLemmas` has what several proofs need to know of numbers, finite sets and
sequences. `MC*` modules give the constants values for TLC. Definitions named
`X_Word` and commented "Mutant" are plausible mistakes in X, kept to see that each
property notices one; no specification uses them.

### OsTask: the scheduler

The body of a critical area is one action. A trap is two, since the C handler changes
`current_task` and the assembly moves the hart: `os_tick_handler` and `trap_exit`. The
variable `cpu` says whose registers the hart holds, `in_trap` that it is between trap
entry and `sret`; `need_lazy_task_switch`, `lazy_old_task` and `lazy_next_task` are the
code's. `os_task_schedule` is an operator over the states, lists and slices that its
caller has already written, with the three ways it ends as disjuncts: `KeepCurrent`,
`SwitchTo`, `NothingReady` (the assertion). `task_list` stands for "`os_task_startup` has been
called"; before, a task has the state READY, which `os_task_init` gives it, and is on no
list. A failed assertion spins for ever: `halted`.

The idle thread follows its code (start `task_main`, then yield for ever); every other thread
may make any call at any time, so all programs of these calls are covered.

Abstracted: `global_tick` (nothing reads it here), the stack-overflow check, exit codes,
names, the loop a returning thread ends in. A task that is still current when it exits keeps
the hart until it is switched away from, as in the code.

### OsWaitqueue, OsMutex, RecursiveLock

`os_waitqueue_wait` is two actions, with the task in `adding` between them, because a tick
can fall there; the same call from `os_mutex_lock`, whose critical area covers both, is one
(`WaitAtomically`). A queue is the sequence of the waiting tasks. `OsMutex` has the code's three fields;
`held` and `locking` are auxiliary: what callers know. The return of a contended call is an action of its own, since
the code does nothing in it but leave the critical area. `RecursiveLock` is the abstract specification: one
holder, nesting, first come first served. The refinement mapping puts a task that the unlocker
has made the owner first in line until its call returns.

### OsMemoryPage, OsMemory, HeapAllocator

Addresses are page numbers, orders are relative to a page. Splitting (`Take`) and merging (`Give`) compute
the final lists and metadata at once; the loops of `_alloc` and `_free` become the set of
orders they pass through (`FirstFit`, `MergesUpTo`), which keeps the modules free of recursive operators. `SIZE` is the code's shift, as a recursive function. Free lists are
sequences in the code's order (inserted at the front, taken from the front), because which block is taken matters.
`page_allocated` counts modulo `WordSize`. `buddy_get` has no `return` statement: undefined in C, and
in the project's unoptimised build the callee's result is still in the return register, which is what is modelled.

`OsMemory` puts the slub caches on top. Each operation is one critical area, but `slub_expand` takes pages one by one, so a call
in progress is recorded in `call`, which keeps every other call out as masked interrupts do. `os_memory_slub_alloc`
follows the list head when the count is not zero; if the list is empty the model stops (`faulted`).
`HeapAllocator` says what users rely on: regions in use are disjoint. The mapping gives each slub page a
header cell and a cell per object, so that "the allocator's own header" is an owner too. The guards for
requests near `SIZE_MAX` are left out.

### OsDevice, OsVfs, OsFile

Here mutexes are what `RecursiveLock` promises (which `OsMutex` is shown to implement), except
that any waiter may be next: a weaker promise, hence more behaviours. A call in progress is a record: the stage
it has reached, the mutex it wants, and what its local variables point to. One action takes
that mutex and runs to the next acquisition; unlocks on the way happen in the action, because
giving a lock back early can only enable others. Each wait for a lock in `os_file_open`, `os_file_close`,
`os_file_read`, `os_vfs_stat` and the device operations beneath them is such a point, and every error path is
a disjunct: malformed paths, no mount point, no memory (three places), a file system or driver
that refuses.

- A file node or mount point is an id; memory is free when the id is on no list. An id that some
  call still points to is not reused, so that use after free stays visible (`faulted`) instead
  of being hidden by a new allocation at the same address.
- `os_file_close` reads `fd->fnode->mp->lock` (`src/os_file.c:385`) after `os_memory_free(fd->fnode)` (`:378`). The memory may be another task's by then, and the mount
  point anything (`CloseNodeReused`, which ends the model); `FreedMemoryReused` switches it on; where it is off the read still finds the node as it was. The theorems hold for both.
- Paths are sequences of components as the caller wrote them (`spelt`); `os_vfs_normalize_path` is modelled
  by what it does to them. The code compares prefixes character by character; with components none of
  which is a prefix of another the two agree, and the instances choose such names.
- `os_file_open` looks a node up by the spelling but stores the normal form. The model does
  the same, and `SharedUnlessRespelt` states what follows.
- Without memory for a node `os_file_open` returns with `os_file_global_lock` locked; `starved`
  remembers who did.
- Descriptor tables are private (`os_file_fd_table_soft_copy` has no caller), so descriptor locks are
  never contended and are left out; `fds` counts descriptors per task and node.
- The boot state is the initial state: a romfs at `/`, the devfs on one of its directories, devices
  registered and marked initialised.

Left out: `open_flag`, read positions, data and directory reading, the lock of a file system type (only
taken under `vfs_global_lock`), `os_vfs_mkfs` (not implemented in the code).

### OsFd, OsTaskLife: descriptor tables, tasks as objects

Creations do not overlap: the kernel's own tasks create each other in a row, and `os_syscall_clone` masks interrupts
throughout; so a creation is one action. `execve` touches nothing that another task looks at. What
remains is the order of calls and where memory or ids run out, and that is what the actions spell out: each
error return of `os_task_init`, `os_syscall_clone`, `os_elf_load` and `os_syscall_openat` is a disjunct with the state it leaves behind.

- `tcb` has the fields of `os_task_t` that count or point; `vtables` and `fd_tables` have their reference counts as `os_size_t`, which wrap (`SizeMax`).
- `state` follows a user task from `os_task_user_entry` ("started", then "stub": the few lines of `user_entry_code`, which do nothing but
  `execve`) to a program.
- `exhausted` remembers that an allocation has failed. `fault` names the undefined step that stops the model: what the code does in it (walks
  an uninitialised task structure, allocates on a freed page table) has no next state worth describing.
- `os_file_fd_table_remove` unlocks a table it has freed; `os_file_get_new_fdid` fails with the lock held (the count `lock`).
- In `OsFd` a file node is its reference count alone; everything about nodes under concurrency is in `OsFile`.

### OsBitmap, OsList, OsHashmap: containers

`os_bitmap_find_some` is a fold over groups and bits with the loop's own counters, and the reference is "the first run". Lists are
two pointers per node, in a function `links`, against the sequence `listed`; the hash map stands on those lists and is compared with the function
its callers have set. Keys are numbers and the hash is the default one, as for every map of the kernel.

### OsMmu: page tables

Frames are the heap; a table is a frame whose entries point to others. Tables have two entries a level (eight on the first: four
for users, two for the kernel, two for IO) instead of 512, which keeps all cases: ranges inside an entry, over an entry's edge, blocks large enough for an
entry of the level above. Loops are functions from the number of rounds (`L1Round`, `RemoveL2Round` ...) to what they carry: `va`, `pa` and `size`, as in the code. Three variables are not in the code: `intended`, the pages each
table's owners have asked for; `leaked`, frames whose page was mapped again, by a segment that overlaps an earlier one; `strayed`, the page table that has got a segment of more than one page. A freed frame that is freed again is of kind "freed_twice".

`os_mmu_create_mapping_auto` is called by `os_elf_load` with what the program file says: segments of any size, at any place, overlapping or not. Only `va + size <= USER_SIZE` is asked for, which the code does not check;
what a program file with addresses of the kernel would do is left out. A segment of more than one page goes wrong as in the code: each new frame is mapped from the same virtual address on, together with what follows it. After that the user's pages
may be frames of others, even page tables, and a user program that writes to them has no next state worth describing: the model goes up to the return of that call and ends there (`Ready`). What holds in the state it leaves is part of the properties.

The alignment macros are modelled as they are: `OS_MMU_Lx_ALIGN(va)` is not 0 for any address behind the first block, so only the physical
address is really tested (`Big`). Protection bits and the TLB are left out. `user_mapping_copy` copies the entries of a first level in which
the user part is empty at that time, so its deeper loops are not reached.

### OsTrap: saving and restoring contexts

A context stands for all registers but `sp`: whose code, in which mode, how far. A frame is what `SAVE_ALL` stores: context, `sp`, SPP and SPIE. An
action is the code between two points at which an interrupt can come; a trap is two (entry with the C handler, exit). The stack pointer is a stack and a
number of items on it. C calls in the kernel are `KernelCalls` and `KernelReturns` (external: the compiler makes them), so that traps come at any depth.
`calls` is not in the code: for every task, the contexts it should have.

`enter_user_space` is two actions: what it does up to `csrw sepc`, and its `sret`. A kernel thread calls it with interrupts as they are, so a timer interrupt, and with it other tasks, may come between the two; then `sepc` is the address of the `sret`
itself (`AtSret`), which goes to itself in user mode. `sepc` is part of `hart` for that. It clears bit 3 of `sstatus` (SPP is bit 8); user space is entered all the same, since the last `sret` left SPP at 0 - an invariant that
the proof needs (`hart.spp = "U"` whenever a task executes). A system call without handler leaves `sepc` at the `ecall`, which is then
executed again for ever; `SyscallResults` has that outcome.

### OsDebug, OsIo: symbols and formatted output

`OsDebug` has the tables as `osdebugsupport` builds them (counted, filled, sorted) and `find_symbol_table` with its read of the item before the table, which is the last
item of the table before it or a word of the header. The linker script's constant `STACK_SIZE` is a symbol of the general table like any other and sorts in front of it, and `os_symtab_item_cmpfunc` returns the difference of
two addresses as an int (`IntHalf`): the assumption says what keeps the order right all the same. `OsIo` has a format of some ordinary characters and one conversion with flags, width, precision and length,
every path of `print_number`, and the buffer's end. Output is compared with what C prescribes, for the conversions the code means to support; where it
differs from C (octal, `l`, precision 0, `%.0s`, a `0` flag with a precision, `#` for 0) `SupportedConversion` says so and section 6 lists it.

## 3. The runs

Sizes are TLC's distinct states. All invariants and properties listed for a passing run
are also shown to be breakable: each has at least one mutant in `PROJECT.json` that violates it.

| run | module, cfg | states | question |
|---|---|---|---|
| `sched` | MCOsTask | 1,852 | does every task stay where its state says, and do priorities and slices work? |
| `mutex` | MCOsMutex | 139,478 | is a mutex a recursive lock, whoever preempts whom? |
| `mutex_live` | MCOsMutex, MCOsMutexLive.cfg | 2,943 | does a contended lock call return? |
| `memory` | MCOsMemory | 392,868 | do slubs and pages together make a heap? |
| `slub_count` | MCOsMemory, MCOsMemoryFault.cfg | violated | does an allocation ever follow a null pointer? |
| `files` | MCOsFile | 114,171 | are counts and locks right at every interleaving and failure? |
| `files_freed` | MCOsFile, MCOsFileFreed.cfg | violated | is freed memory ever used? |
| `files_deadlock` | MCOsFile, MCOsFileDeadlock.cfg | violated | can calls wait for each other in a circle? |
| `process` | MCOsTaskLife | 119,697 | do tasks, pids, page tables and descriptors stay together whatever runs out? |
| `structures` | MCStructures | 305,837 | do the parts everything stands on do what they should, each by itself? |
| `segments` | MCStructures, MCStructuresSegments.cfg | violated | has every page of a program a frame of its own? |
| `user_entry` | MCStructures, MCStructuresEntry.cfg | violated | does `enter_user_space` enter user space? |

**`sched`.** Idle, main and two workers on three priorities, two of them peers, slices of zero and
one tick (zero is legal, and is the case where the unsigned counter is tested before the decrement). Two peers are the fewest
between which turns can be lost and a third priority the fewest that lets preemption nest. *Shows* `ReadyListsExact`,
`CurrentIsRunning`, `HartFollowsScheduler`, `HaltsOnlyWhenIdle` as invariants; that a switch never passes over a more
urgent task (`SwitchesToHighest`) and that only `os_task_startup`, which does not schedule, can leave one waiting
(`OnlyStartupOutranks`); that an exited task never runs again (`StoppedStaysStopped`); and that the head of the highest
non-empty list is not passed over for ever (`PeersTakeTurns`).

**`mutex`.** Two mutexes and a plain wait queue under three priorities and preemption at every point, nesting
up to depth two. Two mutexes make a task hold one while it waits for the other, and let the model reach
the deadlock of two tasks that lock in opposite orders, which the code does not exclude and which breaks none of the
properties; the plain queue brings wake-ups that race sleeps. *Shows* that the fields agree with the queue, that the assertions of
`os_mutex_unlock` hold for every caller that unlocks what it locked, that a contended call returns only
as owner, that queue nodes do not outlive their calls, that wake-ups are in order, and that each mutex implements
`RecursiveLock`.

**`mutex_live`.** One mutex, users of one priority. *Shows* that every contended call returns and every sleeper is on the queue. With
different priorities the first is false, since nothing lends the owner the priority of those who wait.

**`memory`.** Two caches (two objects a slub; one object a slub, as for sizes above 1 KiB) and direct users of
one and two pages compete for four pages, so every kind of request fails in some state, expansion gets two, one or no page,
and slubs are returned and taken again. The model goes on after the count has gone wrong (section 6) up to the null pointer, and
shows that until then nothing is lost: `CachesExact` has the inequality that remains true.

**`files`.** Two tasks with one descriptor each and at most one call under way per task; a regular file, a
directory, one device whose driver may refuse; two spellings of both files; unmounting by name and through `..`; memory that
may run out at any allocation. Two tasks suffice for each race looked at (one call in the window of another), and
three mount ids and four nodes are as many as the calls can need: checked once, in every state
a free id is left for the next node and for the next mount, so the ids cut off no behaviour. A larger
instance (two descriptors per task, fewer spellings; 3.0 million states) was run once with the same result. Deadlock is not
checked: `files_deadlock` is about it, and a task that keeps `os_file_global_lock` blocks all others.

**`process`.** The three kernel tasks, two children, five pids, four page tables, four descriptors a task (one more than `execve` opens), reference counts that
wrap at four. Two children are the fewest that let one share a page table with its parent while the other has been given up half-made; a count that wraps at four
reaches zero from both sides. Programs close a descriptor once (`CloseTwice = FALSE`; see section 6). *Shows* that the tree
`os_task_print_tree` walks and the pid table name exactly the same tasks (`TasksFound`), that descriptor tables, descriptors and nodes agree
(`DescriptorsExact`), that nobody loses a page table in use unless memory has run out (`TasksKeepTheirVtable`), that everything undefined but three known steps needs memory or
an id to run out first (`FaultsOnlyWhenExhausted`), and that only a full descriptor table is ever left locked (`LockLeaksOnlyWhenFull`). `CHECK_DEADLOCK FALSE`: a fault stops the model.

**`structures`.** One run with eight independent subjects; a behaviour is one of one of them.

- *Buddy system*: all orders of allocations of one to five pages and releases on a heap of ten pages, numbers 6 to 15, after its
  initialisation block by block; requests of three and five pages are not powers of two and a release merges up to three times. Four metadata structures fill a page
  instead of 128. `PagesAccounted` relates lists, metadata, count and blocks; `FreeRunsAreWhole` says that an allocation fails only when no aligned run of free pages is large enough; `RequestIsCovered`
  that the caller gets all it asked for.
- *Bitmaps*: of 4, 6 and 8 bits in groups of 3, so that the last group is partly, wholly or barely used; every value, every search, every setting of a run.
- *Lists and hash maps*: four nodes, all insertions and removals; four keys, three of which collide in a map of four lists and all in a map of one, three items.
- *Page tables*: two user tables and six frames, so that memory runs out at each level; segments of one and two pages that begin in the first or second half of a table and at the end of user space, mapped any number of times, so that they overlap. Every table translates
  exactly what was asked for (`TranslationIsIntended`), no frame is lost, freed twice or freed in use (`FramesAccounted`; `leaked` says which are lost to overlapping segments), found addresses are free and copies stay in user space. A segment of two pages ends the behaviour: in that
  state the user's part of its own table is excepted, all others are not. `segments` is about what is excepted.
- *Traps*: two tasks, five items a stack. `TrapsAreTransparent` is proved for all (section 5). A task that a timer interrupt has caught in front of the `sret` of `enter_user_space` is the one exception it makes (`Torn`), and
  none with interrupts masked (`MaskedEntryIsWhole`). `user_entry` is about the exception.
- *Symbols*: up to three symbols at three text addresses and a data address next to `STACK_SIZE`, sizes 0 and 2, all addresses looked up; an address inside a function or object must be named by it if it is the only nearest, and one outside must not.
- *Formatted output*: longs of 8 bits, a buffer of 9 characters, all combinations of flags, width, precision, length and conversion.

`CHECK_DEADLOCK FALSE`: once a format is printed nothing is left to do, nor after a write through null or a segment of several pages.

The violated runs stop at the shortest counterexample; each is one finding of section 6.
`CHECK_DEADLOCK FALSE` stands where the system really stops: after a failed assertion, after a null pointer, or
with everybody asleep.

## 4. Fairness

- *Timer and trap exit* (`sched`, `mutex_live`): weak fairness of `os_tick_handler` and `trap_exit`. Every critical area ends by
  restoring interrupts, none contains a loop that waits, and a trap handler returns; so a tick is
  never held off for ever. `PeersTakeTurns` needs no more: tasks may compute for ever.
- *Start*: `os_task_scheduler_start` is called at the end of boot.
- *Idle loop* (`mutex_live` only): the idle thread goes on yielding when it has the hart; it has no other code.
- *Critical sections* (`mutex_live` only): strong fairness of a task's unlock and of the return of its lock call. A task is preempted
  again and again, so its next instruction is not continuously enabled; that it executes it if it gets the
  hart infinitely often is how a hart works. That a holder in the end makes its *last* unlock is an
  assumption about callers: kernel code holds mutexes for the length of one call.
- All other specifications are safety only.

## 5. What is proved

All theorems hold for **every** value of the constants; assumed are only the ASSUMEs of the modules, which TLC evaluates for the instances.

| module | theorem | statement |
|---|---|---|
| SchedulerProofs | `SchedulerInvariant` | `Spec => []SchedInv` |
| | `TypeCorrect` | `Spec => []TypeOK` |
| | `ReadyListsAreExact` | `Spec => []ReadyListsExact` |
| | `OnlyCurrentRuns` | `Spec => []CurrentIsRunning` |
| | `HartRunsTheChosenTask` | `Spec => []HartFollowsScheduler` |
| | `AssertionNeedsIdle` | `Spec => []HaltsOnlyWhenIdle` |
| | `StoppedForGood` | `Spec => StoppedStaysStopped` |
| | `UrgentFirst` | `Spec => SwitchesToHighest` |
| | `NothingElseOutranks` | `Spec => OnlyStartupOutranks` |
| | `MutexesAreExact` | `MuSpec => []MutexExact` |
| | `NodesLastAsLongAsCalls` | `MuSpec => []NodesOutliveNoCall` |
| | `LongestWaiterFirst` | `MuSpec => WakesInOrder` |
| | `MutexesAreRecursiveLocks` | `MuSpec => ImplementsRecursiveLock` |
| | `NoWakeupIsLost` | `Waitqueue = Mutex` gives `MuSpec => []SleepersAreQueued` |
| | `MutualExclusion` | `MuSpec => []Locks!OneHolder` |
| OsMemoryProofs | `PagesAreAccountedFor` | `PageSpec => []PagesAccounted` |
| | `FreeRunsStayWhole` | `PageSpec => []FreeRunsAreWhole` |
| | `RequestsAreCovered` | `PageSpec => RequestIsCovered` |
| | `PagesAreAccountedForUnderSlubs` | `MemorySpec => [](PagesAccounted /\ FreeRunsAreWhole)` |
| | `ObjectsAreAccountedFor` | `MemorySpec => []ObjectsAccounted` |
| | `CachesStayExact` | `MemorySpec => []CachesExact` |
| | `MemoryImplementsHeap` | `MemorySpec => ImplementsHeapAllocator` |
| | `NoCellHasTwoOwners` | `MemorySpec => []Heap!Disjoint` |
| OsFileProofs | `FilesInvariant` | `Spec => []FileInv` |
| | `LocksDisciplined` | `Spec => []LocksAreDisciplined` |
| | `CountsAreExact` | `Spec => []CountsExact` |
| | `OpenFilesStayMounted` | `Spec => []OpenFilesKeepTheirMount` |
| | `NodesAreShared` | `Spec => []SharedUnlessRespelt` |
| | `NormalizeTwice` | `os_vfs_normalize_path` is idempotent on every path |
| OsTaskLifeProofs | `LifeInvariant` | `Spec => []LifeInv` |
| | `EveryTaskIsFound` | `Spec => []TasksFound` |
| | `VtablesOutliveTheirUsers` | `Spec => []TasksKeepTheirVtable` |
| | `DescriptorTablesExact` | `~CloseTwice` gives `Spec => []DescriptorsExact` |
| | `FaultsNeedExhaustion` | `~CloseTwice` gives `Spec => []FaultsOnlyWhenExhausted` |
| | `OnlyFullTablesStayLocked` | `Spec => LockLeaksOnlyWhenFull` |
| OsTrapProofs | `TasksDoNotNotice` | `TrapSpec => []TrapsAreTransparent` |
| StructureProofs | `ListsAreSequences` | `ListSpec => []PointersAreTheSequence` |
| | `MapsAreMappings` | `ChainsSpec => []ChainsExact` |
| | `SearchesFindFirstRuns` | `BitmapSpec => []FindsFirstRun` |
| | `SettingKeepsOthers` | `BitmapSpec => SetsNoOther` |
| | `DumpsNameAddresses` | `SymbolSpec => []DumpNamesAddresses` |
| | `PrintsAsInC` | `IoSpec => []PrintsAsC` |
| OsMmuProofs | `TranslationsAreIntended` | `MmuSpec => []TranslationIsIntended` |
| | `AllFramesAccounted` | `MmuSpec => []FramesAccounted` |
| | `FoundRangesAreFree` | `MmuSpec => []FindVaddrSound` |
| | `CopiesStayInUser` | `MmuSpec => []UserCopiesStayInUser` |

**Scheduler** (`SchedulerProofs`). Assumed is `TaskAssumption` of `OsTask`: the idle and main threads are two different tasks, `NULL` is none, priorities are in range and slices are natural
numbers (zero included).

`SchedInv` is the conjunction of the five invariants and `Booting` (before the first switch only the idle thread is started, and
nothing has happened). None of the five is inductive alone: that the chosen head of a list may be
made RUNNING needs `ReadyListsExact` (it was READY, and is on no other list); that the outgoing task may be appended
needs `CurrentIsRunning` (it was on none); that a pending switch can be overwritten by no second one needs
`HartFollowsScheduler`; that an empty scan means the idle thread is current needs all of them.

The argument follows the code: every path ends in `os_task_schedule`, called with states and lists that its caller
has already changed and that the invariant does not describe yet. `SchedulablePre` says what
all callers establish, lemma `ScheduleStep` what the scheduler makes of it, through `SwitchLists` (what a switch does to the
lists) and `NextTask` (a non-empty list of least index exists exactly when there is a ready task). Each
action is then one application of the lemma (`SleepStep`, `WakeupStep`, `TickStep` ...). `StepOK` collects what a step may do,
and the three action properties follow from `SchedInv /\ [Next]_taskVars => StepOK`.

**Mutexes** (`SchedulerProofs`, on top of the scheduler's). The inductive invariant is `MuInv == SchedInv /\ WaitInv /\ MutexInv`. `WaitInv` says where a waiting task is: `NodesOutliveNoCall` (a task
on a queue is inside a waiting call, and on that queue only, once), and that a task between the two critical areas of `os_waitqueue_wait` is awake. `MutexInv` ties a mutex to its callers: the
four parts of `MutexExact`, `CountIsOwners` (the reference count is what the owner's returned calls have taken, or one while its call has not returned) and `LockingIsExclusive` (a task inside
`os_mutex_lock` does not hold that mutex and waits nowhere else). `MutexExact` alone is not inductive: that the hand-off may make the head of the queue the owner needs `WaitInv`, since that task must
be in a lock call of *this* mutex, and that the woken task can be woken at all needs `SchedInv`. A scheduler step disturbs none of the mutex's variables, so
each action is the scheduler's lemma (`SleepPre`, `WakeupPre`, `TickPre` give its hypotheses) plus what the action does to queue and fields. The refinement maps each action to `Ask`, `Grant`, `Enter`, `Leave` or a stutter of
`RecursiveLock`, whose invariant carries over: by `MutualExclusion` no two tasks are ever inside one mutex, under any preemption.
`NoWakeupIsLost` is the other side of the lost wake-up of section 6: the kernel calls `os_waitqueue_wait` from `os_mutex_lock` alone (`Waitqueue = Mutex`), and then
`SleepsInLock` is inductive on top of `MuInv` - nobody is between the two critical areas of a wait, and every sleeper is inside a lock call, whose
queue `LockReturnsAsOwner` names.

**Traps** (`OsTrapProofs`). Assumed is `TrapAssumption`: stacks have room for at least the two items a preempted system call needs. `TrapsAreTransparent` says what contexts are; the invariant `TrapInv` adds what frames have to hold for them
to come back: `Saves(f, c, t, i)` - frame `f` has context `c`, the mode of `c` in SPP and, if `c` is kernel code, the `sp` it had at depth `i`. `OuterSaved` has it of all calls below the
innermost, `OffHartSaved` of the innermost call of a task that is not on the hart, with `task_t.sp` on it, and `OnHartKept` of the interrupted one on the interrupt
stack, and records that SPP is 0 whenever a task executes, on which `enter_user_space` depends. `SretKept` is about its last instruction: `sepc` is there what `enter_user_space` has set, or where a trap came back to; and the latter only with interrupts on, since a frame
that returns to the `sret` was made by an interrupt and has SPIE set. Three lemmas carry the proof: `RestoreFrame` (RESTORE_ALL and
`sret` from a frame that saves `c` resume `c`), `Deeper` (a call or a system call adds one context) and `SwitchStep` (both switches, at once and at
the end of an interrupt, do the same to two tasks).

**Files, VFS, devices** (`OsFileProofs`). Assumed are `FileAssumption`, `VfsAssumption` and `DeviceAssumption`: boot mounts on a directory other than `/`, nobody mounts on `/` again, and there is not memory for
more nodes than a counter can count. Every statement about counts has to hold while other tasks are in the middle of a call, so most of `FileInv` says what a task may rely on during a call:

- `OpenShape`, `CloseShape` and `OtherShape` say for each stage which mutex the call wants, exactly which it holds and what its local variables point to. Mutual exclusion and the order of locks
  (`LocksAreDisciplined`) can then be read off (`ShapesDisciplined`).
- `MayUse`: who closes still has the descriptor, and the device of an open in progress is a device - this must survive what all others do.
- `OwnsFresh`: a node that an open has just made is on the list without a descriptor, and whoever else finds it waits for its lock. It makes the error path that
  frees the node (`src/os_file.c:328`) leave the counts exact, although it is what lets a waiting task use freed memory (finding 2).
- `FoundBeneath`, `NodesInPlace` and `RootIsRomfs` relate the node a call has found to the mount point it has found, which may differ when something was mounted in between: a
  file that the romfs opens lies on the romfs, and one that a driver opens on a devfs. Without them a descriptor could escape its device's count, since opening asks the mount point
  found, closing the node's own, what kind of file it is.

`OthersGoOn` is the lemma that carries the interleavings: a step that only touches what its task holds keeps every clause for all others. Each action then proves its own task's
clauses and one of `LocalStep` (files unchanged), `OpenInPlace` (a descriptor more) or their like for closing, mounting and unmounting. Descriptors are counted as a set of triples, so that sums over tasks are cardinalities
(`DescriptorOpened`, `DescriptorClosed`). The theorems make no assumption on whether memory runs out or drivers fail.

**Tasks as objects** (`OsTaskLifeProofs`). Assumed are `FdAssumption` and `TaskLifeAssumption`: a table has room for the three standard descriptors, and there are fewer tasks than an `os_size_t` can count. `LifeInv` adds to the four properties:

- `Kinship`: main is idle's child, every other task main's, because clone puts the child next to its caller. The tree is three deep whatever programs do, which gives `EveryTaskIsFound` without induction on trees
  (`TreePrinted`: the recursive walk, evaluated).
- `Roles`: cloned children are never started, so that the only task that runs programs is the first; idle and main stay on the kernel's table.
- `PidsTaken`, which is stronger than it looks: `os_task_remove` leaves a pid's entry behind, and the invariant is why no later task meets it.
- `VtablesCounted`: the count of the table a program runs on is the number of tasks on it, or 0 for the table of the stub, as long as memory has not run out; so a count of 1 means that nobody else needs the table when `execve` lets it go. After
  exhaustion the counts may be wrong (`clone_copy_fails` counts from 0 below), which the clause leaves open. Users are a subset of the tasks, so the count does not wrap.
- `TablesExact` and `DescriptorsKeepTheirIds` hold without further hypothesis; that nodes are counted for every open descriptor (`NodesCoverDescriptors`) needs programs that close a descriptor once
  (`~CloseTwice`), and without it TLC shows the violation (section 6).

That removing a half-made child undoes `CloneTree` exactly is lemma `RemovalUndoesClone`. `OnlyFullTablesStayLocked` is an action property: per action, which table gets which lock.

`DataLemmas` has induction over the natural numbers in the form the provers can use, on a set instead of a predicate (`SetInduction`, from the well-foundedness of `<`), and what follows by it or directly: least elements, counting one more or one less,
removing and appending in a sequence of distinct elements, and flattening (`Flattened`: any function that puts prefixes together is what `FlattenSeq` computes).

**Memory** (`OsMemoryProofs`). Assumed are `PageAssumption`, `SlubAssumption` and, as the hypothesis of each theorem, `HeapEndsAligned`: no block that `os_memory_page_init` frees
reaches beyond the heap. `PageAssumption` says that the highest order is bigger than the memory and that no request is larger than it: the order of the largest block is 64 in the code, and a request is a number of bytes
in 64 bits. `HeapEndsAligned` is a fact about a board: the memory of the one supported is mapped at 2^37 and has 128 MiB, so its end is a multiple of every alignment in the heap, and the pages end there unless the pages from `_heap_start` on are one more than a multiple of 129 (128 metadata structures
a page). TLC evaluates it for the instances (`ASSUME` in `MCOsMemory`, `MCStructures`). Without it the theorems would be false, which is a hazard of `src/memory/os_memory_page.c:350`.

`PageInv` holds of the buddy system. Its core is `Tiling(Extents, cur_page_addr)`: free blocks and blocks given out, listed by first page and order, are aligned, follow one another
without overlap and fill the pages freed so far. It replaces the unions of sets of `BlocksPartition`, about which the provers can do nothing. A split replaces one block of the tiling by several (`TakeStep`), a release with `i - o` merges does the opposite
(`GiveStep`); that the buddy at each level starts a block of exactly that order is `Merges`, and that what is merged is aligned again is a lemma on powers of two. `NoFreeHalves` (no free block could merge with its buddy) is the second half
of the invariant: `FreeRunsAreWhole` follows from it by induction on the order. It holds because the halves a split leaves have their buddy, the block split, in use, and because `_free` stops only where `Merges` fails.
The powers of two are not uninterpreted any more: the lemmas at the beginning of the module prove by induction what is needed of `SIZE` (products, divisibility, `AlignBits`, where `buddy_get` and `get_big_page` lie). `PagesCounted` is
carried by cardinalities of intervals, so the modulus of the count plays no part.

`MemoryInv` adds `SlubInv`: `SlubsHeld` (every slub is a block of one page with a cache), `ObjectsHome`, `SlubsExact` (free list and objects in use make up all the objects of the slub), `PartialListsExact` and `CountCoversList`.
The last is an inequality because of finding 1, and that is all `slub_expand` needs: it empties a list only at count 0. That the page given back holds no object
in use follows from `SlubExact` and `Surplus` by counting (`AllOfThem`: a list of `n` different objects out of `n` has all of them).

`MemoryImplementsHeap` maps each step to `Allocate`, `Release` or a stutter of `HeapAllocator` (`HeaderTaken`, `ObjectTaken`, `BlockTaken`, `ObjectReleased`, `BlockReleased`). A region is a block's cells, an object or
a slub's header; that the region a call takes meets none in use is the tiling for blocks and `SlubExact` for objects.

**Containers, symbol tables and formatted output** (`StructureProofs`). Each component is proved as a specification of its own (`ListSpec`, `ChainsSpec`, `BitmapSpec`, `SymbolSpec`, `IoSpec`: its first state and its operations), from the assumption its module states.

- *Lists.* `Ring(D, L, list, s)`: from the list node through the entries `s` and back, every `next` and `prev` is its neighbour. It is stated of any set of nodes, so that the buckets of a hash map are rings as well. Inserting on either side of a node (`InsertKeepsRing`) and
  removing one (`RemoveKeepsRing`) give rings of the sequence with one entry more or less and touch no pointer of another ring; `ForeachVisits` and `RemovesEach` say that the two loops of `os_list.h` visit the entries in order, the second though it removes each as it goes. The inductive invariant `ListInv` adds
  that an entry on no list is initialised.
- *Hash maps.* The chains are hidden in the pointers: `HashInv` says there is a sequence for every bucket such that each is a ring, the keys on it are those the hash function sends there and no key is there twice, and the items off all chains are free. A set on an existing key changes no chain, one on a new key appends to one, and `os_hashmap_remove` empties all.
- *Bitmaps.* The loop invariant `ScanInv` of a search: from `ret` up to `i` all bits have the value, what remains completes them to `count`, and no run within the size starts before `ret`. `ScanKeeps` shows that a round, by a bit or by a group, keeps it or ends with the first run; the argument for a group is that it lies within the capacity, and within the
  size if that is a multiple of the group (`CapacityIs`). `SetBitsIs`: what the rounds of `os_bitmap_set_bits` set is the interval it was asked for.
- *Symbols.* `SymbolInv`: the tables are sorted, functions lie before objects, and `STACK_SIZE` comes first of the general symbols, also by the comparison that wraps; hence no table begins with the address that is read before it (`TablesSorted`), on which both loops over equal addresses rely (`FirstOfGroupIs`).
  `SearchInv` is the loop invariant of the binary search, `SearchNarrows` that every round leaves less.
- *Formatted output.* `print_number` divides until nothing is left and prints the remainders backwards; C wants the digits of the places base^0, base^1, ... up to the highest the number reaches. `DigitsAreC` says they are the same, for numbers of any size: `WrittenMore` adds
  a place (`n \div base^(k+1)` is `(n \div base) \div base^k`, `DivDiv`), and the number of places is unique because powers grow (`PlacesUnique`). `NumberPrinted` regroups what `print_number` puts together, piece by piece, into C's head, body and padding; `NumberConverted` does so for each conversion,
  and `CutToFit` is the end of the buffer. Width, precision, word length and buffer size are arbitrary.

The searches, powers and digits are recursive functions. That each exists and obeys its equation is proved by induction on what is left to do (`ScanIs`, `SetBitsIs`, `SearchIs`, `PowersExist`, `DigitsExist`), so that the theorems are about what the functions return and not about what they would if they were defined.

**Page tables** (`OsMmuProofs`). Assumed is `MmuAssumption`: frames lie in memory, segments begin in user space and have at least one page. Any number of page tables, any heap, any places, sizes and overlaps of segments are covered; how many
entries a table has is the model's.

`MmuInv` is `MmuSound \/ MmuStrayed`. `MmuSound`, as long as no segment had more than one page, is `TablesSound /\ Exact /\ Stages`. `Exact` is the property: what the walk translates is what has been asked for. It is not inductive alone. That an entry put into a table moves no other page needs each table to be led to from one
entry only (`SlotsUnique`, `Rooted`: the tables of user space are trees), one level below the one it is in (`SlotsTyped`). That everything is given back when a page table goes, and once, needs every frame in use to be led to, or to be one of `leaked` (`Owned`). And that a
page table can be removed without harm to the kernel, whose entries it has copied, needs those to be blocks, not tables (`BlocksAbove`): the kernel maps memory and IO in blocks of the first level.

`MmuStrayed` says what a segment of more than one page leaves: there are sound frames `F`, those before the call, and every page table but the one with the segment walks through the real frames as through `F`; that one does so above user space. For the call, `Confined(F, G, T, l1)` says of the frames `G` it has got to that they
differ from `F` only inside `T`, the tree of the page table and the frames that were free, that its first level has the same entries above user space, and that no table of the tree leads out of `T`. Each level of the mapping keeps that (the lemmas `Stray...`), be it by a block or by a table, and whether memory runs out or not. Every other table
therefore walks as before (`OtherWalks`), and so does the kernel's part of this one (`UpperWalks`).

- *Mapping.* `NextTableIs`: the table an entry leads to is there or is made - empty, owned by that entry, translating nothing - or memory has run out and nothing has changed but empty tables. `LinkTable` and `LinkPage` keep `TablesSound`;
  by `LinkTranslatesOne` an entry of the last level decides about one page of one page table. Between the two, the page is a frame that nobody refers to yet, like those of `leaked`: the `X` of `Owned`. What the page led to before, if the segment overlaps another, joins them.
- *Copies.* `CopySound`, `CopyExact`: above `low` the page table is the kernel's, below it what it was. `UserCopyNothing`: `os_mmu_user_mapping_copy` copies only null entries, hence a clone shares no page with its parent.
- *Search.* The recursive function of `os_mmu_find_vaddr` exists because every round goes on to a later page (`SearchDefined`). Its loop invariant `Searched` is delicate, since a round subtracts from what remains with an address that has already been advanced
  (`src/arch/riscv64/arch_mmu.c:358`): what has been passed and what remains make up the size only while the search stands where a block begins; it does so after every round that does not end the search, if it began so (`BlocksFollow`).
- *Removal.* `AllFreed`: the rounds of `os_mmu_remove_all_mapping` together free exactly `Under`, what is below the first level, each frame once since nothing is below two entries (`ApartL2`, `ApartL1`). `TreeClosed`: an entry is inside that tree exactly when
  what it leads to is; so `TreeGone` leaves all other page tables as they were.

Every property of a passing run is proved but the two of liveness (`PeersTakeTurns`, `LockEventuallyReturns`): the proof system does not handle fairness, so they are model-checked only. The properties of section 6's runs are false,
and TLC shows how.

## 6. Findings

1. **Slub count** (`slub_count`). Returning an empty slub to the buddy system forgets `partial_nr--`
   (`src/memory/os_memory_slub.c:256-272`); later an allocation follows a null list head (`:187`).
2. **Failed open frees a shared node** (`files_freed`). `os_file_open` frees its node at `src/os_file.c:328` though another open of the
   same path has found it and waits for the mount point. Two tasks that open the same missing device
   are enough. (Unmounting during an open does the same to a mount point.)
3. **Device deadlock** (`files_deadlock`). `os_device_op_init` locks the device manager (`src/os_device.c:95`) while its caller
   holds the device; an open and a close of one device wait for each other.
4. **Segments of several pages** (`segments`). `os_mmu_create_mapping_auto` does not advance the virtual address (`src/os_mmu.c:83`): each frame is mapped from the beginning of the segment, as large as what is left. Of two pages the first leads to the second frame, the second to
   the frame behind the first, in the trace a page table. The other page tables are not harmed by the call itself (`TranslationsAreIntended`).
5. **Entering user space with interrupts on** (`user_entry`). A timer interrupt between `csrw sepc` and `sret` (`src/arch/riscv64/entry_gcc.S:121-122`) leaves the address of the `sret` in `sepc` and user mode in SPP; the `sret` goes to itself in user mode, where the kernel's code cannot be
   fetched. Nothing else is lost in any interleaving (`TasksDoNotNotice`).

Behaviour met while modelling that the actions describe and no run of its own isolates:

- *The idle thread alone stops the system.* The running task is on no ready list, so when everything
  else sleeps or has exited, the idle thread's `os_task_yield` finds nothing and `OS_ASSERT(next_task != OS_NULL)`
  (`src/os_task.c:86`) fails. `HaltsOnlyWhenIdle` is checked and proved: the assertion fails then and in no other situation.
- *Lost wake-up.* A wake-up between the two critical areas of `os_waitqueue_wait` (`src/os_waitqueue.c:46-47`) removes
  the node of a task that is not asleep yet; it then sleeps on no queue, although the comment at `:51` says that a wake-up wakes a task if there is one. `os_mutex_lock` is not affected, since it
  makes the call inside a critical area: `SleepersAreQueued` in `mutex_live`, whose mutant `WaitAtomically_Split` is the call without one.
- *Close reads the node it has freed.* `src/os_file.c:385` unlocks `fd->fnode->mp->lock` after `os_memory_free(fd->fnode)` at `:378`; with the memory given to another task in between, what it takes for a mount point is anything. The run `files` takes this step (`CloseNodeReused`) and stops there.
- *A dump names one symbol* where several lie at one address (`start`, `stext`, `_start`): the loops of `print_symbol_info` end after their first round (`src/os_debug.c:164`), though the comment at `:128` promises all. `DumpNamesAddresses` asks for the right one only if one alone is nearest.
- *Heap sizes.* `os_memory_page_init` sizes blocks by alignment alone. When the heap does not end at an aligned page the last block is too large and the assertion at
  `src/memory/os_memory_page.c:369` fails (`mem_start = 5` in `MCStructures.cfg` shows it).
- *Task creation.* `os_task_init` returns the `OS_ERR_OK` of the step before when no descriptor table could be made (`src/os_task.c:243`). After a failed clone `os_task_remove` is called on a structure
  `os_task_init` has not filled; it gives back neither the pid nor its entry in the pid table, so pids run out.
- *execve* lets go of the old page table first (`src/os_elf.c:174`): with the last reference it removes the table the hart translates through, and when a later step fails it returns
  to a program whose memory is gone. The descriptor of the program file is never closed.
- *Descriptors.* Their ids do not come back after close; a failed open unlinks a node that was never on a list; with no id left the table stays locked
  (`src/os_file.c:52`). A program that closes a descriptor twice takes a reference from a file others have open (`CloseTwice = TRUE` lets TLC show it).
- *Page tables.* A block is mapped by one entry although its virtual address is not aligned, and a segment that overlaps an earlier one leaves the frames under it to nobody (`leaked`). `os_mmu_find_vaddr` looks only at the pages whose numbers the size covers, and counts too
  many when it starts in the middle of a free block (`src/arch/riscv64/arch_mmu.c:358`).
- *Bitmaps.* `os_bitmap_create` allocates a byte a group and writes a word a group (`Overrun`); a search for whole groups may count bits behind the end.
- *System calls.* A number without handler returns to its `ecall`; the number `SYSCALL_MAX_NUM` reads behind the handler table. `enter_user_space` (`src/arch/riscv64/entry_gcc.S:120`) says
  it clears SPP and clears bit 3.
- *Nested mounts.* `os_vfs_unmount` looks the parent up again by path (`src/os_vfs.c:345`) and can decrement the count of another mount point. The action models this (`Decremented` wraps), the
  runs mount on one level only.
- *Formatted output* differs from C: octal divides by 16, `l` reads 32 bits, precision 0 prints no digits (and `%.0s` everything), `0` is not ignored with a precision, `#` prefixes 0.
- *Mutexes* do not lend priority (`src/os_mutex.c:38`), hence the condition in `mutex_live`.

## 7. What is not modelled

- **Boot, board support, firmware**: straight-line initialisation and device registers. Its results are the initial states.
- **Build tools** (`building.py`, `mkromfs.py`): not part of the running system. Of `osdebugsupport.c` the reading of the ELF file is left out; what it makes of the symbols is in `OsDebug`.
- **Data**: what files contain (`os_file_read`, `romfs_read`, directory reading, read positions), the format of ELF files (`os_elf.h`), `os_string.c`, which has
  C's string functions.
- **System calls that are stubs** or only move a number (`brk`, `mmap`).
- **Registration** of file system types, devices and their drivers: happens at boot, before any call.
- **Frames of cloned children** (`arch_task_clone_stack_frame_init`): children are never started, no caller of `os_task_startup` reaches them.
- **The walk over stack frames** in a dump, and the annotations, which compile to checks of a nesting count.
- **Register definitions** (`encoding.h`, `sbi.h`): constants.

## 8. Plan

Done: every component that keeps state; the proofs of the scheduler, mutexes, traps, files, tasks as objects, the memory system, containers, symbol tables, formatted output and page tables. What is left:

1. *Nested mounts*: a run of `OsVfs` alone with mount points inside mount points.
