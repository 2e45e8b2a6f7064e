------------------------------- MODULE OsMmu -------------------------------
(***************************************************************************)
(* Page tables of three levels: src/arch/riscv64/arch_mmu.c, src/os_mmu.c, *)
(* and the copies between kernel and user memory of src/os_syscall.c.      *)
(*                                                                         *)
(* Addresses are page numbers.  A table of level 2 or 3 has two entries,   *)
(* one of level 1 eight: four for user space, two for the kernel, two for  *)
(* IO; real IO addresses lie one address space higher than their effective *)
(* ones, as sign extension puts them.  An entry is a number: 0 is null,    *)
(* p + 1 maps page p, -f points to the table in frame f.  What a mapping   *)
(* permits is left out.                                                    *)
(***************************************************************************)
EXTENDS Integers, Sequences, FiniteSets, SequencesExt, FiniteSetsExt

CONSTANTS
  UserVtable,  \* ids of user page tables, a bound of the model
  UserVa,      \* where programs have segments
  AutoSize,    \* pages of a segment
  HeapFrame    \* the frames of the heap; more run out

OS_MMU_L3_SIZE == 1
OS_MMU_L2_SIZE == 2
OS_MMU_L1_SIZE == 4
AddressSpace == 0..31
USER_START == 0
USER_REAL_START == 1
USER_SIZE == 16
KERNEL_START == 16
KERNEL_SIZE == 8
IO_START == 24 + 32
IO_SIZE == 8
MEMORY_BASE == 8
MEMORY_SIZE == 7

OS_MMU_L1_ID(va) == (va % 32) \div OS_MMU_L1_SIZE
OS_MMU_L2_ID(va) == (va \div OS_MMU_L2_SIZE) % 2
OS_MMU_L3_ID(va) == va % 2
OS_MMU_GET_EFFECTIVE_VA(va) == va % 32

ASSUME MmuAssumption ==
  /\ HeapFrame \subseteq MEMORY_BASE..(MEMORY_BASE + MEMORY_SIZE - 1)
  /\ UserVa \subseteq USER_REAL_START..(USER_SIZE - 1) /\ AutoSize \subseteq Nat \ {0}
  /\ UserVtable \cap {"kernel", "jump", "none"} = {}

VARIABLES
  frames,                 \* frame -> kind: "free", "data", "l1", "l2", "l3"; entry
  vtable,                 \* page table -> its first level, or 0
  current_vtable,
  os_mmu_preinitialized,
  mmu_fault,              \* whether a null table has been written to
  intended,               \* page table -> page -> page, as asked for; not in the code
  leaked,                 \* frames whose pages were mapped again; not in the code
  strayed                 \* page table with a segment of more than one page, or "none"; not in the code

mmuVars == <<frames, vtable, current_vtable, os_mmu_preinitialized, mmu_fault, intended, leaked, strayed>>

\* The static first levels of the kernel's page tables, at addresses of their own.
kernel_l1_pagetable == 1
kernel_l1_jump_pagetable == 2
AnyVtable == UserVtable \cup {"kernel", "jump"}
UserTables == {v \in UserVtable : vtable[v] # 0}

Entries(kind) == IF kind = "l1" THEN 0..7 ELSE 0..1
EmptyTable(kind) == [kind |-> kind, entry |-> [i \in Entries(kind) |-> 0]]
Plain(kind) == [kind |-> kind, entry |-> <<>>]

__is_null_entry(e) == e = 0
__is_pagetable(e) == e < 0
Leaf(p) == p + 1
__get_ppn(e) == IF e < 0 THEN -e ELSE e - 1

FreeFrames(F) == {f \in HeapFrame : F[f].kind = "free"}
NextFrame(F) == Min(FreeFrames(F))

\* os_memory_free: a frame freed twice is a corruption of the heap.
os_memory_free_frame(F, f) == [F EXCEPT ![f] = Plain(IF @.kind = "free" THEN "freed_twice" ELSE "free")]

-----------------------------------------------------------------------------
\* Mapping.  The loops carry w: the frames F, what is left of va, pa and size, and err.
Advance(w, n) == [w EXCEPT !.va = @ + n, !.pa = @ + n, !.size = @ - n]

\* The table an entry leads to, made if there is none; its memory is cleared before the
\* pointer is tested.
NextTable(w, t, id, kind) ==
  LET e == w.F[t].entry[id]
      new == NextFrame(w.F)
  IN IF __is_pagetable(e) THEN w
     ELSE IF ~__is_null_entry(e) THEN [w EXCEPT !.err = "EPERM"]
     ELSE IF FreeFrames(w.F) = {} THEN [w EXCEPT !.err = "fault"]
     ELSE [w EXCEPT !.F[new] = EmptyTable(kind), !.F[t].entry[id] = -new]

\* A block can be mapped by one entry.  OS_MMU_Lx_ALIGN is not 0 for any address behind
\* the first block: only the alignment of pa is really asked for.
Big(w, block) == w.va >= block /\ w.size >= block /\ w.pa % block = 0

\* Mutant: one entry too few.
create_l3_OneShort(w, t, size) ==
  [w EXCEPT !.F[t].entry =
     [id \in 0..1 |-> IF id \in OS_MMU_L3_ID(w.va)..(OS_MMU_L3_ID(w.va + size - 1) - 1)
                      THEN Leaf(w.pa + id - OS_MMU_L3_ID(w.va)) ELSE @[id]]]

create_l3(w, t, size) ==
  [w EXCEPT !.F[t].entry =
     [id \in 0..1 |-> IF id \in OS_MMU_L3_ID(w.va)..OS_MMU_L3_ID(w.va + size - 1)
                      THEN Leaf(w.pa + id - OS_MMU_L3_ID(w.va)) ELSE @[id]]]

\* The part of a range up to the end of the block va is in.
NextSize(w, va_end, same, block) == IF same THEN va_end - w.va + 1 ELSE block - (w.va % block)

\* The loop goes on behind a part that went one level down.
Continue(w, done, n) == Advance([w EXCEPT !.F = done.F, !.err = done.err], n)

\* One round of the loop of __create_l2_entry over table t: a block, or one level down.
L2Round(w, t, id, va_end) ==
  LET next == NextTable(w, t, id, "l3")
      n == NextSize(w, va_end, OS_MMU_L2_ID(w.va) = OS_MMU_L2_ID(va_end), OS_MMU_L2_SIZE)
  IN IF w.err # "ok" THEN w
     ELSE IF Big(w, OS_MMU_L2_SIZE) THEN Advance([w EXCEPT !.F[t].entry[id] = Leaf(w.pa)], OS_MMU_L2_SIZE)
     ELSE IF next.err # "ok" THEN next
     ELSE Continue(next, create_l3(next, -next.F[t].entry[id], n), n)

create_l2(w, t, size) ==
  LET va_end == w.va + size - 1
      first == OS_MMU_L2_ID(w.va)
      rounds == OS_MMU_L2_ID(va_end) - first + 1
      after[n \in 0..rounds] ==
        IF n = 0 THEN [w EXCEPT !.size = size]
        ELSE L2Round(after[n - 1], t, first + n - 1, va_end)
  IN after[rounds]

\* One round of the loop of os_mmu_create_mapping.
L1Round(w, t, id, va_end) ==
  LET next == NextTable(w, t, id, "l2")
      n == NextSize(w, va_end, OS_MMU_L1_ID(w.va) = OS_MMU_L1_ID(va_end), OS_MMU_L1_SIZE)
  IN IF w.err # "ok" THEN w
     ELSE IF Big(w, OS_MMU_L1_SIZE) THEN Advance([w EXCEPT !.F[t].entry[id] = Leaf(w.pa)], OS_MMU_L1_SIZE)
     ELSE IF next.err # "ok" THEN next
     ELSE Continue(next, create_l2(next, -next.F[t].entry[id], n), n)

create_mapping(F, l1, va, pa, size) ==
  LET va_end == va + size - 1
      first == OS_MMU_L1_ID(va)
      rounds == OS_MMU_L1_ID(va_end) - first + 1
      after[n \in 0..rounds] ==
        IF n = 0 THEN [F |-> F, va |-> OS_MMU_GET_EFFECTIVE_VA(va), pa |-> pa, size |-> size, err |-> "ok"]
        ELSE L1Round(after[n - 1], l1, first + n - 1, va_end)
  IN after[rounds]

-----------------------------------------------------------------------------
\* Unmapping.  A block with one entry goes as a whole or not at all; tables stay.
remove_l3(w, t, size) ==
  [w EXCEPT !.F[t].entry =
     [id \in 0..1 |-> IF id \in OS_MMU_L3_ID(w.va)..OS_MMU_L3_ID(w.va + size - 1) THEN 0 ELSE @[id]]]

\* A block goes with its entry, which may also be null.
Clears(w, e, block) == w.va >= block /\ w.size >= block /\ ~__is_pagetable(e)

\* One round of the loop of __remove_l2_entry.
RemoveL2Round(w, t, id, va_end) ==
  LET e == w.F[t].entry[id]
      n == NextSize(w, va_end, OS_MMU_L2_ID(w.va) = OS_MMU_L2_ID(va_end), OS_MMU_L2_SIZE)
  IN IF w.err # "ok" THEN w
     ELSE IF Clears(w, e, OS_MMU_L2_SIZE) THEN Advance([w EXCEPT !.F[t].entry[id] = 0], OS_MMU_L2_SIZE)
     ELSE IF __is_null_entry(e) THEN Advance(w, n)
     ELSE IF ~__is_pagetable(e) THEN [w EXCEPT !.err = "EPERM"]
     ELSE Continue(w, remove_l3(w, -e, n), n)

remove_l2(w, t, size) ==
  LET va_end == w.va + size - 1
      first == OS_MMU_L2_ID(w.va)
      rounds == OS_MMU_L2_ID(va_end) - first + 1
      after[n \in 0..rounds] ==
        IF n = 0 THEN [w EXCEPT !.size = size]
        ELSE RemoveL2Round(after[n - 1], t, first + n - 1, va_end)
  IN after[rounds]

\* One round of the loop of os_mmu_remove_mapping.
RemoveL1Round(w, t, id, va_end) ==
  LET e == w.F[t].entry[id]
      n == NextSize(w, va_end, OS_MMU_L1_ID(w.va) = OS_MMU_L1_ID(va_end), OS_MMU_L1_SIZE)
  IN IF w.err # "ok" THEN w
     ELSE IF Clears(w, e, OS_MMU_L1_SIZE) THEN Advance([w EXCEPT !.F[t].entry[id] = 0], OS_MMU_L1_SIZE)
     ELSE IF __is_null_entry(e) THEN Advance(w, n)
     ELSE IF ~__is_pagetable(e) THEN [w EXCEPT !.err = "EPERM"]
     ELSE Continue(w, remove_l2(w, -e, n), n)

remove_mapping(F, l1, va, size) ==
  LET va_end == va + size - 1
      first == OS_MMU_L1_ID(va)
      rounds == OS_MMU_L1_ID(va_end) - first + 1
      after[n \in 0..rounds] ==
        IF n = 0 THEN [F |-> F, va |-> va, pa |-> 0, size |-> size, err |-> "ok"]
        ELSE RemoveL1Round(after[n - 1], l1, first + n - 1, va_end)
  IN after[rounds]

\* Removing everything: frames are freed in user space, tables everywhere.
RemovePage(F, e, user) == IF e > 0 /\ user THEN os_memory_free_frame(F, __get_ppn(e)) ELSE F

\* Both entries of the table, one after the other.
remove_all_l3(F, t, user) == RemovePage(RemovePage(F, F[t].entry[0], user), F[t].entry[1], user)

RemoveBelow(F, e, user) ==
  IF e < 0 THEN os_memory_free_frame(remove_all_l3(F, -e, user), -e) ELSE RemovePage(F, e, user)

remove_all_l2(F, t, user) == RemoveBelow(RemoveBelow(F, F[t].entry[0], user), F[t].entry[1], user)

remove_all_mapping(F, l1) ==
  LET after[n \in 0..8] ==
        LET e == F[l1].entry[n - 1]
            user == n - 1 <= OS_MMU_L1_ID(USER_START + USER_SIZE - 1)
        IN IF n = 0 THEN F
           ELSE IF e < 0 THEN os_memory_free_frame(remove_all_l2(after[n - 1], -e, user), -e)
           ELSE RemovePage(after[n - 1], e, user)
  IN after[8]

-----------------------------------------------------------------------------
\* The entry that decides about an address, and its block size: the walk all readers do.
Walk(F, l1, va) ==
  LET e1 == F[l1].entry[OS_MMU_L1_ID(va)]
      e2 == F[-e1].entry[OS_MMU_L2_ID(va)]
  IN IF e1 >= 0 THEN <<e1, OS_MMU_L1_SIZE>>
     ELSE IF e2 >= 0 THEN <<e2, OS_MMU_L2_SIZE>>
     ELSE <<F[-e2].entry[OS_MMU_L3_ID(va)], OS_MMU_L3_SIZE>>

\* What the hart translates a page to; -1: it faults.
Translate(F, l1, va) ==
  LET w == Walk(F, l1, va) IN IF w[1] = 0 THEN -1 ELSE __get_ppn(w[1]) + (va % w[2])

\* Mutant: pages of large blocks are translated too.
os_mmu_user_va_to_kernel_va_Large(v, va) == Translate(frames, vtable[v], va)

\* Pages of large blocks are not translated.
os_mmu_user_va_to_kernel_va(v, va) ==
  LET w == Walk(frames, vtable[v], va)
  IN IF w[1] = 0 \/ w[2] # OS_MMU_L3_SIZE THEN -1 ELSE __get_ppn(w[1])

\* Mutant: the search goes on behind a mapped block without starting its count again.
FindRestart_CountKept(w, block, size) ==
  LET next == w.va + block - (w.va % block) IN [va |-> next, remained |-> w.remained, va_ret |-> next]

\* A mapped block is in the way.
FindRestart(w, block, size) ==
  LET next == w.va + block - (w.va % block) IN [va |-> next, remained |-> size, va_ret |-> next]

\* A free block; the second MIN is taken with an address already advanced.
FindPass(w, block) ==
  LET next == w.va + Min({w.remained, block - (w.va % block)})
  IN [va |-> next, remained |-> w.remained - Min({w.remained, block - (next % block)}), va_ret |-> w.va_ret]

FindRound(v, w, size) ==
  LET entry == Walk(frames, vtable[v], w.va)
  IN IF __is_null_entry(entry[1]) THEN FindPass(w, entry[2]) ELSE FindRestart(w, entry[2], size)

\* os_mmu_find_vaddr never looks behind the first "size" pages.
os_mmu_find_vaddr(v, va_start, size) ==
  LET scan[w \in [va : Nat, remained : Nat, va_ret : Nat]] ==
        LET next == FindRound(v, w, size)
        IN IF w.va > va_start + size - 1 THEN 0
           ELSE IF next.remained = 0 THEN next.va_ret ELSE scan[next]
  IN scan[[va |-> va_start, remained |-> size, va_ret |-> va_start]]

\* os_copy_from_user and os_copy_to_user: the pages of memory they touch, and whether
\* they get to the end.
os_copy_user(v, user_mem, size) ==
  LET pages == [i \in 1..size |-> os_mmu_user_va_to_kernel_va(v, user_mem + i - 1)]
      failed == {i \in 1..size : pages[i] = -1}
  IN IF user_mem < USER_REAL_START \/ user_mem >= USER_START + USER_SIZE THEN <<>>
     ELSE IF failed = {} THEN pages ELSE SubSeq(pages, 1, Min(failed) - 1)

-----------------------------------------------------------------------------
Range4(va, n) == va..(va + n - 1)
With(m, va, n, pa) ==
  [p \in DOMAIN m \cup Range4(va, n) |-> IF p \in Range4(va, n) THEN pa + p - va ELSE m[p]]

MmuInit ==
  /\ frames = [f \in HeapFrame \cup {kernel_l1_pagetable, kernel_l1_jump_pagetable} |->
                 IF f \in HeapFrame THEN Plain("free") ELSE EmptyTable("l1")]
  /\ vtable = [v \in AnyVtable |-> 0]
  /\ current_vtable = "none"
  /\ os_mmu_preinitialized = FALSE
  /\ mmu_fault = FALSE
  /\ intended = [v \in AnyVtable |-> [p \in {} |-> 0]]
  /\ leaked = {}
  /\ strayed = "none"

\* The whole memory, mapped in blocks of the first level.
MemoryBlocks == ((MEMORY_SIZE + OS_MMU_L1_SIZE - 1) \div OS_MMU_L1_SIZE) * OS_MMU_L1_SIZE

os_mmu_preinit ==
  LET kernel == create_mapping(frames, kernel_l1_pagetable, KERNEL_START, MEMORY_BASE, MemoryBlocks)
      same == create_mapping(kernel.F, kernel_l1_jump_pagetable, MEMORY_BASE, MEMORY_BASE, MemoryBlocks)
      both == create_mapping(same.F, kernel_l1_jump_pagetable, KERNEL_START, MEMORY_BASE, MemoryBlocks)
      there == With(intended["kernel"], KERNEL_START, MemoryBlocks, MEMORY_BASE)
  IN /\ vtable["kernel"] = 0
     /\ frames' = both.F
     /\ vtable' = [vtable EXCEPT !["kernel"] = kernel_l1_pagetable, !["jump"] = kernel_l1_jump_pagetable]
     /\ current_vtable' = "jump"
     /\ intended' = [intended EXCEPT !["kernel"] = there,
                                     !["jump"] = With(there, MEMORY_BASE, MemoryBlocks, MEMORY_BASE)]
     /\ UNCHANGED <<os_mmu_preinitialized, mmu_fault, leaked, strayed>>

os_mmu_preinit_secondary ==
  /\ vtable["jump"] # 0
  /\ current_vtable' = "kernel"
  /\ vtable' = [vtable EXCEPT !["jump"] = 0]
  /\ intended' = [intended EXCEPT !["jump"] = [p \in {} |-> 0]]
  /\ os_mmu_preinitialized' = TRUE
  /\ UNCHANGED <<frames, mmu_fault, leaked, strayed>>

\* The model ends with a write through null, and when a page table has a segment of more
\* than one page: its program can then write frames that belong to others.
Ready == os_mmu_preinitialized /\ ~mmu_fault /\ strayed = "none"

\* os_mmu_create_io_mapping on the kernel's page table, as the board calls it: a block
\* of the first level.
os_mmu_create_io_mapping ==
  LET va == os_mmu_find_vaddr("kernel", IO_START, OS_MMU_L1_SIZE)
  IN /\ Ready /\ va # 0
     /\ frames' = create_mapping(frames, vtable["kernel"], va, 0, OS_MMU_L1_SIZE).F
     /\ intended' = [intended EXCEPT !["kernel"] = With(@, OS_MMU_GET_EFFECTIVE_VA(va), OS_MMU_L1_SIZE, 0)]
     /\ UNCHANGED <<vtable, current_vtable, os_mmu_preinitialized, mmu_fault, leaked, strayed>>

os_mmu_remove_io_mapping ==
  LET io == OS_MMU_GET_EFFECTIVE_VA(IO_START)
  IN /\ Ready /\ io \in DOMAIN intended["kernel"]
     /\ frames' = remove_mapping(frames, vtable["kernel"], IO_START, OS_MMU_L1_SIZE).F
     /\ intended' = [intended EXCEPT !["kernel"] =
                       [p \in DOMAIN @ \ Range4(io, OS_MMU_L1_SIZE) |-> @[p]]]
     /\ UNCHANGED <<vtable, current_vtable, os_mmu_preinitialized, mmu_fault, leaked, strayed>>

-----------------------------------------------------------------------------
\* os_mmu_vtable_create; without a frame for the first level nothing changes.
os_mmu_vtable_create(v) ==
  /\ Ready /\ vtable[v] = 0 /\ FreeFrames(frames) # {}
  /\ frames' = [frames EXCEPT ![NextFrame(frames)] = EmptyTable("l1")]
  /\ vtable' = [vtable EXCEPT ![v] = NextFrame(frames)]
  /\ UNCHANGED <<current_vtable, os_mmu_preinitialized, mmu_fault, intended, leaked, strayed>>

\* The kernel's entries of the given part of the address space.
CopyEntries(F, l1, start, size) ==
  [F EXCEPT ![l1].entry = [id \in 0..7 |->
     IF id \in OS_MMU_L1_ID(start)..OS_MMU_L1_ID(start + size - 1)
     THEN F[kernel_l1_pagetable].entry[id] ELSE @[id]]]

io_mapping_copy(F, l1) == CopyEntries(F, l1, IO_START, IO_SIZE)
kernel_mapping_copy(F, l1) == CopyEntries(F, l1, KERNEL_START, KERNEL_SIZE)

\* os_mmu_user_mapping_copy also starts from the kernel's entries, which are null in
\* user space: nothing below the first level is ever copied.
user_mapping_copy(F, l1) == CopyEntries(F, l1, USER_START, USER_SIZE)

\* The pages the copies of the kernel's entries stand for.
Copied(v, low) ==
  [p \in {q \in DOMAIN intended[v] : q < low} \cup {q \in DOMAIN intended["kernel"] : q >= low} |->
     IF p < low THEN intended[v][p] ELSE intended["kernel"][p]]

\* os_elf_load and os_task_user_entry complete a page table.
CopyMappings(v) ==
  /\ Ready /\ vtable[v] # 0
  /\ frames' = kernel_mapping_copy(io_mapping_copy(frames, vtable[v]), vtable[v])
  /\ intended' = [intended EXCEPT ![v] = Copied(v, KERNEL_START)]
  /\ UNCHANGED <<vtable, current_vtable, os_mmu_preinitialized, mmu_fault, leaked, strayed>>

\* The page table of a cloned task.
os_clone_copy_memory(v) ==
  LET l1 == NextFrame(frames)
      F == [frames EXCEPT ![l1] = EmptyTable("l1")]
  IN /\ Ready /\ vtable[v] = 0 /\ FreeFrames(frames) # {}
     /\ frames' = user_mapping_copy(kernel_mapping_copy(io_mapping_copy(F, l1), l1), l1)
     /\ vtable' = [vtable EXCEPT ![v] = l1]
     /\ intended' = [intended EXCEPT ![v] = Copied(v, KERNEL_START)]
     /\ UNCHANGED <<current_vtable, os_mmu_preinitialized, mmu_fault, leaked, strayed>>

\* os_mmu_create_mapping_auto: a frame for every page, and a mapping of all that is left
\* of the segment to it and what follows it.
AutoStep(w, l1, va) ==
  LET f == NextFrame(w.F)
      made == create_mapping([w.F EXCEPT ![f] = Plain("data")], l1, va, f, w.left)
  IN IF w.err # "ok" THEN w
     ELSE IF FreeFrames(w.F) = {} THEN [w EXCEPT !.err = "ENOMEM"]
     ELSE IF made.err = "ok"
     THEN [w EXCEPT !.F = made.F, !.left = @ - 1, !.got = Append(@, f)]
     ELSE [w EXCEPT !.F = os_memory_free_frame(made.F, f), !.err = made.err]

\* A page that is mapped again leaves its old frame to nobody.
os_mmu_create_mapping_auto(v, va, size) ==
  LET after[n \in 0..size] ==
        IF n = 0 THEN [F |-> frames, left |-> size, got |-> <<>>, err |-> "ok"]
        ELSE AutoStep(after[n - 1], vtable[v], va)
      w == after[size]
      given == Range4(va, Len(w.got))
  IN /\ Ready /\ vtable[v] # 0
     /\ frames' = w.F
     /\ mmu_fault' = (w.err = "fault")
     /\ intended' = [intended EXCEPT ![v] =
                       [p \in DOMAIN @ \cup given |-> IF p \in given THEN w.got[p - va + 1] ELSE @[p]]]
     /\ leaked' = leaked \cup {f \in HeapFrame : \E p \in given : Translate(frames, vtable[v], p) = f}
     /\ strayed' = IF size > 1 /\ FreeFrames(frames) # {} THEN v ELSE strayed
     /\ UNCHANGED <<vtable, current_vtable, os_mmu_preinitialized>>

\* Only tables with the kernel's entries are switched to.
os_mmu_switch(v) ==
  /\ Ready /\ vtable[v] # 0 /\ KERNEL_START \in DOMAIN intended[v]
  /\ current_vtable' = v
  /\ UNCHANGED <<frames, vtable, os_mmu_preinitialized, mmu_fault, intended, leaked, strayed>>

\* An access to IO memory mapped since the table was made.
os_mmu_page_fault_handler ==
  /\ Ready /\ current_vtable \in UserTables
  /\ Translate(frames, vtable[current_vtable], IO_START) = -1
  /\ frames' = io_mapping_copy(frames, vtable[current_vtable])
  /\ intended' = [intended EXCEPT ![current_vtable] = Copied(current_vtable, IO_START % 32)]
  /\ UNCHANGED <<vtable, current_vtable, os_mmu_preinitialized, mmu_fault, leaked, strayed>>

\* Mutant: the tables of the lower levels are forgotten.
os_mmu_vtable_remove_LeakTables(v) ==
  /\ Ready /\ vtable[v] # 0
  /\ frames' = os_memory_free_frame(frames, vtable[v])
  /\ vtable' = [vtable EXCEPT ![v] = 0]
  /\ intended' = [intended EXCEPT ![v] = [p \in {} |-> 0]]
  /\ UNCHANGED <<current_vtable, os_mmu_preinitialized, mmu_fault, leaked, strayed>>

os_mmu_vtable_remove(v) ==
  /\ Ready /\ vtable[v] # 0
  /\ frames' = os_memory_free_frame(remove_all_mapping(frames, vtable[v]), vtable[v])
  /\ vtable' = [vtable EXCEPT ![v] = 0]
  /\ intended' = [intended EXCEPT ![v] = [p \in {} |-> 0]]
  /\ UNCHANGED <<current_vtable, os_mmu_preinitialized, mmu_fault, leaked, strayed>>

MmuNext ==
  \/ os_mmu_preinit
  \/ os_mmu_preinit_secondary
  \/ os_mmu_create_io_mapping
  \/ os_mmu_remove_io_mapping
  \/ os_mmu_page_fault_handler
  \/ \E v \in UserVtable :
       \/ os_mmu_vtable_create(v)
       \/ CopyMappings(v)
       \/ os_clone_copy_memory(v)
       \/ os_mmu_switch(v)
       \/ os_mmu_vtable_remove(v)
       \/ \E va \in UserVa, size \in AutoSize :
            va + size <= USER_SIZE /\ os_mmu_create_mapping_auto(v, va, size)

MmuSpec == MmuInit /\ [][MmuNext]_mmuVars

-----------------------------------------------------------------------------
\* Every page table translates exactly the pages its owners have asked for, to the
\* frames they were given: a segment lands where it should and moves no other, and the
\* kernel's and IO's pages are those of the kernel's table when it was copied.  A segment
\* of more than one page spoils the user's part of its own page table, and no more.
TranslationIsIntended ==
  ~mmu_fault => \A v \in {u \in AnyVtable : vtable[u] # 0}, p \in AddressSpace :
    v # strayed \/ p >= KERNEL_START =>
      Translate(frames, vtable[v], p) = IF p \in DOMAIN intended[v] THEN intended[v][p] ELSE -1

\* "Maps at the given virtual address and allocates physical memory": the comment on
\* os_mmu_create_mapping_auto (os_mmu.c:66).  Every page that a program asked for is in
\* allocated memory, and no two of its pages are the same memory.
SegmentsHaveMemory ==
  ~mmu_fault => \A v \in UserTables :
    LET pages == {p \in DOMAIN intended[v] : p < KERNEL_START}
        memory(p) == Translate(frames, vtable[v], p)
    IN /\ \A p \in pages : memory(p) \in {f \in HeapFrame : frames[f].kind = "data"}
       /\ \A p, q \in pages : p # q => memory(p) # memory(q)

\* An entry of a user's part of a page table, which refers to something.
IsSlot(F, t, i) ==
  /\ F[t].kind \in {"l1", "l2", "l3"} /\ i \in Entries(F[t].kind)
  /\ F[t].kind = "l1" => i <= OS_MMU_L1_ID(USER_SIZE - 1)
  /\ F[t].entry[i] # 0

\* The user-space references to frame f: from the page tables and from entries.
References(f) ==
  Cardinality({v \in UserVtable : vtable[v] = f})
  + Cardinality({s \in HeapFrame \X (0..7) :
                   IsSlot(frames, s[1], s[2]) /\ __get_ppn(frames[s[1]].entry[s[2]]) = f})

\* Tables and user pages own their frames: each is referred to once, none is freed
\* while it is, none is freed twice, and none is lost but those of pages mapped again.
\* After a segment of more than one page nothing of the kind is true.
FramesAccounted ==
  vtable["kernel"] # 0 /\ ~mmu_fault /\ strayed = "none" =>
    \A f \in HeapFrame : References(f) = IF frames[f].kind = "free" \/ f \in leaked THEN 0 ELSE 1

\* A range that os_mmu_find_vaddr finds is not in use when it starts to look where a block
\* of the first level starts, as its caller does; from the middle of a free block it counts
\* more than it passes.
FindVaddrSound ==
  os_mmu_preinitialized =>
    \A v \in (UserTables \cup {"kernel"}) \ {strayed}, va \in {4, 8, IO_START}, size \in 1..6 :
      LET found == os_mmu_find_vaddr(v, va, size)
      IN found # 0 => \A p \in Range4(found, size) : Translate(frames, vtable[v], p % 32) = -1

\* A copy between kernel and user memory that begins in user space never leaves the
\* frames of that user, also where its end lies in the kernel's part.
UserCopiesStayInUser ==
  os_mmu_preinitialized =>
    \A v \in UserTables \ {strayed}, va \in {0, 1, 2, 14, 15}, size \in 1..4 :
      \A p \in ToSet(os_copy_user(v, va, size)) :
        \E q \in DOMAIN intended[v] : q < KERNEL_START /\ intended[v][q] = p
=============================================================================
