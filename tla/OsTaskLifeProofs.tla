-------------------------- MODULE OsTaskLifeProofs --------------------------
(***************************************************************************)
(* Proofs about tasks as objects, for every number of children, pids, page *)
(* tables, descriptor tables and files.                                    *)
(***************************************************************************)
EXTENDS OsTaskLife, DataLemmas

-----------------------------------------------------------------------------
(***************************************************************************)
(* The inductive invariant.                                                *)
(***************************************************************************)
FdTypes ==
  /\ fd_tables \in [Table -> FdTable \cup {NULL}]
  /\ fnode_refcnt \in [File -> Nat]

LifeTypes ==
  /\ tcb \in [Task -> TaskRec \cup {NULL}]
  /\ pid_bitmap \in SUBSET Pid
  /\ pid_map \in [Pid -> Task \cup {NULL}]
  /\ vtables \in [Vtable \cup {kernel_pagetable} -> VtableRec \cup {NULL}]

\* Main is the child of idle; every other task is a child of main, because clone gives
\* the child to the caller's parent.
ParentOf(t) == CASE t = task_idle -> NULL [] t = task_main -> task_idle [] OTHER -> task_main

Kinship ==
  /\ \A t \in Tasks : tcb[t].parent = ParentOf(t) /\ (ParentOf(t) # NULL => ParentOf(t) \in Tasks)
  /\ \A t \in Tasks \ {task_idle, task_main} : tcb[t].child_list = <<>>
  /\ Exists(task_idle) =>
       tcb[task_idle].child_list = IF Exists(task_main) THEN <<task_main>> ELSE <<>>
  /\ Exists(task_main) =>
       /\ IsInjective(tcb[task_main].child_list)
       /\ ToSet(tcb[task_main].child_list) = Tasks \ {task_idle, task_main}

\* Only the first user task ever runs programs; nobody starts a cloned child.
Roles ==
  \A t \in Tasks :
    /\ t \in {task_idle, task_main} => tcb[t].state = "started" /\ tcb[t].vtable = kernel_pagetable
    /\ t = task_user => tcb[t].state # "ready"
    /\ t \in Cloned => tcb[t].state = "ready"

PidsTaken ==
  \A t \in Tasks : pid_map[tcb[t].pid] = t /\ tcb[t].pid \notin pid_bitmap

\* A page table in use is a record; the kernel's always stands.  Unless memory has run
\* out, all that are in use stand, and the count of the one the program runs on is the
\* number of tasks on it, or 0 for the table of the stub.
Users(v) == {t \in Tasks : tcb[t].vtable = v}

VtablesCounted ==
  /\ \A t \in Tasks : vtables[tcb[t].vtable] # NULL
  /\ \A t \in Tasks : tcb[t].state \in {"stub", "user", "stopped"} => tcb[t].vtable \in Vtable
  /\ vtables[kernel_pagetable] # NULL /\ vtables[kernel_pagetable].live
  /\ ~exhausted /\ Exists(task_user) =>
       LET v == tcb[task_user].vtable
       IN /\ tcb[task_user].state = "stub" => vtables[v].refcnt = 0 /\ Users(v) = {task_user}
          /\ tcb[task_user].state = "user" => vtables[v].refcnt = Cardinality(Users(v))

LifeInv ==
  /\ FdTypes /\ LifeTypes
  /\ Kinship /\ Roles /\ PidsTaken
  /\ VtablesCounted /\ TasksKeepTheirVtable
  /\ TablesExact /\ DescriptorsKeepTheirIds
  /\ ~CloseTwice => NodesCoverDescriptors /\ FaultsOnlyWhenExhausted

-----------------------------------------------------------------------------
(***************************************************************************)
(* Descriptor tables.                                                      *)
(***************************************************************************)
Descriptor == [file : File, open : BOOLEAN]

\* What a record is that is a table.
LEMMA TableFields ==
  ASSUME NEW tb \in FdTable
  PROVE  /\ tb.refcnt \in Nat /\ tb.free \in SUBSET Fdid /\ tb.free \in SUBSET Nat /\ tb.lock \in Nat
         /\ DOMAIN tb.map \in SUBSET Fdid /\ tb.map \in [DOMAIN tb.map -> Descriptor]
<1>1. /\ tb.refcnt \in Nat /\ tb.free \in SUBSET Fdid /\ tb.lock \in Nat
      /\ \E D \in SUBSET Fdid : tb.map \in [D -> Descriptor]
  BY DEF FdTable, Descriptor
<1>2. Fdid \subseteq Nat
  BY FdAssumption DEF Fdid
<1>. QED BY <1>1, <1>2

LEMMA TableType ==
  ASSUME NEW r \in Nat, NEW F \in SUBSET Fdid, NEW l \in Nat, NEW D \in SUBSET Fdid, NEW map \in [D -> Descriptor]
  PROVE  [refcnt |-> r, free |-> F, map |-> map, lock |-> l] \in FdTable
BY DEF FdTable, Descriptor

\* A table with other fields is a table.
LEMMA TableUpdated ==
  ASSUME NEW tb \in FdTable, NEW F \in SUBSET Fdid, NEW l \in Nat, NEW D \in SUBSET Fdid, NEW map \in [D -> Descriptor]
  PROVE  /\ [tb EXCEPT !.free = F] \in FdTable /\ [tb EXCEPT !.lock = l] \in FdTable
         /\ [tb EXCEPT !.map = map] \in FdTable
<1>1. tb = [refcnt |-> tb.refcnt, free |-> tb.free, map |-> tb.map, lock |-> tb.lock]
  BY DEF FdTable
<1>2. /\ [tb EXCEPT !.free = F] = [refcnt |-> tb.refcnt, free |-> F, map |-> tb.map, lock |-> tb.lock]
      /\ [tb EXCEPT !.lock = l] = [refcnt |-> tb.refcnt, free |-> tb.free, map |-> tb.map, lock |-> l]
      /\ [tb EXCEPT !.map = map] = [refcnt |-> tb.refcnt, free |-> tb.free, map |-> map, lock |-> tb.lock]
  BY <1>1
<1>3. /\ tb.refcnt \in Nat /\ tb.free \in SUBSET Fdid /\ tb.lock \in Nat
      /\ DOMAIN tb.map \in SUBSET Fdid /\ tb.map \in [DOMAIN tb.map -> Descriptor]
  BY TableFields
<1>4. /\ [refcnt |-> tb.refcnt, free |-> F, map |-> tb.map, lock |-> tb.lock] \in FdTable
      /\ [refcnt |-> tb.refcnt, free |-> tb.free, map |-> tb.map, lock |-> l] \in FdTable
  BY <1>3, TableType
<1>5. [refcnt |-> tb.refcnt, free |-> tb.free, map |-> map, lock |-> tb.lock] \in FdTable
  BY <1>3, TableType
<1>. QED BY <1>2, <1>4, <1>5

\* A new table is free and closed.
LEMMA NewTableType ==
  /\ NewTable \in FdTable /\ NewTable.refcnt = 1 /\ NewTable.free = Fdid /\ DOMAIN NewTable.map = {}
  /\ NewTable.lock = 0
<1>1. NoEntry \in [{} -> Descriptor] /\ DOMAIN NoEntry = {}
  BY DEF NoEntry
<1>2. NewTable = [refcnt |-> 1, free |-> Fdid, map |-> NoEntry, lock |-> 0]
  BY DEF NewTable, Fdid
<1>. QED BY <1>1, <1>2, TableType

\* os_file_get_new_fdid takes the lowest free id, or leaves the table locked.
LEMMA NewFdid ==
  ASSUME NEW tb \in FdTable
  PROVE  LET new == os_file_get_new_fdid(tb)
         IN /\ new \in FdTable /\ new.map = tb.map /\ new.refcnt = tb.refcnt
            /\ tb.free = {} => new.free = {}
            /\ tb.free # {} => /\ Min(tb.free) \in tb.free /\ Min(tb.free) \in Fdid
                               /\ new.free = tb.free \ {Min(tb.free)} /\ new.lock = tb.lock
<1>1. tb.free \in SUBSET Fdid /\ tb.free \in SUBSET Nat /\ tb.lock \in Nat
  BY TableFields
<1>2. CASE tb.free = {}
  <2>1. [tb EXCEPT !.lock = tb.lock + 1] \in FdTable
    <3>1. tb.lock + 1 \in Nat
      BY <1>1
    <3>2. NoEntry \in [{} -> Descriptor]
      BY DEF NoEntry
    <3>. QED BY <1>1, <3>1, <3>2, TableUpdated
  <2>. QED BY <1>2, <2>1 DEF os_file_get_new_fdid, FdTable
<1>3. CASE tb.free # {}
  <2>1. Min(tb.free) \in tb.free
    BY <1>1, <1>3, MinIsLeast
  <2>2. [tb EXCEPT !.free = tb.free \ {Min(tb.free)}] \in FdTable
    <3>1. tb.free \ {Min(tb.free)} \in SUBSET Fdid
      BY <1>1
    <3>2. NoEntry \in [{} -> Descriptor]
      BY DEF NoEntry
    <3>. QED BY <1>1, <3>1, <3>2, TableUpdated
  <2>. QED BY <1>1, <1>3, <2>1, <2>2 DEF os_file_get_new_fdid, FdTable
<1>. QED BY <1>2, <1>3

\* A descriptor joins the map and changes nothing else.
LEMMA DescriptorAdded ==
  ASSUME NEW tb \in FdTable, NEW fd \in Fdid, NEW f \in File
  PROVE  LET new == WithDescriptor(tb, fd, f)
         IN /\ new \in FdTable /\ new.free = tb.free /\ new.refcnt = tb.refcnt /\ new.lock = tb.lock
            /\ DOMAIN new.map = DOMAIN tb.map \cup {fd}
            /\ new.map[fd] = [file |-> f, open |-> TRUE]
            /\ \A d \in DOMAIN tb.map \ {fd} : new.map[d] = tb.map[d]
<1>. DEFINE D == DOMAIN tb.map \cup {fd}
            map == [d \in D |-> IF d = fd THEN [file |-> f, open |-> TRUE] ELSE tb.map[d]]
<1>1. DOMAIN tb.map \in SUBSET Fdid /\ tb.map \in [DOMAIN tb.map -> Descriptor] /\ tb.free \in SUBSET Fdid
      /\ tb.lock \in Nat
  BY TableFields
<1>2. D \in SUBSET Fdid /\ map \in [D -> Descriptor]
  BY <1>1 DEF Descriptor
<1>3. DOMAIN map = D /\ map[fd] = [file |-> f, open |-> TRUE] /\ \A d \in DOMAIN tb.map \ {fd} : map[d] = tb.map[d]
  OBVIOUS
<1>4. WithDescriptor(tb, fd, f) = [tb EXCEPT !.map = map]
  BY DEF WithDescriptor
<1>. HIDE DEF map, D
<1>5. [tb EXCEPT !.map = map] \in FdTable
  BY <1>1, <1>2, TableUpdated
<1>6. /\ [tb EXCEPT !.map = map].free = tb.free /\ [tb EXCEPT !.map = map].refcnt = tb.refcnt
      /\ [tb EXCEPT !.map = map].lock = tb.lock /\ [tb EXCEPT !.map = map].map = map
  BY DEF FdTable
<1>. QED BY <1>3, <1>4, <1>5, <1>6 DEF D

\* Closing marks the descriptor.
LEMMA DescriptorMarked ==
  ASSUME NEW tb \in FdTable, NEW fd \in DOMAIN tb.map
  PROVE  LET new == CloseDescriptor(tb, fd)
         IN /\ new \in FdTable /\ new.free = tb.free /\ new.refcnt = tb.refcnt /\ new.lock = tb.lock
            /\ DOMAIN new.map = DOMAIN tb.map
            /\ new.map[fd].open = FALSE
            /\ \A d \in DOMAIN tb.map \ {fd} : new.map[d] = tb.map[d]
<1>. DEFINE D == DOMAIN tb.map
            map == [tb.map EXCEPT ![fd].open = FALSE]
<1>1. D \in SUBSET Fdid /\ tb.map \in [D -> Descriptor] /\ tb.free \in SUBSET Fdid /\ tb.lock \in Nat
  BY TableFields
<1>2. map \in [D -> Descriptor] /\ map[fd].open = FALSE /\ \A d \in D \ {fd} : map[d] = tb.map[d]
  BY <1>1 DEF Descriptor
<1>3. CloseDescriptor(tb, fd) = [tb EXCEPT !.map = map]
  BY DEF CloseDescriptor
<1>. HIDE DEF map, D
<1>4. [tb EXCEPT !.map = map] \in FdTable
  BY <1>1, <1>2, TableUpdated
<1>5. /\ [tb EXCEPT !.map = map].free = tb.free /\ [tb EXCEPT !.map = map].refcnt = tb.refcnt
      /\ [tb EXCEPT !.map = map].lock = tb.lock /\ [tb EXCEPT !.map = map].map = map
  BY DEF FdTable
<1>6. DOMAIN map = D
  BY <1>2
<1>. QED BY <1>2, <1>3, <1>4, <1>5, <1>6 DEF D

\* There are finitely many open descriptors.
LEMMA OpenOnFinite ==
  ASSUME NEW f
  PROVE  IsFiniteSet(OpenOn(f)) /\ Cardinality(OpenOn(f)) \in Nat
<1>1. IsFiniteSet(Table \X Fdid)
  <2>1. IsFiniteSet(Fdid)
    BY FdAssumption, FS_Interval DEF Fdid
  <2>. QED BY <2>1, FdAssumption, FS_Product
<1>2. OpenOn(f) \in SUBSET (Table \X Fdid)
  BY DEF OpenOn, LiveTables
<1>. QED BY <1>1, <1>2, FS_Subset, FS_CardinalityType

-----------------------------------------------------------------------------
(***************************************************************************)
(* openat and close.                                                       *)
(***************************************************************************)

\* What holds of tasks as long as they do not change.
LEMMA TasksKept ==
  ASSUME LifeInv, UNCHANGED lifeVars, exhausted => exhausted'
  PROVE  LifeTypes' /\ Kinship' /\ Roles' /\ PidsTaken' /\ VtablesCounted' /\ TasksKeepTheirVtable'
<1>1. tcb' = tcb /\ pid_bitmap' = pid_bitmap /\ pid_map' = pid_map /\ vtables' = vtables
  BY DEF lifeVars
<1>2. Tasks' = Tasks /\ (\A t : Exists(t)' <=> Exists(t)) /\ \A v : Users(v)' = Users(v)
  BY <1>1 DEF Tasks, Exists, Users
<1>3. LifeTypes' /\ Roles' /\ PidsTaken' /\ TasksKeepTheirVtable'
  BY <1>1, <1>2 DEF LifeInv, LifeTypes, Roles, PidsTaken, TasksKeepTheirVtable
<1>4. Kinship'
  BY <1>1, <1>2 DEF LifeInv, Kinship
<1>5. VtablesCounted'
  <2>1. VtablesCounted
    BY DEF LifeInv
  <2>. QED BY <1>1, <1>2, <2>1 DEF VtablesCounted
<1>. QED BY <1>3, <1>4, <1>5

\* The table of a task changes, but for its count.
LEMMA TableChanges ==
  ASSUME LifeInv, UNCHANGED lifeVars, exhausted => exhausted',
         NEW x \in LiveTables, NEW tb \in FdTable, fd_tables' = [fd_tables EXCEPT ![x] = tb],
         tb.refcnt = fd_tables[x].refcnt, DOMAIN tb.map \cap tb.free = {},
         fnode_refcnt' \in [File -> Nat],
         ~CloseTwice => NodesCoverDescriptors' /\ FaultsOnlyWhenExhausted'
  PROVE  LifeInv'
<1>1. x \in Table /\ fd_tables \in [Table -> FdTable \cup {NULL}]
  BY DEF LiveTables, LifeInv, FdTypes
<1>2. fd_tables'[x] = tb /\ \A y \in Table \ {x} : fd_tables'[y] = fd_tables[y]
  BY <1>1
<1>3. FdTypes'
  BY <1>1 DEF FdTypes
<1>4. LiveTables' = LiveTables
  BY <1>2, FdAssumption DEF LiveTables
<1>5. DescriptorsKeepTheirIds'
  BY <1>1, <1>2, <1>4 DEF LifeInv, DescriptorsKeepTheirIds, LiveTables
<1>6. TablesExact'
  <2>1. tcb' = tcb /\ Tasks' = Tasks
    BY DEF lifeVars, Tasks, Exists
  <2>2. TablesExact
    BY DEF LifeInv
  <2>3. \A y \in LiveTables : fd_tables'[y].refcnt = fd_tables[y].refcnt
    BY <1>2 DEF LiveTables
  <2>. QED BY <1>4, <2>1, <2>2, <2>3 DEF TablesExact
<1>. QED BY <1>3, <1>5, <1>6, TasksKept DEF LifeInv

\* No table changes.
LEMMA TablesKept ==
  ASSUME LifeInv, UNCHANGED lifeVars, UNCHANGED fd_tables, exhausted => exhausted',
         fnode_refcnt' \in [File -> Nat], \A f \in File : fnode_refcnt'[f] >= fnode_refcnt[f],
         ~CloseTwice => FaultsOnlyWhenExhausted'
  PROVE  LifeInv'
<1>1. tcb' = tcb /\ Tasks' = Tasks /\ LiveTables' = LiveTables
  BY DEF lifeVars, Tasks, Exists, LiveTables
<1>2. FdTypes' /\ DescriptorsKeepTheirIds' /\ TablesExact'
  BY <1>1 DEF LifeInv, FdTypes, DescriptorsKeepTheirIds, TablesExact
<1>3. NodesCoverDescriptors => NodesCoverDescriptors'
  <2>1. \A f : OpenOn(f)' = OpenOn(f)
    BY <1>1 DEF OpenOn
  <2>2. \A f \in File : fnode_refcnt[f] \in Nat /\ fnode_refcnt'[f] \in Nat /\ Cardinality(OpenOn(f)) \in Nat
    BY OpenOnFinite DEF LifeInv, FdTypes
  <2>. QED BY <2>1, <2>2 DEF NodesCoverDescriptors
<1>. QED BY <1>2, <1>3, TasksKept DEF LifeInv

\* What the table x with the map of tb instead adds to or takes from the open
\* descriptors on f.
LEMMA OpenOnChanges ==
  ASSUME FdTypes, NEW x \in LiveTables, NEW tb \in FdTable, fd_tables' = [fd_tables EXCEPT ![x] = tb], NEW f
  PROVE  \A d \in Table \X Fdid :
           d \in OpenOn(f)' <=>
             IF d[1] = x THEN d[2] \in DOMAIN tb.map /\ tb.map[d[2]] = [file |-> f, open |-> TRUE]
             ELSE d \in OpenOn(f)
<1>1. x \in Table /\ DOMAIN fd_tables = Table
  BY DEF LiveTables, FdTypes
<1>2. fd_tables'[x] = tb /\ \A y \in Table \ {x} : fd_tables'[y] = fd_tables[y]
  BY <1>1
<1>3. LiveTables' = LiveTables
  BY <1>2, FdAssumption DEF LiveTables
<1>. SUFFICES ASSUME NEW d \in Table \X Fdid
              PROVE  d \in OpenOn(f)' <=>
                       IF d[1] = x THEN d[2] \in DOMAIN tb.map /\ tb.map[d[2]] = [file |-> f, open |-> TRUE]
                       ELSE d \in OpenOn(f)
  OBVIOUS
<1>4. CASE d[1] = x
  BY <1>2, <1>3, <1>4 DEF OpenOn
<1>5. CASE d[1] # x
  BY <1>2, <1>3, <1>5 DEF OpenOn
<1>. QED BY <1>4, <1>5

\* The table of a task that runs.
LEMMA OwnTable ==
  ASSUME LifeInv, NEW t \in Tasks
  PROVE  LET x == tcb[t].fd_table
         IN x \in LiveTables /\ x \in Table /\ fd_tables[x] \in FdTable /\ fd_tables[x].refcnt = 1
<1>1. tcb[t].fd_table \in LiveTables
  BY DEF LifeInv, TablesExact
<1>. QED BY <1>1 DEF LifeInv, FdTypes, TablesExact, LiveTables

\* The map stays.
LEMMA OpenOnKept ==
  ASSUME FdTypes, NEW x \in LiveTables, NEW tb \in FdTable, fd_tables' = [fd_tables EXCEPT ![x] = tb],
         tb.map = fd_tables[x].map, NEW f
  PROVE  OpenOn(f)' = OpenOn(f)
<1>1. \A d \in Table \X Fdid :
        d[1] = x => (d \in OpenOn(f) <=> d[2] \in DOMAIN tb.map /\ tb.map[d[2]] = [file |-> f, open |-> TRUE])
  BY DEF OpenOn
<1>2. \A d \in Table \X Fdid : d \in OpenOn(f)' <=> d \in OpenOn(f)
  BY <1>1, OpenOnChanges, ZenonT(30)
<1>3. OpenOn(f)' \subseteq Table \X Fdid /\ OpenOn(f) \subseteq Table \X Fdid
  BY DEF OpenOn, LiveTables
<1>. QED BY <1>2, <1>3

LEMMA StepOpenatOk ==
  ASSUME LifeInv, NEW t \in Tasks, UNCHANGED lifeVars, NEW f \in File, openat_ok(tcb[t].fd_table, f)
  PROVE  LifeInv'
<1>1. PICK x \in LiveTables : x = tcb[t].fd_table
  BY OwnTable
<1>2. PICK tb \in FdTable : tb = fd_tables[x]
  BY <1>1, OwnTable
<1>3. PICK fd : fd = Min(tb.free)
  OBVIOUS
<1>4. PICK mid : mid = os_file_get_new_fdid(tb)
  OBVIOUS
<1>5. PICK new : new = WithDescriptor(mid, fd, f)
  OBVIOUS
<1>6. /\ tb.free # {} /\ fd_tables' = [fd_tables EXCEPT ![x] = new]
      /\ fnode_refcnt' = [fnode_refcnt EXCEPT ![f] = @ + 1]
      /\ UNCHANGED <<fault, exhausted>>
  BY <1>1, <1>2, <1>3, <1>4, <1>5 DEF openat_ok, NodeOpened
<1>7. /\ mid \in FdTable /\ mid.map = tb.map /\ mid.refcnt = tb.refcnt
      /\ fd \in tb.free /\ fd \in Fdid /\ mid.free = tb.free \ {fd}
  BY <1>3, <1>4, <1>6, NewFdid
<1>8. /\ new \in FdTable /\ new.free = mid.free /\ new.refcnt = mid.refcnt
      /\ DOMAIN new.map = DOMAIN tb.map \cup {fd}
      /\ new.map[fd] = [file |-> f, open |-> TRUE]
      /\ \A d \in DOMAIN tb.map \ {fd} : new.map[d] = tb.map[d]
  BY <1>5, <1>7, DescriptorAdded
<1>9. DOMAIN tb.map \cap tb.free = {}
  BY <1>2 DEF LifeInv, DescriptorsKeepTheirIds
<1>10. DOMAIN new.map \cap new.free = {} /\ fd \notin DOMAIN tb.map
  BY <1>7, <1>8, <1>9
<1>11. FdTypes /\ fnode_refcnt \in [File -> Nat]
  BY DEF LifeInv, FdTypes
<1>12. ASSUME NodesCoverDescriptors PROVE NodesCoverDescriptors'
  <2>. SUFFICES ASSUME NEW g \in File PROVE fnode_refcnt'[g] >= Cardinality(OpenOn(g)')
    BY DEF NodesCoverDescriptors
  <2>1. /\ fnode_refcnt[g] >= Cardinality(OpenOn(g)) /\ fnode_refcnt[g] \in Nat
        /\ IsFiniteSet(OpenOn(g)) /\ Cardinality(OpenOn(g)) \in Nat
    BY <1>11, <1>12, OpenOnFinite DEF NodesCoverDescriptors
  <2>2. \A d \in Table \X Fdid :
          d[1] = x => (d \in OpenOn(g) <=> d[2] \in DOMAIN tb.map /\ tb.map[d[2]] = [file |-> g, open |-> TRUE])
    BY <1>2 DEF OpenOn
  <2>3. \A d \in Table \X Fdid :
          d \in OpenOn(g)' <=>
            IF d[1] = x THEN d[2] \in DOMAIN new.map /\ new.map[d[2]] = [file |-> g, open |-> TRUE]
            ELSE d \in OpenOn(g)
    BY <1>6, <1>8, <1>11, OpenOnChanges
  <2>4. OpenOn(g)' \subseteq Table \X Fdid /\ OpenOn(g) \subseteq Table \X Fdid /\ <<x, fd>> \in Table \X Fdid
    BY <1>7 DEF OpenOn, LiveTables
  <2>5. <<x, fd>> \notin OpenOn(g)
    BY <1>7, <1>10, <2>2, <2>4
  <2>6. CASE g = f
    <3>1. ASSUME NEW d \in Table \X Fdid PROVE d \in OpenOn(g)' <=> d \in OpenOn(g) \/ d = <<x, fd>>
      <4>1. d = <<d[1], d[2]>> /\ <<x, fd>>[1] = x /\ <<x, fd>>[2] = fd
        OBVIOUS
      <4>2. CASE d[1] = x /\ d[2] = fd
        BY <1>8, <2>3, <2>6, <4>1, <4>2
      <4>3. CASE d[1] = x /\ d[2] # fd
        BY <1>8, <2>2, <2>3, <4>1, <4>3
      <4>4. CASE d[1] # x
        BY <2>3, <4>1, <4>4
      <4>. QED BY <4>2, <4>3, <4>4
    <3>2. OpenOn(g)' = OpenOn(g) \cup {<<x, fd>>} /\ <<x, fd>> \notin OpenOn(g)
      BY <2>4, <2>5, <3>1
    <3>3. Cardinality(OpenOn(g)') = Cardinality(OpenOn(g)) + 1
      BY <2>1, <3>2, CountAdded
    <3>. QED BY <1>6, <1>11, <2>1, <2>6, <3>3
  <2>7. CASE g # f
    <3>1. [file |-> f, open |-> TRUE] # [file |-> g, open |-> TRUE]
      BY <2>7
    <3>2. \A d \in Table \X Fdid : d \in OpenOn(g)' <=> d \in OpenOn(g)
      BY <1>8, <1>10, <2>2, <2>3, <2>5, <3>1
    <3>3. OpenOn(g)' = OpenOn(g)
      BY <2>4, <3>2
    <3>. QED BY <1>6, <1>11, <2>1, <2>7, <3>3
  <2>. QED BY <2>6, <2>7
<1>13. FaultsOnlyWhenExhausted => FaultsOnlyWhenExhausted'
  BY <1>6 DEF FaultsOnlyWhenExhausted
<1>14. fnode_refcnt' \in [File -> Nat] /\ new.refcnt = fd_tables[x].refcnt
  BY <1>2, <1>6, <1>7, <1>8, <1>11
<1>15. ~CloseTwice => NodesCoverDescriptors' /\ FaultsOnlyWhenExhausted'
  BY <1>12, <1>13 DEF LifeInv
<1>. QED BY <1>6, <1>8, <1>10, <1>14, <1>15, TableChanges

\* A new id without a descriptor, or a lock that stays.
LEMMA StepNewFdid ==
  ASSUME LifeInv, NEW t \in Tasks, UNCHANGED lifeVars, exhausted => exhausted', UNCHANGED fnode_refcnt,
         NEW x \in LiveTables, x = tcb[t].fd_table,
         fd_tables' = [fd_tables EXCEPT ![x] = os_file_get_new_fdid(@)],
         FaultsOnlyWhenExhausted => FaultsOnlyWhenExhausted'
  PROVE  LifeInv'
<1>1. PICK tb \in FdTable : tb = fd_tables[x]
  BY OwnTable
<1>2. PICK new : new = os_file_get_new_fdid(tb)
  OBVIOUS
<1>3. /\ new \in FdTable /\ new.map = tb.map /\ new.refcnt = tb.refcnt /\ new.free \subseteq tb.free
  BY <1>2, NewFdid
<1>4. DOMAIN tb.map \cap tb.free = {}
  BY <1>1 DEF LifeInv, DescriptorsKeepTheirIds
<1>5. FdTypes /\ fnode_refcnt \in [File -> Nat] /\ DOMAIN fd_tables = Table /\ x \in Table
  BY DEF LifeInv, FdTypes, LiveTables
<1>6. fd_tables' = [fd_tables EXCEPT ![x] = new]
  BY <1>1, <1>2, <1>5
<1>7. \A f : OpenOn(f)' = OpenOn(f)
  BY <1>1, <1>3, <1>5, <1>6, OpenOnKept
<1>8. NodesCoverDescriptors => NodesCoverDescriptors'
  BY <1>7 DEF NodesCoverDescriptors
<1>9. ~CloseTwice => NodesCoverDescriptors' /\ FaultsOnlyWhenExhausted'
  BY <1>8 DEF LifeInv
<1>10. DOMAIN new.map \cap new.free = {} /\ new.refcnt = fd_tables[x].refcnt /\ fnode_refcnt' \in [File -> Nat]
  BY <1>1, <1>3, <1>4, <1>5
<1>. QED BY <1>3, <1>6, <1>9, <1>10, TableChanges

LEMMA StepOpenat ==
  ASSUME LifeInv, NEW t \in Tasks, UNCHANGED lifeVars, os_syscall_openat(tcb[t].fd_table)
  PROVE  LifeInv'
<1>1. PICK x \in LiveTables : x = tcb[t].fd_table
  BY OwnTable
<1>2. CASE \E f \in File : openat_ok(x, f)
  BY <1>1, <1>2, StepOpenatOk
<1>3. CASE openat_full(x)
  <2>1. exhausted' /\ UNCHANGED fnode_refcnt /\ fd_tables' = [fd_tables EXCEPT ![x] = os_file_get_new_fdid(@)]
    BY <1>3 DEF openat_full
  <2>2. FaultsOnlyWhenExhausted'
    BY <2>1 DEF FaultsOnlyWhenExhausted
  <2>. QED BY <1>1, <2>1, <2>2, StepNewFdid
<1>4. CASE openat_refused(x)
  <2>1. CASE fault' = "unlinked_node" /\ UNCHANGED fd_tables
    <3>1. exhausted' = exhausted /\ fnode_refcnt' = fnode_refcnt /\ fnode_refcnt \in [File -> Nat]
      BY <1>4 DEF openat_refused, LifeInv, FdTypes
    <3>2. FaultsOnlyWhenExhausted'
      BY <2>1 DEF FaultsOnlyWhenExhausted
    <3>. QED BY <2>1, <3>1, <3>2, TablesKept
  <2>2. CASE UNCHANGED fault /\ fd_tables' = [fd_tables EXCEPT ![x] = os_file_get_new_fdid(@)]
    <3>1. UNCHANGED fnode_refcnt /\ exhausted' = exhausted
      BY <1>4 DEF openat_refused
    <3>2. FaultsOnlyWhenExhausted => FaultsOnlyWhenExhausted'
      BY <2>2, <3>1 DEF FaultsOnlyWhenExhausted
    <3>. QED BY <1>1, <2>2, <3>1, <3>2, StepNewFdid
  <2>. QED BY <1>4, <2>1, <2>2 DEF openat_refused
<1>5. CASE openat_asserts(x)
  <2>1. exhausted' /\ UNCHANGED fd_tables /\ fnode_refcnt' = fnode_refcnt /\ fnode_refcnt \in [File -> Nat]
    BY <1>5 DEF openat_asserts, fdVars, LifeInv, FdTypes
  <2>2. FaultsOnlyWhenExhausted'
    BY <2>1 DEF FaultsOnlyWhenExhausted
  <2>. QED BY <2>1, <2>2, TablesKept
<1>. QED BY <1>1, <1>2, <1>3, <1>4, <1>5 DEF os_syscall_openat

LEMMA StepClose ==
  ASSUME LifeInv, NEW t \in Tasks, UNCHANGED lifeVars, NEW fd \in Fdid, os_syscall_close(tcb[t].fd_table, fd)
  PROVE  LifeInv'
<1>1. PICK x \in LiveTables : x = tcb[t].fd_table
  BY OwnTable
<1>2. PICK tb \in FdTable : tb = fd_tables[x]
  BY <1>1, OwnTable
<1>3. PICK d : d = tb.map[fd]
  BY SMTT(30)
<1>4. /\ fd \in DOMAIN tb.map /\ (d.open \/ CloseTwice) /\ exhausted' = exhausted
      /\ fnode_refcnt[d.file] > 0 =>
           /\ fd_tables' = [fd_tables EXCEPT ![x] = CloseDescriptor(@, fd)]
           /\ fnode_refcnt' = [fnode_refcnt EXCEPT ![d.file] = @ - 1]
           /\ fault' = fault
      /\ ~(fnode_refcnt[d.file] > 0) => fault' = "node_freed" /\ UNCHANGED fdVars
  BY <1>1, <1>2, <1>3 DEF os_syscall_close, NodeClosed
<1>5. /\ tb.map \in [DOMAIN tb.map -> Descriptor] /\ d \in Descriptor
      /\ d.file \in File /\ d.open \in BOOLEAN /\ d = [file |-> d.file, open |-> d.open]
  BY <1>3, <1>4, TableFields DEF Descriptor
<1>6. FdTypes /\ fnode_refcnt \in [File -> Nat] /\ DOMAIN fd_tables = Table /\ x \in Table
  BY DEF LifeInv, FdTypes, LiveTables
<1>7. \A g : \A c \in Table \X Fdid :
        c[1] = x => (c \in OpenOn(g) <=> c[2] \in DOMAIN tb.map /\ tb.map[c[2]] = [file |-> g, open |-> TRUE])
  BY <1>2 DEF OpenOn
<1>8. ASSUME ~CloseTwice PROVE <<x, fd>> \in OpenOn(d.file) /\ fnode_refcnt[d.file] > 0
  <2>1. <<x, fd>> \in Table \X Fdid
    BY <1>6
  <2>2. <<x, fd>> \in OpenOn(d.file)
    BY <1>3, <1>4, <1>5, <1>7, <1>8, <2>1
  <2>3. Cardinality(OpenOn(d.file)) \in Nat \ {0}
    BY <2>2, OpenOnFinite, CountRemoved
  <2>4. fnode_refcnt[d.file] >= Cardinality(OpenOn(d.file)) /\ fnode_refcnt[d.file] \in Nat
    BY <1>5, <1>6, <1>8 DEF LifeInv, NodesCoverDescriptors
  <2>. QED BY <2>2, <2>3, <2>4
<1>9. CASE fnode_refcnt[d.file] > 0
  <2>1. PICK new : new = CloseDescriptor(tb, fd)
    OBVIOUS
  <2>2. fd_tables' = [fd_tables EXCEPT ![x] = new] /\ fnode_refcnt' = [fnode_refcnt EXCEPT ![d.file] = @ - 1]
        /\ fault' = fault
    BY <1>2, <1>4, <1>6, <1>9, <2>1
  <2>3. /\ new \in FdTable /\ new.free = tb.free /\ new.refcnt = tb.refcnt
        /\ DOMAIN new.map = DOMAIN tb.map /\ new.map[fd].open = FALSE
        /\ \A c \in DOMAIN tb.map \ {fd} : new.map[c] = tb.map[c]
    BY <1>4, <2>1, DescriptorMarked
  <2>4. fnode_refcnt' \in [File -> Nat]
    BY <1>5, <1>6, <1>9, <2>2
  <2>5. ASSUME ~CloseTwice PROVE NodesCoverDescriptors'
    <3>. SUFFICES ASSUME NEW g \in File PROVE fnode_refcnt'[g] >= Cardinality(OpenOn(g)')
      BY DEF NodesCoverDescriptors
    <3>1. /\ fnode_refcnt[g] >= Cardinality(OpenOn(g)) /\ fnode_refcnt[g] \in Nat
          /\ IsFiniteSet(OpenOn(g)) /\ Cardinality(OpenOn(g)) \in Nat
      BY <1>6, <2>5, OpenOnFinite DEF LifeInv, NodesCoverDescriptors
    <3>2. \A c \in Table \X Fdid :
            c \in OpenOn(g)' <=>
              IF c[1] = x THEN c[2] \in DOMAIN new.map /\ new.map[c[2]] = [file |-> g, open |-> TRUE]
              ELSE c \in OpenOn(g)
      BY <1>6, <2>2, <2>3, OpenOnChanges
    <3>3. OpenOn(g)' \subseteq Table \X Fdid /\ OpenOn(g) \subseteq Table \X Fdid /\ <<x, fd>> \in Table \X Fdid
      BY <1>6 DEF OpenOn, LiveTables
    <3>4. new.map[fd] # [file |-> g, open |-> TRUE]
      BY <2>3
    <3>5. \A c \in Table \X Fdid : c \in OpenOn(g)' <=> c \in OpenOn(g) /\ c # <<x, fd>>
      BY <1>7, <2>3, <3>2, <3>4
    <3>6. OpenOn(g)' = OpenOn(g) \ {<<x, fd>>}
      BY <3>3, <3>5
    <3>7. CASE g = d.file
      <4>1. Cardinality(OpenOn(g)') = Cardinality(OpenOn(g)) - 1
        BY <1>8, <2>5, <3>1, <3>6, <3>7, CountRemoved
      <4>. QED BY <1>6, <2>2, <3>1, <3>7, <4>1
    <3>8. CASE g # d.file
      <4>1. <<x, fd>>[1] = x /\ <<x, fd>>[2] = fd /\ d # [file |-> g, open |-> TRUE]
        BY <3>8
      <4>2. <<x, fd>> \notin OpenOn(g)
        BY <1>3, <1>7, <3>3, <4>1
      <4>3. OpenOn(g)' = OpenOn(g)
        BY <3>6, <4>2
      <4>. QED BY <1>6, <2>2, <3>1, <3>8, <4>3
    <3>. QED BY <3>7, <3>8
  <2>6. FaultsOnlyWhenExhausted => FaultsOnlyWhenExhausted'
    BY <1>4, <2>2 DEF FaultsOnlyWhenExhausted
  <2>7. ~CloseTwice => NodesCoverDescriptors' /\ FaultsOnlyWhenExhausted'
    BY <2>5, <2>6 DEF LifeInv
  <2>8. DOMAIN new.map \cap new.free = {} /\ new.refcnt = fd_tables[x].refcnt
    BY <1>2, <2>3 DEF LifeInv, DescriptorsKeepTheirIds
  <2>. QED BY <1>4, <2>2, <2>3, <2>4, <2>7, <2>8, TableChanges
<1>10. CASE ~(fnode_refcnt[d.file] > 0)
  <2>1. CloseTwice
    BY <1>8, <1>10 DEF LifeInv
  <2>2. UNCHANGED fd_tables /\ fnode_refcnt' = fnode_refcnt
    BY <1>4, <1>10 DEF fdVars
  <2>. QED BY <1>4, <1>6, <2>1, <2>2, TablesKept
<1>. QED BY <1>9, <1>10

-----------------------------------------------------------------------------
(***************************************************************************)
(* A new task: its descriptor table, its place in the tree, its pid.       *)
(***************************************************************************)

\* The new task c has the lowest free table; the others keep theirs.
LEMMA TableAdded ==
  ASSUME FdTypes, TablesExact, DescriptorsKeepTheirIds, FreeTables # {},
         fd_tables' = [fd_tables EXCEPT ![Min(FreeTables)] = NewTable], UNCHANGED fnode_refcnt,
         NEW c, c \notin Tasks, Tasks' = Tasks \cup {c},
         tcb'[c].fd_table = Min(FreeTables), \A u \in Tasks : tcb'[u].fd_table = tcb[u].fd_table
  PROVE  FdTypes' /\ TablesExact' /\ DescriptorsKeepTheirIds' /\ (NodesCoverDescriptors => NodesCoverDescriptors')
<1>1. PICK x : x = Min(FreeTables)
  OBVIOUS
<1>2. PICK tb : tb = NewTable
  OBVIOUS
<1>3. x \in Table /\ fd_tables[x] = NULL
  <2>1. FreeTables \in SUBSET Nat
    BY FdAssumption DEF FreeTables
  <2>2. x \in FreeTables
    BY <1>1, <2>1, MinIsLeast
  <2>. QED BY <2>2 DEF FreeTables
<1>4. tb \in FdTable /\ tb.refcnt = 1 /\ DOMAIN tb.map = {} /\ tb # NULL
  BY <1>2, NewTableType, FdAssumption
<1>5. fd_tables' = [fd_tables EXCEPT ![x] = tb] /\ DOMAIN fd_tables = Table
  BY <1>1, <1>2 DEF FdTypes
<1>6. fd_tables'[x] = tb /\ \A y \in Table \ {x} : fd_tables'[y] = fd_tables[y]
  BY <1>3, <1>5
<1>7. FdTypes'
  BY <1>3, <1>4, <1>5 DEF FdTypes
<1>8. LiveTables' = LiveTables \cup {x} /\ x \notin LiveTables /\ LiveTables \subseteq Table
  BY <1>3, <1>4, <1>6 DEF LiveTables
<1>9. DescriptorsKeepTheirIds'
  BY <1>4, <1>6, <1>8 DEF DescriptorsKeepTheirIds
<1>10. TablesExact'
  <2>1. LiveTables' = {tcb'[u].fd_table : u \in Tasks'}
    <3>1. LiveTables = {tcb[u].fd_table : u \in Tasks}
      BY DEF TablesExact
    <3>. QED BY <1>1, <1>8, <3>1
  <2>2. \A y \in LiveTables' : fd_tables'[y].refcnt = 1
    BY <1>4, <1>6, <1>8 DEF TablesExact
  <2>3. \A u \in Tasks : tcb[u].fd_table \in LiveTables
    BY DEF TablesExact
  <2>4. \A u, w \in Tasks' : tcb'[u].fd_table = tcb'[w].fd_table => u = w
    BY <1>1, <1>8, <2>3 DEF TablesExact
  <2>. QED BY <2>1, <2>2, <2>4 DEF TablesExact
<1>11. \A g : OpenOn(g)' = OpenOn(g)
  <2>. SUFFICES ASSUME NEW g PROVE OpenOn(g)' = OpenOn(g)
    OBVIOUS
  <2>1. OpenOn(g)' \subseteq Table \X Fdid /\ OpenOn(g) \subseteq Table \X Fdid
    BY DEF OpenOn, LiveTables
  <2>2. ASSUME NEW d \in Table \X Fdid PROVE d \in OpenOn(g)' <=> d \in OpenOn(g)
    <3>1. CASE d[1] = x
      BY <1>4, <1>6, <1>8, <3>1 DEF OpenOn
    <3>2. CASE d[1] # x
      BY <1>6, <1>8, <3>2 DEF OpenOn
    <3>. QED BY <3>1, <3>2
  <2>. QED BY <2>1, <2>2
<1>12. NodesCoverDescriptors => NodesCoverDescriptors'
  BY <1>11 DEF NodesCoverDescriptors
<1>. QED BY <1>7, <1>9, <1>10, <1>12

\* The new task c is at the end of its parent's list.
LEMMA KinAdded ==
  ASSUME LifeTypes, Kinship, NEW c \in Task, c \notin Tasks, Tasks' = Tasks \cup {c},
         ParentOf(c) # NULL => ParentOf(c) \in Tasks,
         tcb'[c].parent = ParentOf(c), tcb'[c].child_list = <<>>,
         \A u \in Tasks : tcb'[u].parent = tcb[u].parent,
         \A u \in Tasks : tcb'[u].child_list =
           IF u = ParentOf(c) THEN Append(tcb[u].child_list, c) ELSE tcb[u].child_list
  PROVE  Kinship'
<1>1. /\ task_idle # task_main /\ NULL \notin Task /\ task_idle \in Task /\ task_main \in Task
      /\ \A u : Exists(u)' /\ u \in Task <=> u \in Tasks'
      /\ \A u : Exists(u) /\ u \in Task <=> u \in Tasks
  BY TaskLifeAssumption DEF Tasks, Task, KernelTask, Exists
<1>2. \A u \in Tasks : ParentOf(u) # NULL => ParentOf(u) \in Tasks
  BY DEF Kinship
<1>3. \A u : /\ ParentOf(u) \in {NULL, task_idle, task_main}
             /\ u = task_idle <=> ParentOf(u) = NULL
             /\ u = task_main => ParentOf(u) = task_idle
             /\ u \notin {task_idle, task_main} => ParentOf(u) = task_main
  BY <1>1 DEF ParentOf
<1>4. \A u \in Tasks' : tcb'[u].parent = ParentOf(u) /\ (ParentOf(u) # NULL => ParentOf(u) \in Tasks')
  BY <1>2 DEF Kinship
<1>5. \A u \in Tasks' \ {task_idle, task_main} : tcb'[u].child_list = <<>>
  BY <1>3, <1>1 DEF Kinship
<1>6. ASSUME task_idle \in Tasks'
      PROVE  tcb'[task_idle].child_list = IF task_main \in Tasks' THEN <<task_main>> ELSE <<>>
  <2>1. CASE c = task_idle
    <3>1. task_main \notin Tasks'
      BY <1>1, <1>2, <1>3, <2>1
    <3>. QED BY <2>1, <3>1
  <2>2. CASE c = task_main
    <3>1. tcb[task_idle].child_list = <<>> /\ task_idle \in Tasks
      BY <1>1, <1>6, <2>2 DEF Kinship
    <3>2. Append(<<>>, task_main) = <<task_main>> /\ ParentOf(c) = task_idle /\ task_main \in Tasks'
      BY <1>3, <2>2
    <3>3. tcb'[task_idle].child_list = Append(<<>>, c)
      BY <3>1, <3>2
    <3>. QED BY <2>2, <3>2, <3>3
  <2>3. CASE c \notin {task_idle, task_main}
    <3>1. task_idle \in Tasks /\ (task_main \in Tasks' <=> task_main \in Tasks) /\ ParentOf(c) = task_main
      BY <1>1, <1>3, <1>6, <2>3
    <3>2. tcb[task_idle].child_list = IF task_main \in Tasks THEN <<task_main>> ELSE <<>>
      BY <1>1, <3>1 DEF Kinship
    <3>. QED BY <1>1, <3>1, <3>2
  <2>. QED BY <2>1, <2>2, <2>3
<1>7. ASSUME task_main \in Tasks'
      PROVE  /\ IsInjective(tcb'[task_main].child_list)
             /\ ToSet(tcb'[task_main].child_list) = Tasks' \ {task_idle, task_main}
  <2>1. CASE c = task_main
    <3>1. Tasks' \ {task_idle, task_main} = {}
      BY <1>1, <1>2, <1>3, <2>1
    <3>. QED BY <2>1, <3>1 DEF IsInjective, ToSet
  <2>2. CASE c = task_idle
    BY <1>1, <1>2, <1>3, <1>7, <2>2
  <2>3. CASE c \notin {task_idle, task_main}
    <3>1. PICK l : l = tcb[task_main].child_list
      OBVIOUS
    <3>2. task_main \in Tasks /\ ParentOf(c) = task_main /\ tcb'[task_main].child_list = Append(l, c)
      BY <1>3, <1>7, <2>3, <3>1
    <3>3. IsInjective(l) /\ ToSet(l) = Tasks \ {task_idle, task_main}
      BY <1>1, <3>1, <3>2 DEF Kinship
    <3>4. l \in Seq(Task)
      <4>1. tcb[task_main] \in TaskRec
        BY <1>1, <3>2 DEF LifeTypes, Exists
      <4>. QED BY <3>1, <4>1 DEF TaskRec
    <3>5. IsInjective(Append(l, c)) /\ ToSet(Append(l, c)) = ToSet(l) \cup {c}
      BY <3>3, <3>4, AppendAddsOne
    <3>. QED BY <2>3, <3>2, <3>3, <3>5
  <2>. QED BY <2>1, <2>2, <2>3
<1>. QED BY <1>1, <1>4, <1>5, <1>6, <1>7 DEF Kinship

\* The new task c has the lowest free pid.
LEMMA PidAdded ==
  ASSUME LifeTypes, PidsTaken, NEW c \in Task, c \notin Tasks, Tasks' = Tasks \cup {c}, pid_bitmap # {},
         os_task_get_new_pid(c), tcb'[c].pid = Min(pid_bitmap), \A u \in Tasks : tcb'[u].pid = tcb[u].pid
  PROVE  PidsTaken' /\ pid_bitmap' \in SUBSET Pid /\ pid_map' \in [Pid -> Task \cup {NULL}]
<1>1. PICK m : m = Min(pid_bitmap)
  OBVIOUS
<1>2. pid_bitmap \in SUBSET Pid /\ pid_bitmap \in SUBSET Nat /\ pid_map \in [Pid -> Task \cup {NULL}]
  BY TaskLifeAssumption DEF LifeTypes
<1>3. m \in pid_bitmap
  BY <1>1, <1>2, MinIsLeast
<1>4. pid_bitmap' = pid_bitmap \ {m} /\ pid_map' = [pid_map EXCEPT ![m] = c] /\ tcb'[c].pid = m
  BY <1>1 DEF os_task_get_new_pid
<1>5. \A u \in Tasks : tcb[u].pid \in Pid
  BY TaskLifeAssumption DEF LifeTypes, TaskRec, Tasks, Exists
<1>. QED BY <1>2, <1>3, <1>4, <1>5 DEF PidsTaken

\* A task is added, and nothing else happens to tasks.
LEMMA TaskAdded ==
  ASSUME LifeInv, NEW c \in Task, c \notin Tasks, Tasks' = Tasks \cup {c}, pid_bitmap # {}, FreeTables # {},
         tcb' \in [Task -> TaskRec \cup {NULL}], vtables' \in [Vtable \cup {kernel_pagetable} -> VtableRec \cup {NULL}],
         ParentOf(c) # NULL => ParentOf(c) \in Tasks,
         tcb'[c].parent = ParentOf(c), tcb'[c].child_list = <<>>,
         tcb'[c].pid = Min(pid_bitmap), tcb'[c].fd_table = Min(FreeTables),
         tcb'[c].state = IF c \in Cloned THEN "ready" ELSE "started",
         c \in {task_idle, task_main} => tcb'[c].vtable = kernel_pagetable,
         \A u \in Tasks : /\ tcb'[u].parent = tcb[u].parent /\ tcb'[u].pid = tcb[u].pid
                          /\ tcb'[u].fd_table = tcb[u].fd_table /\ tcb'[u].state = tcb[u].state
                          /\ tcb'[u].vtable = tcb[u].vtable,
         \A u \in Tasks : tcb'[u].child_list =
           IF u = ParentOf(c) THEN Append(tcb[u].child_list, c) ELSE tcb[u].child_list,
         os_task_get_new_pid(c),
         fd_tables' = [fd_tables EXCEPT ![Min(FreeTables)] = NewTable],
         UNCHANGED <<fnode_refcnt, fault, exhausted>>,
         VtablesCounted', TasksKeepTheirVtable'
  PROVE  LifeInv'
<1>1. FdTypes' /\ TablesExact' /\ DescriptorsKeepTheirIds' /\ (NodesCoverDescriptors => NodesCoverDescriptors')
  BY TableAdded DEF LifeInv
<1>2. Kinship'
  BY KinAdded DEF LifeInv
<1>3. PidsTaken' /\ LifeTypes'
  BY PidAdded DEF LifeInv, LifeTypes
<1>4. Roles'
  BY TaskLifeAssumption DEF LifeInv, Roles, KernelTask
<1>5. FaultsOnlyWhenExhausted => FaultsOnlyWhenExhausted'
  BY DEF FaultsOnlyWhenExhausted
<1>. QED BY <1>1, <1>2, <1>3, <1>4, <1>5 DEF LifeInv

-----------------------------------------------------------------------------
(***************************************************************************)
(* Creation and clone.                                                     *)
(***************************************************************************)
TaskMap == [Task -> TaskRec \cup {NULL}]

\* What a task that changes its place in the tree keeps.
SameButKin(a, b) ==
  a.pid = b.pid /\ a.fd_table = b.fd_table /\ a.vtable = b.vtable /\ a.state = b.state

\* T is tcb with the new task c below p.
Joined(T, c, p) ==
  /\ T \in TaskMap
  /\ T[c] \in TaskRec /\ SameButKin(T[c], NewTask(Min(pid_bitmap), Min(FreeTables)))
  /\ T[c].parent = p /\ T[c].child_list = <<>>
  /\ \A u \in Tasks :
       /\ T[u] \in TaskRec /\ SameButKin(T[u], tcb[u]) /\ T[u].parent = tcb[u].parent
       /\ T[u].child_list = IF u = p THEN Append(tcb[u].child_list, c) ELSE tcb[u].child_list
  /\ \A u \in Task \ (Tasks \cup {c}) : T[u] = NULL

LEMMA TaskRecord ==
  ASSUME NEW r \in TaskRec
  PROVE  /\ r.pid \in Pid /\ r.parent \in Task \cup {NULL} /\ r.child_list \in Seq(Task)
         /\ r.fd_table \in Table /\ r.vtable \in Vtable \cup {kernel_pagetable}
         /\ r.state \in {"ready", "started", "stub", "user", "stopped"}
         /\ r # NULL
BY TaskLifeAssumption DEF TaskRec

LEMMA TasksAre ==
  ASSUME LifeInv
  PROVE  /\ tcb \in TaskMap /\ Tasks \subseteq Task
         /\ \A u \in Task : u \in Tasks <=> tcb[u] # NULL
         /\ \A u \in Task : u \in Tasks <=> Exists(u)
         /\ \A u \in Tasks : tcb[u] \in TaskRec
BY DEF LifeInv, LifeTypes, TaskMap, Tasks, Exists

LEMMA Adopted ==
  ASSUME NEW T \in TaskMap, NEW t \in Task, NEW p \in Task, t # p, T[t] \in TaskRec, T[p] \in TaskRec
  PROVE  LET A == Adopt(T, t, p)
         IN /\ A \in TaskMap
            /\ A[t] \in TaskRec /\ SameButKin(A[t], T[t]) /\ A[t].parent = p /\ A[t].child_list = T[t].child_list
            /\ A[p] \in TaskRec /\ SameButKin(A[p], T[p]) /\ A[p].parent = T[p].parent
            /\ A[p].child_list = Append(T[p].child_list, t)
            /\ \A u \in Task \ {t, p} : A[u] = T[u]
<1>1. PICK rp : rp = [T[p] EXCEPT !.child_list = Append(T[p].child_list, t)]
  OBVIOUS
<1>2. PICK rt : rt = [T[t] EXCEPT !.parent = p]
  OBVIOUS
<1>3. T[p].child_list \in Seq(Task) /\ Append(T[p].child_list, t) \in Seq(Task)
  BY TaskRecord
<1>4. /\ rp \in TaskRec /\ SameButKin(rp, T[p]) /\ rp.parent = T[p].parent
      /\ rp.child_list = Append(T[p].child_list, t)
  BY <1>1, <1>3 DEF TaskRec, SameButKin
<1>5. rt \in TaskRec /\ SameButKin(rt, T[t]) /\ rt.parent = p /\ rt.child_list = T[t].child_list
  BY <1>2 DEF TaskRec, SameButKin
<1>6. Adopt(T, t, p) = [T EXCEPT ![p] = rp, ![t] = rt]
  BY <1>1, <1>2 DEF Adopt, TaskMap
<1>7. [T EXCEPT ![p] = rp, ![t] = rt] \in TaskMap
  BY <1>4, <1>5 DEF TaskMap
<1>8. PICK A : A = [T EXCEPT ![p] = rp, ![t] = rt]
  OBVIOUS
<1>9. A[t] = rt /\ A[p] = rp /\ \A u \in Task \ {t, p} : A[u] = T[u]
  BY <1>8 DEF TaskMap
<1>. QED BY <1>4, <1>5, <1>6, <1>7, <1>8, <1>9

LEMMA NewTaskType ==
  ASSUME LifeInv, pid_bitmap # {}, FreeTables # {}
  PROVE  LET r == NewTask(Min(pid_bitmap), Min(FreeTables))
         IN r \in TaskRec /\ r.parent = NULL /\ r.child_list = <<>> /\ r.vtable = kernel_pagetable
            /\ r.pid = Min(pid_bitmap) /\ r.fd_table = Min(FreeTables) /\ r.state = "ready"
<1>1. pid_bitmap \in SUBSET Nat /\ pid_bitmap \in SUBSET Pid /\ FreeTables \in SUBSET Nat /\ FreeTables \in SUBSET Table
  BY TaskLifeAssumption, FdAssumption DEF LifeInv, LifeTypes, FreeTables
<1>2. Min(pid_bitmap) \in Pid /\ Min(FreeTables) \in Table
  BY <1>1, MinIsLeast
<1>3. <<>> \in Seq(Task)
  OBVIOUS
<1>. QED BY <1>2, <1>3 DEF NewTask, TaskRec

LEMMA Inits ==
  ASSUME LifeInv, NEW c \in Task \ Tasks, pid_bitmap # {}, FreeTables # {}, NEW p \in Tasks \cup {NULL}
  PROVE  Joined(InitTask(c, p), c, p)
<1>1. PICK r : r = NewTask(Min(pid_bitmap), Min(FreeTables))
  OBVIOUS
<1>2. PICK T : T = [tcb EXCEPT ![c] = r]
  OBVIOUS
<1>3. r \in TaskRec /\ r.parent = NULL /\ r.child_list = <<>>
  BY <1>1, NewTaskType
<1>4. T \in TaskMap /\ T[c] = r /\ \A u \in Task \ {c} : T[u] = tcb[u]
  BY <1>2, <1>3, TasksAre DEF TaskMap
<1>5. /\ \A u \in Task \ (Tasks \cup {c}) : T[u] = NULL
      /\ \A u \in Tasks : u # c /\ u \in Task /\ T[u] = tcb[u] /\ T[u] \in TaskRec
  BY <1>4, TasksAre
<1>6. NULL \notin Task
  BY TaskLifeAssumption
<1>7. CASE p = NULL
  <2>1. InitTask(c, p) = T
    BY <1>1, <1>2, <1>7 DEF InitTask
  <2>. QED BY <1>1, <1>3, <1>4, <1>5, <1>6, <1>7, <2>1 DEF Joined, SameButKin
<1>8. CASE p \in Tasks
  <2>1. p # NULL /\ p \in Task /\ p # c
    BY <1>5, <1>6, <1>8
  <2>2. PICK A : A = Adopt(T, c, p)
    OBVIOUS
  <2>3. InitTask(c, p) = A
    BY <1>1, <1>2, <2>1, <2>2 DEF InitTask
  <2>4. /\ A \in TaskMap
        /\ A[c] \in TaskRec /\ SameButKin(A[c], T[c]) /\ A[c].parent = p /\ A[c].child_list = T[c].child_list
        /\ A[p] \in TaskRec /\ SameButKin(A[p], T[p]) /\ A[p].parent = T[p].parent
        /\ A[p].child_list = Append(T[p].child_list, c)
        /\ \A u \in Task \ {c, p} : A[u] = T[u]
    BY <1>3, <1>4, <1>5, <1>8, <2>1, <2>2, Adopted
  <2>5. ASSUME NEW u \in Tasks
        PROVE  /\ A[u] \in TaskRec /\ SameButKin(A[u], tcb[u]) /\ A[u].parent = tcb[u].parent
               /\ A[u].child_list = IF u = p THEN Append(tcb[u].child_list, c) ELSE tcb[u].child_list
    <3>1. T[u] = tcb[u] /\ u # c /\ u \in Task /\ T[u] \in TaskRec
      BY <1>5
    <3>2. CASE u = p
      BY <2>4, <3>1, <3>2
    <3>3. CASE u # p
      <4>1. A[u] = tcb[u]
        BY <2>4, <3>1, <3>3
      <4>. QED BY <3>1, <3>3, <4>1 DEF SameButKin
    <3>. QED BY <3>2, <3>3
  <2>6. \A u \in Task \ (Tasks \cup {c}) : A[u] = NULL
    BY <1>5, <1>8, <2>4
  <2>. QED BY <1>1, <1>3, <1>4, <2>3, <2>4, <2>5, <2>6 DEF Joined
<1>. QED BY <1>7, <1>8

\* Programs run in the first user task only, and it has no children.
LEMMA Programs ==
  ASSUME LifeInv, NEW t \in Task, Exists(t), tcb[t].state \in {"stub", "user"}
  PROVE  /\ t = task_user /\ t \in Tasks /\ t \notin Cloned
         /\ task_main \in Tasks /\ tcb[t].parent = task_main /\ t # task_main
         /\ tcb[t].child_list = <<>>
<1>1. LifeInv /\ Roles /\ Kinship
  BY DEF LifeInv
<1>2. t \in Tasks
  BY DEF Tasks
<1>3. t \notin {task_idle, task_main} /\ t \notin Cloned
  BY <1>1, <1>2 DEF Roles
<1>4. t = task_user /\ task_main \in Task /\ task_main # NULL
  BY <1>3, TaskLifeAssumption DEF Task, KernelTask
<1>5. tcb[t].parent = ParentOf(t) /\ (ParentOf(t) # NULL => ParentOf(t) \in Tasks) /\ tcb[t].child_list = <<>>
  BY <1>1, <1>2, <1>3 DEF Kinship
<1>6. ParentOf(t) = task_main
  BY <1>3 DEF ParentOf
<1>. QED BY <1>2, <1>3, <1>4, <1>5, <1>6

\* A list of one, without that one.
LEMMA OnlyChildLeaves ==
  ASSUME NEW c, NEW l, l = <<c>>
  PROVE  RemoveAt(l, CHOOSE i \in DOMAIN l : l[i] = c) = <<>>
<1>1. DOMAIN l = {1} /\ l[1] = c /\ Len(l) = 1 /\ l \in Seq({c})
  OBVIOUS
<1>2. PICK i : i = CHOOSE j \in DOMAIN l : l[j] = c
  OBVIOUS
<1>3. i = 1
  BY <1>1, <1>2
<1>4. SubSeq(l, 1, 0) = <<>> /\ SubSeq(l, 2, 1) = <<>>
  BY <1>1
<1>5. RemoveAt(l, i) = <<>>
  BY <1>1, <1>3, <1>4 DEF RemoveAt
<1>. QED BY <1>2, <1>5

\* clone puts the child next to the caller, below main.
LEMMA Clones ==
  ASSUME LifeInv, NEW t \in Task, InUserSpace(t), NEW c \in Cloned, CanInit(c)
  PROVE  Joined(CloneTree(t, c), c, task_main) /\ c \in Task \ Tasks /\ c \notin KernelTask
<1>1. Exists(t) /\ tcb[t].state \in {"stub", "user"} /\ ~Exists(c) /\ pid_bitmap # {} /\ FreeTables # {}
  BY DEF InUserSpace, CanInit
<1>2. /\ t \in Tasks /\ t # task_main /\ tcb[t].parent = task_main /\ tcb[t].child_list = <<>>
      /\ task_main \in Tasks
  BY <1>1, Programs
<1>3. c \in Task \ Tasks /\ c \notin KernelTask /\ c # t /\ c # task_main /\ task_main \in Task
  BY <1>1, <1>2, TaskLifeAssumption DEF Task, Tasks, KernelTask
<1>4. PICK T : T = InitTask(c, t)
  OBVIOUS
<1>5. Joined(T, c, t)
  BY <1>1, <1>2, <1>3, <1>4, Inits
<1>6. PICK L : L = Leave(T, c)
  OBVIOUS
<1>7. PICK rt : rt = [T[t] EXCEPT !.child_list = <<>>]
  OBVIOUS
<1>8. T[c].parent = t /\ T[t] \in TaskRec /\ T[t].child_list = <<c>> /\ T \in TaskMap
  <2>1. T[t].child_list = Append(<<>>, c)
    BY <1>2, <1>5 DEF Joined
  <2>. QED BY <1>2, <1>5, <2>1 DEF Joined
<1>9. L = [T EXCEPT ![t] = rt]
  <2>1. L = [T EXCEPT ![t].child_list = RemoveAt(@, CHOOSE i \in DOMAIN @ : @[i] = c)]
    BY <1>6, <1>8 DEF Leave
  <2>2. RemoveAt(T[t].child_list, CHOOSE i \in DOMAIN T[t].child_list : T[t].child_list[i] = c) = <<>>
    BY <1>8, OnlyChildLeaves
  <2>. QED BY <1>7, <2>1, <2>2
<1>10. rt \in TaskRec /\ SameButKin(rt, T[t]) /\ rt.parent = T[t].parent /\ rt.child_list = <<>>
  <2>1. <<>> \in Seq(Task)
    OBVIOUS
  <2>. QED BY <1>7, <1>8, <2>1 DEF TaskRec, SameButKin
<1>11. L \in TaskMap /\ L[t] = rt /\ \A u \in Task \ {t} : L[u] = T[u]
  BY <1>8, <1>9, <1>10 DEF TaskMap
<1>12. L[c] \in TaskRec /\ L[task_main] \in TaskRec /\ L[c] = T[c] /\ L[task_main] = T[task_main]
  <2>1. T[c] \in TaskRec /\ T[task_main] \in TaskRec
    BY <1>2, <1>5 DEF Joined
  <2>. QED BY <1>2, <1>3, <1>11, <2>1
<1>13. PICK A : A = Adopt(L, c, task_main)
  OBVIOUS
<1>14. /\ A \in TaskMap
       /\ A[c] \in TaskRec /\ SameButKin(A[c], L[c]) /\ A[c].parent = task_main /\ A[c].child_list = L[c].child_list
       /\ A[task_main] \in TaskRec /\ SameButKin(A[task_main], L[task_main])
       /\ A[task_main].parent = L[task_main].parent
       /\ A[task_main].child_list = Append(L[task_main].child_list, c)
       /\ \A u \in Task \ {c, task_main} : A[u] = L[u]
  <2>1. c \in Task /\ task_main \in Task /\ c # task_main
    BY <1>3
  <2>2. L \in TaskMap /\ L[c] \in TaskRec /\ L[task_main] \in TaskRec
    BY <1>11, <1>12
  <2>. QED BY <1>13, <2>1, <2>2, Adopted
<1>15. CloneTree(t, c) = A
  BY <1>2, <1>4, <1>6, <1>13 DEF CloneTree
<1>16. ASSUME NEW u \in Tasks
       PROVE  /\ A[u] \in TaskRec /\ SameButKin(A[u], tcb[u]) /\ A[u].parent = tcb[u].parent
              /\ A[u].child_list = IF u = task_main THEN Append(tcb[u].child_list, c) ELSE tcb[u].child_list
  <2>1. u \in Task /\ u # c
    BY <1>3, TasksAre
  <2>2. /\ T[u] \in TaskRec /\ SameButKin(T[u], tcb[u]) /\ T[u].parent = tcb[u].parent
        /\ T[u].child_list = IF u = t THEN Append(tcb[u].child_list, c) ELSE tcb[u].child_list
    BY <1>5 DEF Joined
  <2>3. CASE u = t
    <3>1. A[u] = rt
      BY <1>2, <1>11, <1>14, <2>1, <2>3
    <3>. QED BY <1>2, <1>10, <2>2, <2>3, <3>1 DEF SameButKin
  <2>4. CASE u = task_main
    <3>. QED BY <1>2, <1>12, <1>14, <2>2, <2>4 DEF SameButKin
  <2>5. CASE u # t /\ u # task_main
    <3>1. A[u] = T[u]
      BY <1>11, <1>14, <2>1, <2>5
    <3>. QED BY <2>2, <2>5, <3>1
  <2>. QED BY <2>3, <2>4, <2>5
<1>17. ASSUME NEW u \in Task \ (Tasks \cup {c}) PROVE A[u] = NULL
  <2>1. T[u] = NULL /\ u # t /\ u # task_main
    BY <1>2, <1>5 DEF Joined
  <2>. QED BY <1>11, <1>14, <2>1
<1>18. /\ A[c] \in TaskRec /\ SameButKin(A[c], NewTask(Min(pid_bitmap), Min(FreeTables)))
       /\ A[c].parent = task_main /\ A[c].child_list = <<>>
  BY <1>5, <1>12, <1>14 DEF Joined, SameButKin
<1>. QED BY <1>3, <1>14, <1>15, <1>16, <1>17, <1>18 DEF Joined

-----------------------------------------------------------------------------
(***************************************************************************)
(* Page tables.                                                            *)
(***************************************************************************)
VtableMap == [Vtable \cup {kernel_pagetable} -> VtableRec \cup {NULL}]

LEMMA VtableRecord ==
  ASSUME NEW r \in VtableRec
  PROVE  r.refcnt \in 0..SizeMax /\ r.refcnt \in Nat /\ r.live \in BOOLEAN /\ r # NULL
BY TaskLifeAssumption DEF VtableRec

\* What counting a reference more or less to a table does.
LEMMA Counted ==
  ASSUME NEW V \in VtableMap, NEW v \in Vtable \cup {kernel_pagetable}, V[v] # NULL
  PROVE  /\ Ref(V, v) \in VtableMap /\ Ref(V, v)[v].refcnt = RefcntInc(V[v].refcnt)
         /\ Unref(V, v) \in VtableMap /\ Unref(V, v)[v].refcnt = RefcntDec(V[v].refcnt)
         /\ \A W \in {Ref(V, v), Unref(V, v)} :
              /\ W[v] \in VtableRec /\ W[v] # NULL /\ W[v].live = V[v].live
              /\ \A w \in (Vtable \cup {kernel_pagetable}) \ {v} : W[w] = V[w]
<1>1. V[v] \in VtableRec /\ V[v].refcnt \in 0..SizeMax /\ SizeMax \in Nat
  BY VtableRecord, TaskLifeAssumption DEF VtableMap
<1>2. RefcntInc(V[v].refcnt) \in 0..SizeMax /\ RefcntDec(V[v].refcnt) \in 0..SizeMax
  BY <1>1 DEF RefcntInc, RefcntDec
<1>3. /\ Ref(V, v) \in VtableMap /\ Ref(V, v)[v] \in VtableRec /\ Ref(V, v)[v].refcnt = RefcntInc(V[v].refcnt)
      /\ Ref(V, v)[v].live = V[v].live
      /\ \A w \in (Vtable \cup {kernel_pagetable}) \ {v} : Ref(V, v)[w] = V[w]
  <2>1. PICK n \in 0..SizeMax : n = RefcntInc(V[v].refcnt)
    BY <1>2
  <2>2. PICK W : W = Ref(V, v)
    OBVIOUS
  <2>3. W = [V EXCEPT ![v].refcnt = n]
    BY <2>1, <2>2 DEF Ref
  <2>4. /\ W \in VtableMap /\ W[v] \in VtableRec /\ W[v].refcnt = n /\ W[v].live = V[v].live
        /\ \A w \in (Vtable \cup {kernel_pagetable}) \ {v} : W[w] = V[w]
    BY <1>1, <2>3 DEF VtableMap, VtableRec
  <2>. QED BY <2>1, <2>2, <2>4
<1>4. /\ Unref(V, v) \in VtableMap /\ Unref(V, v)[v] \in VtableRec /\ Unref(V, v)[v].refcnt = RefcntDec(V[v].refcnt)
      /\ Unref(V, v)[v].live = V[v].live
      /\ \A w \in (Vtable \cup {kernel_pagetable}) \ {v} : Unref(V, v)[w] = V[w]
  <2>1. PICK n \in 0..SizeMax : n = RefcntDec(V[v].refcnt)
    BY <1>2
  <2>2. PICK W : W = Unref(V, v)
    OBVIOUS
  <2>3. W = [V EXCEPT ![v].refcnt = n]
    BY <2>1, <2>2 DEF Unref
  <2>4. /\ W \in VtableMap /\ W[v] \in VtableRec /\ W[v].refcnt = n /\ W[v].live = V[v].live
        /\ \A w \in (Vtable \cup {kernel_pagetable}) \ {v} : W[w] = V[w]
    BY <1>1, <2>3 DEF VtableMap, VtableRec
  <2>. QED BY <2>1, <2>2, <2>4
<1>. QED BY <1>3, <1>4, VtableRecord

LEMMA NewVtable ==
  ASSUME NEW n \in {0, 1}, NEW b \in BOOLEAN
  PROVE  \E r \in VtableRec : r = [refcnt |-> n, live |-> b] /\ r.refcnt = n /\ r.live = b /\ r # NULL
<1>1. 0 \in 0..SizeMax /\ 1 \in 0..SizeMax
  <2>1. Cardinality(Cloned) \in Nat
    BY TaskLifeAssumption, FS_CardinalityType
  <2>. QED BY <2>1, TaskLifeAssumption
<1>2. [refcnt |-> n, live |-> b] \in VtableRec
  BY <1>1 DEF VtableRec
<1>. QED BY <1>2, VtableRecord

LEMMA FreshIs ==
  ASSUME VtableLeft
  PROVE  FreshVtable \in Vtable /\ vtables[FreshVtable] = NULL /\ FreshVtable # kernel_pagetable
<1>1. {v \in Vtable : vtables[v] = NULL} \in SUBSET Nat /\ {v \in Vtable : vtables[v] = NULL} # {}
  BY TaskLifeAssumption DEF VtableLeft
<1>2. FreshVtable \in {v \in Vtable : vtables[v] = NULL}
  BY <1>1, MinIsLeast DEF FreshVtable
<1>. QED BY <1>2, TaskLifeAssumption

\* The tasks on a table are finitely many, and fewer than SizeMax besides c.
LEMMA UsersFew ==
  ASSUME LifeInv, NEW v \in Vtable, NEW c \in Cloned \ Tasks
  PROVE  IsFiniteSet(Users(v)) /\ c \notin Users(v) /\ Cardinality(Users(v)) \in Nat /\ Cardinality(Users(v)) < SizeMax
<1>1. Users(v) \subseteq (Cloned \ {c}) \cup {task_user} /\ c \notin Users(v)
  BY TaskLifeAssumption DEF LifeInv, Roles, Users, Tasks, Task, KernelTask
<1>2. IsFiniteSet(Cloned \ {c}) /\ Cardinality(Cloned \ {c}) = Cardinality(Cloned) - 1 /\ Cardinality(Cloned) \in Nat \ {0}
  BY TaskLifeAssumption, CountRemoved, FS_RemoveElement
<1>3. task_user \notin Cloned \ {c}
  BY TaskLifeAssumption DEF KernelTask
<1>4. /\ IsFiniteSet((Cloned \ {c}) \cup {task_user})
      /\ Cardinality((Cloned \ {c}) \cup {task_user}) = Cardinality(Cloned)
  <2>1. Cardinality((Cloned \ {c}) \cup {task_user}) = Cardinality(Cloned \ {c}) + 1
    BY <1>2, <1>3, CountAdded
  <2>. QED BY <1>2, <2>1, FS_AddElement
<1>5. /\ IsFiniteSet(Users(v)) /\ Cardinality(Users(v)) <= Cardinality((Cloned \ {c}) \cup {task_user})
      /\ Cardinality(Users(v)) \in Nat
  BY <1>1, <1>4, FS_Subset, FS_CardinalityType
<1>. QED BY <1>1, <1>2, <1>4, <1>5, TaskLifeAssumption

LEMMA UsersFinite ==
  ASSUME LifeInv, NEW v
  PROVE  IsFiniteSet(Users(v)) /\ Cardinality(Users(v)) \in Nat
<1>1. IsFiniteSet(Task)
  <2>1. IsFiniteSet(((Cloned \cup {task_idle}) \cup {task_main}) \cup {task_user})
    BY TaskLifeAssumption, FS_AddElement
  <2>2. Task = ((Cloned \cup {task_idle}) \cup {task_main}) \cup {task_user}
    BY DEF Task, KernelTask
  <2>. QED BY <2>1, <2>2
<1>2. Users(v) \subseteq Task
  BY DEF Users, Tasks
<1>. QED BY <1>1, <1>2, FS_Subset, FS_CardinalityType

\* A task joins that has a page table, and if that is the program's it is counted.
LEMMA Joins ==
  ASSUME LifeInv, NEW c \in Task \ Tasks, NEW T, Joined(T, c, ParentOf(c)), pid_bitmap # {}, FreeTables # {},
         ParentOf(c) # NULL => ParentOf(c) \in Tasks,
         tcb' \in TaskMap, \A u \in Task \ {c} : tcb'[u] = T[u], tcb'[c] \in TaskRec,
         tcb'[c].pid = T[c].pid, tcb'[c].fd_table = T[c].fd_table,
         tcb'[c].parent = T[c].parent, tcb'[c].child_list = T[c].child_list,
         tcb'[c].state = IF c \in Cloned THEN "ready" ELSE "started",
         c \in {task_idle, task_main} => tcb'[c].vtable = kernel_pagetable,
         os_task_get_new_pid(c),
         fd_tables' = [fd_tables EXCEPT ![Min(FreeTables)] = NewTable],
         UNCHANGED <<fnode_refcnt, fault, exhausted>>,
         vtables' \in VtableMap,
         \A w \in Vtable \cup {kernel_pagetable} :
           vtables[w] # NULL => vtables'[w] # NULL /\ vtables'[w].live = vtables[w].live,
         vtables'[tcb'[c].vtable] # NULL /\ (~exhausted => vtables'[tcb'[c].vtable].live),
         \A v \in Vtable :
           Exists(task_user) /\ v = tcb[task_user].vtable /\ tcb[task_user].state \in {"stub", "user"} =>
             IF v = tcb'[c].vtable
             THEN /\ c \in Cloned /\ tcb[task_user].state = "user"
                  /\ vtables'[v].refcnt = RefcntInc(vtables[v].refcnt)
             ELSE vtables'[v].refcnt = vtables[v].refcnt
  PROVE  LifeInv'
<1>1. /\ c \in Task /\ c \notin Tasks
      /\ \A u \in Tasks : tcb'[u] = T[u] /\ u # c /\ u \in Task
      /\ \A u \in Task \ (Tasks \cup {c}) : tcb'[u] = NULL
      /\ \A u \in Tasks \cup {c} : tcb'[u] # NULL
  BY TasksAre, TaskRecord DEF Joined
<1>2. Tasks' = Tasks \cup {c}
  BY <1>1 DEF Tasks, Exists
<1>3. NewTask(Min(pid_bitmap), Min(FreeTables)).pid = Min(pid_bitmap)
      /\ NewTask(Min(pid_bitmap), Min(FreeTables)).fd_table = Min(FreeTables)
  BY NewTaskType
<1>4. tcb'[c].pid = Min(pid_bitmap) /\ tcb'[c].fd_table = Min(FreeTables)
      /\ tcb'[c].parent = ParentOf(c) /\ tcb'[c].child_list = <<>>
  BY <1>3 DEF Joined, SameButKin
<1>5. \A u \in Tasks : /\ tcb'[u].parent = tcb[u].parent /\ tcb'[u].pid = tcb[u].pid
                       /\ tcb'[u].fd_table = tcb[u].fd_table /\ tcb'[u].state = tcb[u].state
                       /\ tcb'[u].vtable = tcb[u].vtable
  BY <1>1 DEF Joined, SameButKin
<1>6. \A u \in Tasks : tcb'[u].child_list =
        IF u = ParentOf(c) THEN Append(tcb[u].child_list, c) ELSE tcb[u].child_list
  BY <1>1 DEF Joined
<1>7. \A u \in Tasks : tcb[u].vtable \in Vtable \cup {kernel_pagetable} /\ vtables[tcb[u].vtable] # NULL
  BY TasksAre, TaskRecord DEF LifeInv, VtablesCounted
<1>8. TasksKeepTheirVtable'
  BY <1>2, <1>5, <1>7 DEF LifeInv, TasksKeepTheirVtable
<1>9. VtablesCounted'
  <2>1. \A u \in Tasks' : vtables'[tcb'[u].vtable] # NULL
    BY <1>2, <1>5, <1>7
  <2>2. \A u \in Tasks' : tcb'[u].state \in {"stub", "user", "stopped"} => tcb'[u].vtable \in Vtable
    BY <1>2, <1>5 DEF LifeInv, VtablesCounted
  <2>3. vtables'[kernel_pagetable] # NULL /\ vtables'[kernel_pagetable].live
    BY DEF LifeInv, VtablesCounted
  <2>4. ASSUME ~exhausted, task_user \in Tasks', NEW v, v = tcb'[task_user].vtable
        PROVE  /\ tcb'[task_user].state = "stub" => vtables'[v].refcnt = 0 /\ Users(v)' = {task_user}
               /\ tcb'[task_user].state = "user" => vtables'[v].refcnt = Cardinality(Users(v)')
    <3>1. CASE c = task_user
      <4>1. c \notin Cloned
        BY <3>1, TaskLifeAssumption DEF KernelTask
      <4>. QED BY <3>1, <4>1
    <3>2. CASE c # task_user /\ tcb[task_user].state \notin {"stub", "user"}
      BY <1>2, <1>5, <2>4, <3>2
    <3>3. CASE c # task_user /\ tcb[task_user].state \in {"stub", "user"}
      <4>1. task_user \in Tasks /\ v = tcb[task_user].vtable /\ tcb'[task_user].state = tcb[task_user].state
            /\ Exists(task_user) /\ v \in Vtable
        BY <1>2, <1>5, <2>4, <3>3 DEF Tasks, LifeInv, VtablesCounted
      <4>2. /\ tcb[task_user].state = "stub" => vtables[v].refcnt = 0 /\ Users(v) = {task_user}
            /\ tcb[task_user].state = "user" => vtables[v].refcnt = Cardinality(Users(v))
        BY <2>4, <4>1 DEF LifeInv, VtablesCounted
      <4>3. CASE v = tcb'[c].vtable
        <5>1. /\ c \in Cloned /\ tcb[task_user].state = "user"
              /\ vtables'[v].refcnt = RefcntInc(vtables[v].refcnt)
          BY <3>3, <4>1, <4>3
        <5>2. Users(v)' = Users(v) \cup {c}
          BY <1>2, <1>5, <4>3 DEF Users
        <5>3. c \in Cloned \ Tasks
          BY <1>1, <5>1
        <5>4. IsFiniteSet(Users(v)) /\ c \notin Users(v) /\ Cardinality(Users(v)) \in Nat
              /\ Cardinality(Users(v)) < SizeMax
          BY <4>1, <5>3, UsersFew
        <5>5. Cardinality(Users(v)') = Cardinality(Users(v)) + 1
          BY <5>2, <5>4, CountAdded
        <5>6. vtables'[v].refcnt = Cardinality(Users(v)) + 1
          BY <4>2, <5>1, <5>4, TaskLifeAssumption DEF RefcntInc
        <5>. QED BY <4>1, <5>1, <5>5, <5>6
      <4>4. CASE v # tcb'[c].vtable
        <5>1. Users(v)' = Users(v)
          BY <1>2, <1>5, <4>4 DEF Users
        <5>2. vtables'[v].refcnt = vtables[v].refcnt
          BY <3>3, <4>1, <4>4
        <5>. QED BY <4>1, <4>2, <5>1, <5>2
      <4>. QED BY <4>3, <4>4
    <3>. QED BY <3>1, <3>2, <3>3
  <2>5. exhausted' = exhausted /\ (Exists(task_user)' => task_user \in Tasks')
    BY DEF Exists, Tasks, Task, KernelTask
  <2>. QED BY <2>1, <2>2, <2>3, <2>4, <2>5 DEF VtablesCounted
<1>10. tcb' \in [Task -> TaskRec \cup {NULL}] /\ vtables' \in [Vtable \cup {kernel_pagetable} -> VtableRec \cup {NULL}]
  BY DEF TaskMap, VtableMap
<1>. QED BY <1>1, <1>2, <1>4, <1>5, <1>6, <1>8, <1>9, <1>10, TaskAdded

LEMMA StepCreateKernelTask ==
  ASSUME LifeInv, NEW t \in KernelTask, CreateKernelTask(t)
  PROVE  LifeInv'
<1>1. t \in Task /\ t \notin Cloned /\ t \in Task \ Tasks /\ pid_bitmap # {} /\ FreeTables # {}
  BY TaskLifeAssumption DEF CreateKernelTask, CanInit, Task, Tasks
<1>2. Creator(t) = ParentOf(t) /\ Creator(t) \in {task_idle, task_main, NULL}
  BY TaskLifeAssumption DEF Creator, ParentOf, KernelTask
<1>3. ParentOf(t) # NULL => ParentOf(t) \in Tasks
  BY <1>2 DEF CreateKernelTask, MayCreate, Tasks, Task, KernelTask
<1>4. PICK T : T = InitTask(t, ParentOf(t))
  OBVIOUS
<1>5. Joined(T, t, ParentOf(t))
  <2>1. ParentOf(t) \in Tasks \cup {NULL}
    BY <1>3
  <2>. QED BY <1>1, <1>4, <2>1, Inits
<1>6. T \in TaskMap /\ T[t] \in TaskRec /\ T[t].vtable = kernel_pagetable
  <2>1. NewTask(Min(pid_bitmap), Min(FreeTables)).vtable = kernel_pagetable
    BY <1>1, NewTaskType
  <2>. QED BY <1>5, <2>1 DEF Joined, SameButKin
<1>7. tcb' = [T EXCEPT ![t].state = "started"]
  BY <1>2, <1>4 DEF CreateKernelTask
<1>8. /\ tcb' \in TaskMap /\ tcb'[t] \in TaskRec /\ \A u \in Task \ {t} : tcb'[u] = T[u]
      /\ tcb'[t].pid = T[t].pid /\ tcb'[t].fd_table = T[t].fd_table
      /\ tcb'[t].parent = T[t].parent /\ tcb'[t].child_list = T[t].child_list
      /\ tcb'[t].state = "started" /\ tcb'[t].vtable = kernel_pagetable
  <2>1. PICK q : q = [T[t] EXCEPT !.state = "started"]
    OBVIOUS
  <2>2. /\ q \in TaskRec /\ q.pid = T[t].pid /\ q.fd_table = T[t].fd_table /\ q.parent = T[t].parent
        /\ q.child_list = T[t].child_list /\ q.state = "started" /\ q.vtable = T[t].vtable
    BY <1>6, <2>1 DEF TaskRec
  <2>3. tcb' = [T EXCEPT ![t] = q]
    BY <1>6, <1>7, <2>1 DEF TaskMap
  <2>4. tcb' \in TaskMap /\ tcb'[t] = q /\ \A u \in Task \ {t} : tcb'[u] = T[u]
    BY <1>1, <1>6, <2>2, <2>3 DEF TaskMap
  <2>. QED BY <1>6, <2>2, <2>4
<1>9. vtables \in VtableMap /\ vtables[kernel_pagetable] # NULL /\ vtables[kernel_pagetable].live
      /\ vtables' = Ref(vtables, kernel_pagetable)
  BY DEF CreateKernelTask, LifeInv, LifeTypes, VtablesCounted, VtableMap
<1>10. /\ vtables' \in VtableMap /\ vtables'[kernel_pagetable] # NULL
       /\ vtables'[kernel_pagetable].live = vtables[kernel_pagetable].live
       /\ \A w \in (Vtable \cup {kernel_pagetable}) \ {kernel_pagetable} : vtables'[w] = vtables[w]
  BY <1>9, Counted, ZenonT(30)
<1>11. kernel_pagetable \notin Vtable
  BY TaskLifeAssumption
<1>12. \A v \in Vtable :
         Exists(task_user) /\ v = tcb[task_user].vtable /\ tcb[task_user].state \in {"stub", "user"} =>
           IF v = tcb'[t].vtable
           THEN /\ t \in Cloned /\ tcb[task_user].state = "user"
                /\ vtables'[v].refcnt = RefcntInc(vtables[v].refcnt)
           ELSE vtables'[v].refcnt = vtables[v].refcnt
  BY <1>8, <1>10, <1>11
<1>13. /\ os_task_get_new_pid(t)
       /\ fd_tables' = [fd_tables EXCEPT ![Min(FreeTables)] = NewTable]
       /\ UNCHANGED <<fnode_refcnt, fault, exhausted>>
  BY DEF CreateKernelTask
<1>14. /\ \A w \in Vtable \cup {kernel_pagetable} :
            vtables[w] # NULL => vtables'[w] # NULL /\ vtables'[w].live = vtables[w].live
       /\ vtables'[tcb'[t].vtable] # NULL /\ (~exhausted => vtables'[tcb'[t].vtable].live)
  BY <1>8, <1>9, <1>10
<1>. QED BY <1>1, <1>3, <1>5, <1>8, <1>10, <1>12, <1>13, <1>14, Joins

\* Nothing but the fault changes, and memory has run out.
LEMMA StepFails ==
  ASSUME LifeInv, UNCHANGED <<lifeVars, fdVars>>, exhausted'
  PROVE  LifeInv'
<1>1. UNCHANGED lifeVars /\ UNCHANGED fd_tables /\ fnode_refcnt' = fnode_refcnt /\ fnode_refcnt \in [File -> Nat]
  BY DEF fdVars, LifeInv, FdTypes
<1>2. FaultsOnlyWhenExhausted'
  BY DEF FaultsOnlyWhenExhausted
<1>. QED BY <1>1, <1>2, TablesKept

LEMMA StepCloneVm ==
  ASSUME LifeInv, NEW t \in Task, NEW c \in Cloned, clone_vm(t, c)
  PROVE  LifeInv'
<1>1. InUserSpace(t) /\ CanInit(c) /\ os_task_get_new_pid(c) /\ pid_bitmap # {} /\ FreeTables # {}
  BY DEF clone_vm, CloneInit, CanInit
<1>2. /\ t = task_user /\ t \in Tasks /\ task_main \in Tasks /\ tcb[t].state = "user" /\ Exists(t)
  BY <1>1, Programs DEF InUserSpace
<1>3. PICK T : T = CloneTree(t, c)
  OBVIOUS
<1>4. Joined(T, c, task_main) /\ c \in Task \ Tasks /\ c \notin KernelTask
  BY <1>1, <1>3, Clones
<1>5. ParentOf(c) = task_main
  BY <1>4 DEF ParentOf, KernelTask
<1>6. PICK v \in Vtable : v = tcb[t].vtable
  BY <1>2 DEF LifeInv, VtablesCounted
<1>7. T \in TaskMap /\ T[c] \in TaskRec /\ T[c].state = "ready" /\ c \in Task
  <2>1. NewTask(Min(pid_bitmap), Min(FreeTables)).state = "ready"
    BY <1>1, NewTaskType
  <2>. QED BY <1>4, <2>1 DEF Joined, SameButKin
<1>8. tcb' = [T EXCEPT ![c].vtable = v]
  BY <1>3, <1>6 DEF clone_vm
<1>9. /\ tcb' \in TaskMap /\ tcb'[c] \in TaskRec /\ \A u \in Task \ {c} : tcb'[u] = T[u]
      /\ tcb'[c].pid = T[c].pid /\ tcb'[c].fd_table = T[c].fd_table
      /\ tcb'[c].parent = T[c].parent /\ tcb'[c].child_list = T[c].child_list
      /\ tcb'[c].state = "ready" /\ tcb'[c].vtable = v
  <2>1. PICK q : q = [T[c] EXCEPT !.vtable = v]
    OBVIOUS
  <2>2. /\ q \in TaskRec /\ q.pid = T[c].pid /\ q.fd_table = T[c].fd_table /\ q.parent = T[c].parent
        /\ q.child_list = T[c].child_list /\ q.state = "ready" /\ q.vtable = v
    BY <1>7, <2>1 DEF TaskRec
  <2>3. tcb' = [T EXCEPT ![c] = q]
    BY <1>7, <1>8, <2>1 DEF TaskMap
  <2>4. tcb' \in TaskMap /\ tcb'[c] = q /\ \A u \in Task \ {c} : tcb'[u] = T[u]
    BY <1>7, <2>2, <2>3 DEF TaskMap
  <2>. QED BY <2>2, <2>4
<1>10. /\ vtables \in VtableMap /\ vtables[kernel_pagetable] # NULL /\ vtables[kernel_pagetable].live
       /\ vtables[v] # NULL /\ v # kernel_pagetable
  BY <1>2, <1>6, TaskLifeAssumption DEF LifeInv, LifeTypes, VtablesCounted, VtableMap
<1>11. PICK V : V = Ref(vtables, kernel_pagetable)
  OBVIOUS
<1>12. /\ V \in VtableMap /\ V[kernel_pagetable] # NULL /\ V[kernel_pagetable].live = vtables[kernel_pagetable].live
       /\ \A w \in (Vtable \cup {kernel_pagetable}) \ {kernel_pagetable} : V[w] = vtables[w]
  BY <1>10, <1>11, Counted
<1>13. vtables' = Ref(V, v)
  BY <1>6, <1>11 DEF clone_vm, CloneVm
<1>14. V[v] = vtables[v] /\ V[v] # NULL /\ v \in Vtable \cup {kernel_pagetable}
  BY <1>10, <1>12
<1>15. /\ vtables' \in VtableMap /\ vtables'[v] # NULL /\ vtables'[v].live = V[v].live
       /\ vtables'[v].refcnt = RefcntInc(V[v].refcnt)
       /\ \A w \in (Vtable \cup {kernel_pagetable}) \ {v} : vtables'[w] = V[w]
  BY <1>12, <1>13, <1>14, Counted
<1>16. /\ \A w \in Vtable \cup {kernel_pagetable} :
            vtables[w] # NULL => vtables'[w] # NULL /\ vtables'[w].live = vtables[w].live
  BY <1>10, <1>12, <1>14, <1>15
<1>17. vtables'[tcb'[c].vtable] # NULL /\ (~exhausted => vtables'[tcb'[c].vtable].live)
  <2>1. ~exhausted => vtables[v].live
    BY <1>2, <1>6 DEF LifeInv, TasksKeepTheirVtable
  <2>. QED BY <1>9, <1>14, <1>15, <2>1
<1>18. \A w \in Vtable :
         Exists(task_user) /\ w = tcb[task_user].vtable /\ tcb[task_user].state \in {"stub", "user"} =>
           IF w = tcb'[c].vtable
           THEN /\ c \in Cloned /\ tcb[task_user].state = "user"
                /\ vtables'[w].refcnt = RefcntInc(vtables[w].refcnt)
           ELSE vtables'[w].refcnt = vtables[w].refcnt
  BY <1>2, <1>6, <1>9, <1>14, <1>15
<1>19. /\ fd_tables' = [fd_tables EXCEPT ![Min(FreeTables)] = NewTable]
       /\ UNCHANGED <<fnode_refcnt, fault, exhausted>>
  BY DEF clone_vm
<1>20. /\ tcb'[c].state = IF c \in Cloned THEN "ready" ELSE "started"
       /\ (c \in {task_idle, task_main} => tcb'[c].vtable = kernel_pagetable)
       /\ (ParentOf(c) # NULL => ParentOf(c) \in Tasks)
       /\ Joined(T, c, ParentOf(c))
  BY <1>2, <1>4, <1>5, <1>9 DEF KernelTask
<1>. QED BY <1>1, <1>4, <1>9, <1>15, <1>16, <1>17, <1>18, <1>19, <1>20, Joins

LEMMA StepCloneCopy ==
  ASSUME LifeInv, NEW t \in Task, NEW c \in Cloned, clone_copy(t, c)
  PROVE  LifeInv'
<1>1. /\ InUserSpace(t) /\ CanInit(c) /\ os_task_get_new_pid(c) /\ pid_bitmap # {} /\ FreeTables # {}
      /\ VtableLeft
  BY DEF clone_copy, CloneInit, CanInit
<1>2. /\ t = task_user /\ t \in Tasks /\ task_main \in Tasks /\ tcb[t].state = "user" /\ Exists(t)
  BY <1>1, Programs DEF InUserSpace
<1>3. PICK T : T = CloneTree(t, c)
  OBVIOUS
<1>4. Joined(T, c, task_main) /\ c \in Task \ Tasks /\ c \notin KernelTask
  BY <1>1, <1>3, Clones
<1>5. ParentOf(c) = task_main
  BY <1>4 DEF ParentOf, KernelTask
<1>6. PICK v \in Vtable : v = FreshVtable /\ vtables[v] = NULL /\ v # kernel_pagetable
  BY <1>1, FreshIs
<1>7. T \in TaskMap /\ T[c] \in TaskRec /\ T[c].state = "ready" /\ c \in Task
  <2>1. NewTask(Min(pid_bitmap), Min(FreeTables)).state = "ready"
    BY <1>1, NewTaskType
  <2>. QED BY <1>4, <2>1 DEF Joined, SameButKin
<1>8. /\ tcb' = [T EXCEPT ![c].vtable = v]
      /\ vtables' = [vtables EXCEPT ![v] = [refcnt |-> 0, live |-> TRUE]]
  BY <1>3, <1>6 DEF clone_copy
<1>9. /\ tcb' \in TaskMap /\ tcb'[c] \in TaskRec /\ \A u \in Task \ {c} : tcb'[u] = T[u]
      /\ tcb'[c].pid = T[c].pid /\ tcb'[c].fd_table = T[c].fd_table
      /\ tcb'[c].parent = T[c].parent /\ tcb'[c].child_list = T[c].child_list
      /\ tcb'[c].state = "ready" /\ tcb'[c].vtable = v
  <2>1. PICK q : q = [T[c] EXCEPT !.vtable = v]
    OBVIOUS
  <2>2. /\ q \in TaskRec /\ q.pid = T[c].pid /\ q.fd_table = T[c].fd_table /\ q.parent = T[c].parent
        /\ q.child_list = T[c].child_list /\ q.state = "ready" /\ q.vtable = v
    BY <1>7, <2>1 DEF TaskRec
  <2>3. tcb' = [T EXCEPT ![c] = q]
    BY <1>7, <1>8, <2>1 DEF TaskMap
  <2>4. tcb' \in TaskMap /\ tcb'[c] = q /\ \A u \in Task \ {c} : tcb'[u] = T[u]
    BY <1>7, <2>2, <2>3 DEF TaskMap
  <2>. QED BY <2>2, <2>4
<1>10. PICK r \in VtableRec : r = [refcnt |-> 0, live |-> TRUE] /\ r.refcnt = 0 /\ r.live = TRUE /\ r # NULL
  BY NewVtable
<1>11. /\ vtables \in VtableMap
       /\ \A u \in Tasks : vtables[tcb[u].vtable] # NULL
  BY DEF LifeInv, LifeTypes, VtablesCounted, VtableMap
<1>12. /\ vtables' \in VtableMap /\ vtables'[v] = r /\ r # NULL /\ r.live
       /\ \A w \in (Vtable \cup {kernel_pagetable}) \ {v} : vtables'[w] = vtables[w]
  BY <1>8, <1>10, <1>11, VtableRecord DEF VtableMap
<1>13. /\ \A w \in Vtable \cup {kernel_pagetable} :
            vtables[w] # NULL => vtables'[w] # NULL /\ vtables'[w].live = vtables[w].live
       /\ vtables'[tcb'[c].vtable] # NULL /\ (~exhausted => vtables'[tcb'[c].vtable].live)
  BY <1>6, <1>9, <1>12
<1>14. \A w \in Vtable :
         Exists(task_user) /\ w = tcb[task_user].vtable /\ tcb[task_user].state \in {"stub", "user"} =>
           IF w = tcb'[c].vtable
           THEN /\ c \in Cloned /\ tcb[task_user].state = "user"
                /\ vtables'[w].refcnt = RefcntInc(vtables[w].refcnt)
           ELSE vtables'[w].refcnt = vtables[w].refcnt
  BY <1>2, <1>6, <1>9, <1>11, <1>12
<1>15. /\ fd_tables' = [fd_tables EXCEPT ![Min(FreeTables)] = NewTable]
       /\ UNCHANGED <<fnode_refcnt, fault, exhausted>>
  BY DEF clone_copy
<1>16. /\ tcb'[c].state = IF c \in Cloned THEN "ready" ELSE "started"
       /\ (c \in {task_idle, task_main} => tcb'[c].vtable = kernel_pagetable)
       /\ (ParentOf(c) # NULL => ParentOf(c) \in Tasks)
       /\ Joined(T, c, ParentOf(c))
  BY <1>2, <1>4, <1>5, <1>9 DEF KernelTask
<1>. QED BY <1>1, <1>4, <1>9, <1>12, <1>13, <1>14, <1>15, <1>16, Joins

\* A clone that fails leaves the tree as it was.
LEMMA RemovalUndoesClone ==
  ASSUME LifeInv, NEW t \in Task, InUserSpace(t), NEW c \in Cloned, CanInit(c), NEW v \in Vtable
  PROVE  os_task_remove([CloneTree(t, c) EXCEPT ![c].vtable = v], c) = tcb
<1>1. Joined(CloneTree(t, c), c, task_main) /\ c \in Task \ Tasks /\ c \notin KernelTask /\ task_main \in Tasks
  BY Clones, Programs DEF InUserSpace
<1>2. PICK C : C = CloneTree(t, c)
  OBVIOUS
<1>3. PICK T : T = [C EXCEPT ![c].vtable = v]
  OBVIOUS
<1>4. /\ T \in TaskMap /\ T[c] # NULL /\ T[c].parent = task_main /\ T[c].child_list = <<>>
      /\ \A u \in Task \ {c} : T[u] = C[u]
  <2>1. C \in TaskMap /\ C[c] \in TaskRec /\ C[c].parent = task_main /\ C[c].child_list = <<>>
    BY <1>1, <1>2 DEF Joined
  <2>2. PICK q : q = [C[c] EXCEPT !.vtable = v]
    OBVIOUS
  <2>3. q \in TaskRec /\ q.parent = task_main /\ q.child_list = <<>>
    BY <2>1, <2>2 DEF TaskRec
  <2>4. T = [C EXCEPT ![c] = q]
    BY <1>3, <2>1, <2>2 DEF TaskMap
  <2>5. T \in TaskMap /\ T[c] = q /\ \A u \in Task \ {c} : T[u] = C[u]
    BY <1>1, <2>1, <2>3, <2>4 DEF TaskMap
  <2>. QED BY <2>3, <2>5, TaskRecord
<1>5. PICK l : l = tcb[task_main].child_list
  OBVIOUS
<1>6. l \in Seq(Task) /\ c \notin ToSet(l)
  <2>1. ToSet(l) = Tasks \ {task_idle, task_main}
    BY <1>1, <1>5 DEF LifeInv, Kinship, Tasks
  <2>. QED BY <1>1, <1>5, <2>1, TasksAre, TaskRecord
<1>7. /\ T[task_main] \in TaskRec /\ SameButKin(T[task_main], tcb[task_main]) /\ T[task_main].parent = tcb[task_main].parent
      /\ T[task_main].child_list = Append(l, c) /\ task_main # c
  BY <1>1, <1>2, <1>4, <1>5, TasksAre DEF Joined
<1>8. PICK rm : rm = [T[task_main] EXCEPT !.child_list = l]
  OBVIOUS
<1>9. rm = tcb[task_main]
  <2>1. rm \in TaskRec /\ SameButKin(rm, T[task_main]) /\ rm.parent = T[task_main].parent /\ rm.child_list = l
    BY <1>6, <1>7, <1>8 DEF TaskRec, SameButKin
  <2>2. tcb[task_main] \in TaskRec
    BY <1>1, TasksAre
  <2>. QED BY <1>5, <1>7, <2>1, <2>2 DEF TaskRec, SameButKin
<1>10. PICK L : L = Leave(T, c)
  OBVIOUS
<1>11. L = [T EXCEPT ![task_main] = rm]
  <2>1. L = [T EXCEPT ![task_main].child_list = RemoveAt(@, CHOOSE i \in DOMAIN @ : @[i] = c)]
    BY <1>4, <1>10 DEF Leave
  <2>2. PICK m : m = T[task_main].child_list
    OBVIOUS
  <2>3. RemoveAt(m, CHOOSE i \in DOMAIN m : m[i] = c) = l
    <3>1. c \in Task /\ m = Append(l, c)
      BY <1>1, <1>7, <2>2
    <3>2. \E i \in DOMAIN m : m[i] = c
      BY <1>6, <3>1
    <3>3. PICK i \in DOMAIN m : m[i] = c /\ i = CHOOSE j \in DOMAIN m : m[j] = c
      BY <3>2
    <3>4. RemoveAt(m, i) = l
      BY <1>6, <3>1, <3>3, AppendUndone
    <3>. QED BY <3>3, <3>4
  <2>. QED BY <1>8, <2>1, <2>2, <2>3
<1>12. PICK A : A = [L EXCEPT ![task_main].child_list = @ \o T[c].child_list]
  OBVIOUS
<1>13. A \in TaskMap /\ A[task_main] = tcb[task_main] /\ \A u \in Task \ {task_main} : A[u] = T[u]
  <2>1. L \in TaskMap /\ L[task_main] = rm /\ rm \in TaskRec /\ \A u \in Task \ {task_main} : L[u] = T[u]
    BY <1>1, <1>4, <1>9, <1>11, TasksAre DEF TaskMap
  <2>2. l \o <<>> = l /\ rm.child_list = l
    BY <1>5, <1>6, <1>9
  <2>3. [rm EXCEPT !.child_list = l] = rm
    BY <2>1, <2>2 DEF TaskRec
  <2>4. A = [L EXCEPT ![task_main] = [rm EXCEPT !.child_list = l]]
    BY <1>4, <1>12, <2>1, <2>2
  <2>5. A = [L EXCEPT ![task_main] = rm]
    BY <2>3, <2>4
  <2>. QED BY <1>1, <1>9, <2>1, <2>5, TasksAre DEF TaskMap
<1>14. ASSUME NEW u \in Task \ {c} PROVE A[u] = tcb[u]
  <2>1. CASE u \in Tasks /\ u # task_main
    <3>1. /\ C[u] \in TaskRec /\ SameButKin(C[u], tcb[u]) /\ C[u].parent = tcb[u].parent
          /\ C[u].child_list = tcb[u].child_list /\ tcb[u] \in TaskRec
      BY <1>1, <1>2, <2>1, TasksAre DEF Joined
    <3>2. C[u] = tcb[u]
      BY <3>1 DEF TaskRec, SameButKin
    <3>. QED BY <1>4, <1>13, <1>14, <2>1, <3>2
  <2>2. CASE u \notin Tasks
    <3>1. C[u] = NULL /\ tcb[u] = NULL /\ u # task_main
      BY <1>1, <1>2, <1>14, <2>2, TasksAre DEF Joined
    <3>. QED BY <1>4, <1>13, <1>14, <3>1
  <2>. QED BY <1>13, <2>1, <2>2
<1>15. \A u \in Task \ {c} : ~(A[u] # NULL /\ A[u].parent = c)
  <2>. SUFFICES ASSUME NEW u \in Task \ {c}, A[u] # NULL, A[u].parent = c PROVE FALSE
    OBVIOUS
  <2>1. u \in Tasks /\ tcb[u].parent = c
    BY <1>14, TasksAre
  <2>2. c = ParentOf(u)
    BY <2>1 DEF LifeInv, Kinship
  <2>. QED BY <1>1, <2>2, TaskLifeAssumption DEF ParentOf, KernelTask
<1>16. os_task_remove(T, c) =
         [u \in DOMAIN T |->
           IF u = c THEN NULL
           ELSE IF A[u] # NULL /\ A[u].parent = c THEN [A[u] EXCEPT !.parent = task_main] ELSE A[u]]
  BY <1>4, <1>10, <1>12 DEF os_task_remove
<1>17. \A u \in Task : (IF u = c THEN NULL
           ELSE IF A[u] # NULL /\ A[u].parent = c THEN [A[u] EXCEPT !.parent = task_main] ELSE A[u]) = tcb[u]
  BY <1>1, <1>14, <1>15, TasksAre
<1>18. tcb = [u \in Task |-> tcb[u]] /\ DOMAIN T = Task
  BY <1>4, TasksAre DEF TaskMap
<1>19. os_task_remove(T, c) = [u \in Task |-> tcb[u]]
  BY <1>16, <1>17, <1>18
<1>. QED BY <1>2, <1>3, <1>18, <1>19

-----------------------------------------------------------------------------
(***************************************************************************)
(* Steps that leave the tree as it is.                                     *)
(***************************************************************************)

LEMMA TreeKept ==
  ASSUME LifeInv, Tasks' = Tasks,
         \A u \in Tasks : /\ tcb'[u].parent = tcb[u].parent /\ tcb'[u].child_list = tcb[u].child_list
                          /\ tcb'[u].pid = tcb[u].pid
  PROVE  Kinship' /\ (pid_map' = pid_map /\ pid_bitmap' = pid_bitmap => PidsTaken')
<1>1. \A u : /\ Exists(u)' /\ u \in Task <=> u \in Tasks
             /\ Exists(u) /\ u \in Task <=> u \in Tasks
  BY DEF Tasks, Exists
<1>2. task_idle \in Task /\ task_main \in Task
  BY DEF Task, KernelTask
<1>3. Kinship'
  BY <1>1, <1>2 DEF LifeInv, Kinship
<1>4. pid_map' = pid_map /\ pid_bitmap' = pid_bitmap => PidsTaken'
  BY DEF LifeInv, PidsTaken
<1>. QED BY <1>3, <1>4

\* The descriptor tables stay, and the nodes are counted no less.
LEMMA FdKept ==
  ASSUME LifeInv, Tasks' = Tasks, \A u \in Tasks : tcb'[u].fd_table = tcb[u].fd_table, UNCHANGED fd_tables,
         fnode_refcnt' \in [File -> Nat], \A f \in File : fnode_refcnt'[f] >= fnode_refcnt[f]
  PROVE  FdTypes' /\ TablesExact' /\ DescriptorsKeepTheirIds' /\ (NodesCoverDescriptors => NodesCoverDescriptors')
<1>1. LiveTables' = LiveTables
  BY DEF LiveTables
<1>2. FdTypes' /\ DescriptorsKeepTheirIds' /\ TablesExact'
  BY <1>1 DEF LifeInv, FdTypes, DescriptorsKeepTheirIds, TablesExact
<1>3. NodesCoverDescriptors => NodesCoverDescriptors'
  <2>1. \A f : OpenOn(f)' = OpenOn(f)
    BY <1>1 DEF OpenOn
  <2>2. \A f \in File : fnode_refcnt[f] \in Nat /\ fnode_refcnt'[f] \in Nat /\ Cardinality(OpenOn(f)) \in Nat
    BY OpenOnFinite DEF LifeInv, FdTypes
  <2>. QED BY <2>1, <2>2 DEF NodesCoverDescriptors
<1>. QED BY <1>2, <1>3

\* The first user task gets another page table, descriptor table or state.
LEMMA UserChanges ==
  ASSUME LifeInv, task_user \in Tasks, NEW q \in TaskRec, tcb' = [tcb EXCEPT ![task_user] = q],
         q.pid = tcb[task_user].pid, q.parent = tcb[task_user].parent,
         q.child_list = tcb[task_user].child_list, q.state # "ready",
         UNCHANGED <<pid_bitmap, pid_map>>,
         vtables' \in VtableMap
  PROVE  /\ Tasks' = Tasks /\ tcb'[task_user] = q /\ \A u \in Tasks \ {task_user} : tcb'[u] = tcb[u]
         /\ LifeTypes' /\ Kinship' /\ Roles' /\ PidsTaken'
<1>1. tcb \in TaskMap /\ task_user \in Task /\ Tasks \subseteq Task
  BY TasksAre DEF Task, KernelTask
<1>2. tcb' \in TaskMap /\ tcb'[task_user] = q /\ \A u \in Task \ {task_user} : tcb'[u] = tcb[u]
  BY <1>1 DEF TaskMap
<1>3. Tasks' = Tasks
  BY <1>1, <1>2, TasksAre, TaskRecord DEF Tasks, Exists
<1>4. \A u \in Tasks : /\ tcb'[u].parent = tcb[u].parent /\ tcb'[u].child_list = tcb[u].child_list
                       /\ tcb'[u].pid = tcb[u].pid
  BY <1>1, <1>2
<1>5. Kinship' /\ PidsTaken'
  BY <1>3, <1>4, TreeKept
<1>6. LifeTypes'
  BY <1>2 DEF LifeInv, LifeTypes, TaskMap, VtableMap
<1>7. Roles'
  <2>1. task_user \notin {task_idle, task_main} /\ task_user \notin Cloned
    BY TaskLifeAssumption DEF KernelTask
  <2>. QED BY <1>1, <1>2, <1>3, <2>1 DEF LifeInv, Roles
<1>. QED BY <1>1, <1>2, <1>3, <1>5, <1>6, <1>7

LEMMA StepCloneCopyFails ==
  ASSUME LifeInv, NEW t \in Task, NEW c \in Cloned, clone_copy_fails(t, c)
  PROVE  LifeInv'
<1>1. InUserSpace(t) /\ CanInit(c) /\ os_task_get_new_pid(c) /\ pid_bitmap # {} /\ VtableLeft
  BY DEF clone_copy_fails, CloneInit, CanInit
<1>2. PICK v \in Vtable : v = FreshVtable /\ vtables[v] = NULL /\ v # kernel_pagetable
  BY <1>1, FreshIs
<1>3. tcb' = tcb
  BY <1>1, <1>2, RemovalUndoesClone DEF clone_copy_fails
<1>4. Tasks' = Tasks /\ UNCHANGED fdVars /\ exhausted'
  BY <1>3 DEF Tasks, Exists, clone_copy_fails
<1>5. Kinship' /\ Roles'
  BY <1>3, <1>4, TreeKept DEF LifeInv, Roles
<1>6. FdTypes' /\ TablesExact' /\ DescriptorsKeepTheirIds' /\ (NodesCoverDescriptors => NodesCoverDescriptors')
  <2>1. UNCHANGED fd_tables /\ fnode_refcnt' = fnode_refcnt /\ fnode_refcnt \in [File -> Nat]
    BY <1>4 DEF fdVars, LifeInv, FdTypes
  <2>. QED BY <1>3, <1>4, <2>1, FdKept
<1>7. PICK r \in VtableRec : r = [refcnt |-> 0, live |-> FALSE] /\ r.refcnt = 0 /\ r.live = FALSE /\ r # NULL
  BY NewVtable
<1>8. vtables \in VtableMap
  BY DEF LifeInv, LifeTypes, VtableMap
<1>9. PICK V : V = [vtables EXCEPT ![v] = r]
  OBVIOUS
<1>10. /\ V \in VtableMap /\ V[v] = r
      /\ \A w \in (Vtable \cup {kernel_pagetable}) \ {v} : V[w] = vtables[w]
  BY <1>8, <1>9 DEF VtableMap
<1>11. vtables' = Unref(V, v)
  <2>1. vtables' = ReleaseVtable(V, v)
    BY <1>2, <1>7, <1>9 DEF clone_copy_fails
  <2>. QED BY <1>7, <1>10, <2>1 DEF ReleaseVtable
<1>12. /\ vtables' \in VtableMap
       /\ \A w \in (Vtable \cup {kernel_pagetable}) \ {v} : vtables'[w] = V[w]
  <2>1. V[v] # NULL
    BY <1>7, <1>10
  <2>. QED BY <1>10, <1>11, <2>1, Counted
<1>13. \A w \in Vtable \cup {kernel_pagetable} : vtables[w] # NULL => vtables'[w] = vtables[w]
  BY <1>2, <1>10, <1>12
<1>14. VtablesCounted'
  <2>1. \A u \in Tasks : tcb[u].vtable \in Vtable \cup {kernel_pagetable}
    BY TasksAre, TaskRecord
  <2>. QED BY <1>3, <1>4, <1>13, <2>1 DEF LifeInv, VtablesCounted
<1>15. PidsTaken' /\ pid_bitmap' \in SUBSET Pid /\ pid_map' \in [Pid -> Task \cup {NULL}]
  <2>1. PICK m : m = Min(pid_bitmap)
    OBVIOUS
  <2>2. pid_bitmap \in SUBSET Pid /\ pid_bitmap \in SUBSET Nat /\ pid_map \in [Pid -> Task \cup {NULL}]
    BY TaskLifeAssumption DEF LifeInv, LifeTypes
  <2>3. m \in pid_bitmap
    BY <1>1, <2>1, <2>2, MinIsLeast
  <2>4. pid_bitmap' = pid_bitmap \ {m} /\ pid_map' = [pid_map EXCEPT ![m] = c] /\ c \in Task
    BY <1>1, <2>1 DEF os_task_get_new_pid, Task
  <2>5. \A u \in Tasks : tcb[u].pid \in Pid
    BY TasksAre, TaskRecord
  <2>. QED BY <1>3, <1>4, <2>2, <2>3, <2>4, <2>5 DEF LifeInv, PidsTaken
<1>16. LifeTypes'
  BY <1>3, <1>12, <1>15 DEF LifeInv, LifeTypes, VtableMap
<1>17. TasksKeepTheirVtable' /\ FaultsOnlyWhenExhausted'
  BY <1>4 DEF TasksKeepTheirVtable, FaultsOnlyWhenExhausted
<1>. QED BY <1>5, <1>6, <1>14, <1>15, <1>16, <1>17 DEF LifeInv

LEMMA StepUserEntry ==
  ASSUME LifeInv, os_task_user_entry(task_user)
  PROVE  LifeInv'
<1>1. task_user \in Tasks /\ tcb[task_user] \in TaskRec /\ VtableLeft
  BY TasksAre DEF os_task_user_entry, Tasks, Task, KernelTask
<1>2. PICK v \in Vtable : v = FreshVtable /\ vtables[v] = NULL /\ v # kernel_pagetable
  BY <1>1, FreshIs
<1>3. PICK q : q = [tcb[task_user] EXCEPT !.vtable = v, !.state = "stub"]
  OBVIOUS
<1>4. /\ q \in TaskRec /\ q.pid = tcb[task_user].pid /\ q.parent = tcb[task_user].parent
      /\ q.child_list = tcb[task_user].child_list /\ q.fd_table = tcb[task_user].fd_table
      /\ q.vtable = v /\ q.state = "stub"
  BY <1>1, <1>3 DEF TaskRec
<1>5. tcb' = [tcb EXCEPT ![task_user] = q]
  <2>1. tcb' = [tcb EXCEPT ![task_user].vtable = v, ![task_user].state = "stub"]
    BY <1>2 DEF os_task_user_entry
  <2>2. tcb \in TaskMap /\ task_user \in Task
    BY <1>1, TasksAre
  <2>. QED BY <1>3, <2>1, <2>2 DEF TaskMap
<1>6. PICK r \in VtableRec : r = [refcnt |-> 0, live |-> TRUE] /\ r.refcnt = 0 /\ r.live = TRUE /\ r # NULL
  BY NewVtable
<1>7. vtables \in VtableMap
  BY DEF LifeInv, LifeTypes, VtableMap
<1>8. vtables' = [vtables EXCEPT ![v] = r]
  BY <1>2, <1>6 DEF os_task_user_entry
<1>9. /\ vtables' \in VtableMap /\ vtables'[v] = r
      /\ \A w \in (Vtable \cup {kernel_pagetable}) \ {v} : vtables'[w] = vtables[w]
  BY <1>7, <1>8 DEF VtableMap
<1>10. UNCHANGED <<pid_bitmap, pid_map>> /\ UNCHANGED <<fd_tables, fnode_refcnt, fault, exhausted>>
  BY DEF os_task_user_entry, fdVars
<1>11. /\ Tasks' = Tasks /\ tcb'[task_user] = q /\ \A u \in Tasks \ {task_user} : tcb'[u] = tcb[u]
       /\ LifeTypes' /\ Kinship' /\ Roles' /\ PidsTaken'
  BY <1>1, <1>4, <1>5, <1>9, <1>10, UserChanges
<1>12. FdTypes' /\ TablesExact' /\ DescriptorsKeepTheirIds' /\ (NodesCoverDescriptors => NodesCoverDescriptors')
  <2>1. \A u \in Tasks : tcb'[u].fd_table = tcb[u].fd_table
    BY <1>4, <1>11
  <2>2. fnode_refcnt' = fnode_refcnt /\ fnode_refcnt \in [File -> Nat]
    BY <1>10 DEF LifeInv, FdTypes
  <2>. QED BY <1>10, <1>11, <2>1, <2>2, FdKept
<1>13. \A u \in Tasks : /\ tcb[u].vtable \in Vtable \cup {kernel_pagetable} /\ vtables[tcb[u].vtable] # NULL
                        /\ tcb[u].vtable # v
  BY <1>2, TasksAre, TaskRecord DEF LifeInv, VtablesCounted
<1>14. TasksKeepTheirVtable'
  <2>1. \A u \in Tasks \ {task_user} : vtables'[tcb'[u].vtable] = vtables[tcb[u].vtable]
    BY <1>9, <1>11, <1>13
  <2>2. vtables'[tcb'[task_user].vtable] = r
    BY <1>4, <1>9, <1>11
  <2>. QED BY <1>6, <1>10, <1>11, <2>1, <2>2 DEF LifeInv, TasksKeepTheirVtable
<1>15. VtablesCounted'
  <2>1. \A u \in Tasks' : vtables'[tcb'[u].vtable] # NULL
    BY <1>4, <1>6, <1>9, <1>11, <1>13
  <2>2. \A u \in Tasks' : tcb'[u].state \in {"stub", "user", "stopped"} => tcb'[u].vtable \in Vtable
    BY <1>4, <1>11 DEF LifeInv, VtablesCounted
  <2>3. vtables'[kernel_pagetable] # NULL /\ vtables'[kernel_pagetable].live
    BY <1>2, <1>9 DEF LifeInv, VtablesCounted
  <2>4. Users(v)' = {task_user}
    BY <1>1, <1>4, <1>11, <1>13 DEF Users
  <2>. QED BY <1>4, <1>6, <1>9, <1>11, <2>1, <2>2, <2>3, <2>4 DEF VtablesCounted
<1>16. FaultsOnlyWhenExhausted => FaultsOnlyWhenExhausted'
  BY <1>10 DEF FaultsOnlyWhenExhausted
<1>. QED BY <1>11, <1>12, <1>14, <1>15, <1>16 DEF LifeInv

LEMMA StepExit ==
  ASSUME LifeInv, NEW t \in Task, os_syscall_exit(t)
  PROVE  LifeInv'
<1>1. t = task_user /\ task_user \in Tasks /\ tcb[task_user] \in TaskRec
  BY Programs, TasksAre DEF os_syscall_exit, InUserSpace
<1>2. PICK q : q = [tcb[task_user] EXCEPT !.state = "stopped"]
  OBVIOUS
<1>3. /\ q \in TaskRec /\ q.pid = tcb[task_user].pid /\ q.parent = tcb[task_user].parent
      /\ q.child_list = tcb[task_user].child_list /\ q.fd_table = tcb[task_user].fd_table
      /\ q.vtable = tcb[task_user].vtable /\ q.state = "stopped"
  BY <1>1, <1>2 DEF TaskRec
<1>4. tcb' = [tcb EXCEPT ![task_user] = q]
  <2>1. tcb' = [tcb EXCEPT ![task_user].state = "stopped"]
    BY <1>1 DEF os_syscall_exit
  <2>2. tcb \in TaskMap /\ task_user \in Task
    BY <1>1, TasksAre
  <2>. QED BY <1>2, <2>1, <2>2 DEF TaskMap
<1>5. UNCHANGED <<pid_bitmap, pid_map>> /\ UNCHANGED <<fd_tables, fnode_refcnt, fault, exhausted, vtables>>
  BY DEF os_syscall_exit, fdVars
<1>6. vtables' \in VtableMap
  BY <1>5 DEF LifeInv, LifeTypes, VtableMap
<1>7. /\ Tasks' = Tasks /\ tcb'[task_user] = q /\ \A u \in Tasks \ {task_user} : tcb'[u] = tcb[u]
      /\ LifeTypes' /\ Kinship' /\ Roles' /\ PidsTaken'
  BY <1>1, <1>3, <1>4, <1>5, <1>6, UserChanges
<1>8. FdTypes' /\ TablesExact' /\ DescriptorsKeepTheirIds' /\ (NodesCoverDescriptors => NodesCoverDescriptors')
  <2>1. \A u \in Tasks : tcb'[u].fd_table = tcb[u].fd_table
    BY <1>3, <1>7
  <2>2. fnode_refcnt' = fnode_refcnt /\ fnode_refcnt \in [File -> Nat]
    BY <1>5 DEF LifeInv, FdTypes
  <2>. QED BY <1>5, <1>7, <2>1, <2>2, FdKept
<1>9. \A u \in Tasks : tcb'[u].vtable = tcb[u].vtable
  BY <1>3, <1>7
<1>10. tcb[task_user].vtable \in Vtable
  BY <1>1, Programs DEF os_syscall_exit, InUserSpace, LifeInv, VtablesCounted
<1>11. VtablesCounted' /\ TasksKeepTheirVtable'
  BY <1>3, <1>5, <1>7, <1>9, <1>10 DEF LifeInv, VtablesCounted, TasksKeepTheirVtable
<1>12. FaultsOnlyWhenExhausted => FaultsOnlyWhenExhausted'
  BY <1>5 DEF FaultsOnlyWhenExhausted
<1>. QED BY <1>7, <1>8, <1>11, <1>12 DEF LifeInv

\* The tasks stay as they are; of the page tables, those in use stay records.
LEMMA TasksStay ==
  ASSUME LifeInv, UNCHANGED <<tcb, pid_bitmap, pid_map, fd_tables>>,
         fnode_refcnt' \in [File -> Nat], \A f \in File : fnode_refcnt'[f] >= fnode_refcnt[f],
         vtables' \in VtableMap,
         \A w \in Vtable \cup {kernel_pagetable} :
           vtables[w] # NULL => vtables'[w] # NULL /\ (vtables'[w] = vtables[w] \/ (w # kernel_pagetable /\ exhausted')),
         exhausted => exhausted', FaultsOnlyWhenExhausted'
  PROVE  LifeInv'
<1>1. Tasks' = Tasks /\ (\A v : Users(v)' = Users(v)) /\ \A u : Exists(u)' <=> Exists(u)
  BY DEF Tasks, Exists, Users
<1>2. Kinship' /\ PidsTaken' /\ Roles'
  BY <1>1, TreeKept DEF LifeInv, Roles
<1>3. FdTypes' /\ TablesExact' /\ DescriptorsKeepTheirIds' /\ (NodesCoverDescriptors => NodesCoverDescriptors')
  BY <1>1, FdKept
<1>4. LifeTypes'
  BY DEF LifeInv, LifeTypes, VtableMap
<1>5. \A u \in Tasks : tcb[u].vtable \in Vtable \cup {kernel_pagetable} /\ vtables[tcb[u].vtable] # NULL
  BY TasksAre, TaskRecord DEF LifeInv, VtablesCounted
<1>6. TasksKeepTheirVtable'
  BY <1>1, <1>5 DEF LifeInv, TasksKeepTheirVtable
<1>7. VtablesCounted'
  <2>1. \A u \in Tasks : vtables'[tcb[u].vtable] # NULL
    BY <1>5
  <2>2. vtables'[kernel_pagetable] # NULL /\ vtables'[kernel_pagetable].live
    BY DEF LifeInv, VtablesCounted
  <2>3. ~exhausted' /\ Exists(task_user) => vtables'[tcb[task_user].vtable] = vtables[tcb[task_user].vtable]
    BY <1>5 DEF Tasks, Task, KernelTask
  <2>4. VtablesCounted
    BY DEF LifeInv
  <2>5. \A u \in Tasks : tcb[u].state \in {"stub", "user", "stopped"} => tcb[u].vtable \in Vtable
    BY <2>4 DEF VtablesCounted
  <2>6. ~exhausted' /\ Exists(task_user) =>
         LET v == tcb[task_user].vtable
         IN /\ tcb[task_user].state = "stub" => vtables'[v].refcnt = 0 /\ Users(v) = {task_user}
            /\ tcb[task_user].state = "user" => vtables'[v].refcnt = Cardinality(Users(v))
    BY <2>3, <2>4 DEF VtablesCounted
  <2>. QED BY <1>1, <2>1, <2>2, <2>5, <2>6 DEF VtablesCounted
<1>. QED BY <1>2, <1>3, <1>4, <1>6, <1>7 DEF LifeInv

LEMMA StepExecRefused ==
  ASSUME LifeInv, NEW t \in Task, NEW f \in File, exec_refused(t, f)
  PROVE  LifeInv'
<1>1. PICK v \in Vtable : v = FreshVtable /\ vtables[v] = NULL /\ v # kernel_pagetable
  BY FreshIs DEF exec_refused
<1>2. PICK r \in VtableRec : r = [refcnt |-> 0, live |-> TRUE] /\ r.refcnt = 0 /\ r.live = TRUE /\ r # NULL
  BY NewVtable
<1>3. vtables \in VtableMap
  BY DEF LifeInv, LifeTypes, VtableMap
<1>4. vtables' \in {vtables, [vtables EXCEPT ![v] = r]}
  BY <1>1, <1>2 DEF exec_refused
<1>5. vtables' \in VtableMap /\ \A w \in (Vtable \cup {kernel_pagetable}) \ {v} : vtables'[w] = vtables[w]
  BY <1>3, <1>4 DEF VtableMap
<1>6. \A w \in Vtable \cup {kernel_pagetable} :
        vtables[w] # NULL => vtables'[w] # NULL /\ (vtables'[w] = vtables[w] \/ (w # kernel_pagetable /\ exhausted'))
  BY <1>1, <1>5
<1>7. fnode_refcnt \in [File -> Nat] /\ fnode_refcnt' = [fnode_refcnt EXCEPT ![f] = @ + 1]
  BY DEF exec_refused, NodeOpened, LifeInv, FdTypes
<1>8. fnode_refcnt' \in [File -> Nat] /\ \A g \in File : fnode_refcnt'[g] >= fnode_refcnt[g]
  BY <1>7
<1>9. FaultsOnlyWhenExhausted'
  BY DEF exec_refused, ExecReturns, FaultsOnlyWhenExhausted
<1>10. UNCHANGED <<tcb, pid_bitmap, pid_map, fd_tables>> /\ (exhausted => exhausted')
  BY DEF exec_refused
<1>. QED BY <1>5, <1>6, <1>8, <1>9, <1>10, TasksStay

\* The page table of a program loses a reference and, with the last one, its memory.
LEMMA OldVtable ==
  ASSUME LifeInv, NEW t \in Task, Exists(t), tcb[t].state \in {"stub", "user"}
  PROVE  LET V == ReleaseOldVtable(t)
             v == tcb[t].vtable
         IN /\ v \in Vtable /\ v # kernel_pagetable /\ vtables[v] # NULL
            /\ V \in VtableMap /\ V[v] # NULL /\ V[v].live \in {vtables[v].live, FALSE}
            /\ V[v].live = FALSE => vtables[v].live = FALSE \/ RefcntDec(vtables[v].refcnt) = 0
            /\ \A w \in (Vtable \cup {kernel_pagetable}) \ {v} : V[w] = vtables[w]
<1>1. t \in Tasks
  BY DEF Tasks
<1>2. PICK v \in Vtable : v = tcb[t].vtable
  BY <1>1 DEF LifeInv, VtablesCounted
<1>3. vtables[v] # NULL /\ v # kernel_pagetable /\ vtables \in VtableMap /\ v \in Vtable \cup {kernel_pagetable}
  BY <1>1, <1>2, TaskLifeAssumption DEF LifeInv, LifeTypes, VtableMap, VtablesCounted
<1>4. PICK U : U = Unref(vtables, v)
  OBVIOUS
<1>5. /\ U \in VtableMap /\ U[v].refcnt = RefcntDec(vtables[v].refcnt) /\ U[v] \in VtableRec /\ U[v] # NULL
      /\ U[v].live = vtables[v].live
      /\ \A w \in (Vtable \cup {kernel_pagetable}) \ {v} : U[w] = vtables[w]
  BY <1>3, <1>4, Counted
<1>6. PICK V : V = ReleaseOldVtable(t)
  OBVIOUS
<1>7. V = IF U[v].refcnt = 0 THEN [U EXCEPT ![v].live = FALSE] ELSE U
  BY <1>2, <1>4, <1>6 DEF ReleaseOldVtable
<1>8. CASE U[v].refcnt = 0
  <2>1. PICK r : r = [U[v] EXCEPT !.live = FALSE]
    OBVIOUS
  <2>2. r \in VtableRec /\ r.live = FALSE /\ r # NULL
    BY <1>5, <2>1, TaskLifeAssumption DEF VtableRec
  <2>3. V = [U EXCEPT ![v] = r]
    BY <1>7, <1>8, <2>1
  <2>4. V \in VtableMap /\ V[v] = r /\ \A w \in (Vtable \cup {kernel_pagetable}) \ {v} : V[w] = U[w]
    BY <1>3, <1>5, <2>2, <2>3 DEF VtableMap
  <2>. QED BY <1>2, <1>3, <1>5, <1>6, <1>8, <2>2, <2>4
<1>9. CASE U[v].refcnt # 0
  <2>1. vtables[v] \in VtableRec /\ vtables[v].live \in BOOLEAN
    BY <1>3, VtableRecord DEF VtableMap
  <2>. QED BY <1>2, <1>3, <1>5, <1>6, <1>7, <1>9, <2>1
<1>. QED BY <1>8, <1>9

LEMMA StepExecFailsLate ==
  ASSUME LifeInv, NEW t \in Task, NEW f \in File, NEW n \in 0..2, exec_fails_late(t, f, n)
  PROVE  LifeInv'
<1>1. Exists(t) /\ tcb[t].state \in {"stub", "user"} /\ exhausted' /\ UNCHANGED <<tcb, pid_bitmap, pid_map, fd_tables>>
  BY DEF exec_fails_late, ExecMay
<1>2. PICK v : v = tcb[t].vtable
  OBVIOUS
<1>3. PICK V : V = ReleaseOldVtable(t)
  OBVIOUS
<1>4. /\ v \in Vtable /\ v # kernel_pagetable /\ V \in VtableMap /\ V[v] # NULL
      /\ \A w \in (Vtable \cup {kernel_pagetable}) \ {v} : V[w] = vtables[w]
  BY <1>1, <1>2, <1>3, OldVtable
<1>5. vtables' = V
  BY <1>3 DEF exec_fails_late
<1>6. \A w \in Vtable \cup {kernel_pagetable} :
        vtables[w] # NULL => vtables'[w] # NULL /\ (vtables'[w] = vtables[w] \/ (w # kernel_pagetable /\ exhausted'))
  BY <1>1, <1>4, <1>5
<1>7. fnode_refcnt \in [File -> Nat]
      /\ fnode_refcnt' = [g \in File |-> fnode_refcnt[g] + (IF g = f THEN 1 ELSE 0) + (IF g = Console THEN n ELSE 0)]
  BY DEF exec_fails_late, ExecOpens, LifeInv, FdTypes
<1>8. fnode_refcnt' \in [File -> Nat] /\ \A g \in File : fnode_refcnt'[g] >= fnode_refcnt[g]
  BY <1>7
<1>9. FaultsOnlyWhenExhausted'
  BY <1>1 DEF FaultsOnlyWhenExhausted
<1>. QED BY <1>1, <1>4, <1>5, <1>6, <1>8, <1>9, TasksStay

\* Standard input, output and error are open on the console.
LEMMA StdTableIs ==
  /\ StdTable \in FdTable /\ StdTable.refcnt = 1 /\ StdTable.free = Fdid \ {0, 1, 2}
  /\ DOMAIN StdTable.map = {0, 1, 2} /\ \A i \in {0, 1, 2} : StdTable.map[i].file = Console
<1>1. PICK n \in FdTable : n = NewTable
  BY NewTableType
<1>2. n.refcnt = 1 /\ n.free = Fdid /\ DOMAIN n.map = {}
  BY <1>1, NewTableType
<1>3. PICK a : a = [n EXCEPT !.free = Fdid \ {0, 1, 2}]
  OBVIOUS
<1>4. a \in FdTable
  <2>1. NoEntry \in [{} -> Descriptor] /\ Fdid \ {0, 1, 2} \in SUBSET Fdid /\ 0 \in Nat
    BY DEF NoEntry
  <2>. QED BY <1>3, <2>1, TableUpdated
<1>5. a.refcnt = 1 /\ a.free = Fdid \ {0, 1, 2} /\ DOMAIN a.map = {}
  BY <1>2, <1>3 DEF FdTable
<1>6. PICK i0 \in Fdid, i1 \in Fdid, i2 \in Fdid : i0 = 0 /\ i1 = 1 /\ i2 = 2
  BY FdAssumption DEF Fdid
<1>7. PICK b \in FdTable : b = WithDescriptor(a, i0, Console)
  BY <1>4, FdAssumption, DescriptorAdded
<1>8. b \in FdTable /\ b.refcnt = 1 /\ b.free = Fdid \ {0, 1, 2} /\ DOMAIN b.map = {0}
       /\ \A i \in {0} : b.map[i].file = Console
  <2>1. b \in FdTable /\ b.refcnt = a.refcnt /\ b.free = a.free /\ DOMAIN b.map = DOMAIN a.map \cup {i0}
        /\ b.map[i0] = [file |-> Console, open |-> TRUE]
        /\ \A i \in DOMAIN a.map \ {i0} : b.map[i] = a.map[i]
    BY <1>4, <1>7, FdAssumption, DescriptorAdded
  <2>. QED BY <1>5, <1>6, <2>1
<1>9. PICK c \in FdTable : c = WithDescriptor(b, i1, Console)
  BY FdAssumption, DescriptorAdded
<1>10. c \in FdTable /\ c.refcnt = 1 /\ c.free = Fdid \ {0, 1, 2} /\ DOMAIN c.map = {0, 1}
       /\ \A i \in {0, 1} : c.map[i].file = Console
  <2>1. c \in FdTable /\ c.refcnt = b.refcnt /\ c.free = b.free /\ DOMAIN c.map = DOMAIN b.map \cup {i1}
        /\ c.map[i1] = [file |-> Console, open |-> TRUE]
        /\ \A i \in DOMAIN b.map \ {i1} : c.map[i] = b.map[i]
    BY <1>9, FdAssumption, DescriptorAdded
  <2>. QED BY <1>6, <1>8, <2>1
<1>11. PICK d \in FdTable : d = WithDescriptor(c, i2, Console)
  BY FdAssumption, DescriptorAdded
<1>12. d \in FdTable /\ d.refcnt = 1 /\ d.free = Fdid \ {0, 1, 2} /\ DOMAIN d.map = {0, 1, 2}
       /\ \A i \in {0, 1, 2} : d.map[i].file = Console
  <2>1. d \in FdTable /\ d.refcnt = c.refcnt /\ d.free = c.free /\ DOMAIN d.map = DOMAIN c.map \cup {i2}
        /\ d.map[i2] = [file |-> Console, open |-> TRUE]
        /\ \A i \in DOMAIN c.map \ {i2} : d.map[i] = c.map[i]
    BY <1>11, FdAssumption, DescriptorAdded
  <2>. QED BY <1>6, <1>10, <2>1
<1>13. StdTable = d
  BY <1>1, <1>2, <1>3, <1>6, <1>7, <1>9, <1>11 DEF StdTable
<1>. QED BY <1>12, <1>13

\* The program's descriptor table x0 is replaced by the free table x, in which the
\* console is open three times.
LEMMA TableReplaced ==
  ASSUME LifeInv, NEW t \in Tasks, NEW x0, x0 = tcb[t].fd_table, NEW x \in FreeTables,
         fd_tables' = os_file_fd_table_remove(x0, [fd_tables EXCEPT ![x] = StdTable]),
         Tasks' = Tasks, tcb'[t].fd_table = x, \A u \in Tasks \ {t} : tcb'[u].fd_table = tcb[u].fd_table,
         fnode_refcnt' \in [File -> Nat], \A f \in File : fnode_refcnt'[f] >= fnode_refcnt[f],
         fnode_refcnt'[Console] >= fnode_refcnt[Console] + 3
  PROVE  FdTypes' /\ TablesExact' /\ DescriptorsKeepTheirIds' /\ (NodesCoverDescriptors => NodesCoverDescriptors')
<1>1. PICK std \in FdTable : std = StdTable /\ std.refcnt = 1 /\ std.free = Fdid \ {0, 1, 2}
                             /\ DOMAIN std.map = {0, 1, 2} /\ \A i \in {0, 1, 2} : std.map[i].file = Console
  BY StdTableIs
<1>2. /\ x \in Table /\ fd_tables[x] = NULL /\ x0 \in LiveTables /\ x0 \in Table /\ fd_tables[x0] # NULL
      /\ fd_tables[x0].refcnt = 1 /\ x # x0 /\ std # NULL
  BY OwnTable, FdAssumption DEF FreeTables, LiveTables
<1>3. fd_tables \in [Table -> FdTable \cup {NULL}]
  BY DEF LifeInv, FdTypes
<1>4. PICK F : F = [fd_tables EXCEPT ![x] = std]
  OBVIOUS
<1>5. F[x0] = fd_tables[x0] /\ F \in [Table -> FdTable \cup {NULL}] /\ F[x] = std
      /\ \A y \in Table \ {x} : F[y] = fd_tables[y]
  BY <1>2, <1>3, <1>4
<1>6. fd_tables' = [F EXCEPT ![x0] = NULL]
  BY <1>1, <1>2, <1>4, <1>5 DEF os_file_fd_table_remove
<1>7. /\ fd_tables' \in [Table -> FdTable \cup {NULL}] /\ fd_tables'[x] = std /\ fd_tables'[x0] = NULL
      /\ \A y \in Table \ {x, x0} : fd_tables'[y] = fd_tables[y]
  BY <1>2, <1>5, <1>6, ZenonT(30)
<1>8. LiveTables' = (LiveTables \ {x0}) \cup {x} /\ x \notin LiveTables /\ LiveTables \subseteq Table
  BY <1>2, <1>7, ZenonT(30) DEF LiveTables
<1>9. FdTypes'
  BY <1>7 DEF FdTypes
<1>10. DescriptorsKeepTheirIds'
  <2>1. DOMAIN std.map \cap std.free = {}
    BY <1>1
  <2>2. \A y \in LiveTables : DOMAIN fd_tables[y].map \cap fd_tables[y].free = {}
    BY DEF LifeInv, DescriptorsKeepTheirIds
  <2>. QED BY <1>7, <1>8, <2>1, <2>2 DEF DescriptorsKeepTheirIds
<1>11. TablesExact'
  <2>1. \A u, w \in Tasks : tcb[u].fd_table = tcb[w].fd_table => u = w
    BY DEF LifeInv, TablesExact
  <2>2. LiveTables = {tcb[u].fd_table : u \in Tasks} /\ \A y \in LiveTables : fd_tables[y].refcnt = 1
    BY DEF LifeInv, TablesExact
  <2>3. LiveTables' = {tcb'[u].fd_table : u \in Tasks}
    <3>1. \A y \in LiveTables' : \E u \in Tasks : y = tcb'[u].fd_table
      BY <1>8, <2>2
    <3>2. \A u \in Tasks : tcb'[u].fd_table \in LiveTables'
      BY <1>8, <2>1, <2>2
    <3>. QED BY <3>1, <3>2
  <2>4. \A y \in LiveTables' : fd_tables'[y].refcnt = 1
    BY <1>1, <1>7, <1>8, <2>2
  <2>5. \A u, w \in Tasks : tcb'[u].fd_table = tcb'[w].fd_table => u = w
    BY <1>8, <2>1, <2>2
  <2>. QED BY <2>3, <2>4, <2>5 DEF TablesExact
<1>12. ASSUME NodesCoverDescriptors PROVE NodesCoverDescriptors'
  <2>. SUFFICES ASSUME NEW f \in File PROVE fnode_refcnt'[f] >= Cardinality(OpenOn(f)')
    BY DEF NodesCoverDescriptors
  <2>1. /\ fnode_refcnt[f] >= Cardinality(OpenOn(f)) /\ fnode_refcnt[f] \in Nat
        /\ IsFiniteSet(OpenOn(f)) /\ Cardinality(OpenOn(f)) \in Nat
    BY <1>12, OpenOnFinite DEF LifeInv, FdTypes, NodesCoverDescriptors
  <2>2. \A d \in OpenOn(f)' : /\ d \in Table \X Fdid
                              /\ d[1] # x => d \in OpenOn(f)
                              /\ d[1] = x => d[2] \in {0, 1, 2} /\ std.map[d[2]] = [file |-> f, open |-> TRUE]
    <3>. SUFFICES ASSUME NEW d \in OpenOn(f)'
                  PROVE  /\ d \in Table \X Fdid
                         /\ d[1] # x => d \in OpenOn(f)
                         /\ d[1] = x => d[2] \in {0, 1, 2} /\ std.map[d[2]] = [file |-> f, open |-> TRUE]
      OBVIOUS
    <3>1. /\ d \in LiveTables' \X Fdid /\ d[2] \in DOMAIN fd_tables'[d[1]].map
          /\ fd_tables'[d[1]].map[d[2]] = [file |-> f, open |-> TRUE]
      BY DEF OpenOn
    <3>2. d[1] \in LiveTables' /\ d[2] \in Fdid /\ d[1] \in Table /\ d \in Table \X Fdid
      BY <1>2, <1>8, <3>1
    <3>3. CASE d[1] = x
      BY <1>1, <1>7, <3>1, <3>2, <3>3
    <3>4. CASE d[1] # x
      <4>1. d[1] \in LiveTables /\ fd_tables'[d[1]] = fd_tables[d[1]]
        BY <1>7, <1>8, <3>2, <3>4
      <4>2. d \in LiveTables \X Fdid
        BY <3>2, <4>1
      <4>. QED BY <3>1, <3>2, <3>4, <4>1, <4>2 DEF OpenOn
    <3>. QED BY <3>3, <3>4
  <2>3. CASE f = Console
    <3>1. \A d \in Table \X Fdid : d = <<d[1], d[2]>>
      OBVIOUS
    <3>2. OpenOn(f)' \subseteq OpenOn(f) \cup {<<x, 0>>, <<x, 1>>, <<x, 2>>}
      BY <2>2, <3>1
    <3>3. PICK a, b, c : a = <<x, 0>> /\ b = <<x, 1>> /\ c = <<x, 2>>
      OBVIOUS
    <3>4. OpenOn(f)' \subseteq OpenOn(f) \cup {a, b, c}
      BY <3>2, <3>3
    <3>5. Cardinality(OpenOn(f)') <= Cardinality(OpenOn(f)) + 3 /\ Cardinality(OpenOn(f)') \in Nat
      BY <2>1, <3>4, ThreeMore
    <3>. QED BY <2>1, <2>3, <3>5
  <2>4. CASE f # Console
    <3>1. \A d \in OpenOn(f)' : d[1] # x
      <4>. SUFFICES ASSUME NEW d \in OpenOn(f)', d[1] = x PROVE FALSE
        OBVIOUS
      <4>1. std.map[d[2]].file = Console /\ std.map[d[2]].file = f
        BY <1>1, <2>2
      <4>. QED BY <2>4, <4>1
    <3>2. OpenOn(f)' \subseteq OpenOn(f)
      BY <2>2, <3>1
    <3>3. Cardinality(OpenOn(f)') <= Cardinality(OpenOn(f)) /\ Cardinality(OpenOn(f)') \in Nat
      BY <2>1, <3>2, FS_Subset, FS_CardinalityType
    <3>. QED BY <2>1, <3>3
  <2>. QED BY <2>3, <2>4
<1>. QED BY <1>9, <1>10, <1>11, <1>12

LEMMA StepExecOk ==
  ASSUME LifeInv, NEW t \in Task, NEW f \in File, exec_ok(t, f)
  PROVE  LifeInv'
<1>1. Exists(t) /\ tcb[t].state \in {"stub", "user"} /\ VtableLeft /\ FreeTables # {} /\ UNCHANGED <<pid_bitmap, pid_map>>
      /\ UNCHANGED <<fault, exhausted>>
  BY DEF exec_ok, ExecMay
<1>2. t = task_user /\ task_user \in Tasks /\ tcb[task_user] \in TaskRec /\ tcb \in TaskMap /\ task_user \in Task
  BY <1>1, Programs, TasksAre
<1>3. PICK v \in Vtable : v = FreshVtable /\ vtables[v] = NULL /\ v # kernel_pagetable
  BY <1>1, FreshIs
<1>4. PICK x \in FreeTables : x = Min(FreeTables)
  <2>1. FreeTables \in SUBSET Nat
    BY FdAssumption DEF FreeTables
  <2>. QED BY <1>1, <2>1, MinIsLeast
<1>5. PICK q : q = [tcb[task_user] EXCEPT !.vtable = v, !.fd_table = x, !.state = "user"]
  OBVIOUS
<1>6. /\ q \in TaskRec /\ q.pid = tcb[task_user].pid /\ q.parent = tcb[task_user].parent
      /\ q.child_list = tcb[task_user].child_list /\ q.fd_table = x
      /\ q.vtable = v /\ q.state = "user"
  <2>1. x \in Table
    BY DEF FreeTables
  <2>. QED BY <1>2, <1>5, <2>1 DEF TaskRec
<1>7. tcb' = [tcb EXCEPT ![task_user] = q]
  <2>1. tcb' = [tcb EXCEPT ![task_user].vtable = v, ![task_user].fd_table = x, ![task_user].state = "user"]
    BY <1>2, <1>3, <1>4 DEF exec_ok
  <2>. QED BY <1>2, <1>5, <2>1 DEF TaskMap
<1>8. PICK r \in VtableRec : r = [refcnt |-> 1, live |-> TRUE] /\ r.refcnt = 1 /\ r.live = TRUE /\ r # NULL
  BY NewVtable
<1>9. PICK o : o = tcb[task_user].vtable
  OBVIOUS
<1>10. PICK V : V = ReleaseOldVtable(t)
  OBVIOUS
<1>11. /\ o \in Vtable /\ o # kernel_pagetable /\ vtables[o] # NULL
       /\ V \in VtableMap /\ V[o] # NULL /\ V[o].live \in {vtables[o].live, FALSE}
       /\ V[o].live = FALSE => vtables[o].live = FALSE \/ RefcntDec(vtables[o].refcnt) = 0
       /\ \A w \in (Vtable \cup {kernel_pagetable}) \ {o} : V[w] = vtables[w]
  BY <1>1, <1>2, <1>9, <1>10, OldVtable
<1>12. vtables' = [V EXCEPT ![v] = r]
  BY <1>3, <1>8, <1>10 DEF exec_ok
<1>13. vtables' \in VtableMap /\ vtables'[v] = r /\ \A w \in (Vtable \cup {kernel_pagetable}) \ {v} : vtables'[w] = V[w]
  BY <1>11, <1>12 DEF VtableMap
<1>14. /\ Tasks' = Tasks /\ tcb'[task_user] = q /\ \A u \in Tasks \ {task_user} : tcb'[u] = tcb[u]
       /\ LifeTypes' /\ Kinship' /\ Roles' /\ PidsTaken'
  <2>1. q.state # "ready"
    BY <1>6
  <2>. QED BY <1>1, <1>2, <1>6, <1>7, <1>13, <2>1, UserChanges
<1>15. FdTypes' /\ TablesExact' /\ DescriptorsKeepTheirIds' /\ (NodesCoverDescriptors => NodesCoverDescriptors')
  <2>1. fd_tables' = os_file_fd_table_remove(tcb[task_user].fd_table, [fd_tables EXCEPT ![x] = StdTable])
    BY <1>2, <1>4 DEF exec_ok, InstallTable
  <2>2. fnode_refcnt \in [File -> Nat] /\ Console \in File
        /\ fnode_refcnt' = [g \in File |-> fnode_refcnt[g] + (IF g = f THEN 1 ELSE 0) + (IF g = Console THEN 3 ELSE 0)]
    BY FdAssumption DEF exec_ok, ExecOpens, LifeInv, FdTypes
  <2>3. fnode_refcnt' \in [File -> Nat] /\ (\A g \in File : fnode_refcnt'[g] >= fnode_refcnt[g])
        /\ fnode_refcnt'[Console] >= fnode_refcnt[Console] + 3
    BY <2>2
  <2>4. tcb'[task_user].fd_table = x /\ \A u \in Tasks \ {task_user} : tcb'[u].fd_table = tcb[u].fd_table
    BY <1>6, <1>14
  <2>. QED BY <1>2, <1>14, <2>1, <2>3, <2>4, TableReplaced
<1>16. \A u \in Tasks : /\ tcb[u].vtable \in Vtable \cup {kernel_pagetable} /\ vtables[tcb[u].vtable] # NULL
                        /\ tcb[u].vtable # v
  BY <1>3, TasksAre, TaskRecord DEF LifeInv, VtablesCounted
<1>17. \A u \in Tasks \ {task_user} : tcb[u].vtable # o => vtables'[tcb'[u].vtable] = vtables[tcb[u].vtable]
  BY <1>11, <1>13, <1>14, <1>16
<1>18. \A u \in Tasks \ {task_user} : tcb[u].vtable = o => vtables'[tcb'[u].vtable] = V[o]
  BY <1>11, <1>13, <1>14, <1>16
<1>19. vtables'[tcb'[task_user].vtable] = r
  BY <1>6, <1>13, <1>14
<1>20. ASSUME ~exhausted, NEW u \in Tasks \ {task_user}, tcb[u].vtable = o PROVE V[o].live
  <2>1. vtables[o].live /\ vtables[o].live \in BOOLEAN
    <3>1. vtables[o] \in VtableRec
      BY <1>11 DEF LifeInv, LifeTypes
    <3>. QED BY <1>2, <1>9, <1>20, <3>1, VtableRecord DEF LifeInv, TasksKeepTheirVtable
  <2>2. u \in Users(o) /\ task_user \in Users(o)
    BY <1>2, <1>9, <1>20 DEF Users
  <2>3. /\ tcb[task_user].state = "stub" => vtables[o].refcnt = 0 /\ Users(o) = {task_user}
        /\ tcb[task_user].state = "user" => vtables[o].refcnt = Cardinality(Users(o))
    BY <1>1, <1>2, <1>9, <1>20 DEF LifeInv, VtablesCounted
  <2>4. vtables[o].refcnt = Cardinality(Users(o))
    BY <1>1, <1>2, <1>20, <2>2, <2>3
  <2>5. IsFiniteSet(Users(o)) /\ IsFiniteSet(Users(o) \ {u})
    BY UsersFinite, FS_RemoveElement
  <2>6. Cardinality(Users(o)) = Cardinality(Users(o) \ {u}) + 1 /\ Cardinality(Users(o) \ {u}) \in Nat \ {0}
    <3>1. task_user \in Users(o) \ {u}
      BY <1>20, <2>2
    <3>2. Cardinality(Users(o) \ {u}) \in Nat \ {0}
      BY <2>5, <3>1, CountRemoved
    <3>3. Cardinality(Users(o) \ {u}) = Cardinality(Users(o)) - 1 /\ Cardinality(Users(o)) \in Nat \ {0}
      BY <2>2, <2>5, CountRemoved
    <3>. QED BY <3>2, <3>3
  <2>7. RefcntDec(vtables[o].refcnt) # 0
    BY <2>4, <2>6 DEF RefcntDec
  <2>. QED BY <1>11, <2>1, <2>7
<1>21. TasksKeepTheirVtable'
  BY <1>1, <1>8, <1>14, <1>17, <1>18, <1>19, <1>20, <1>11 DEF LifeInv, TasksKeepTheirVtable
<1>22. VtablesCounted'
  <2>1. \A u \in Tasks' : vtables'[tcb'[u].vtable] # NULL
    BY <1>8, <1>11, <1>14, <1>16, <1>17, <1>18, <1>19
  <2>2. \A u \in Tasks' : tcb'[u].state \in {"stub", "user", "stopped"} => tcb'[u].vtable \in Vtable
    BY <1>6, <1>14 DEF LifeInv, VtablesCounted
  <2>3. vtables'[kernel_pagetable] # NULL /\ vtables'[kernel_pagetable].live
    BY <1>3, <1>11, <1>13 DEF LifeInv, VtablesCounted
  <2>4. Users(v)' = {task_user}
    BY <1>2, <1>6, <1>14, <1>16 DEF Users
  <2>5. Cardinality(Users(v)') = 1
    BY <2>4, FS_Singleton
  <2>6. vtables'[v].refcnt = 1 /\ tcb'[task_user].state = "user" /\ tcb'[task_user].vtable = v
    BY <1>6, <1>8, <1>13, <1>14
  <2>. QED BY <2>1, <2>2, <2>3, <2>5, <2>6 DEF VtablesCounted
<1>23. FaultsOnlyWhenExhausted => FaultsOnlyWhenExhausted'
  BY <1>1 DEF FaultsOnlyWhenExhausted
<1>. QED BY <1>14, <1>15, <1>21, <1>22, <1>23 DEF LifeInv

LEMMA StepExecOnFreedTable ==
  ASSUME LifeInv, NEW t \in Task, exec_on_freed_table(t)
  PROVE  LifeInv'
<1>1. UNCHANGED lifeVars /\ UNCHANGED fd_tables /\ fnode_refcnt' = fnode_refcnt /\ fnode_refcnt \in [File -> Nat]
      /\ exhausted' = exhausted
  BY DEF exec_on_freed_table, fdVars, LifeInv, FdTypes
<1>2. FaultsOnlyWhenExhausted'
  BY DEF exec_on_freed_table, FaultsOnlyWhenExhausted
<1>. QED BY <1>1, <1>2, TablesKept

-----------------------------------------------------------------------------
(***************************************************************************)
(* The theorems.                                                           *)
(***************************************************************************)
LEMMA InitInv == Init => LifeInv
<1>. SUFFICES ASSUME Init PROVE LifeInv
  OBVIOUS
<1>1. /\ tcb = [t \in Task |-> NULL] /\ pid_bitmap = Pid /\ pid_map = [p \in Pid |-> NULL]
      /\ vtables = [v \in Vtable \cup {kernel_pagetable} |->
                      IF v = kernel_pagetable THEN [refcnt |-> 0, live |-> TRUE] ELSE NULL]
      /\ fd_tables = [x \in Table |-> NULL] /\ fnode_refcnt = [f \in File |-> 0] /\ fault = NULL
  BY DEF Init, FdInit
<1>2. Tasks = {} /\ LiveTables = {} /\ \A u \in Task : ~Exists(u)
  BY <1>1 DEF Tasks, Exists, LiveTables
<1>3. PICK r \in VtableRec : r = [refcnt |-> 0, live |-> TRUE] /\ r.refcnt = 0 /\ r.live = TRUE /\ r # NULL
  BY NewVtable
<1>4. vtables \in [Vtable \cup {kernel_pagetable} -> VtableRec \cup {NULL}] /\ vtables[kernel_pagetable] = r
  BY <1>1, <1>3
<1>5. FdTypes /\ LifeTypes
  BY <1>1, <1>4 DEF FdTypes, LifeTypes
<1>6. task_idle \in Task /\ task_main \in Task /\ task_user \in Task
  BY DEF Task, KernelTask
<1>7. Kinship /\ Roles /\ PidsTaken /\ VtablesCounted /\ TasksKeepTheirVtable
  BY <1>2, <1>3, <1>4, <1>6 DEF Kinship, Roles, PidsTaken, VtablesCounted, TasksKeepTheirVtable
<1>8. TablesExact /\ DescriptorsKeepTheirIds
  BY <1>2 DEF TablesExact, DescriptorsKeepTheirIds
<1>9. NodesCoverDescriptors
  <2>. SUFFICES ASSUME NEW f \in File PROVE fnode_refcnt[f] >= Cardinality(OpenOn(f))
    BY DEF NodesCoverDescriptors
  <2>1. OpenOn(f) = {}
    BY <1>2 DEF OpenOn
  <2>2. Cardinality(OpenOn(f)) = 0
    BY <2>1, FS_EmptySet
  <2>. QED BY <1>1, <2>2
<1>10. FaultsOnlyWhenExhausted
  BY <1>1 DEF FaultsOnlyWhenExhausted
<1>. QED BY <1>5, <1>7, <1>8, <1>9, <1>10 DEF LifeInv

LEMMA StepSyscall ==
  ASSUME LifeInv, NEW t \in Task, Syscall(t)
  PROVE  LifeInv'
<1>1. CASE os_syscall_clone(t)
  <2>1. CASE clone_faults(t)
    BY <2>1, StepFails DEF clone_faults
  <2>2. CASE \E c \in Cloned : clone_vm(t, c) \/ clone_copy(t, c) \/ clone_copy_fails(t, c)
    BY <2>2, StepCloneVm, StepCloneCopy, StepCloneCopyFails
  <2>. QED BY <1>1, <2>1, <2>2 DEF os_syscall_clone
<1>2. CASE os_syscall_execve(t)
  <2>1. CASE exec_on_freed_table(t)
    BY <2>1, StepExecOnFreedTable
  <2>2. CASE \E f \in File : exec_refused(t, f)
    BY <2>2, StepExecRefused
  <2>3. CASE \E f \in File : exec_ok(t, f)
    BY <2>3, StepExecOk
  <2>4. CASE \E f \in File : \E n \in 0..2 : exec_fails_late(t, f, n)
    BY <2>4, StepExecFailsLate
  <2>. QED BY <1>2, <2>1, <2>2, <2>3, <2>4 DEF os_syscall_execve
<1>3. CASE os_syscall_exit(t)
  BY <1>3, StepExit
<1>4. CASE /\ InUserSpace(t)
           /\ \/ os_syscall_openat(tcb[t].fd_table)
              \/ \E fd \in Fdid : os_syscall_close(tcb[t].fd_table, fd)
           /\ UNCHANGED lifeVars
  <2>1. t \in Tasks
    BY <1>4 DEF InUserSpace, Tasks
  <2>2. CASE os_syscall_openat(tcb[t].fd_table)
    BY <1>4, <2>1, <2>2, StepOpenat
  <2>3. CASE \E fd \in Fdid : os_syscall_close(tcb[t].fd_table, fd)
    BY <1>4, <2>1, <2>3, StepClose
  <2>. QED BY <1>4, <2>2, <2>3
<1>. QED BY <1>1, <1>2, <1>3, <1>4 DEF Syscall

LEMMA NextInv == LifeInv /\ [Next]_vars => LifeInv'
<1>. SUFFICES ASSUME LifeInv, [Next]_vars PROVE LifeInv'
  OBVIOUS
<1>1. CASE \E t \in KernelTask : CreateKernelTask(t)
  BY <1>1, StepCreateKernelTask
<1>2. CASE \E t \in KernelTask : CreateKernelTaskFails(t)
  BY <1>2, StepFails DEF CreateKernelTaskFails
<1>3. CASE os_task_user_entry(task_user)
  BY <1>3, StepUserEntry
<1>4. CASE \E t \in Task : Syscall(t)
  BY <1>4, StepSyscall
<1>5. CASE UNCHANGED vars
  <2>1. UNCHANGED lifeVars /\ UNCHANGED <<fd_tables, fnode_refcnt, fault, exhausted>>
    BY <1>5 DEF vars, fdVars
  <2>2. fnode_refcnt' \in [File -> Nat] /\ fnode_refcnt \in [File -> Nat]
    BY <2>1 DEF LifeInv, FdTypes
  <2>3. ~CloseTwice => FaultsOnlyWhenExhausted'
    BY <2>1 DEF LifeInv, FaultsOnlyWhenExhausted
  <2>. QED BY <2>1, <2>2, <2>3, TablesKept
<1>. QED BY <1>1, <1>2, <1>3, <1>4, <1>5 DEF Next

\* The invariant behind the others: what tasks, pids, page tables and descriptor tables
\* have to do with each other after any creations, clones, execs, opens, closes and exits,
\* whatever fails.
THEOREM LifeInvariant == Spec => []LifeInv
BY InitInv, NextInv, PTL DEF Spec

\* os_task_remove, clone and execve: as long as memory has not run out, the page table of
\* every task is there, also after one of two tasks that share it has loaded a program.
THEOREM VtablesOutliveTheirUsers == Spec => []TasksKeepTheirVtable
<1>1. LifeInv => TasksKeepTheirVtable
  BY DEF LifeInv
<1>. QED BY <1>1, LifeInvariant, PTL

\* openat, close, clone and execve: if programs close a descriptor once, each task has a
\* descriptor table of its own, no node is freed under an open descriptor, and no
\* descriptor is overwritten.
THEOREM DescriptorTablesExact ==
  ASSUME ~CloseTwice
  PROVE  Spec => []DescriptorsExact
<1>1. LifeInv => DescriptorsExact
  BY DEF LifeInv, DescriptorsExact
<1>. QED BY <1>1, LifeInvariant, PTL

\* If programs close a descriptor once, the undefined steps of clone, execve, openat and
\* close other than three need memory to have run out.
THEOREM FaultsNeedExhaustion ==
  ASSUME ~CloseTwice
  PROVE  Spec => []FaultsOnlyWhenExhausted
<1>1. LifeInv => FaultsOnlyWhenExhausted
  BY DEF LifeInv
<1>. QED BY <1>1, LifeInvariant, PTL

\* os_task_get_new_pid: a task's pid leads back to the task and is taken, and its
\* parent's is another.
THEOREM PidsLeadBack == Spec => []PidMapNormal
<1>1. LifeInv => PidMapNormal
  <2>. SUFFICES ASSUME LifeInv, NEW t \in Tasks
                PROVE  /\ os_task_get_task_by_pid(os_syscall_getpid(t)) = t
                       /\ os_syscall_getpid(t) \notin pid_bitmap
                       /\ tcb[t].parent # NULL => os_syscall_getppid(t) # os_syscall_getpid(t)
    BY DEF PidMapNormal
  <2>1. pid_map[tcb[t].pid] = t /\ tcb[t].pid \notin pid_bitmap
    BY DEF LifeInv, PidsTaken
  <2>2. ASSUME tcb[t].parent # NULL PROVE tcb[tcb[t].parent].pid # tcb[t].pid
    <3>1. tcb[t].parent \in Tasks /\ tcb[t].parent = ParentOf(t)
      BY <2>2 DEF LifeInv, Kinship
    <3>2. ParentOf(t) # t
      BY <2>2, <3>1, TaskLifeAssumption DEF ParentOf, Task, KernelTask
    <3>3. pid_map[tcb[tcb[t].parent].pid] = tcb[t].parent
      BY <3>1 DEF LifeInv, PidsTaken
    <3>. QED BY <2>1, <3>1, <3>2, <3>3
  <2>. QED BY <2>1, <2>2 DEF os_task_get_task_by_pid, os_syscall_getpid, os_syscall_getppid
<1>. QED BY <1>1, LifeInvariant, PTL

-----------------------------------------------------------------------------
(***************************************************************************)
(* The task tree as os_task_print_tree walks it: idle, main below it, the  *)
(* others below main.                                                      *)
(***************************************************************************)

\* What os_task_print_tree prints from t on, n levels down, if it prints f one level less.
Printed(f, n, t) ==
  IF n = 0 THEN <<t>>
  ELSE <<t>> \o FlattenSeq([i \in DOMAIN tcb[t].child_list |-> f[n - 1][tcb[t].child_list[i]]])

ChildLists ==
  /\ \A t \in Tasks : tcb[t].child_list \in Seq(Tasks)
  /\ Kinship

LEMMA ChildListsTyped == LifeInv => ChildLists
<1>. SUFFICES ASSUME LifeInv, NEW t \in Tasks PROVE tcb[t].child_list \in Seq(Tasks)
  BY DEF ChildLists, LifeInv
<1>1. t \in Task /\ tcb[t] \in TaskRec
  BY DEF LifeInv, LifeTypes, Tasks, Exists
<1>2. PICK s \in Seq(Task) : s = tcb[t].child_list
  BY <1>1 DEF TaskRec
<1>3. ToSet(s) \subseteq Tasks
  <2>1. CASE t \notin {task_idle, task_main}
    <3>1. s = <<>>
      BY <1>2, <2>1 DEF LifeInv, Kinship
    <3>. QED BY <3>1 DEF ToSet
  <2>2. CASE t = task_main
    BY <1>2, <2>2 DEF LifeInv, Kinship, Tasks
  <2>3. CASE t = task_idle /\ Exists(task_main)
    <3>1. s = <<task_main>> /\ task_main \in Tasks
      BY <1>2, <2>3 DEF LifeInv, Kinship, Tasks, Task, KernelTask
    <3>2. ToSet(s) = {task_main}
      BY <3>1, SingleElement
    <3>. QED BY <3>1, <3>2
  <2>4. CASE t = task_idle /\ ~Exists(task_main)
    <3>1. s = <<>>
      BY <1>2, <2>4 DEF LifeInv, Kinship, Tasks
    <3>. QED BY <3>1 DEF ToSet
  <2>. QED BY <2>1, <2>2, <2>3, <2>4
<1>4. \A i \in 1..Len(s) : s[i] \in Tasks
  BY <1>3 DEF ToSet
<1>. QED BY <1>2, <1>4

\* A task without children prints itself.
LEMMA LeafPrinted ==
  ASSUME NEW t, tcb[t].child_list = <<>>, NEW f, NEW n
  PROVE  Printed(f, n, t) = <<t>>
<1>1. PICK seqs : seqs = [i \in DOMAIN tcb[t].child_list |-> f[n - 1][tcb[t].child_list[i]]]
  OBVIOUS
<1>2. seqs = <<>>
  BY <1>1
<1>3. FlattenSeq(<<>>) = <<>>
  BY DEF FlattenSeq
<1>4. <<t>> \o <<>> = <<t>>
  OBVIOUS
<1>. QED BY <1>1, <1>2, <1>3, <1>4 DEF Printed

\* Main prints itself and its children.
LEMMA MainPrinted ==
  ASSUME ChildLists, NEW t \in Tasks, NEW f, NEW n \in Nat \ {0},
         \A c \in ToSet(tcb[t].child_list) : f[n - 1][c] = <<c>>
  PROVE  Printed(f, n, t) = <<t>> \o tcb[t].child_list
<1>1. PICK s \in Seq(Tasks) : s = tcb[t].child_list
  BY DEF ChildLists
<1>2. PICK seqs : seqs = [i \in DOMAIN s |-> f[n - 1][s[i]]]
  OBVIOUS
<1>3. \A i \in DOMAIN s : f[n - 1][s[i]] = <<s[i]>>
  BY <1>1 DEF ToSet
<1>4. seqs = [i \in DOMAIN s |-> <<s[i]>>]
  BY <1>2, <1>3
<1>5. FlattenSeq(seqs) = s
  BY <1>4, FlattenElements
<1>6. n # 0
  OBVIOUS
<1>. QED BY <1>1, <1>2, <1>5, <1>6 DEF Printed

\* Idle prints itself and what main prints.
LEMMA IdlePrinted ==
  ASSUME NEW t, NEW c, tcb[t].child_list = <<c>>, NEW f, NEW n \in Nat \ {0},
         NEW s \in Seq(Tasks), f[n - 1][c] = s
  PROVE  Printed(f, n, t) = <<t>> \o s
<1>1. PICK l : l = tcb[t].child_list
  OBVIOUS
<1>2. DOMAIN l = 1..1 /\ l[1] = c
  BY <1>1
<1>3. PICK seqs : seqs = [i \in DOMAIN l |-> f[n - 1][l[i]]]
  OBVIOUS
<1>4. seqs = [i \in 1..1 |-> s]
  BY <1>2, <1>3
<1>5. FlattenSeq(seqs) = s
  BY <1>4, FlattenOne
<1>6. n # 0
  OBVIOUS
<1>. QED BY <1>1, <1>3, <1>5, <1>6 DEF Printed

LEMMA TasksFinite == IsFiniteSet(Tasks) /\ Cardinality(Tasks) \in Nat
<1>1. IsFiniteSet({task_idle}) /\ IsFiniteSet({task_main}) /\ IsFiniteSet({task_user})
  BY FS_Singleton
<1>2. IsFiniteSet({task_idle} \cup {task_main})
  BY <1>1, FS_Union
<1>3. IsFiniteSet(({task_idle} \cup {task_main}) \cup {task_user})
  BY <1>1, <1>2, FS_Union
<1>4. IsFiniteSet((({task_idle} \cup {task_main}) \cup {task_user}) \cup Cloned)
  BY <1>3, FS_Union, TaskLifeAssumption
<1>5. Tasks \subseteq (({task_idle} \cup {task_main}) \cup {task_user}) \cup Cloned
  BY DEF Tasks, Task, KernelTask
<1>. QED BY <1>4, <1>5, FS_Subset, FS_CardinalityType

\* The tree is at most three deep: any function that prints a task one level down for
\* each level prints this.
Family == <<task_main>> \o tcb[task_main].child_list

Whole(n, t) ==
  CASE t = task_idle /\ (n = 0 \/ ~Exists(task_main)) -> <<task_idle>>
    [] t = task_idle /\ n = 1 /\ Exists(task_main) -> <<task_idle>> \o <<task_main>>
    [] t = task_idle /\ n > 1 /\ Exists(task_main) -> <<task_idle>> \o Family
    [] t = task_main /\ n > 0 -> Family
    [] OTHER -> <<t>>

LEMMA FamilyPrinted ==
  ASSUME ChildLists, task_main \in Tasks, NEW f, NEW n \in Nat \ {0},
         \A c \in Tasks \ {task_idle, task_main} : f[n - 1][c] = <<c>>
  PROVE  Printed(f, n, task_main) = Family /\ Family \in Seq(Tasks)
<1>1. Exists(task_main)
  BY DEF Tasks
<1>2. ToSet(tcb[task_main].child_list) = Tasks \ {task_idle, task_main}
  BY <1>1 DEF ChildLists, Kinship
<1>3. Printed(f, n, task_main) = Family
  BY <1>2, MainPrinted DEF Family
<1>4. tcb[task_main].child_list \in Seq(Tasks)
  BY DEF ChildLists
<1>5. Family \in Seq(Tasks)
  BY <1>4, PrependAddsOne DEF Family
<1>. QED BY <1>3, <1>5

\* One such function.
LEMMA WholePrints ==
  ASSUME ChildLists, NEW N \in Nat, NEW f, f = [n \in 0..N |-> [t \in Tasks |-> Whole(n, t)]],
         NEW n \in 0..N, NEW t \in Tasks
  PROVE  Printed(f, n, t) = f[n][t]
<1>1. f[n][t] = Whole(n, t)
  OBVIOUS
<1>2. task_idle # task_main
  BY TaskLifeAssumption
<1>3. CASE n = 0
  <2>1. Whole(n, t) = <<t>>
    BY <1>2, <1>3 DEF Whole
  <2>. QED BY <1>1, <1>3, <2>1 DEF Printed
<1>4. CASE n # 0
  <2>1. n \in Nat \ {0} /\ n - 1 \in 0..N
    BY <1>4
  <2>2. \A c \in Tasks : f[n - 1][c] = Whole(n - 1, c)
    BY <2>1
  <2>3. \A c \in Tasks \ {task_idle, task_main} : f[n - 1][c] = <<c>>
    BY <2>2 DEF Whole
  <2>4. CASE t \notin {task_idle, task_main}
    <3>1. tcb[t].child_list = <<>>
      BY <2>4 DEF ChildLists, Kinship
    <3>2. Printed(f, n, t) = <<t>>
      BY <3>1, LeafPrinted
    <3>3. Whole(n, t) = <<t>>
      BY <2>4 DEF Whole
    <3>. QED BY <1>1, <3>2, <3>3
  <2>5. CASE t = task_main
    <3>1. Printed(f, n, task_main) = Family
      BY <2>1, <2>3, <2>5, FamilyPrinted
    <3>2. Whole(n, task_main) = Family
      BY <1>2, <2>1 DEF Whole
    <3>. QED BY <1>1, <2>5, <3>1, <3>2
  <2>6. CASE t = task_idle /\ ~Exists(task_main)
    <3>1. tcb[t].child_list = <<>>
      BY <2>6 DEF ChildLists, Kinship, Tasks
    <3>2. Printed(f, n, t) = <<t>>
      BY <3>1, LeafPrinted
    <3>3. Whole(n, task_idle) = <<task_idle>>
      BY <1>2, <2>6 DEF Whole
    <3>. QED BY <1>1, <2>6, <3>2, <3>3
  <2>7. CASE t = task_idle /\ Exists(task_main)
    <3>1. tcb[t].child_list = <<task_main>> /\ task_main \in Tasks
      BY <2>7 DEF ChildLists, Kinship, Tasks, Task, KernelTask
    <3>2. CASE n = 1
      <4>1. f[n - 1][task_main] = <<task_main>>
        <5>1. Whole(0, task_main) = <<task_main>>
          BY <1>2 DEF Whole
        <5>. QED BY <2>2, <3>1, <3>2, <5>1
      <4>2. <<task_main>> \in Seq(Tasks)
        BY <3>1, SingleElement
      <4>3. Printed(f, n, t) = <<t>> \o <<task_main>>
        BY <2>1, <3>1, <4>1, <4>2, IdlePrinted
      <4>4. Whole(n, t) = <<task_idle>> \o <<task_main>>
        BY <1>2, <2>7, <3>2 DEF Whole
      <4>. QED BY <1>1, <2>7, <4>3, <4>4
    <3>3. CASE n > 1
      <4>1. f[n - 1][task_main] = Family
        <5>1. Whole(n - 1, task_main) = Family
          BY <1>2, <2>1, <3>3 DEF Whole
        <5>. QED BY <2>2, <3>1, <5>1
      <4>2. Family \in Seq(Tasks)
        BY <2>1, <2>3, <3>1, FamilyPrinted
      <4>3. Printed(f, n, t) = <<t>> \o Family
        BY <2>1, <3>1, <4>1, <4>2, IdlePrinted
      <4>4. Whole(n, t) = <<task_idle>> \o Family
        BY <1>2, <2>7, <3>3 DEF Whole
      <4>. QED BY <1>1, <2>7, <4>3, <4>4
    <3>. QED BY <2>1, <3>2, <3>3
  <2>. QED BY <2>4, <2>5, <2>6, <2>7
<1>. QED BY <1>3, <1>4

\* What os_task_print_tree prints.
LEMMA TreePrinted ==
  ASSUME ChildLists, Exists(task_idle)
  PROVE  os_task_print_tree =
           IF Exists(task_main) THEN <<task_idle>> \o Family ELSE <<task_idle>>
<1>. DEFINE B(f) ==
       f = [n \in 0..Cardinality(Tasks) |->
              [t \in Tasks |->
                IF n = 0 THEN <<t>>
                ELSE <<t>> \o FlattenSeq([i \in DOMAIN tcb[t].child_list |->
                                            f[n - 1][tcb[t].child_list[i]]])]]
<1>1. PICK N \in Nat : N = Cardinality(Tasks)
  BY TasksFinite
<1>2. PICK below : below = CHOOSE f : B(f)
  OBVIOUS
<1>3. os_task_print_tree = below[N][task_idle]
  BY <1>1, <1>2 DEF os_task_print_tree
<1>4. ASSUME NEW f PROVE B(f) <=> f = [n \in 0..N |-> [t \in Tasks |-> Printed(f, n, t)]]
  BY <1>1 DEF Printed
<1>5. PICK w : w = [n \in 0..N |-> [t \in Tasks |-> Whole(n, t)]]
  OBVIOUS
<1>6. w = [n \in 0..N |-> [t \in Tasks |-> Printed(w, n, t)]]
  <2>1. \A n \in 0..N : \A t \in Tasks : Printed(w, n, t) = Whole(n, t)
    <3>. SUFFICES ASSUME NEW n \in 0..N, NEW t \in Tasks PROVE Printed(w, n, t) = Whole(n, t)
      OBVIOUS
    <3>1. Printed(w, n, t) = w[n][t]
      BY <1>5, WholePrints
    <3>. QED BY <1>5, <3>1
  <2>2. \A n \in 0..N : [t \in Tasks |-> Whole(n, t)] = [t \in Tasks |-> Printed(w, n, t)]
    BY <2>1
  <2>. QED BY <1>5, <2>2
<1>7. B(below)
  <2>1. B(w)
    BY <1>4, <1>6
  <2>. HIDE DEF B
  <2>. QED BY <1>2, <2>1
<1>8. \A n \in 0..N : \A t \in Tasks : below[n][t] = Printed(below, n, t)
  <2>. HIDE DEF B
  <2>1. below = [n \in 0..N |-> [t \in Tasks |-> Printed(below, n, t)]]
    BY <1>4, <1>7
  <2>. QED BY <2>1
<1>. HIDE DEF B
<1>9. task_idle \in Tasks
  BY DEF Tasks, Task, KernelTask
<1>10. CASE ~Exists(task_main)
  <2>1. tcb[task_idle].child_list = <<>>
    BY <1>10 DEF ChildLists, Kinship
  <2>2. Printed(below, N, task_idle) = <<task_idle>>
    BY <2>1, LeafPrinted
  <2>. QED BY <1>3, <1>8, <1>9, <1>10, <2>2
<1>11. CASE Exists(task_main)
  <2>1. task_main \in Tasks /\ task_main # task_idle
    BY <1>11, TaskLifeAssumption DEF Tasks, Task, KernelTask
  <2>2. N >= 2
    <3>1. IsFiniteSet({task_idle}) /\ Cardinality({task_idle}) = 1
      BY FS_Singleton
    <3>2. IsFiniteSet({task_idle} \cup {task_main}) /\ Cardinality({task_idle} \cup {task_main}) = 1 + 1
      BY <2>1, <3>1, FS_AddElement
    <3>3. Cardinality({task_idle} \cup {task_main}) <= Cardinality(Tasks)
      BY <1>9, <2>1, TasksFinite, FS_Subset
    <3>. QED BY <1>1, <3>2, <3>3
  <2>3. N \in 0..N /\ N - 1 \in 0..N /\ N - 2 \in 0..N /\ N \in Nat \ {0} /\ N - 1 \in Nat \ {0} /\ (N - 1) - 1 = N - 2
    BY <2>2
  <2>4. \A c \in Tasks \ {task_idle, task_main} : below[(N - 1) - 1][c] = <<c>>
    <3>1. ASSUME NEW c \in Tasks \ {task_idle, task_main} PROVE Printed(below, N - 2, c) = <<c>>
      <4>1. tcb[c].child_list = <<>>
        BY DEF ChildLists, Kinship
      <4>. QED BY <4>1, LeafPrinted
    <3>. QED BY <1>8, <2>3, <3>1
  <2>5. Printed(below, N - 1, task_main) = Family /\ Family \in Seq(Tasks)
    BY <2>1, <2>3, <2>4, FamilyPrinted
  <2>6. below[N - 1][task_main] = Family
    BY <1>8, <2>1, <2>3, <2>5
  <2>7. tcb[task_idle].child_list = <<task_main>>
    BY <1>11 DEF ChildLists, Kinship
  <2>8. Printed(below, N, task_idle) = <<task_idle>> \o Family
    BY <2>3, <2>5, <2>6, <2>7, IdlePrinted
  <2>. QED BY <1>3, <1>8, <1>9, <1>11, <2>3, <2>8
<1>. QED BY <1>10, <1>11

LEMMA TreeIsWhole == LifeInv => TaskTree
<1>. SUFFICES ASSUME LifeInv PROVE TaskTree
  OBVIOUS
<1>1. ChildLists
  BY ChildListsTyped
<1>2. ASSUME NEW t \in Tasks, NEW c \in ToSet(tcb[t].child_list) PROVE tcb[c].parent = t
  <2>1. task_idle # task_main
    BY TaskLifeAssumption
  <2>2. CASE t \notin {task_idle, task_main}
    <3>1. tcb[t].child_list = <<>>
      BY <1>1, <2>2 DEF ChildLists, Kinship
    <3>. QED BY <1>2, <3>1 DEF ToSet
  <2>3. CASE t = task_main
    <3>1. c \in Tasks \ {task_idle, task_main}
      BY <1>1, <1>2, <2>3 DEF ChildLists, Kinship, Tasks
    <3>2. ParentOf(c) = task_main
      BY <3>1 DEF ParentOf
    <3>. QED BY <1>1, <2>3, <3>1, <3>2 DEF ChildLists, Kinship
  <2>4. CASE t = task_idle /\ Exists(task_main)
    <3>1. tcb[t].child_list = <<task_main>> /\ task_main \in Tasks
      BY <1>1, <2>4 DEF ChildLists, Kinship, Tasks, Task, KernelTask
    <3>2. c = task_main
      BY <1>2, <3>1, SingleElement
    <3>3. ParentOf(task_main) = task_idle
      BY <2>1 DEF ParentOf
    <3>. QED BY <1>1, <2>4, <3>1, <3>2, <3>3 DEF ChildLists, Kinship
  <2>5. CASE t = task_idle /\ ~Exists(task_main)
    <3>1. tcb[t].child_list = <<>>
      BY <1>1, <2>5 DEF ChildLists, Kinship, Tasks
    <3>. QED BY <1>2, <3>1 DEF ToSet
  <2>. QED BY <2>2, <2>3, <2>4, <2>5
<1>3. \A t \in Tasks : t \notin {task_idle, task_main} => task_main \in Tasks
  <2>. SUFFICES ASSUME NEW t \in Tasks, t \notin {task_idle, task_main} PROVE task_main \in Tasks
    OBVIOUS
  <2>1. ParentOf(t) = task_main
    BY DEF ParentOf
  <2>2. task_main # NULL
    BY TaskLifeAssumption DEF Task, KernelTask
  <2>. QED BY <1>1, <2>1, <2>2 DEF ChildLists, Kinship
<1>4. task_main \in Tasks => task_idle \in Tasks
  <2>1. ParentOf(task_main) = task_idle /\ task_idle # NULL
    BY TaskLifeAssumption DEF ParentOf, Task, KernelTask
  <2>. QED BY <1>1, <2>1 DEF ChildLists, Kinship
<1>5. Exists(task_idle) <=> task_idle \in Tasks
  BY DEF Tasks, Task, KernelTask
<1>6. Exists(task_main) <=> task_main \in Tasks
  BY DEF Tasks, Task, KernelTask
<1>7. IsInjective(os_task_print_tree) /\ ToSet(os_task_print_tree) = Tasks
  <2>1. CASE ~Exists(task_idle)
    <3>1. os_task_print_tree = <<>>
      BY <2>1 DEF os_task_print_tree
    <3>2. Tasks = {}
      BY <1>3, <1>4, <1>5, <2>1
    <3>3. IsInjective(<<>>) /\ ToSet(<<>>) = {}
      BY DEF IsInjective, ToSet
    <3>. QED BY <3>1, <3>2, <3>3, SMTT(30)
  <2>2. CASE Exists(task_idle) /\ ~Exists(task_main)
    <3>1. os_task_print_tree = <<task_idle>>
      BY <1>1, <2>2, TreePrinted
    <3>2. Tasks = {task_idle}
      BY <1>3, <1>5, <1>6, <2>2
    <3>. QED BY <3>1, <3>2, SingleElement
  <2>3. CASE Exists(task_idle) /\ Exists(task_main)
    <3>1. os_task_print_tree = <<task_idle>> \o Family
      BY <1>1, <2>3, TreePrinted
    <3>2. PICK s \in Seq(Tasks) : s = tcb[task_main].child_list
      BY <1>1, <1>6, <2>3 DEF ChildLists
    <3>3. IsInjective(s) /\ ToSet(s) = Tasks \ {task_idle, task_main}
      BY <1>1, <2>3, <3>2 DEF ChildLists, Kinship
    <3>4. PICK m \in Seq(Tasks) : m = <<task_main>> \o s
      BY <1>6, <2>3, <3>2, PrependAddsOne
    <3>5. ToSet(m) = (Tasks \ {task_idle, task_main}) \cup {task_main} /\ IsInjective(m)
      <4>1. task_main \in Tasks /\ task_main \notin ToSet(s)
        BY <1>6, <2>3, <3>3
      <4>. QED BY <3>3, <3>4, <4>1, PrependAddsOne
    <3>6. task_idle \in Tasks /\ task_main \in Tasks /\ task_idle # task_main
      BY <1>5, <1>6, <2>3, TaskLifeAssumption
    <3>7. task_idle \notin ToSet(m)
      BY <3>5, <3>6
    <3>8. ToSet(<<task_idle>> \o m) = ToSet(m) \cup {task_idle} /\ IsInjective(<<task_idle>> \o m)
      BY <3>5, <3>6, <3>7, PrependAddsOne
    <3>9. ToSet(m) \cup {task_idle} = Tasks
      BY <3>5, <3>6
    <3>. QED BY <3>1, <3>2, <3>4, <3>8, <3>9 DEF Family
  <2>. QED BY <2>1, <2>2, <2>3
<1>. QED BY <1>2, <1>7 DEF TaskTree

\* os_task_print_tree and os_task_get_task_by_pid: the walk from the idle thread reaches
\* every task, once, below the parent it names, and the pid of every task leads back to
\* it, whatever clones have succeeded or failed.
THEOREM EveryTaskIsFound == Spec => []TasksFound
<1>1. LifeInv => TaskTree
  BY TreeIsWhole
<1>. QED BY <1>1, LifeInvariant, PidsLeadBack, PTL DEF TasksFound

-----------------------------------------------------------------------------
(***************************************************************************)
(* Locks of descriptor tables.                                             *)
(***************************************************************************)
LeaksOnlyWhenFull(x) ==
  fd_tables'[x] # NULL /\ fd_tables'[x].lock > fd_tables[x].lock => fd_tables[x].free = {}

\* A table that is replaced by one with the same lock.
LEMMA LockKept ==
  ASSUME LifeInv, NEW y \in LiveTables, NEW x, NEW new, fd_tables' = [fd_tables EXCEPT ![x] = new],
         x = y => new = NULL \/ new.lock = fd_tables[x].lock \/ fd_tables[x].free = {}
  PROVE  LeaksOnlyWhenFull(y)
<1>1. /\ y \in Table /\ fd_tables \in [Table -> FdTable \cup {NULL}] /\ fd_tables[y] # NULL
  BY DEF LifeInv, FdTypes, LiveTables
<1>2. PICK tb \in FdTable : tb = fd_tables[y]
  BY <1>1
<1>3. tb.lock \in Nat
  BY TableFields
<1>4. CASE x # y
  <2>1. fd_tables'[y] = tb
    BY <1>1, <1>2, <1>4
  <2>. QED BY <1>2, <1>3, <2>1 DEF LeaksOnlyWhenFull
<1>5. CASE x = y
  <2>1. fd_tables'[y] = new
    BY <1>1, <1>5
  <2>. QED BY <1>2, <1>3, <1>5, <2>1 DEF LeaksOnlyWhenFull
<1>. QED BY <1>4, <1>5

\* A free id is no live table's.
LEMMA FreeIsNotLive ==
  ASSUME FreeTables # {}
  PROVE  Min(FreeTables) \in FreeTables /\ Min(FreeTables) \notin LiveTables
<1>1. FreeTables \in SUBSET Nat
  BY FdAssumption DEF FreeTables
<1>2. Min(FreeTables) \in FreeTables
  BY <1>1, MinIsLeast
<1>. QED BY <1>2 DEF FreeTables, LiveTables

LEMMA OpenatLocks ==
  ASSUME LifeInv, NEW x \in LiveTables, os_syscall_openat(x), NEW y \in LiveTables
  PROVE  LeaksOnlyWhenFull(y)
<1>1. fd_tables \in [Table -> FdTable \cup {NULL}] /\ x \in Table /\ fd_tables[x] # NULL
  BY DEF LifeInv, FdTypes, LiveTables
<1>2. PICK tb \in FdTable : tb = fd_tables[x]
  BY <1>1
<1>3. PICK mid : mid = os_file_get_new_fdid(tb)
  OBVIOUS
<1>4. mid \in FdTable /\ (tb.free # {} => mid.lock = tb.lock /\ Min(tb.free) \in Fdid)
  BY <1>3, NewFdid
<1>5. CASE fd_tables' = [fd_tables EXCEPT ![x] = os_file_get_new_fdid(@)]
  <2>1. fd_tables' = [fd_tables EXCEPT ![x] = mid]
    BY <1>1, <1>2, <1>3, <1>5
  <2>. QED BY <1>2, <1>4, <2>1, LockKept
<1>6. CASE UNCHANGED fd_tables
  <2>1. fd_tables' = [fd_tables EXCEPT ![x] = tb]
    BY <1>1, <1>2, <1>6
  <2>. QED BY <1>2, <2>1, LockKept
<1>7. CASE \E f \in File : openat_ok(x, f)
  <2>1. PICK f \in File : openat_ok(x, f)
    BY <1>7
  <2>2. PICK fd : fd = Min(tb.free)
    OBVIOUS
  <2>3. PICK new : new = WithDescriptor(mid, fd, f)
    OBVIOUS
  <2>4. tb.free # {} /\ fd_tables' = [fd_tables EXCEPT ![x] = new]
    BY <1>1, <1>2, <1>3, <2>1, <2>2, <2>3 DEF openat_ok
  <2>5. new.lock = mid.lock
    BY <1>4, <2>2, <2>3, <2>4, DescriptorAdded
  <2>. QED BY <1>2, <1>4, <2>4, <2>5, LockKept
<1>8. \/ \E f \in File : openat_ok(x, f)
      \/ fd_tables' = [fd_tables EXCEPT ![x] = os_file_get_new_fdid(@)]
      \/ UNCHANGED fd_tables
  BY DEF os_syscall_openat, openat_full, openat_refused, openat_asserts, fdVars
<1>. QED BY <1>5, <1>6, <1>7, <1>8

LEMMA CloseLocks ==
  ASSUME LifeInv, NEW x \in LiveTables, NEW fd \in Fdid, os_syscall_close(x, fd), NEW y \in LiveTables
  PROVE  LeaksOnlyWhenFull(y)
<1>1. fd_tables \in [Table -> FdTable \cup {NULL}] /\ x \in Table /\ fd_tables[x] # NULL
  BY DEF LifeInv, FdTypes, LiveTables
<1>2. PICK tb \in FdTable : tb = fd_tables[x]
  BY <1>1
<1>3. PICK new : new = CloseDescriptor(tb, fd)
  OBVIOUS
<1>4. fd \in DOMAIN tb.map /\ (UNCHANGED fd_tables \/ fd_tables' = [fd_tables EXCEPT ![x] = CloseDescriptor(@, fd)])
  BY <1>2 DEF os_syscall_close, fdVars
<1>5. new.lock = tb.lock
  BY <1>3, <1>4, DescriptorMarked
<1>6. fd_tables' = [fd_tables EXCEPT ![x] = tb] \/ fd_tables' = [fd_tables EXCEPT ![x] = new]
  BY <1>1, <1>2, <1>3, <1>4
<1>. QED BY <1>2, <1>5, <1>6, LockKept

LEMMA ExecLocks ==
  ASSUME LifeInv, NEW t \in Tasks, FreeTables # {}, fd_tables' = InstallTable(t, Min(FreeTables)), NEW y \in LiveTables
  PROVE  LeaksOnlyWhenFull(y)
<1>1. PICK x : x = Min(FreeTables) /\ x \notin LiveTables
  BY FreeIsNotLive
<1>2. PICK x0 \in LiveTables : x0 = tcb[t].fd_table
  BY OwnTable
<1>3. /\ fd_tables \in [Table -> FdTable \cup {NULL}] /\ y \in Table /\ fd_tables[y] # NULL /\ x0 \in Table /\ x0 # x /\ y # x
  BY <1>1 DEF LifeInv, FdTypes, LiveTables
<1>4. PICK tb \in FdTable : tb = fd_tables[y]
  BY <1>3
<1>5. PICK F : F = [fd_tables EXCEPT ![x] = StdTable]
  OBVIOUS
<1>6. DOMAIN F = Table /\ F[y] = tb
  BY <1>3, <1>4, <1>5
<1>7. fd_tables[x0].refcnt = 1 /\ F[x0] = fd_tables[x0]
  BY <1>2, <1>3, <1>5 DEF LifeInv, TablesExact
<1>8. fd_tables' = [F EXCEPT ![x0] = NULL]
  BY <1>1, <1>2, <1>5, <1>7 DEF InstallTable, os_file_fd_table_remove
<1>9. CASE y # x0
  BY <1>3, <1>4, <1>6, <1>9, <1>8, TableFields DEF LeaksOnlyWhenFull
<1>10. CASE y = x0
  <2>1. fd_tables'[y] = NULL
    BY <1>3, <1>6, <1>10, <1>8
  <2>. QED BY <2>1 DEF LeaksOnlyWhenFull
<1>. QED BY <1>9, <1>10

LEMMA StepLocks ==
  ASSUME LifeInv, [Next]_vars, NEW y \in LiveTables
  PROVE  LeaksOnlyWhenFull(y)
<1>1. fd_tables \in [Table -> FdTable \cup {NULL}] /\ y \in Table /\ fd_tables[y] # NULL
  BY DEF LifeInv, FdTypes, LiveTables
<1>2. CASE UNCHANGED fd_tables
  <2>1. fd_tables' = [fd_tables EXCEPT ![y] = fd_tables[y]]
    BY <1>1, <1>2
  <2>. QED BY <2>1, LockKept
<1>3. CASE FreeTables # {} /\ fd_tables' = [fd_tables EXCEPT ![Min(FreeTables)] = NewTable]
  <2>1. Min(FreeTables) # y
    BY <1>3, FreeIsNotLive
  <2>. QED BY <1>3, <2>1, LockKept
<1>4. CASE \E t \in KernelTask : CreateKernelTask(t) \/ CreateKernelTaskFails(t)
  BY <1>2, <1>3, <1>4 DEF CreateKernelTask, CanInit, CreateKernelTaskFails, fdVars
<1>5. CASE os_task_user_entry(task_user)
  BY <1>2, <1>5 DEF os_task_user_entry, fdVars
<1>6. CASE \E t \in Task : os_syscall_clone(t)
  BY <1>2, <1>3, <1>6
     DEF os_syscall_clone, clone_vm, clone_copy, clone_copy_fails, clone_faults, CloneInit, CanInit, fdVars
<1>7. CASE \E t \in Task : os_syscall_execve(t)
  <2>1. PICK t \in Task : os_syscall_execve(t)
    BY <1>7
  <2>2. CASE \E f \in File \ {Console} : exec_ok(t, f)
    <3>1. t \in Tasks /\ FreeTables # {} /\ fd_tables' = InstallTable(t, Min(FreeTables))
      BY <2>2 DEF exec_ok, ExecMay, Tasks
    <3>. QED BY <3>1, ExecLocks
  <2>3. CASE UNCHANGED fd_tables
    BY <1>2, <2>3
  <2>. QED BY <2>1, <2>2, <2>3
         DEF os_syscall_execve, exec_on_freed_table, exec_refused, exec_fails_late, fdVars
<1>8. CASE \E t \in Task : /\ InUserSpace(t)
                           /\ \/ os_syscall_openat(tcb[t].fd_table)
                              \/ \E fd \in Fdid : os_syscall_close(tcb[t].fd_table, fd)
  <2>1. PICK t \in Tasks : \/ os_syscall_openat(tcb[t].fd_table)
                           \/ \E fd \in Fdid : os_syscall_close(tcb[t].fd_table, fd)
    BY <1>8 DEF InUserSpace, Tasks
  <2>2. PICK x \in LiveTables : x = tcb[t].fd_table
    BY OwnTable
  <2>. QED BY <2>1, <2>2, OpenatLocks, CloseLocks
<1>9. CASE \E t \in Task : os_syscall_exit(t)
  BY <1>2, <1>9 DEF os_syscall_exit, fdVars
<1>10. CASE UNCHANGED vars
  BY <1>2, <1>10 DEF vars, fdVars
<1>. QED BY <1>4, <1>5, <1>6, <1>7, <1>8, <1>9, <1>10 DEF Next, Syscall

\* os_file_get_new_fdid returns with the table locked only when no id is left, and no
\* other path of openat, close, clone and execve does at all.
THEOREM OnlyFullTablesStayLocked == Spec => LockLeaksOnlyWhenFull
<1>. DEFINE A == \A x \in LiveTables : LeaksOnlyWhenFull(x)
<1>1. LifeInv /\ [Next]_vars => [A]_fd_tables
  BY StepLocks
<1>2. Spec => [][A]_fd_tables
  BY <1>1, LifeInvariant, PTL DEF Spec
<1>3. A <=> \A x \in LiveTables :
              fd_tables'[x] # NULL /\ fd_tables'[x].lock > fd_tables[x].lock => fd_tables[x].free = {}
  BY DEF LeaksOnlyWhenFull
<1>. QED BY <1>2, <1>3, PTL DEF LockLeaksOnlyWhenFull
=============================================================================
