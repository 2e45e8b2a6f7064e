-------------------------------- MODULE OsFd --------------------------------
(***************************************************************************)
(* The descriptor tables of src/os_file.c and the system calls openat and  *)
(* close over them.                                                        *)
(*                                                                         *)
(* Every task has a table of its own, so a call on one is a single step;   *)
(* the interleaving of open and close on shared nodes and mount points is  *)
(* OsFile's subject, and of a node only the reference count is kept here.  *)
(* A closed descriptor stays in its table: "open" tells whether the user   *)
(* has closed it.                                                          *)
(*                                                                         *)
(* Behaviour the code does not define stops the model: "fault" names it.   *)
(***************************************************************************)
EXTENDS Naturals, Sequences, FiniteSets, FiniteSetsExt

CONSTANTS
  File, Console,     \* the files opened; the console device
  OS_MAX_OPEN_FILES, \* descriptors of a table
  Table,             \* ids of descriptor tables, a bound of the model
  MaxOpen,           \* file -> largest reference count of its node, a bound of the model
  MaxLock,           \* how often a table's lock is leaked, a bound of the model
  CloseTwice,        \* whether programs close descriptors they have closed
  NULL

Fdid == 0..(OS_MAX_OPEN_FILES - 1)

FdTable ==
  [refcnt : Nat, free : SUBSET Fdid, lock : Nat,
   map : UNION {[D -> [file : File, open : BOOLEAN]] : D \in SUBSET Fdid}]

ASSUME FdAssumption ==
  /\ Console \in File /\ OS_MAX_OPEN_FILES \in Nat /\ OS_MAX_OPEN_FILES >= 3
  /\ Table \subseteq Nat /\ IsFiniteSet(Table) /\ NULL \notin FdTable
  /\ MaxOpen \in [File -> Nat] /\ MaxLock \in Nat /\ CloseTwice \in BOOLEAN

VARIABLES
  fd_tables,     \* table -> refcnt, free (fd_bitmap), map (fd_hashmap), lock
  fnode_refcnt,  \* file -> refcnt of its node; 0: there is none
  fault,         \* the undefined step the kernel took, or NULL
  exhausted      \* whether memory or an id has ever run out

fdVars == <<fd_tables, fnode_refcnt>>

NoEntry == [fd \in {} |-> NULL]

FdInit ==
  /\ fd_tables = [x \in Table |-> NULL]
  /\ fnode_refcnt = [f \in File |-> 0]
  /\ fault = NULL
  /\ exhausted = FALSE

FreeTables == {x \in Table : fd_tables[x] = NULL}

-----------------------------------------------------------------------------
\* os_file_fd_table_create.
NewTable == [refcnt |-> 1, free |-> 0..(OS_MAX_OPEN_FILES - 1), map |-> NoEntry, lock |-> 0]

\* Mutant: the lock is kept on the way out.
os_file_get_new_fdid_Locked(tb) ==
  [tb EXCEPT !.lock = @ + 1, !.free = @ \ {IF @ = {} THEN 0 ELSE Min(@)}]

\* os_file_get_new_fdid: the lowest free id is taken; without one the call returns
\* with the table's lock held.
os_file_get_new_fdid(tb) ==
  IF tb.free = {} THEN [tb EXCEPT !.lock = @ + 1] ELSE [tb EXCEPT !.free = @ \ {Min(@)}]

\* The descriptor fd of table tb, now open on f.
WithDescriptor(tb, fd, f) ==
  [tb EXCEPT !.map = [d \in DOMAIN @ \cup {fd} |-> IF d = fd THEN [file |-> f, open |-> TRUE] ELSE @[d]]]

\* Mutant: the id goes back to the bitmap while the descriptor stays in the map.
CloseDescriptor_ReleasesId(tb, fd) == [tb EXCEPT !.map[fd].open = FALSE, !.free = @ \cup {fd}]

\* os_syscall_close takes neither the descriptor nor its id away.
CloseDescriptor(tb, fd) == [tb EXCEPT !.map[fd].open = FALSE]

\* Mutant: a node found in the cache is not counted.
NodeOpened_CachedNotCounted(f) ==
  fnode_refcnt' = [fnode_refcnt EXCEPT ![f] = IF @ = 0 THEN 1 ELSE @]

\* One more, one less descriptor on f; with the last one the node is freed.
NodeOpened(f) == fnode_refcnt' = [fnode_refcnt EXCEPT ![f] = @ + 1]

NodeClosed(f) == fnode_refcnt' = [fnode_refcnt EXCEPT ![f] = @ - 1]

\* os_file_fd_table_remove: fd_list has never got an entry, so that no file is closed.
os_file_fd_table_remove(x, T) ==
  [T EXCEPT ![x] = IF @.refcnt = 1 THEN NULL ELSE [@ EXCEPT !.refcnt = @ - 1]]

-----------------------------------------------------------------------------
\* os_syscall_openat on table x.  The file is there and opens.
openat_ok(x, f) ==
  /\ fd_tables[x].free # {}
  /\ fnode_refcnt[f] < MaxOpen[f]
  /\ fd_tables' = [fd_tables EXCEPT ![x] =
                     WithDescriptor(os_file_get_new_fdid(@), Min(@.free), f)]
  /\ NodeOpened(f)
  /\ UNCHANGED <<fault, exhausted>>

\* No id is left.
openat_full(x) ==
  /\ fd_tables[x].free = {}
  /\ fd_tables[x].lock < MaxLock
  /\ fd_tables' = [fd_tables EXCEPT ![x] = os_file_get_new_fdid(@)]
  /\ exhausted' = TRUE
  /\ UNCHANGED <<fnode_refcnt, fault>>

\* The file is not there or does not open: os_file_fdid_remove takes the entry out
\* of the map, keeps the id, and unlinks a node that nothing has initialised, which
\* goes well only when the memory happens to hold zeros.
openat_refused(x) ==
  /\ fd_tables[x].free # {}
  /\ \/ /\ fd_tables' = [fd_tables EXCEPT ![x] = os_file_get_new_fdid(@)]
        /\ UNCHANGED fault
     \/ /\ fault' = "unlinked_node"
        /\ UNCHANGED fd_tables
  /\ UNCHANGED <<fnode_refcnt, exhausted>>

\* There is memory for the descriptor but not for its entry in the map: the error
\* is ignored and the assertion that the descriptor can be found fails.
openat_asserts(x) ==
  /\ fd_tables[x].free # {}
  /\ fault' = "no_descriptor"
  /\ exhausted' = TRUE
  /\ UNCHANGED fdVars

os_syscall_openat(x) ==
  \/ \E f \in File : openat_ok(x, f)
  \/ openat_full(x)
  \/ openat_refused(x)
  \/ openat_asserts(x)

\* os_syscall_close on a descriptor whose node is there, and on one whose node has
\* been freed.
os_syscall_close(x, fd) ==
  LET d == fd_tables[x].map[fd]
  IN /\ fd \in DOMAIN fd_tables[x].map
     /\ d.open \/ CloseTwice
     /\ IF fnode_refcnt[d.file] > 0
        THEN /\ fd_tables' = [fd_tables EXCEPT ![x] = CloseDescriptor(@, fd)]
             /\ NodeClosed(d.file)
             /\ UNCHANGED fault
        ELSE /\ fault' = "node_freed"
             /\ UNCHANGED fdVars
     /\ UNCHANGED exhausted

-----------------------------------------------------------------------------
LiveTables == {x \in Table : fd_tables[x] # NULL}

\* The open descriptors on f, each with its table.
OpenOn(f) ==
  {d \in LiveTables \X Fdid :
     LET map == fd_tables[d[1]].map
     IN d[2] \in DOMAIN map /\ map[d[2]] = [file |-> f, open |-> TRUE]}

\* A node is counted at least once for every open descriptor on it: no node is freed
\* while a descriptor that its user has not closed points to it.
NodesCoverDescriptors ==
  \A f \in File : fnode_refcnt[f] >= Cardinality(OpenOn(f))

\* An id handed out is never handed out again while the map holds its descriptor: no
\* descriptor is overwritten.
DescriptorsKeepTheirIds ==
  \A x \in LiveTables : DOMAIN fd_tables[x].map \cap fd_tables[x].free = {}

\* Only a table without a free id is ever left locked.
LockLeaksOnlyWhenFull ==
  [][\A x \in LiveTables :
       fd_tables'[x] # NULL /\ fd_tables'[x].lock > fd_tables[x].lock => fd_tables[x].free = {}]_fd_tables
=============================================================================
