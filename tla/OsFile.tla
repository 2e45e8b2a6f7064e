------------------------------- MODULE OsFile -------------------------------
(***************************************************************************)
(* Open files: src/os_file.c on top of the VFS and the device manager,     *)
(* called by several tasks at once.                                        *)
(*                                                                         *)
(* Each task has a descriptor table of its own (the code has a function    *)
(* that shares one, without a caller).  So a descriptor's lock is never    *)
(* waited for and is left out; an open descriptor is counted at its node.  *)
(* A node whose id is not on os_file_list is free memory.                  *)
(*                                                                         *)
(* A call that uses freed memory, which another call has freed or another  *)
(* task has been given since, behaves in no way the code defines.  The     *)
(* model stops there: "faulted".                                           *)
(***************************************************************************)
EXTENDS OsVfs, SequencesExt

CONSTANTS
  Fnode,      \* ids of file nodes, a bound of the model
  MaxOpen,    \* descriptors a task may have open, a bound of the model
  OpenPaths,  \* paths as callers write them
  MemoryMayRunOut,   \* whether os_memory_alloc may return OS_NULL
  FreedMemoryReused  \* whether freed memory may be allocated and written again at once

FileLock == <<"os_file_global_lock", 0>>
NodeLock(n) == <<"os_file_node_t", n>>

Locks ==
  {FileLock, VfsLock, DeviceManager} \cup {MpLock(m) : m \in MountPoint}
    \cup {NodeLock(n) : n \in Fnode} \cup {DevLock(d) : d \in Device}

\* More nodes than SizeMax are not there to be counted: each takes memory.
ASSUME FileAssumption ==
  /\ IsFiniteSet(Task)
  /\ IsFiniteSet(Fnode) /\ Fnode \subseteq Nat /\ NULL \notin Fnode /\ Cardinality(Fnode) <= SizeMax
  /\ NULL \notin Locks
  /\ MaxOpen \in Nat /\ OpenPaths \subseteq Path
  /\ MemoryMayRunOut \in BOOLEAN /\ FreedMemoryReused \in BOOLEAN

VARIABLES
  os_file_list,  \* sequence of the nodes, from the head
  fnode,         \* node -> spelt, mp, refcnt
  fds,           \* task -> node -> descriptors the task has open on the node
  starved,       \* tasks that left os_file_open for want of memory for a node
  faulted        \* a call has used freed memory

fileVars == <<os_file_list, fnode, fds>>
vars == <<call, held, dev_refcnt, vfsVars, fileVars, starved, faulted>>

FileInit ==
  /\ call = [t \in Task |-> Idle]
  /\ held = [t \in Task |-> {}]
  /\ dev_refcnt = [d \in Device |-> 0]
  /\ VfsInit
  /\ os_file_list = <<>>
  /\ fnode = [n \in Fnode |-> NULL]
  /\ fds = [t \in Task |-> [n \in Fnode |-> 0]]
  /\ starved = {}
  /\ faulted = FALSE

-----------------------------------------------------------------------------
\* fnode.path: the path as os_file_open normalised it.
PathOf(n) == os_vfs_normalize_path(fnode[n].spelt)

Listed == {os_file_list[i] : i \in DOMAIN os_file_list}

\* The device whose name is the rest of the path after the mount point's; a node of
\* the root's file system names none.
DeviceOf(n) ==
  LET mpath == mount[fnode[n].mp].path
      name == SubSeq(PathOf(n), Len(mpath) + 1, Len(PathOf(n)))
  IN IF mpath # <<>> /\ Len(name) = 1 /\ name[1] \in Device THEN name[1] ELSE NULL

IsDevice(n) == mount[fnode[n].mp].fs = "devfs"

\* Every open descriptor: its task, its node and which of the task's on that node it is.
Descriptors == {d \in Task \X Fnode \X (1..MaxOpen) : d[3] <= fds[d[1]][d[2]]}

\* The number open on the nodes N; the number task t has open.
OpenOn(N) == Cardinality({d \in Descriptors : d[2] \in N})
OpenBy(t) == Cardinality({d \in Descriptors : d[1] = t})

\* romfs_open: whether the file exists and the caller knows whether it is a directory.
RomfsOpens(path, directory) == IF directory THEN path \in Directories ELSE path \in Files

\* Locks that survive a call: one that ran out of memory never unlocked FileLock,
\* which a later call of the task only nests.
Kept(t) == IF t \in starved THEN {FileLock} ELSE {}

\* What the call of t points to has been freed by another call.
Dangling(t) ==
  \/ call[t].mp # NULL /\ call[t].mp \notin mount_list
  \/ call[t].fnode # NULL /\ call[t].fnode \notin Listed

\* The next step of that call touches it.
use_freed_memory(t) ==
  /\ Dangling(t)
  /\ Reaches(t, call[t].stage)
  /\ faulted' = TRUE
  /\ UNCHANGED <<call, held, dev_refcnt, vfsVars, fileVars, starved>>

Return(t) ==
  /\ held' = [held EXCEPT ![t] = Kept(t)]
  /\ call' = [call EXCEPT ![t] = Idle]

-----------------------------------------------------------------------------
\* os_file_open: the global locks.  The directory flag is the only open flag that
\* matters to the node.
os_file_open(t, raw, directory) ==
  /\ call[t] = Idle
  /\ OpenBy(t) < MaxOpen
  /\ Available(FileLock, t)
  /\ held' = [held EXCEPT ![t] = {FileLock}]
  /\ call' = [call EXCEPT ![t] = [Idle EXCEPT !.stage = "open", !.wants = VfsLock,
                                    !.path = raw, !.flag = directory]]
  /\ UNCHANGED <<dev_refcnt, vfsVars, fileVars, starved>>

\* Mutant: no node is ever shared.
os_file_fnode_find_None(raw) == NULL

\* The first node whose path reads as the caller wrote it, character by character.
os_file_fnode_find(raw) ==
  LET same == {i \in DOMAIN os_file_list : PathOf(os_file_list[i]) = raw}
  IN IF same = {} THEN NULL ELSE os_file_list[Min(same)]

\* The path is malformed, or nothing is mounted above it, or there is no memory
\* for the path buffer.
OpenRefused(t) ==
  /\ Reaches(t, "open")
  /\ LET raw == call[t].path
     IN \/ ~Wellformed(raw)
        \/ os_vfs_find_mp_by_path(os_vfs_normalize_path(raw)) = NULL
        \/ MemoryMayRunOut
  /\ Return(t)
  /\ UNCHANGED <<dev_refcnt, vfsVars, fileVars, starved>>

\* The open goes on with node n on mount point m and wants the lock of m.
OpenWith(t, n, m, fresh) ==
  /\ TakeAndUnlock(t, {})
  /\ call' = [call EXCEPT ![t].stage = "open_mp", ![t].wants = MpLock(m),
                ![t].fnode = n, ![t].mp = m, ![t].fresh = fresh, ![t].path = NULL]

\* The id os_memory_alloc returns for a node.
FreshNode(n) ==
  /\ n \notin Listed
  /\ \A t \in Task : call[t].fnode # n
  /\ \A o \in Fnode : o < n => o \in Listed \/ \E t \in Task : call[t].fnode = o

\* An open node of that spelling is shared, otherwise a new one joins the list.
OpenFindNode(t) ==
  /\ Reaches(t, "open")
  /\ LET raw == call[t].path
         m == os_vfs_find_mp_by_path(os_vfs_normalize_path(raw))
         found == os_file_fnode_find(raw)
     IN /\ Wellformed(raw)
        /\ m # NULL
        /\ \/ /\ found # NULL
              /\ OpenWith(t, found, m, FALSE)
              /\ UNCHANGED <<os_file_list, fnode>>
           \/ /\ found = NULL
              /\ \E n \in Fnode :
                   /\ FreshNode(n)
                   /\ OpenWith(t, n, m, TRUE)
                   /\ os_file_list' = Append(os_file_list, n)
                   /\ fnode' = [fnode EXCEPT ![n] = [spelt |-> raw, mp |-> m, refcnt |-> 0]]
  /\ UNCHANGED <<dev_refcnt, vfsVars, fds, starved>>

\* No memory for a new node: vfs_global_lock is unlocked, os_file_global_lock is not.
OpenWithoutMemory(t) ==
  /\ MemoryMayRunOut
  /\ Reaches(t, "open")
  /\ Wellformed(call[t].path)
  /\ os_vfs_find_mp_by_path(os_vfs_normalize_path(call[t].path)) # NULL
  /\ os_file_fnode_find(call[t].path) = NULL
  /\ starved' = starved \cup {t}
  /\ held' = [held EXCEPT ![t] = {FileLock}]
  /\ call' = [call EXCEPT ![t] = Idle]
  /\ UNCHANGED <<dev_refcnt, vfsVars, fileVars>>

OpenLockMount(t) ==
  /\ Reaches(t, "open_mp")
  /\ TakeAndUnlock(t, {VfsLock})
  /\ GoOn(t, "open_node", NodeLock(call[t].fnode))
  /\ UNCHANGED <<dev_refcnt, vfsVars, fileVars, starved>>

\* The node is locked, the file manager is not any more, and the mount point's file
\* system opens the file: romfs_open, or devfs_open, which takes no directories and
\* looks the device up.
OpenLockNode(t) ==
  /\ Reaches(t, "open_node")
  /\ TakeAndUnlock(t, {FileLock} \ Kept(t))
  /\ IF mount[call[t].mp].fs = "romfs" \/ call[t].flag
     THEN GoOn(t, "open_fs", NULL)
     ELSE GoOn(t, "open_manager", DeviceManager)
  /\ UNCHANGED <<dev_refcnt, vfsVars, fileVars, starved>>

-----------------------------------------------------------------------------
\* os_list_node_remove of node n, which is on the list.
Unlist(n) ==
  \E i \in DOMAIN os_file_list : os_file_list[i] = n /\ os_file_list' = RemoveAt(os_file_list, i)

\* Mutant: only the first descriptor is counted at the node.
OpenSucceeds_CountFirst(t) ==
  LET n == call[t].fnode IN
  /\ fnode' = [fnode EXCEPT ![n].refcnt = IF call[t].fresh THEN @ + 1 ELSE @]
  /\ fds' = [fds EXCEPT ![t][n] = @ + 1]
  /\ mount' = [mount EXCEPT ![call[t].mp].open_file_cnt = IF call[t].fresh THEN Incremented(@) ELSE @]
  /\ UNCHANGED <<os_file_list, mount_list>>
  /\ Return(t)

\* Mutant: the file system counts descriptors instead of files.
OpenSucceeds_CountEach(t) ==
  LET n == call[t].fnode IN
  /\ fnode' = [fnode EXCEPT ![n].refcnt = @ + 1]
  /\ fds' = [fds EXCEPT ![t][n] = @ + 1]
  /\ mount' = [mount EXCEPT ![call[t].mp].open_file_cnt = Incremented(@)]
  /\ UNCHANGED <<os_file_list, mount_list>>
  /\ Return(t)

\* The file system has opened the file: a new node counts at its mount point, the
\* descriptor counts at the node.
OpenSucceeds(t) ==
  LET n == call[t].fnode IN
  /\ fnode' = [fnode EXCEPT ![n].refcnt = @ + 1]
  /\ fds' = [fds EXCEPT ![t][n] = @ + 1]
  /\ mount' = [mount EXCEPT ![call[t].mp].open_file_cnt = IF call[t].fresh THEN Incremented(@) ELSE @]
  /\ UNCHANGED <<os_file_list, mount_list>>
  /\ Return(t)

\* Mutant: a shared node stays locked.
OpenFails_NodeLocked(t) ==
  /\ IF call[t].fresh THEN Unlist(call[t].fnode) ELSE UNCHANGED os_file_list
  /\ UNCHANGED <<vfsVars, fnode, fds>>
  /\ held' = [held EXCEPT ![t] = Kept(t) \cup (IF call[t].fresh THEN {} ELSE {NodeLock(call[t].fnode)})]
  /\ call' = [call EXCEPT ![t] = Idle]

\* It has not: a new node is taken off the list and freed, though another opener may
\* have found it and wait for the mount point.
OpenFails(t) ==
  /\ IF call[t].fresh THEN Unlist(call[t].fnode) ELSE UNCHANGED os_file_list
  /\ UNCHANGED <<vfsVars, fnode, fds>>
  /\ Return(t)

OpenByFs(t) ==
  /\ Reaches(t, "open_fs")
  /\ IF mount[call[t].mp].fs = "romfs" /\ RomfsOpens(PathOf(call[t].fnode), call[t].flag)
     THEN OpenSucceeds(t)
     ELSE OpenFails(t)
  /\ UNCHANGED <<dev_refcnt, starved>>

OpenNoDevice(t) ==
  /\ Reaches(t, "open_manager")
  /\ DeviceOf(call[t].fnode) = NULL
  /\ OpenFails(t)
  /\ UNCHANGED <<dev_refcnt, starved>>

OpenLockManager(t) ==
  /\ LockManager(t, "open_manager", "open_device", DeviceOf(call[t].fnode))
  /\ DeviceOf(call[t].fnode) # NULL
  /\ UNCHANGED <<dev_refcnt, vfsVars, fileVars, starved>>

OpenLockDevice(t) ==
  /\ LockDevice(t, "open_device", "open_init")
  /\ UNCHANGED <<dev_refcnt, vfsVars, fileVars, starved>>

OpenByDriver(t) ==
  /\ Reaches(t, "open_init")
  /\ \E ok \in BOOLEAN :
       /\ DriverAgrees(DeviceOf(call[t].fnode), ok)
       /\ DeviceOpened(DeviceOf(call[t].fnode), ok)
       /\ IF ok THEN OpenSucceeds(t) ELSE OpenFails(t)
  /\ UNCHANGED starved

-----------------------------------------------------------------------------
\* Mutant: the node is locked before the mount point.
CloseLockMount_Swapped(t) ==
  /\ Reaches(t, "close_mp")
  /\ held' = [held EXCEPT ![t] = @ \cup {NodeLock(call[t].fnode)}]
  /\ GoOn(t, "close_node", MpLock(fnode[call[t].fnode].mp))
  /\ UNCHANGED <<dev_refcnt, vfsVars, fileVars, starved>>

\* os_file_close under the global lock.  romfs_close does nothing; devfs_close closes
\* the device.
CloseAsk(t, n) == 
  IF IsDevice(n)
  THEN [Idle EXCEPT !.stage = "close_manager", !.wants = DeviceManager, !.fnode = n]
  ELSE [Idle EXCEPT !.stage = "close_mp", !.wants = MpLock(fnode[n].mp), !.fnode = n]

os_file_close(t, n) ==
  /\ call[t] = Idle
  /\ fds[t][n] > 0
  /\ Available(FileLock, t)
  /\ held' = [held EXCEPT ![t] = {FileLock}]
  /\ call' = [call EXCEPT ![t] = CloseAsk(t, n)]
  /\ UNCHANGED <<dev_refcnt, vfsVars, fileVars, starved>>

CloseLockManager(t) ==
  /\ LockManager(t, "close_manager", "close_device", DeviceOf(call[t].fnode))
  /\ UNCHANGED <<dev_refcnt, vfsVars, fileVars, starved>>

CloseLockDevice(t) ==
  /\ LockDevice(t, "close_device", "close_init")
  /\ UNCHANGED <<dev_refcnt, vfsVars, fileVars, starved>>

\* The driver closes the device; when it refuses the descriptor stays open.
CloseByDriver(t) ==
  /\ Reaches(t, "close_init")
  /\ LET d == DeviceOf(call[t].fnode)
     IN \E ok \in BOOLEAN :
          /\ DriverAgrees(d, ok)
          /\ DeviceClosed(d, ok)
          /\ IF ok
             THEN /\ held' = [held EXCEPT ![t] = @ \ {DevLock(d)}]
                  /\ GoOn(t, "close_mp", MpLock(fnode[call[t].fnode].mp))
             ELSE Return(t)
  /\ UNCHANGED <<vfsVars, fileVars, starved>>

CloseLockMount(t) ==
  /\ Reaches(t, "close_mp")
  /\ TakeAndUnlock(t, {})
  /\ GoOn(t, "close_node", NodeLock(call[t].fnode))
  /\ UNCHANGED <<dev_refcnt, vfsVars, fileVars, starved>>

\* The node goes with its last descriptor.  The code unlocks the mount point it reads
\* from the node, which it has just freed; this is the close that still reads it there.
CloseNode(t) ==
  /\ Reaches(t, "close_node")
  /\ LET n == call[t].fnode
         last == fnode[n].refcnt = 1
     IN /\ fnode' = [fnode EXCEPT ![n].refcnt = @ - 1]
        /\ fds' = [fds EXCEPT ![t][n] = @ - 1]
        /\ IF last
           THEN /\ Unlist(n)
                /\ mount' = [mount EXCEPT ![fnode[n].mp].open_file_cnt = Decremented(@)]
           ELSE UNCHANGED <<os_file_list, mount>>
  /\ Return(t)
  /\ UNCHANGED <<dev_refcnt, mount_list, starved>>

\* Or the node's memory has gone to another task since os_memory_free, and has something
\* else where its mount point was.
CloseNodeReused(t) ==
  /\ FreedMemoryReused
  /\ Reaches(t, "close_node")
  /\ fnode[call[t].fnode].refcnt = 1
  /\ faulted' = TRUE
  /\ UNCHANGED <<call, held, dev_refcnt, vfsVars, fileVars, starved>>

-----------------------------------------------------------------------------
\* os_file_read, _write and _ioctl on a device lock the node, then the device.  The
\* other operations, and all of them on a romfs, lock only the node and change
\* nothing that is modelled.
os_file_read(t, n) ==
  /\ call[t] = Idle
  /\ fds[t][n] > 0
  /\ IsDevice(n)
  /\ Available(NodeLock(n), t)
  /\ held' = [held EXCEPT ![t] = @ \cup {NodeLock(n)}]
  /\ call' = [call EXCEPT ![t] = [Idle EXCEPT !.stage = "read", !.wants = DevLock(DeviceOf(n)),
                                    !.fnode = n]]
  /\ UNCHANGED <<dev_refcnt, vfsVars, fileVars, starved>>

ReadReturn(t) ==
  /\ Reaches(t, "read")
  /\ Return(t)
  /\ UNCHANGED <<dev_refcnt, vfsVars, fileVars, starved>>

-----------------------------------------------------------------------------
Vfs(t) ==
  /\ \/ \E raw \in MountPaths : os_vfs_mount(t, raw)
     \/ \E raw \in UnmountPaths : os_vfs_unmount(t, raw)
     \/ \E raw \in StatPaths : os_vfs_stat(t, raw)
     \/ StatLock(t) \/ StatReturn(t)
  /\ UNCHANGED <<fileVars, starved>>

Open(t) ==
  \/ \E raw \in OpenPaths, directory \in BOOLEAN : os_file_open(t, raw, directory)
  \/ OpenRefused(t) \/ OpenFindNode(t) \/ OpenWithoutMemory(t)
  \/ OpenLockMount(t) \/ OpenLockNode(t) \/ OpenByFs(t)
  \/ OpenNoDevice(t) \/ OpenLockManager(t) \/ OpenLockDevice(t) \/ OpenByDriver(t)

Close(t) ==
  \/ \E n \in Listed : os_file_close(t, n)
  \/ CloseLockManager(t) \/ CloseLockDevice(t) \/ CloseByDriver(t)
  \/ CloseLockMount(t) \/ CloseNode(t)

Read(t) == (\E n \in Listed : os_file_read(t, n)) \/ ReadReturn(t)

\* A step of a call that still points to memory of its own, or the end of the model.
Next ==
  \E t \in Task :
    /\ ~faulted
    /\ \/ /\ ~Dangling(t)
          /\ Vfs(t) \/ Open(t) \/ Close(t) \/ Read(t)
          /\ UNCHANGED faulted
       \/ use_freed_memory(t)
       \/ CloseNodeReused(t)

Spec == FileInit /\ [][Next]_vars

-----------------------------------------------------------------------------
\* Every variable has its type, and a mutex at most one holder.
FileTypeOK ==
  /\ \A t \in Task : held[t] \subseteq Locks /\ call[t].wants \in Locks \cup {NULL}
  /\ \A t, u \in Task : t # u => held[t] \cap held[u] = {}
  /\ dev_refcnt \in [Device -> Nat]
  /\ mount_list \subseteq MountPoint
  /\ \A m \in mount_list : mount[m].mp_cnt \in 0..SizeMax /\ mount[m].open_file_cnt \in 0..SizeMax
  /\ Listed \subseteq Fnode
  /\ \A n \in Listed : fnode[n].mp \in MountPoint /\ fnode[n].refcnt \in Nat
  /\ fds \in [Task -> [Fnode -> 0..MaxOpen]]

\* What os_file_close relies on to free a node at the right moment: a listed node
\* counts exactly the descriptors open on it, and one that has none yet belongs to
\* the open call that made it.
RefcntExact ==
  \A n \in Listed :
    /\ fnode[n].refcnt = OpenOn({n})
    /\ fnode[n].refcnt = 0 => \E t \in Task : call[t].fnode = n /\ call[t].fresh

\* What os_vfs_unmount relies on: a mount point counts exactly the files open on it,
\* a file being a node with a descriptor.
OpenFiles(m) == {n \in Listed : fnode[n].mp = m /\ fnode[n].refcnt > 0}

OpenCountExact == \A m \in mount_list : mount[m].open_file_cnt = Cardinality(OpenFiles(m))

\* No open file loses its file system: os_vfs_unmount refuses while one is open, and
\* never takes away another mount point than the path's.
OpenFilesKeepTheirMount ==
  \A n \in Listed : fnode[n].refcnt > 0 => fnode[n].mp \in mount_list

\* The nodes of device d, and the tasks that have closed it but not yet its file.
NodesOf(d) == {n \in Listed : fnode[n].mp \in mount_list /\ IsDevice(n) /\ DeviceOf(n) = d}
HalfClosed(d) ==
  {t \in Task : call[t].stage \in {"close_mp", "close_node"} /\ call[t].fnode \in NodesOf(d)}

\* A device counts the descriptors open on it, through os_file_open's shared nodes,
\* refusing drivers and os_file_close's two halves.
DeviceRefcntExact ==
  \A d \in Device : dev_refcnt[d] + Cardinality(HalfClosed(d)) = OpenOn(NodesOf(d))

Rank(l) ==
  CASE l = FileLock -> 1 [] l = VfsLock -> 2 [] l[1] = "os_vfs_mp_t" -> 3
    [] l[1] = "os_file_node_t" -> 4 [] l = DeviceManager -> 5 [] OTHER -> 6

\* The file manager and the VFS cannot deadlock: every call takes mutexes in one order
\* (the order os_file_close's comment insists on), except for os_device_op_init's
\* second look at the device manager.
LocksInOrder ==
  \A t \in Task :
    /\ call[t].wants # NULL
    /\ call[t].stage \notin {"open_init", "close_init"}
    => \A l \in held[t] : Rank(l) < Rank(call[t].wants)

\* A call returns with every mutex unlocked; only one that found no memory for a node
\* keeps os_file_global_lock.
LocksEndWithCalls ==
  \A t \in Task :
    call[t] = Idle => held[t] = IF t \in starved THEN {FileLock} ELSE {}

\* The counts on which nodes are freed, mounts refused and devices closed are exact.
CountsExact == RefcntExact /\ OpenCountExact /\ DeviceRefcntExact

\* Mutexes have one holder, are taken in order and do not stay behind.
LocksAreDisciplined == FileTypeOK /\ LocksInOrder /\ LocksEndWithCalls

\* Two nodes stand for one file only when one of them was opened under a spelling that
\* is not its normal form: os_file_open looks for the spelling, not for the file.
SharedUnlessRespelt ==
  \A n, o \in Listed :
    n # o /\ PathOf(n) = PathOf(o) => \E x \in {n, o} : fnode[x].spelt # PathOf(x)

\* os_file_open locks the mount point before it unlocks the VFS, and the node before it
\* unlocks the file manager, "to guarantee atomicity" (src/os_file.c:302, 305): what a
\* call points to is never freed by another.  os_file_close destroys a node only when its
\* references are gone (src/os_file.c:375), its own among them.
NothingFreedIsUsed == ~faulted

\* Calls never wait for each other in a circle: the order of locks is there to prevent
\* deadlock (src/os_file.c:367).
NoCircularWait ==
  LET waitsFor(t) == {u \in Task \ {t} : call[t].wants \in held[u]}
  IN \A S \in SUBSET Task : S # {} => \E t \in S : waitsFor(t) \cap S = {}
=============================================================================
