-------------------------------- MODULE OsVfs --------------------------------
(***************************************************************************)
(* Paths and mount points: src/os_vfs.c over src/vfs/os_vfs_romfs.c and    *)
(* src/vfs/os_vfs_devfs.c.                                                 *)
(*                                                                         *)
(* A path as callers write it is the sequence of its components; an empty  *)
(* component stands for a doubled slash, or at the end for a closing one.  *)
(* No component is a prefix of another (the code compares characters).     *)
(*                                                                         *)
(* The root is a romfs, as at boot; every other mount is a devfs.  A       *)
(* mount's id is released when no call points to it any more.  The lock of *)
(* a file system type is only taken under vfs_global_lock and is left out. *)
(***************************************************************************)
EXTENDS OsDevice

CONSTANTS
  MountPoint,   \* ids of mount points, a bound of the model
  Directories,  \* the directories of the romfs
  Files,        \* its regular files
  BootMount,    \* where the boot code mounts the devfs
  SizeMax,      \* the largest os_size_t
  MountPaths, UnmountPaths, StatPaths  \* the arguments of the calls, bounds of the model

Path == Seq(STRING)

ASSUME VfsAssumption ==
  /\ MountPoint \subseteq Nat /\ {1, 2} \subseteq MountPoint /\ NULL \notin MountPoint
  /\ Directories \subseteq Path /\ Files \subseteq Path /\ Directories \cap Files = {}
  /\ <<>> \in Directories /\ BootMount \in Directories /\ BootMount # <<>>
  /\ SizeMax \in Nat \ {0}
  /\ MountPaths \cup UnmountPaths \cup StatPaths \subseteq Path /\ <<>> \notin MountPaths

VARIABLES
  mount_list,  \* the mounted mount points
  mount        \* mount point -> path, fs, mp_cnt, open_file_cnt

vfsVars == <<mount_list, mount>>

\* x++ and x-- of an os_size_t.
Incremented(x) == IF x = SizeMax THEN 0 ELSE x + 1
Decremented(x) == IF x = 0 THEN SizeMax ELSE x - 1

VfsLock == <<"vfs_global_lock", 0>>
MpLock(m) == <<"os_vfs_mp_t", m>>

-----------------------------------------------------------------------------
\* os_vfs_normalize_path refuses doubled slashes.
Wellformed(raw) == \A i \in 1..(Len(raw) - 1) : raw[i] # ""

\* One round of os_vfs_normalize_path's loop: "." goes, ".." takes the component before
\* it along and goes, a closing slash goes.
AddComponent(buf, c) ==
  IF c \in {".", ""} THEN buf
  ELSE IF c = ".." THEN SubSeq(buf, 1, Len(buf) - 1)
  ELSE Append(buf, c)

os_vfs_normalize_path(raw) ==
  LET upto[i \in 0..Len(raw)] == IF i = 0 THEN <<>> ELSE AddComponent(upto[i - 1], raw[i])
  IN upto[Len(raw)]

Beneath(prefix, path) == Len(prefix) <= Len(path) /\ SubSeq(path, 1, Len(prefix)) = prefix

\* os_vfs_find_mp_by_path among the mount points M: the longest prefix.
FindMp(M, path) ==
  LET matching == {m \in M : Beneath(mount[m].path, path)}
  IN IF matching = {} THEN NULL
     ELSE CHOOSE m \in matching :
            \A o \in matching : Len(mount[o].path) <= Len(mount[m].path)

os_vfs_find_mp_by_path(path) == FindMp(mount_list, path)

\* romfs_stat and devfs_stat, as far as os_vfs_mount asks.
IsDirectory(m, path) == mount[m].fs = "romfs" /\ path \in Directories

NewMount(path, fs) == [path |-> path, fs |-> fs, mp_cnt |-> 0, open_file_cnt |-> 0]

\* After the boot code's two mounts.
VfsInit ==
  /\ mount_list = {1, 2}
  /\ mount = [m \in MountPoint |->
                CASE m = 1 -> [NewMount(<<>>, "romfs") EXCEPT !.mp_cnt = 1]
                  [] m = 2 -> NewMount(BootMount, "devfs")
                  [] OTHER -> NULL]

\* The id os_memory_alloc returns for a mount point.
FreshMount(m) ==
  /\ m \notin mount_list
  /\ \A t \in Task : call[t].mp # m
  /\ \A o \in MountPoint : o < m => o \in mount_list \/ \E t \in Task : call[t].mp = o

-----------------------------------------------------------------------------
\* The whole call is under vfs_global_lock.  A mount beneath a devfs is refused,
\* and so is one without a root; a refused call changes nothing.
os_vfs_mount(t, raw) ==
  /\ call[t] = Idle
  /\ Available(VfsLock, t)
  /\ Wellformed(raw)
  /\ LET path == os_vfs_normalize_path(raw)
         parent == os_vfs_find_mp_by_path(path)
     IN /\ parent # NULL
        /\ IsDirectory(parent, path)
        /\ \E m \in MountPoint :
             /\ FreshMount(m)
             /\ mount_list' = mount_list \cup {m}
             /\ mount' = [mount EXCEPT ![parent].mp_cnt = Incremented(@), ![m] = NewMount(path, "devfs")]
  /\ UNCHANGED <<call, held, dev_refcnt>>

\* Mutant: open files do not keep a file system mounted.
MayUnmount_OpenFiles(m) == mount[m].mp_cnt = 0

MayUnmount(m) == mount[m].mp_cnt = 0 /\ mount[m].open_file_cnt = 0

\* The parent is looked up again by path once the mount point is gone; when there
\* is none the assertion fails and the task spins with vfs_global_lock held.
os_vfs_unmount(t, raw) ==
  /\ call[t] = Idle
  /\ Available(VfsLock, t)
  /\ Wellformed(raw)
  /\ LET path == os_vfs_normalize_path(raw)
         m == os_vfs_find_mp_by_path(path)
         parent == FindMp(mount_list \ {m}, path)
     IN /\ m # NULL
        /\ MayUnmount(m)
        /\ mount_list' = mount_list \ {m}
        /\ IF parent # NULL
           THEN /\ mount' = [mount EXCEPT ![parent].mp_cnt = Decremented(@)]
                /\ UNCHANGED <<call, held>>
           ELSE /\ held' = [held EXCEPT ![t] = @ \cup {VfsLock}]
                /\ call' = [call EXCEPT ![t].stage = "asserted"]
                /\ UNCHANGED mount
  /\ UNCHANGED dev_refcnt

\* os_vfs_stat, and os_vfs_statfs, os_vfs_unlink and os_vfs_rename, which lock in
\* the same way.  A path without mount point returns at once.
os_vfs_stat(t, raw) ==
  /\ call[t] = Idle
  /\ Available(VfsLock, t)
  /\ Wellformed(raw)
  /\ LET m == os_vfs_find_mp_by_path(os_vfs_normalize_path(raw))
     IN /\ m # NULL
        /\ call' = [call EXCEPT ![t] = [Idle EXCEPT !.stage = "stat_mp", !.wants = MpLock(m), !.mp = m]]
  /\ held' = [held EXCEPT ![t] = @ \cup {VfsLock}]
  /\ UNCHANGED <<vfsVars, dev_refcnt>>

\* The mount point is locked; devfs_stat looks the device up, romfs_stat locks nothing.
StatLock(t) ==
  /\ Reaches(t, "stat_mp")
  /\ TakeAndUnlock(t, {VfsLock})
  /\ GoOn(t, "stat", IF mount[call[t].mp].fs = "devfs" THEN DeviceManager ELSE NULL)
  /\ UNCHANGED <<vfsVars, dev_refcnt>>

StatReturn(t) ==
  /\ Reaches(t, "stat")
  /\ TakeAndUnlock(t, {DeviceManager, MpLock(call[t].mp)})
  /\ call' = [call EXCEPT ![t] = Idle]
  /\ UNCHANGED <<vfsVars, dev_refcnt>>
=============================================================================
