---------------------------- MODULE OsFileProofs ----------------------------
(***************************************************************************)
(* Proofs about open files, for every number of tasks, nodes, mount points *)
(* and devices, every set of paths and every directory tree.               *)
(***************************************************************************)
EXTENDS OsFile, DataLemmas

-----------------------------------------------------------------------------
(***************************************************************************)
(* Paths.                                                                  *)
(***************************************************************************)

\* The components a normal path may have.
Name == STRING \ {".", "..", ""}
NormalPath == Seq(Name)

LEMMA AddComponentType ==
  ASSUME NEW buf \in NormalPath, NEW c \in STRING
  PROVE  AddComponent(buf, c) \in NormalPath
<1>1. SubSeq(buf, 1, Len(buf) - 1) \in NormalPath
  BY DEF NormalPath
<1>2. CASE c \in {".", "", ".."}
  BY <1>1, <1>2 DEF AddComponent
<1>3. CASE c \notin {".", "", ".."}
  <2>1. c \in Name
    BY <1>3 DEF Name
  <2>2. Append(buf, c) \in NormalPath
    BY <2>1, AppendProperties DEF NormalPath
  <2>3. AddComponent(buf, c) = Append(buf, c)
    BY <1>3 DEF AddComponent
  <2>. QED BY <2>2, <2>3
<1>. QED BY <1>2, <1>3

\* The loop of os_vfs_normalize_path over the first n components is defined: f[i] is
\* the buffer after i rounds.
Rounds(raw, n, f) ==
  /\ f \in [0..n -> NormalPath]
  /\ f[0] = <<>>
  /\ \A i \in 1..n : f[i] = AddComponent(f[i - 1], raw[i])

LEMMA RoundsExist ==
  ASSUME NEW raw \in Path
  PROVE  \E f : Rounds(raw, Len(raw), f)
<1>. DEFINE S == {n \in Nat : n <= Len(raw) => \E f : Rounds(raw, n, f)}
<1>1. Len(raw) \in Nat /\ \A i \in 1..Len(raw) : raw[i] \in STRING
  BY DEF Path
<1>2. 0 \in S
  <2>1. Rounds(raw, 0, [i \in 0..0 |-> <<>>])
    BY DEF Rounds, NormalPath
  <2>. QED BY <2>1
<1>3. ASSUME NEW n \in Nat, n \in S PROVE n + 1 \in S
  <2>. SUFFICES ASSUME n + 1 <= Len(raw) PROVE \E f : Rounds(raw, n + 1, f)
    OBVIOUS
  <2>1. PICK g : Rounds(raw, n, g)
    BY <1>1, <1>3
  <2>. DEFINE f == [i \in 0..(n + 1) |-> IF i <= n THEN g[i] ELSE AddComponent(g[n], raw[n + 1])]
  <2>2. AddComponent(g[n], raw[n + 1]) \in NormalPath
    <3>1. g[n] \in NormalPath /\ raw[n + 1] \in STRING
      BY <1>1, <2>1 DEF Rounds
    <3>. QED BY <3>1, AddComponentType
  <2>3. f \in [0..(n + 1) -> NormalPath]
    BY <2>1, <2>2 DEF Rounds
  <2>4. f[0] = <<>>
    BY <2>1 DEF Rounds
  <2>5. ASSUME NEW i \in 1..(n + 1) PROVE f[i] = AddComponent(f[i - 1], raw[i])
    <3>1. CASE i = n + 1
      <4>1. f[i] = AddComponent(g[n], raw[n + 1]) /\ f[i - 1] = g[n]
        BY <3>1
      <4>. QED BY <3>1, <4>1
    <3>2. CASE i # n + 1
      <4>1. i \in 1..n /\ f[i] = g[i] /\ f[i - 1] = g[i - 1]
        BY <3>2
      <4>. QED BY <2>1, <4>1 DEF Rounds
    <3>. QED BY <3>1, <3>2
  <2>6. Rounds(raw, n + 1, f)
    <3>. HIDE DEF f
    <3>. QED BY <2>3, <2>4, <2>5 DEF Rounds
  <2>. QED BY <2>6
<1>4. Len(raw) \in S
  <2>. HIDE DEF S
  <2>. QED BY <1>1, <1>2, <1>3, SetInduction
<1>. QED BY <1>1, <1>4

\* os_vfs_normalize_path is what its loop computes.
LEMMA NormalizeRounds ==
  ASSUME NEW raw \in Path
  PROVE  \E f : Rounds(raw, Len(raw), f) /\ os_vfs_normalize_path(raw) = f[Len(raw)]
<1>. DEFINE body(f) == [i \in 0..Len(raw) |-> IF i = 0 THEN <<>> ELSE AddComponent(f[i - 1], raw[i])]
            F == CHOOSE f : f = body(f)
<1>1. Len(raw) \in Nat
  BY DEF Path
<1>2. os_vfs_normalize_path(raw) = F[Len(raw)]
  BY DEF os_vfs_normalize_path
<1>3. PICK g : Rounds(raw, Len(raw), g)
  BY RoundsExist
<1>4. g = body(g)
  BY <1>1, <1>3 DEF Rounds
<1>5. F = body(F)
  <2>. HIDE DEF body
  <2>. QED BY <1>4
<1>. HIDE DEF F
<1>6. ASSUME NEW i \in 0..Len(raw) PROVE F[i] = IF i = 0 THEN <<>> ELSE AddComponent(F[i - 1], raw[i])
  BY <1>5
<1>. DEFINE S == {n \in Nat : n <= Len(raw) => F[n] = g[n]}
<1>7. 0 \in S
  BY <1>1, <1>3, <1>6 DEF Rounds
<1>8. ASSUME NEW n \in Nat, n \in S PROVE n + 1 \in S
  <2>. SUFFICES ASSUME n + 1 <= Len(raw) PROVE F[n + 1] = g[n + 1]
    OBVIOUS
  <2>1. F[n] = g[n]
    BY <1>1, <1>8
  <2>2. F[n + 1] = AddComponent(F[n], raw[n + 1])
    BY <1>1, <1>6
  <2>3. g[n + 1] = AddComponent(g[n], raw[n + 1])
    BY <1>1, <1>3 DEF Rounds
  <2>. QED BY <2>1, <2>2, <2>3
<1>9. F[Len(raw)] = g[Len(raw)]
  <2>1. Len(raw) \in S
    <3>. HIDE DEF S
    <3>. QED BY <1>1, <1>7, <1>8, SetInduction
  <2>. QED BY <1>1, <2>1
<1>. QED BY <1>2, <1>3, <1>9

\* A normalised path has no ".", no ".." and no empty component.
LEMMA NormalizeType ==
  ASSUME NEW raw \in Path
  PROVE  os_vfs_normalize_path(raw) \in NormalPath
<1>1. Len(raw) \in Nat
  BY DEF Path
<1>. QED BY <1>1, NormalizeRounds DEF Rounds

\* Normalising twice is normalising once.
LEMMA NormalizeIdempotent ==
  ASSUME NEW raw \in NormalPath
  PROVE  os_vfs_normalize_path(raw) = raw
<1>1. raw \in Path /\ Len(raw) \in Nat /\ \A i \in 1..Len(raw) : raw[i] \in Name
  <2>1. Name \subseteq STRING
    BY DEF Name
  <2>2. raw \in Seq(STRING)
    BY <2>1, SeqMonotonic DEF NormalPath
  <2>. QED BY <2>2 DEF NormalPath, Path
<1>2. PICK f : Rounds(raw, Len(raw), f) /\ os_vfs_normalize_path(raw) = f[Len(raw)]
  BY <1>1, NormalizeRounds
<1>. DEFINE S == {n \in Nat : n <= Len(raw) => f[n] = SubSeq(raw, 1, n)}
<1>3. 0 \in S
  BY <1>2 DEF Rounds, NormalPath
<1>4. ASSUME NEW n \in Nat, n \in S PROVE n + 1 \in S
  <2>. SUFFICES ASSUME n + 1 <= Len(raw) PROVE f[n + 1] = SubSeq(raw, 1, n + 1)
    OBVIOUS
  <2>1. f[n] = SubSeq(raw, 1, n)
    BY <1>1, <1>4
  <2>2. f[n + 1] = AddComponent(f[n], raw[n + 1])
    BY <1>1, <1>2 DEF Rounds
  <2>3. raw[n + 1] \in Name
    BY <1>1
  <2>4. f[n + 1] = Append(SubSeq(raw, 1, n), raw[n + 1])
    BY <2>1, <2>2, <2>3 DEF AddComponent, Name
  <2>5. SubSeq(raw, 1, n + 1) = Append(SubSeq(raw, 1, n), raw[n + 1])
    <3>1. SubSeq(raw, 1, n + 1) = SubSeq(raw, 1, n + 1 - 1) \o <<raw[n + 1]>>
      BY <1>1, SubSeqRecursiveSecond DEF NormalPath
    <3>2. SubSeq(raw, 1, n) \in NormalPath
      BY <1>1 DEF NormalPath
    <3>. QED BY <2>3, <3>1, <3>2 DEF NormalPath
  <2>. QED BY <2>4, <2>5
<1>5. Len(raw) \in S
  <2>. HIDE DEF S
  <2>. QED BY <1>1, <1>3, <1>4, SetInduction
<1>6. f[Len(raw)] = SubSeq(raw, 1, Len(raw))
  BY <1>1, <1>5
<1>7. SubSeq(raw, 1, Len(raw)) = raw
  BY SubSeqFull DEF NormalPath
<1>. QED BY <1>2, <1>6, <1>7

-----------------------------------------------------------------------------
(***************************************************************************)
(* Locks, mount points, the list of nodes, descriptors.                    *)
(***************************************************************************)

\* Different mutexes are different.
LEMMA LocksDiffer ==
  /\ FileLock # VfsLock /\ FileLock # DeviceManager /\ VfsLock # DeviceManager
  /\ \A x : /\ MpLock(x) \notin {FileLock, VfsLock, DeviceManager}
            /\ NodeLock(x) \notin {FileLock, VfsLock, DeviceManager}
            /\ DevLock(x) \notin {FileLock, VfsLock, DeviceManager}
  /\ \A x, y : MpLock(x) # NodeLock(y) /\ MpLock(x) # DevLock(y) /\ NodeLock(x) # DevLock(y)
BY DEF FileLock, VfsLock, DeviceManager, MpLock, NodeLock, DevLock

\* The mutexes of ids are mutexes, and NULL is none.
LEMMA LocksType ==
  /\ FileLock \in Locks /\ VfsLock \in Locks /\ DeviceManager \in Locks /\ NULL \notin Locks
  /\ \A m \in MountPoint : MpLock(m) \in Locks
  /\ \A n \in Fnode : NodeLock(n) \in Locks
  /\ \A d \in Device : DevLock(d) \in Locks
BY FileAssumption DEF Locks

\* The search for a mount point finds the longest prefix, if there is one.
LEMMA FindMpLongest ==
  ASSUME NEW M, NEW path \in Path, \A m \in M : mount[m].path \in Path, FindMp(M, path) # NULL
  PROVE  /\ FindMp(M, path) \in M
         /\ Beneath(mount[FindMp(M, path)].path, path)
         /\ \A o \in M : Beneath(mount[o].path, path)
                           => Len(mount[o].path) <= Len(mount[FindMp(M, path)].path)
<1>. DEFINE matching == {m \in M : Beneath(mount[m].path, path)}
            room(m) == Len(path) - Len(mount[m].path)
            longest(m) == \A o \in matching : Len(mount[o].path) <= Len(mount[m].path)
<1>1. matching # {} /\ FindMp(M, path) = CHOOSE m \in matching : longest(m)
  BY DEF FindMp
<1>2. \A m \in matching : Len(mount[m].path) \in Nat /\ room(m) \in Nat
  BY DEF Beneath, Path
<1>3. \E m \in matching : longest(m)
  <2>. DEFINE S == {room(m) : m \in matching}
  <2>1. S \in SUBSET Nat /\ S # {}
    BY <1>1, <1>2
  <2>2. PICK x \in S : \A y \in S : x <= y
    <3>. HIDE DEF S
    <3>. QED BY <2>1, LeastNumber
  <2>3. PICK m \in matching : x = room(m)
    BY <2>2
  <2>4. ASSUME NEW o \in matching PROVE Len(mount[o].path) <= Len(mount[m].path)
    <3>1. room(m) <= room(o)
      BY <2>2, <2>3
    <3>. QED BY <1>2, <3>1 DEF Path
  <2>. QED BY <2>4
<1>4. FindMp(M, path) \in matching /\ longest(FindMp(M, path))
  <2>. HIDE DEF matching, longest
  <2>. QED BY <1>1, <1>3
<1>. QED BY <1>4

\* There are finitely many descriptors.
LEMMA DescriptorsFinite ==
  IsFiniteSet(Descriptors)
<1>. DEFINE A == Task \X Fnode \X (1..MaxOpen)
            B == (Task \X Fnode) \X (1..MaxOpen)
            f == [d \in A |-> <<<<d[1], d[2]>>, d[3]>>]
<1>1. IsFiniteSet(B)
  <2>1. IsFiniteSet(Task \X Fnode)
    BY FileAssumption, FS_Product
  <2>2. IsFiniteSet(1..MaxOpen)
    BY FileAssumption, FS_Interval
  <2>. QED BY <2>1, <2>2, FS_Product
<1>2. f \in Injection(A, B)
  BY DEF Injection, IsInjective
<1>3. IsFiniteSet(A)
  <2>. HIDE DEF A, B, f
  <2>. QED BY <1>1, <1>2, FS_Injection
<1>4. Descriptors \in SUBSET A
  BY DEF Descriptors
<1>. QED BY <1>3, <1>4, FS_Subset

-----------------------------------------------------------------------------
(***************************************************************************)
(* The inductive invariant.                                                *)
(*                                                                         *)
(* Types: what the variables are.                                          *)
(***************************************************************************)
OpenFinds == {"open_mp", "open_node"}
OpenWorks == {"open_fs", "open_manager", "open_device", "open_init"}
OpenStages == {"open"} \cup OpenFinds \cup OpenWorks
CloseDevStages == {"close_manager", "close_device", "close_init"}
CloseEnds == {"close_mp", "close_node"}
CloseStages == CloseDevStages \cup CloseEnds
Stages == {"idle", "asserted", "stat_mp", "stat", "read"} \cup OpenStages \cup CloseStages

CallRec ==
  [stage : Stages, wants : Locks \cup {NULL}, fnode : Fnode \cup {NULL},
   mp : MountPoint \cup {NULL}, flag : BOOLEAN \cup {NULL}, fresh : BOOLEAN,
   path : OpenPaths \cup {NULL}]
MountRec == [path : Path, fs : {"romfs", "devfs"}, mp_cnt : 0..SizeMax, open_file_cnt : 0..SizeMax]
NodeRec == [spelt : OpenPaths, mp : MountPoint, refcnt : Nat]

Types ==
  /\ call \in [Task -> CallRec]
  /\ held \in [Task -> SUBSET Locks]
  /\ dev_refcnt \in [Device -> Nat]
  /\ mount_list \in SUBSET MountPoint
  /\ DOMAIN mount = MountPoint /\ \A m \in mount_list : mount[m] \in MountRec
  /\ os_file_list \in Seq(Fnode) /\ IsInjective(os_file_list)
  /\ DOMAIN fnode = Fnode /\ \A n \in Listed : fnode[n] \in NodeRec
  /\ fds \in [Task -> [Fnode -> 0..MaxOpen]]

\* What a call at each stage points to, wants and holds.
Has(t, w, h) == call[t].wants = w /\ held[t] = h

OpenShape(t) ==
  LET c == call[t]
      both == Kept(t) \cup {MpLock(c.mp), NodeLock(c.fnode)}
  IN /\ c.stage = "open" =>
          /\ c.fnode = NULL /\ c.mp = NULL /\ ~c.fresh /\ c.path \in OpenPaths
          /\ Has(t, VfsLock, {FileLock})
     /\ c.stage \in OpenFinds \cup OpenWorks => c.fnode \in Fnode /\ c.mp \in MountPoint
     /\ c.stage = "open_mp" => Has(t, MpLock(c.mp), {FileLock, VfsLock})
     /\ c.stage = "open_node" => Has(t, NodeLock(c.fnode), {FileLock, MpLock(c.mp)})
     /\ c.stage = "open_fs" => Has(t, NULL, both)
     /\ c.stage = "open_manager" => Has(t, DeviceManager, both)
     /\ c.stage = "open_device" =>
          \E d \in Device : Has(t, DevLock(d), both \cup {DeviceManager})
     /\ c.stage = "open_init" =>
          \E d \in Device : Has(t, DeviceManager, both \cup {DevLock(d)})

CloseShape(t) ==
  LET c == call[t]
      dev == DevLock(DeviceOf(c.fnode))
      mp == MpLock(fnode[c.fnode].mp)
  IN /\ c.stage \in CloseStages \cup {"read"} => c.fnode \in Fnode /\ c.mp = NULL /\ ~c.fresh
     /\ c.stage = "close_manager" => Has(t, DeviceManager, {FileLock})
     /\ c.stage = "close_device" => Has(t, dev, {FileLock, DeviceManager})
     /\ c.stage = "close_init" => Has(t, DeviceManager, {FileLock, dev})
     /\ c.stage = "close_mp" => Has(t, mp, {FileLock})
     /\ c.stage = "close_node" => Has(t, NodeLock(c.fnode), {FileLock, mp})
     /\ c.stage = "read" => Has(t, dev, Kept(t) \cup {NodeLock(c.fnode)})

OtherShape(t) ==
  LET c == call[t]
  IN /\ c.stage = "idle" => c = Idle /\ held[t] = Kept(t)
     /\ c.stage = "asserted" =>
          c = [Idle EXCEPT !.stage = "asserted"] /\ held[t] = Kept(t) \cup {VfsLock}
     /\ c.stage \in {"stat_mp", "stat"} => c.fnode = NULL /\ c.mp \in MountPoint /\ ~c.fresh
     /\ c.stage = "stat_mp" => Has(t, MpLock(c.mp), Kept(t) \cup {VfsLock})
     /\ c.stage = "stat" => /\ c.wants \in {DeviceManager, NULL}
                            /\ held[t] = Kept(t) \cup {MpLock(c.mp)}

\* A mutex has one holder.
OneHolder == \A t, u \in Task : t # u => held[t] \cap held[u] = {}

\* Whoever opens has room for a descriptor; whoever closes or reads has one, and on a
\* device when it goes by way of the device manager.
MayUse(t) ==
  LET c == call[t]
  IN /\ c.stage \in OpenStages => OpenBy(t) < MaxOpen
     /\ c.stage \in CloseStages \cup {"read"} => fds[t][c.fnode] > 0
     /\ c.stage \in CloseDevStages \cup {"read"} => IsDevice(c.fnode)
     /\ c.stage \in {"open_device", "open_init"} /\ ~Dangling(t) => DeviceOf(c.fnode) \in Device

\* The node an open has made is listed, without descriptors and on the mount point the
\* open has found; whoever shares it has to wait for its lock.
OwnsFresh(t) ==
  LET n == call[t].fnode
  IN call[t].fresh =>
       /\ call[t].stage \in OpenFinds \cup OpenWorks
       /\ n \in Listed
       /\ fnode[n].refcnt = 0
       /\ fnode[n].mp = call[t].mp
       /\ \A u \in Task \ {t} : call[u].fnode = n =>
            /\ ~call[u].fresh
            /\ call[u].stage \in OpenFinds
            /\ NodeLock(n) \in held[t]

\* A shared node lies on the mount point its path leads to, or above one mounted since.
FoundBeneath(t) ==
  LET n == call[t].fnode
  IN /\ call[t].stage \in OpenFinds \cup OpenWorks
     /\ n \in Listed /\ call[t].mp \in mount_list /\ fnode[n].mp \in mount_list
     => Len(mount[fnode[n].mp].path) <= Len(mount[call[t].mp].path)

Calls(t) ==
  /\ OpenShape(t) /\ CloseShape(t) /\ OtherShape(t)
  /\ MayUse(t) /\ OwnsFresh(t) /\ FoundBeneath(t)

\* Only listed nodes are open; an open node on a device file system is a device, and
\* lies beneath its mount point.
NodesInPlace ==
  /\ \A t \in Task, n \in Fnode : fds[t][n] > 0 => n \in Listed
  /\ \A n \in Listed :
       /\ fnode[n].mp \in mount_list => Beneath(mount[fnode[n].mp].path, PathOf(n))
       /\ fnode[n].refcnt > 0 /\ IsDevice(n) => DeviceOf(n) \in Device

\* The only romfs is at the root.
RootIsRomfs == \A m \in mount_list : mount[m].fs = "romfs" => mount[m].path = <<>>

FileInv ==
  /\ Types
  /\ OneHolder
  /\ \A t \in Task : Calls(t)
  /\ NodesInPlace
  /\ RootIsRomfs
  /\ CountsExact /\ OpenFilesKeepTheirMount /\ SharedUnlessRespelt

-----------------------------------------------------------------------------
(***************************************************************************)
(* Counting descriptors.                                                   *)
(***************************************************************************)
FdsType == fds \in [Task -> [Fnode -> 0..MaxOpen]]

\* Opening on node n adds one descriptor, closing takes one away.
LEMMA DescriptorOpened ==
  ASSUME FdsType, NEW t \in Task, NEW n \in Fnode, fds[t][n] < MaxOpen,
         fds' = [fds EXCEPT ![t][n] = @ + 1]
  PROVE  /\ FdsType'
         /\ \E e : e[1] = t /\ e[2] = n /\ e \notin Descriptors /\ Descriptors' = Descriptors \cup {e}
<1>. DEFINE e == <<t, n, fds[t][n] + 1>>
<1>1. fds[t][n] \in 0..MaxOpen /\ MaxOpen \in Nat
  BY FileAssumption DEF FdsType
<1>2. FdsType'
  BY <1>1 DEF FdsType
<1>3. e \notin Descriptors
  BY <1>1 DEF Descriptors
<1>4. ASSUME NEW u \in Task, NEW o \in Fnode, NEW i \in 1..MaxOpen
      PROVE  i <= fds'[u][o] <=> i <= fds[u][o] \/ <<u, o, i>> = e
  <2>1. CASE u = t /\ o = n
    <3>1. fds'[u][o] = fds[t][n] + 1
      BY <2>1 DEF FdsType
    <3>. QED BY <1>1, <2>1, <3>1
  <2>2. CASE ~(u = t /\ o = n)
    <3>1. fds'[u][o] = fds[u][o]
      BY <2>2 DEF FdsType
    <3>. QED BY <2>2, <3>1
  <2>. QED BY <2>1, <2>2
<1>5. e \in Task \X Fnode \X (1..MaxOpen)
  BY <1>1
<1>6. Descriptors' = Descriptors \cup {e}
  BY <1>4, <1>5 DEF Descriptors
<1>. QED BY <1>2, <1>3, <1>6

LEMMA DescriptorClosed ==
  ASSUME FdsType, NEW t \in Task, NEW n \in Fnode, fds[t][n] > 0,
         fds' = [fds EXCEPT ![t][n] = @ - 1]
  PROVE  /\ FdsType'
         /\ \E e \in Descriptors : e[1] = t /\ e[2] = n /\ Descriptors' = Descriptors \ {e}
<1>. DEFINE e == <<t, n, fds[t][n]>>
<1>1. fds[t][n] \in 1..MaxOpen /\ MaxOpen \in Nat
  BY FileAssumption DEF FdsType
<1>2. FdsType'
  BY <1>1 DEF FdsType
<1>3. e \in Descriptors
  BY <1>1 DEF Descriptors
<1>4. ASSUME NEW u \in Task, NEW o \in Fnode, NEW i \in 1..MaxOpen
      PROVE  i <= fds'[u][o] <=> i <= fds[u][o] /\ <<u, o, i>> # e
  <2>1. CASE u = t /\ o = n
    <3>1. fds'[u][o] = fds[t][n] - 1
      BY <2>1 DEF FdsType
    <3>. QED BY <1>1, <2>1, <3>1
  <2>2. CASE ~(u = t /\ o = n)
    <3>1. fds'[u][o] = fds[u][o]
      BY <2>2 DEF FdsType
    <3>. QED BY <2>2, <3>1
  <2>. QED BY <2>1, <2>2
<1>5. Descriptors' = Descriptors \ {e}
  BY <1>4 DEF Descriptors
<1>. QED BY <1>2, <1>3, <1>5

\* So the numbers open on a set of nodes change by one or not at all.
LEMMA OpenOnFinite ==
  ASSUME NEW N
  PROVE  IsFiniteSet({d \in Descriptors : d[2] \in N}) /\ OpenOn(N) \in Nat
<1>1. IsFiniteSet({d \in Descriptors : d[2] \in N})
  BY DescriptorsFinite, FS_Subset
<1>. QED BY <1>1, FS_CardinalityType DEF OpenOn

LEMMA OpenOnAdded ==
  ASSUME NEW e, e \notin Descriptors, Descriptors' = Descriptors \cup {e}, NEW N
  PROVE  Cardinality({d \in Descriptors' : d[2] \in N}) = OpenOn(N) + (IF e[2] \in N THEN 1 ELSE 0)
<1>. DEFINE D == {d \in Descriptors : d[2] \in N}
            E == {d \in Descriptors' : d[2] \in N}
<1>. SUFFICES Cardinality(E) = OpenOn(N) + (IF e[2] \in N THEN 1 ELSE 0)
  OBVIOUS
<1>1. IsFiniteSet(D) /\ OpenOn(N) = Cardinality(D) /\ Cardinality(D) \in Nat
  BY OpenOnFinite DEF OpenOn
<1>2. CASE e[2] \in N
  <2>1. E = D \cup {e} /\ e \notin D
    BY <1>2
  <2>. HIDE DEF D, E
  <2>2. Cardinality(E) = Cardinality(D) + 1
    BY <1>1, <2>1, CountAdded
  <2>. QED BY <1>1, <1>2, <2>2
<1>3. CASE e[2] \notin N
  <2>1. E = D
    BY <1>3
  <2>. HIDE DEF D, E
  <2>. QED BY <1>1, <1>3, <2>1
<1>4. e[2] \in N \/ e[2] \notin N
  OBVIOUS
<1>. HIDE DEF E
<1>. QED BY <1>2, <1>3, <1>4

LEMMA OpenOnRemoved ==
  ASSUME NEW e \in Descriptors, Descriptors' = Descriptors \ {e}, NEW N
  PROVE  Cardinality({d \in Descriptors' : d[2] \in N}) = OpenOn(N) - (IF e[2] \in N THEN 1 ELSE 0)
<1>. DEFINE D == {d \in Descriptors : d[2] \in N}
            E == {d \in Descriptors' : d[2] \in N}
<1>. SUFFICES Cardinality(E) = OpenOn(N) - (IF e[2] \in N THEN 1 ELSE 0)
  OBVIOUS
<1>1. IsFiniteSet(D) /\ OpenOn(N) = Cardinality(D) /\ Cardinality(D) \in Nat
  BY OpenOnFinite DEF OpenOn
<1>2. CASE e[2] \in N
  <2>1. E = D \ {e} /\ e \in D
    BY <1>2
  <2>. HIDE DEF D, E
  <2>2. Cardinality(E) = Cardinality(D) - 1
    BY <1>1, <2>1, CountRemoved
  <2>. QED BY <1>1, <1>2, <2>2
<1>3. CASE e[2] \notin N
  <2>1. E = D
    BY <1>3
  <2>. HIDE DEF D, E
  <2>. QED BY <1>1, <1>3, <2>1
<1>4. e[2] \in N \/ e[2] \notin N
  OBVIOUS
<1>. HIDE DEF E
<1>. QED BY <1>2, <1>3, <1>4

\* A node on which a task has a descriptor is open, and an open node has one.
LEMMA OpenNodes ==
  ASSUME FdsType, NEW n \in Fnode
  PROVE  OpenOn({n}) > 0 <=> \E t \in Task : fds[t][n] > 0
<1>. DEFINE D == {d \in Descriptors : d[2] \in {n}}
<1>1. IsFiniteSet(D) /\ OpenOn({n}) = Cardinality(D) /\ OpenOn({n}) \in Nat
  BY OpenOnFinite DEF OpenOn
<1>2. OpenOn({n}) > 0 <=> D # {}
  <2>. HIDE DEF D
  <2>. QED BY <1>1, FS_EmptySet
<1>3. ASSUME NEW t \in Task, fds[t][n] > 0 PROVE D # {}
  <2>1. fds[t][n] \in 0..MaxOpen /\ MaxOpen \in Nat
    BY FileAssumption DEF FdsType
  <2>2. <<t, n, 1>> \in D
    BY <1>3, <2>1 DEF Descriptors
  <2>. QED BY <2>2
<1>4. ASSUME NEW d \in D PROVE \E t \in Task : fds[t][n] > 0
  <2>1. d[1] \in Task /\ d[2] = n /\ d[3] \in 1..MaxOpen /\ d[3] <= fds[d[1]][n]
    BY DEF Descriptors
  <2>2. fds[d[1]][n] \in 0..MaxOpen /\ MaxOpen \in Nat
    BY <2>1, FileAssumption DEF FdsType
  <2>. QED BY <2>1, <2>2
<1>. QED BY <1>2, <1>3, <1>4

\* A node's only descriptor.
LEMMA OnlyDescriptor ==
  ASSUME FdsType, NEW n \in Fnode, OpenOn({n}) = 1, NEW t \in Task, fds[t][n] > 0
  PROVE  fds[t][n] = 1 /\ \A u \in Task \ {t} : fds[u][n] = 0
<1>. DEFINE D == {d \in Descriptors : d[2] \in {n}}
<1>1. MaxOpen \in Nat /\ \A u \in Task : fds[u][n] \in 0..MaxOpen
  BY FileAssumption DEF FdsType
<1>2. \E x : D = {x}
  <2>. HIDE DEF D
  <2>. QED BY OpenOnFinite, FS_Singleton DEF OpenOn, D
<1>3. \A u \in Task : \A i \in 1..MaxOpen : i <= fds[u][n] => <<u, n, i>> \in D
  BY DEF Descriptors
<1>4. 1 \in 1..MaxOpen /\ fds[t][n] \in 1..MaxOpen
  BY <1>1
<1>5. <<t, n, 1>> \in D /\ <<t, n, fds[t][n]>> \in D
  BY <1>1, <1>3, <1>4
<1>6. fds[t][n] = 1
  BY <1>2, <1>5
<1>7. ASSUME NEW u \in Task \ {t}, fds[u][n] # 0 PROVE FALSE
  <2>1. <<u, n, 1>> \in D
    BY <1>1, <1>3, <1>4, <1>7
  <2>. HIDE DEF D
  <2>. QED BY <1>2, <1>5, <2>1
<1>. QED BY <1>6, <1>7

\* A task with room for a descriptor has room for one on any node.
LEMMA RoomForOne ==
  ASSUME FdsType, NEW t \in Task, OpenBy(t) < MaxOpen, NEW n \in Fnode
  PROVE  fds[t][n] < MaxOpen
<1>. DEFINE k == fds[t][n]
            K == {<<t, n, i>> : i \in 1..k}
            D == {d \in Descriptors : d[1] = t}
            f == [i \in 1..k |-> <<t, n, i>>]
<1>1. k \in 0..MaxOpen /\ MaxOpen \in Nat
  BY FileAssumption DEF FdsType
<1>2. IsFiniteSet(D)
  BY DescriptorsFinite, FS_Subset
<1>3. K \subseteq D
  BY <1>1 DEF Descriptors
<1>4. f \in Bijection(1..k, K)
  BY DEF Bijection, Injection, Surjection, IsInjective
<1>. HIDE DEF f, K, k, D
<1>5. IsFiniteSet(1..k) /\ Cardinality(1..k) = k
  <2>1. IsFiniteSet(1..k) /\ Cardinality(1..k) = IF 1 > k THEN 0 ELSE k - 1 + 1
    BY <1>1, FS_Interval
  <2>. QED BY <1>1, <2>1
<1>6. Cardinality(K) = k
  <2>1. ExistsBijection(1..k, K)
    BY <1>4 DEF ExistsBijection
  <2>. QED BY <1>5, <2>1, FS_Bijection
<1>7. Cardinality(K) <= Cardinality(D)
  BY <1>2, <1>3, FS_Subset
<1>8. OpenBy(t) = Cardinality(D) /\ Cardinality(D) \in Nat
  BY <1>2, FS_CardinalityType DEF OpenBy, D
<1>. QED BY <1>1, <1>6, <1>7, <1>8 DEF k

-----------------------------------------------------------------------------
(***************************************************************************)
(* What a step of one call leaves to the others.                           *)
(***************************************************************************)

\* A node with a descriptor is listed, counted and mounted.
LEMMA OpenInPlace ==
  ASSUME FileInv, NEW t \in Task, NEW n \in Fnode, fds[t][n] > 0
  PROVE  n \in Listed /\ fnode[n].refcnt > 0 /\ fnode[n].mp \in mount_list
<1>1. n \in Listed
  BY DEF FileInv, NodesInPlace
<1>2. fnode[n].refcnt = OpenOn({n})
  BY <1>1 DEF FileInv, CountsExact, RefcntExact
<1>3. FdsType
  BY DEF FileInv, Types, FdsType
<1>4. fnode[n].refcnt > 0
  BY <1>2, <1>3, OpenNodes
<1>. QED BY <1>1, <1>4 DEF FileInv, OpenFilesKeepTheirMount

\* Nodes and mount points that stay keep their names.
NamesStay ==
  /\ \A n \in Listed : fnode'[n].spelt = fnode[n].spelt /\ fnode'[n].mp = fnode[n].mp
  /\ \A m \in mount_list : mount'[m].path = mount[m].path /\ mount'[m].fs = mount[m].fs

LEMMA PathKept ==
  ASSUME NamesStay, NEW n \in Listed
  PROVE  PathOf(n)' = PathOf(n)
BY DEF NamesStay, PathOf

LEMMA DeviceKept ==
  ASSUME NamesStay, NEW n \in Listed, fnode[n].mp \in mount_list
  PROVE  DeviceOf(n)' = DeviceOf(n) /\ (IsDevice(n)' <=> IsDevice(n))
<1>1. PathOf(n)' = PathOf(n)
  BY PathKept
<1>2. mount'[fnode'[n].mp].path = mount[fnode[n].mp].path
  BY DEF NamesStay
<1>3. DeviceOf(n)' = DeviceOf(n)
  BY <1>1, <1>2 DEF DeviceOf
<1>. QED BY <1>3 DEF NamesStay, IsDevice

\* A step of t changes nothing that belongs to another call.
OthersUntouched(t) ==
  \A u \in Task \ {t} : /\ call'[u] = call[u]
                        /\ held'[u] = held[u]
                        /\ fds'[u] = fds[u]
                        /\ u \in starved' <=> u \in starved

\* New nodes and mount points were not pointed to.
NewUnused(t) ==
  /\ \A u \in Task \ {t} : call[u].fnode \notin Listed' \ Listed
  /\ \A u \in Task : call[u].mp \notin mount_list' \ mount_list

\* A node that another open has made stays what it is, and t only waits for it.
FreshUntouched(t) ==
  \A u \in Task \ {t} : call[u].fresh =>
    LET n == call[u].fnode
    IN /\ n \in Listed'
       /\ fnode'[n].refcnt = 0
       /\ call'[t].fnode = n =>
            ~call'[t].fresh /\ call'[t].stage \in OpenFinds /\ NodeLock(n) \in held[u]

LEMMA OthersGoOn ==
  ASSUME FileInv, NEW t \in Task, OthersUntouched(t), NamesStay, NewUnused(t), FreshUntouched(t),
         NEW u \in Task \ {t}
  PROVE  Calls(u)'
<1>1. PICK n, m : n = call[u].fnode /\ m = call[u].mp
  OBVIOUS
<1>2. /\ call'[u] = call[u] /\ n = call'[u].fnode /\ m = call'[u].mp /\ held'[u] = held[u] /\ fds'[u] = fds[u]
      /\ Kept(u)' = Kept(u)
  BY <1>1 DEF OthersUntouched, Kept
<1>3. Calls(u) /\ Types
  BY DEF FileInv
<1>4. OpenShape(u)'
  BY <1>2, <1>3 DEF Calls, OpenShape, Has
<1>5. ASSUME call[u].stage \in CloseStages \cup {"read"}
      PROVE  /\ n \in Fnode /\ fds[u][n] > 0 /\ n \in Listed /\ fnode[n].mp \in mount_list
             /\ DeviceOf(n)' = DeviceOf(n) /\ (IsDevice(n)' <=> IsDevice(n))
             /\ fnode'[n].mp = fnode[n].mp
  <2>1. n \in Fnode /\ fds[u][n] > 0
    BY <1>1, <1>3, <1>5 DEF Calls, CloseShape, MayUse
  <2>2. n \in Listed /\ fnode[n].mp \in mount_list
    BY <2>1, OpenInPlace
  <2>3. DeviceOf(n)' = DeviceOf(n) /\ (IsDevice(n)' <=> IsDevice(n))
    BY <2>2, DeviceKept
  <2>4. fnode'[n].mp = fnode[n].mp
    BY <2>2 DEF NamesStay
  <2>. QED BY <2>1, <2>2, <2>3, <2>4
<1>6. CloseShape(u)'
  <2>1. CASE call[u].stage \in CloseStages \cup {"read"}
    <3>1. CloseShape(u)
      BY <1>3 DEF Calls
    <3>2. DeviceOf(n)' = DeviceOf(n) /\ fnode'[n].mp = fnode[n].mp
      BY <1>5, <2>1
    <3>3. DeviceOf(call[u].fnode)' = DeviceOf(call[u].fnode)
      BY <1>1, <1>2, <3>2
    <3>. QED BY <1>1, <1>2, <3>1, <3>2, <3>3 DEF CloseShape, Has
  <2>2. CASE call[u].stage \notin CloseStages \cup {"read"}
    BY <1>2, <2>2 DEF CloseShape, CloseStages, CloseDevStages, CloseEnds
  <2>. QED BY <2>1, <2>2
<1>7. OtherShape(u)'
  BY <1>2, <1>3 DEF Calls, OtherShape, Has
<1>8. ASSUME n \in Listed, n # NULL, fnode[n].mp \in mount_list', m \in mount_list
      PROVE  fnode[n].mp \in mount_list
  <2>1. fnode[n].refcnt \in Nat
    BY <1>3, <1>8 DEF Types, NodeRec
  <2>2. CASE fnode[n].refcnt > 0
    BY <1>8, <2>2 DEF FileInv, OpenFilesKeepTheirMount
  <2>3. CASE fnode[n].refcnt = 0
    <3>1. PICK w \in Task : call[w].fnode = n /\ call[w].fresh
      BY <1>8, <2>3 DEF FileInv, CountsExact, RefcntExact
    <3>2. fnode[n].mp = call[w].mp
      BY <3>1 DEF FileInv, Calls, OwnsFresh
    <3>. QED BY <1>8, <3>2 DEF NewUnused
  <2>. QED BY <2>1, <2>2, <2>3
<1>9. ASSUME ~Dangling(u)' PROVE ~Dangling(u)
  BY <1>1, <1>2, <1>9 DEF Dangling, NewUnused
<1>10. MayUse(u)'
  <2>1. MayUse(u)
    BY <1>3 DEF Calls
  <2>2. OpenBy(u)' = OpenBy(u)
    <3>1. {d \in Descriptors' : d[1] = u} = {d \in Descriptors : d[1] = u}
      BY <1>2 DEF Descriptors
    <3>. QED BY <3>1 DEF OpenBy
  <2>3. ASSUME call[u].stage \in CloseStages \cup {"read"}
        PROVE  fds'[u][n] > 0 /\ (call[u].stage \in CloseDevStages \cup {"read"} => IsDevice(n)')
    BY <1>1, <1>2, <1>5, <2>1, <2>3 DEF MayUse
  <2>4. ASSUME call[u].stage \in {"open_device", "open_init"}, ~Dangling(u)'
        PROVE  DeviceOf(n)' \in Device
    <3>1. n \in Fnode /\ m \in MountPoint /\ n # NULL /\ m # NULL
      BY <1>1, <1>3, <2>4, FileAssumption, VfsAssumption DEF Calls, OpenShape, OpenWorks
    <3>2. ~Dangling(u) /\ n \in Listed /\ m \in mount_list
      BY <1>1, <1>9, <2>4, <3>1 DEF Dangling
    <3>3. DeviceOf(n) \in Device
      BY <1>1, <2>1, <2>4, <3>2 DEF MayUse
    <3>4. fnode[n].mp \in mount_list
      <4>1. fnode[n].refcnt \in Nat
        BY <1>3, <3>2 DEF Types, NodeRec
      <4>2. CASE fnode[n].refcnt > 0
        BY <3>2, <4>2 DEF FileInv, OpenFilesKeepTheirMount
      <4>3. CASE fnode[n].refcnt = 0
        <5>1. PICK w \in Task : call[w].fnode = n /\ call[w].fresh
          BY <3>2, <4>3 DEF FileInv, CountsExact, RefcntExact
        <5>2. w = u
          BY <1>1, <2>4, <5>1 DEF FileInv, Calls, OwnsFresh, OpenFinds
        <5>. QED BY <1>1, <3>2, <5>1, <5>2 DEF FileInv, Calls, OwnsFresh
      <4>. QED BY <4>1, <4>2, <4>3
    <3>. QED BY <3>2, <3>3, <3>4, DeviceKept
  <2>. QED BY <1>1, <1>2, <2>1, <2>2, <2>3, <2>4 DEF MayUse, CloseStages
<1>11. OwnsFresh(u)'
  <2>. SUFFICES ASSUME call[u].fresh
                PROVE  /\ call[u].stage \in OpenFinds \cup OpenWorks
                       /\ n \in Listed' /\ fnode'[n].refcnt = 0 /\ fnode'[n].mp = m
                       /\ \A v \in Task \ {u} : call'[v].fnode = n =>
                            ~call'[v].fresh /\ call'[v].stage \in OpenFinds /\ NodeLock(n) \in held[u]
    BY <1>1, <1>2 DEF OwnsFresh
  <2>1. OwnsFresh(u)
    BY <1>3 DEF Calls
  <2>2. /\ call[u].stage \in OpenFinds \cup OpenWorks
        /\ n \in Listed' /\ fnode'[n].refcnt = 0 /\ fnode'[n].mp = m
    BY <1>1, <2>1 DEF OwnsFresh, FreshUntouched, NamesStay
  <2>3. ASSUME NEW v \in Task \ {u}, call'[v].fnode = n
        PROVE  ~call'[v].fresh /\ call'[v].stage \in OpenFinds /\ NodeLock(n) \in held[u]
    <3>1. CASE v = t
      BY <1>1, <2>3, <3>1 DEF FreshUntouched
    <3>2. CASE v # t
      <4>1. call'[v] = call[v]
        BY <3>2 DEF OthersUntouched
      <4>. QED BY <1>1, <2>1, <2>3, <4>1 DEF OwnsFresh
    <3>. QED BY <3>1, <3>2
  <2>. QED BY <2>2, <2>3
<1>12. FoundBeneath(u)'
  <2>. SUFFICES ASSUME call[u].stage \in OpenFinds \cup OpenWorks,
                       n \in Listed', m \in mount_list', fnode'[n].mp \in mount_list'
                PROVE  Len(mount'[fnode'[n].mp].path) <= Len(mount'[m].path)
    BY <1>1, <1>2 DEF FoundBeneath
  <2>1. n \in Listed /\ m \in mount_list /\ n # NULL
    BY <1>1, <1>3, FileAssumption DEF NewUnused, Calls, OpenShape
  <2>2. fnode'[n].mp = fnode[n].mp /\ fnode[n].mp \in mount_list
    BY <1>8, <2>1 DEF NamesStay
  <2>3. FoundBeneath(u)
    BY <1>3 DEF Calls
  <2>. QED BY <1>1, <2>1, <2>2, <2>3 DEF NamesStay, FoundBeneath
<1>. QED BY <1>4, <1>6, <1>7, <1>10, <1>11, <1>12 DEF Calls

-----------------------------------------------------------------------------
(***************************************************************************)
(* Steps that change only their own call and its mutexes.                  *)
(***************************************************************************)
Local(t) ==
  /\ call' \in [Task -> CallRec]
  /\ held' \in [Task -> SUBSET Locks]
  /\ \A u \in Task \ {t} : /\ call'[u] = call[u] /\ held'[u] = held[u]
                           /\ held'[t] \cap held[u] = {}

\* A new node stays with the open that made it.
KeepsFresh(t) == call[t].fresh => call'[t].fresh /\ call'[t].fnode = call[t].fnode

LEMMA LocalOneHolder ==
  ASSUME OneHolder, NEW t \in Task, Local(t)
  PROVE  OneHolder'
<1>. SUFFICES ASSUME NEW u \in Task, NEW v \in Task, u # v PROVE held'[u] \cap held'[v] = {}
  BY DEF OneHolder
<1>1. CASE u = t
  BY <1>1 DEF Local
<1>2. CASE v = t
  BY <1>2 DEF Local
<1>3. CASE u # t /\ v # t
  BY <1>3 DEF Local, OneHolder
<1>. QED BY <1>1, <1>2, <1>3

\* The list, the nodes and the mount points stay.
LEMMA SameFiles ==
  ASSUME UNCHANGED <<vfsVars, fileVars>>
  PROVE  /\ Listed' = Listed /\ NamesStay
         /\ \A n : DeviceOf(n)' = DeviceOf(n) /\ PathOf(n)' = PathOf(n) /\ (IsDevice(n)' <=> IsDevice(n))
         /\ \A d : NodesOf(d)' = NodesOf(d)
         /\ \A N : OpenOn(N)' = OpenOn(N)
         /\ OpenCountExact' <=> OpenCountExact
<1>1. /\ mount' = mount /\ mount_list' = mount_list /\ os_file_list' = os_file_list
      /\ fnode' = fnode /\ fds' = fds
  BY DEF vfsVars, fileVars
<1>2. Listed' = Listed
  BY <1>1 DEF Listed
<1>3. NamesStay
  BY <1>1 DEF NamesStay
<1>4. ASSUME NEW n PROVE DeviceOf(n)' = DeviceOf(n) /\ PathOf(n)' = PathOf(n) /\ (IsDevice(n)' <=> IsDevice(n))
  <2>1. PathOf(n)' = PathOf(n)
    BY <1>1 DEF PathOf
  <2>. QED BY <1>1, <2>1 DEF DeviceOf, IsDevice
<1>5. ASSUME NEW d PROVE NodesOf(d)' = NodesOf(d)
  BY <1>1, <1>2, <1>4 DEF NodesOf
<1>6. ASSUME NEW N PROVE OpenOn(N)' = OpenOn(N)
  BY <1>1 DEF OpenOn, Descriptors
<1>7. OpenCountExact' <=> OpenCountExact
  BY <1>1, <1>2 DEF OpenCountExact, OpenFiles
<1>. QED BY <1>2, <1>3, <1>4, <1>5, <1>6, <1>7

LEMMA LocalStepOrStarve ==
  ASSUME FileInv, NEW t \in Task, Local(t), UNCHANGED <<vfsVars, fileVars>>,
         \A u \in Task \ {t} : u \in starved' <=> u \in starved,
         dev_refcnt' \in [Device -> Nat], DeviceRefcntExact',
         Calls(t)', FreshUntouched(t), KeepsFresh(t)
  PROVE  FileInv'
<1>1. /\ mount' = mount /\ mount_list' = mount_list /\ os_file_list' = os_file_list
      /\ fnode' = fnode /\ fds' = fds
  BY DEF vfsVars, fileVars
<1>2. Listed' = Listed /\ NamesStay
  BY SameFiles
<1>3. Types'
  BY <1>1, <1>2 DEF FileInv, Types, Local
<1>4. OneHolder'
  BY LocalOneHolder DEF FileInv
<1>5. ASSUME NEW u \in Task PROVE Calls(u)'
  <2>1. OthersUntouched(t) /\ NewUnused(t)
    BY <1>1, <1>2 DEF OthersUntouched, NewUnused, Local
  <2>. QED BY <1>2, <2>1, OthersGoOn
<1>6. NodesInPlace'
  <2>1. NodesInPlace
    BY DEF FileInv
  <2>. QED BY <1>1, <1>2, <2>1, SameFiles DEF NodesInPlace
<1>7. RootIsRomfs' /\ OpenFilesKeepTheirMount'
  BY <1>1, <1>2 DEF FileInv, RootIsRomfs, OpenFilesKeepTheirMount
<1>8. SharedUnlessRespelt'
  <2>1. SharedUnlessRespelt
    BY DEF FileInv
  <2>. QED BY <1>1, <1>2, <2>1, SameFiles DEF SharedUnlessRespelt
<1>9. CountsExact'
  <2>1. RefcntExact /\ OpenCountExact
    BY DEF FileInv, CountsExact
  <2>2. RefcntExact'
    <3>. SUFFICES ASSUME NEW n \in Listed
                  PROVE  /\ fnode[n].refcnt = OpenOn({n})
                         /\ fnode[n].refcnt = 0 => \E u \in Task : call'[u].fnode = n /\ call'[u].fresh
      BY <1>1, <1>2, SameFiles DEF RefcntExact
    <3>1. ASSUME fnode[n].refcnt = 0
          PROVE  \E u \in Task : call'[u].fnode = n /\ call'[u].fresh
      <4>1. PICK u \in Task : call[u].fnode = n /\ call[u].fresh
        BY <2>1, <3>1 DEF RefcntExact
      <4>. QED BY <4>1 DEF KeepsFresh, Local
    <3>. QED BY <2>1, <3>1 DEF RefcntExact
  <2>3. OpenCountExact'
    BY <2>1, SameFiles
  <2>. QED BY <2>2, <2>3 DEF CountsExact
<1>. QED BY <1>3, <1>4, <1>5, <1>6, <1>7, <1>8, <1>9 DEF FileInv

LEMMA LocalStep ==
  ASSUME FileInv, NEW t \in Task, Local(t), UNCHANGED <<vfsVars, fileVars, starved>>,
         dev_refcnt' \in [Device -> Nat], DeviceRefcntExact',
         Calls(t)', FreshUntouched(t), KeepsFresh(t)
  PROVE  FileInv'
<1>1. starved' = starved /\ UNCHANGED <<vfsVars, fileVars>>
  OBVIOUS
<1>. QED BY <1>1, LocalStepOrStarve

\* No task closes or half-closes a device in such a step: the device counts stay exact.
LEMMA LocalDeviceCounts ==
  ASSUME FileInv, NEW t \in Task, Local(t), UNCHANGED <<vfsVars, fileVars, dev_refcnt>>,
         call'[t].stage \in CloseEnds /\ IsDevice(call'[t].fnode) => call[t].stage \in CloseEnds,
         call[t].stage \in CloseEnds => call'[t].stage \in CloseEnds /\ call'[t].fnode = call[t].fnode
  PROVE  dev_refcnt' \in [Device -> Nat] /\ DeviceRefcntExact'
<1>1. dev_refcnt' = dev_refcnt /\ dev_refcnt \in [Device -> Nat] /\ DeviceRefcntExact
  BY DEF FileInv, Types, CountsExact
<1>2. ASSUME NEW d \in Device, NEW u \in Task PROVE u \in HalfClosed(d)' <=> u \in HalfClosed(d)
  <2>1. NodesOf(d)' = NodesOf(d)
    BY SameFiles
  <2>2. CASE u # t
    BY <2>1, <2>2 DEF HalfClosed, Local
  <2>3. CASE u = t
    BY <2>1, <2>3 DEF HalfClosed, NodesOf, CloseEnds
  <2>. QED BY <2>2, <2>3
<1>3. ASSUME NEW d \in Device PROVE HalfClosed(d)' = HalfClosed(d) /\ OpenOn(NodesOf(d))' = OpenOn(NodesOf(d))
  <2>1. HalfClosed(d)' = HalfClosed(d)
    BY <1>2 DEF HalfClosed
  <2>2. NodesOf(d)' = NodesOf(d)
    BY SameFiles
  <2>3. \A N : OpenOn(N)' = OpenOn(N)
    BY SameFiles
  <2>. QED BY <2>1, <2>2, <2>3 DEF OpenOn
<1>. QED BY <1>1, <1>3 DEF DeviceRefcntExact

-----------------------------------------------------------------------------
(***************************************************************************)
(* Who holds what, and how a call goes on.                                 *)
(***************************************************************************)

\* A call that looks for a node, or closes one, holds the file manager; one that works
\* on a node holds the node.
LEMMA Holders ==
  ASSUME FileInv, NEW t \in Task
  PROVE  /\ call[t].stage \in {"open"} \cup OpenFinds \cup CloseStages => FileLock \in held[t]
         /\ call[t].stage \in OpenWorks \cup {"read"} => NodeLock(call[t].fnode) \in held[t]
         /\ Kept(t) \subseteq held[t]
<1>1. call[t] \in CallRec /\ call[t].stage \in Stages
  BY DEF FileInv, Types, CallRec
<1>2. OpenShape(t) /\ CloseShape(t) /\ OtherShape(t)
  BY DEF FileInv, Calls
<1>3. Kept(t) \subseteq {FileLock}
  BY DEF Kept
<1>4. call[t].stage \in {"open"} \cup OpenFinds \cup CloseStages => FileLock \in held[t]
  BY <1>2 DEF OpenShape, CloseShape, Has, OpenFinds, CloseStages, CloseDevStages, CloseEnds
<1>5. call[t].stage \in OpenWorks \cup {"read"} => NodeLock(call[t].fnode) \in held[t]
  BY <1>2 DEF OpenShape, CloseShape, Has, OpenWorks
<1>6. call[t].stage \notin {"open"} \cup OpenFinds \cup CloseStages => Kept(t) \subseteq held[t]
  BY <1>1, <1>2 DEF OpenShape, CloseShape, OtherShape, Has, Stages, OpenStages, OpenFinds, OpenWorks, CloseStages
<1>. QED BY <1>3, <1>4, <1>5, <1>6

\* An open that has made a node holds the file manager or the node.
LEMMA FreshHolds ==
  ASSUME FileInv, NEW u \in Task, call[u].fresh
  PROVE  /\ call[u].fnode \in Listed /\ call[u].fnode \in Fnode /\ call[u].fnode # NULL
         /\ fnode[call[u].fnode].refcnt = 0
         /\ FileLock \in held[u] \/ NodeLock(call[u].fnode) \in held[u]
<1>1. call[u].stage \in OpenFinds \cup OpenWorks /\ call[u].fnode \in Listed /\ fnode[call[u].fnode].refcnt = 0
  BY DEF FileInv, Calls, OwnsFresh
<1>2. call[u].fnode \in Fnode
  BY <1>1 DEF FileInv, Calls, OpenShape
<1>. QED BY <1>1, <1>2, Holders, FileAssumption

\* Three reasons why a step of t leaves the new nodes of others alone: it points to no
\* node, to an open one, or to the same as before.
LEMMA NoNode ==
  ASSUME FileInv, NEW t \in Task, UNCHANGED <<vfsVars, fileVars>>, call'[t].fnode = NULL
  PROVE  FreshUntouched(t)
BY FreshHolds, SameFiles DEF FreshUntouched, fileVars

LEMMA OpenNode ==
  ASSUME FileInv, NEW t \in Task, UNCHANGED <<vfsVars, fileVars>>, NEW n \in Fnode,
         call'[t].fnode = n, fds[t][n] > 0
  PROVE  FreshUntouched(t)
BY FreshHolds, SameFiles, OpenInPlace DEF FreshUntouched, fileVars

LEMMA SameNode ==
  ASSUME FileInv, NEW t \in Task, UNCHANGED <<vfsVars, fileVars>>,
         call'[t].fnode = call[t].fnode, call'[t].fresh = call[t].fresh,
         \/ call[t].stage \notin OpenFinds
         \/ call'[t].stage \in OpenFinds
         \/ Available(NodeLock(call[t].fnode), t)
  PROVE  FreshUntouched(t)
<1>. SUFFICES ASSUME NEW u \in Task \ {t}, call[u].fresh, call[u].fnode = call[t].fnode
              PROVE  ~call'[t].fresh /\ call'[t].stage \in OpenFinds /\ NodeLock(call[u].fnode) \in held[u]
  BY FreshHolds, SameFiles DEF FreshUntouched, fileVars
<1>1. OwnsFresh(u)
  BY DEF FileInv, Calls
<1>. QED BY <1>1 DEF OwnsFresh, Available

\* Going on: the new stage, what it wants and what it holds.
LEMMA GoesOn ==
  ASSUME FileInv, NEW t \in Task, NEW next \in Stages, NEW l \in Locks \cup {NULL}, NEW U,
         call[t].wants # NULL => Available(call[t].wants, t),
         TakeAndUnlock(t, U), GoOn(t, next, l)
  PROVE  /\ Local(t)
         /\ call'[t].stage = next /\ call'[t].wants = l
         /\ call'[t].fnode = call[t].fnode /\ call'[t].mp = call[t].mp /\ call'[t].fresh = call[t].fresh
         /\ held'[t] = (held[t] \cup ({call[t].wants} \ {NULL})) \ U
<1>1. call \in [Task -> CallRec] /\ held \in [Task -> SUBSET Locks]
  BY DEF FileInv, Types
<1>2. call[t] \in CallRec /\ call[t].wants \in Locks \cup {NULL}
  BY <1>1 DEF CallRec
<1>3. call'[t] = [call[t] EXCEPT !.stage = next, !.wants = l] /\ \A u \in Task \ {t} : call'[u] = call[u]
  BY <1>1 DEF GoOn
<1>4. call'[t] \in CallRec
  BY <1>2, <1>3 DEF CallRec
<1>5. call' \in [Task -> CallRec]
  <2>1. DOMAIN call' = Task /\ call' = [u \in Task |-> call'[u]]
    BY <1>1 DEF GoOn
  <2>. QED BY <1>1, <1>3, <1>4, <2>1
<1>6. held'[t] = (held[t] \cup ({call[t].wants} \ {NULL})) \ U /\ \A u \in Task \ {t} : held'[u] = held[u]
  BY <1>1 DEF TakeAndUnlock
<1>7. held' \in [Task -> SUBSET Locks]
  BY <1>1, <1>2 DEF TakeAndUnlock
<1>8. \A u \in Task \ {t} : held'[t] \cap held[u] = {}
  BY <1>6 DEF FileInv, OneHolder, Available
<1>9. /\ call'[t].stage = next /\ call'[t].wants = l
      /\ call'[t].fnode = call[t].fnode /\ call'[t].mp = call[t].mp /\ call'[t].fresh = call[t].fresh
  BY <1>2, <1>3 DEF CallRec
<1>. QED BY <1>3, <1>5, <1>6, <1>7, <1>8, <1>9 DEF Local

\* Returning: an idle call that keeps at most the file manager's mutex.
LEMMA IdleType == Idle \in CallRec
BY DEF Idle, CallRec, Stages

LEMMA Returns ==
  ASSUME FileInv, NEW t \in Task, Return(t)
  PROVE  Local(t) /\ call'[t] = Idle /\ held'[t] = Kept(t)
<1>1. call \in [Task -> CallRec] /\ held \in [Task -> SUBSET Locks]
  BY DEF FileInv, Types
<1>2. call'[t] = Idle /\ held'[t] = Kept(t) /\ \A u \in Task \ {t} : call'[u] = call[u] /\ held'[u] = held[u]
  BY <1>1 DEF Return
<1>3. call' \in [Task -> CallRec]
  BY <1>1, IdleType DEF Return
<1>4. held' \in [Task -> SUBSET Locks]
  BY <1>1, LocksType DEF Return, Kept
<1>5. \A u \in Task \ {t} : held'[t] \cap held[u] = {}
  BY <1>2, Holders DEF FileInv, OneHolder
<1>. QED BY <1>2, <1>3, <1>4, <1>5 DEF Local

\* What is true of an idle call.
LEMMA IdleCalls ==
  ASSUME NEW t \in Task, call'[t] = Idle, held'[t] = Kept(t)'
  PROVE  Calls(t)'
<1>1. /\ call'[t].stage = "idle" /\ ~call'[t].fresh
  BY DEF Idle
<1>. QED
  BY <1>1 DEF Calls, OpenShape, CloseShape, OtherShape, MayUse, OwnsFresh, FoundBeneath, OpenStages,
     OpenFinds, OpenWorks, CloseStages, CloseDevStages, CloseEnds

-----------------------------------------------------------------------------
(***************************************************************************)
(* The local steps: returning, and walking from lock to lock.              *)
(***************************************************************************)
FilesSame == UNCHANGED <<dev_refcnt, vfsVars, fileVars, starved>>

LEMMA ReturnStep ==
  ASSUME FileInv, NEW t \in Task, Return(t), FilesSame, ~call[t].fresh, call[t].stage \notin CloseEnds
  PROVE  FileInv'
<1>1. Local(t) /\ call'[t] = Idle /\ held'[t] = Kept(t)'
  BY Returns DEF Kept, FilesSame
<1>2. /\ UNCHANGED <<vfsVars, fileVars, starved>> /\ UNCHANGED <<vfsVars, fileVars>>
      /\ UNCHANGED <<vfsVars, fileVars, dev_refcnt>>
  BY DEF FilesSame
<1>3. Calls(t)'
  BY <1>1, IdleCalls
<1>4. call'[t].fnode = NULL /\ call'[t].stage = "idle"
  BY <1>1 DEF Idle
<1>5. FreshUntouched(t) /\ KeepsFresh(t)
  BY <1>2, <1>4, NoNode DEF KeepsFresh
<1>6. dev_refcnt' \in [Device -> Nat] /\ DeviceRefcntExact'
  <2>1. call'[t].stage \notin CloseEnds
    BY <1>4 DEF CloseEnds
  <2>. QED BY <1>1, <1>2, <2>1, LocalDeviceCounts
<1>. QED BY <1>1, <1>2, <1>3, <1>5, <1>6, LocalStep

LEMMA WalkOpen ==
  ASSUME FileInv, NEW t \in Task, NEW next \in OpenFinds \cup OpenWorks, NEW l \in Locks \cup {NULL}, NEW U,
         call[t].wants # NULL => Available(call[t].wants, t),
         TakeAndUnlock(t, U), GoOn(t, next, l), FilesSame,
         call[t].stage \in OpenFinds \cup OpenWorks,
         NodeLock(call[t].fnode) \notin U,
         \/ call[t].stage \notin OpenFinds
         \/ next \in OpenFinds
         \/ call[t].wants = NodeLock(call[t].fnode),
         OpenShape(t)',
         next \in {"open_device", "open_init"} /\ ~Dangling(t) => DeviceOf(call[t].fnode) \in Device
  PROVE  FileInv'
<1>1. next \in Stages /\ next \notin {"idle", "asserted", "stat_mp", "stat", "read"} \cup CloseStages
  BY DEF Stages, OpenStages, OpenFinds, OpenWorks, CloseStages, CloseDevStages, CloseEnds
<1>2. /\ Local(t)
      /\ call'[t].stage = next /\ call'[t].wants = l
      /\ call'[t].fnode = call[t].fnode /\ call'[t].mp = call[t].mp /\ call'[t].fresh = call[t].fresh
      /\ held'[t] = (held[t] \cup ({call[t].wants} \ {NULL})) \ U
  BY <1>1, GoesOn
<1>3. /\ UNCHANGED <<vfsVars, fileVars, starved>> /\ UNCHANGED <<vfsVars, fileVars>>
      /\ UNCHANGED <<vfsVars, fileVars, dev_refcnt>>
      /\ mount' = mount /\ mount_list' = mount_list /\ fnode' = fnode /\ fds' = fds /\ Listed' = Listed
  BY SameFiles DEF FilesSame, vfsVars, fileVars
<1>4. call[t] \in CallRec /\ Calls(t)
  BY DEF FileInv, Types
<1>5. /\ call'[t].stage = next /\ call'[t].fnode = call[t].fnode /\ call'[t].mp = call[t].mp
      /\ call'[t].fresh = call[t].fresh
  BY <1>2, <1>4 DEF CallRec
<1>6. CloseShape(t)' /\ OtherShape(t)'
  BY <1>1, <1>5 DEF CloseShape, OtherShape, CloseStages, CloseDevStages, CloseEnds
<1>7. MayUse(t)'
  <2>1. OpenBy(t)' = OpenBy(t) /\ (Dangling(t)' <=> Dangling(t))
    BY <1>3, <1>5 DEF OpenBy, Descriptors, Dangling
  <2>2. OpenBy(t) < MaxOpen
    BY <1>4 DEF Calls, MayUse, OpenStages
  <2>3. next \in {"open_device", "open_init"} /\ ~Dangling(t)' => DeviceOf(call[t].fnode)' \in Device
    <3>1. PICK n : n = call[t].fnode
      OBVIOUS
    <3>2. DeviceOf(n)' = DeviceOf(n)
      BY <1>3, SameFiles, Zenon
    <3>3. DeviceOf(call[t].fnode)' = DeviceOf(n)
      BY <1>5, <3>1, <3>2
    <3>. QED BY <2>1, <3>1, <3>3
  <2>. QED BY <1>1, <1>5, <2>1, <2>2, <2>3 DEF MayUse, CloseStages
<1>8. OwnsFresh(t)'
  <2>1. OwnsFresh(t)
    BY <1>4 DEF Calls
  <2>. QED BY <1>2, <1>3, <1>5, <2>1 DEF OwnsFresh, Local
<1>9. FoundBeneath(t)'
  <2>1. FoundBeneath(t)
    BY <1>4 DEF Calls
  <2>. QED BY <1>3, <1>5, <2>1 DEF FoundBeneath
<1>10. FreshUntouched(t) /\ KeepsFresh(t)
  <2>1. \/ call[t].stage \notin OpenFinds
        \/ call'[t].stage \in OpenFinds
        \/ Available(NodeLock(call[t].fnode), t)
    BY <1>5, FileAssumption, LocksType DEF Calls, OpenShape, FileInv
  <2>. QED BY <1>3, <1>5, <2>1, SameNode DEF KeepsFresh
<1>11. dev_refcnt' \in [Device -> Nat] /\ DeviceRefcntExact'
  <2>1. call'[t].stage \notin CloseEnds /\ call[t].stage \notin CloseEnds
    BY <1>1, <1>5 DEF CloseStages, CloseEnds, OpenFinds, OpenWorks
  <2>. QED BY <1>2, <1>3, <2>1, LocalDeviceCounts
<1>12. Calls(t)'
  BY <1>6, <1>7, <1>8, <1>9 DEF Calls
<1>. QED BY <1>2, <1>3, <1>10, <1>11, <1>12, LocalStep

LEMMA WalkClose ==
  ASSUME FileInv, NEW t \in Task, NEW n \in Fnode, UNCHANGED <<vfsVars, fileVars>>,
         call'[t].stage \in CloseStages \cup {"read"},
         call'[t].fnode = n, fds[t][n] > 0,
         call'[t].stage \in CloseDevStages \cup {"read"} => IsDevice(n),
         CloseShape(t)', ~call[t].fresh
  PROVE  Calls(t)' /\ FreshUntouched(t) /\ KeepsFresh(t)
<1>1. call'[t].stage \notin OpenStages \cup {"idle", "asserted", "stat_mp", "stat"}
  BY DEF CloseStages, CloseDevStages, CloseEnds, OpenStages, OpenFinds, OpenWorks
<1>2. fds' = fds
  BY DEF fileVars
<1>3. ~call'[t].fresh
  BY DEF CloseShape
<1>4. IsDevice(n)' <=> IsDevice(n)
  BY SameFiles
<1>5. OpenShape(t)' /\ OtherShape(t)' /\ FoundBeneath(t)'
  BY <1>1 DEF OpenShape, OtherShape, FoundBeneath, OpenStages, OpenFinds, OpenWorks
<1>6. OwnsFresh(t)'
  BY <1>3 DEF OwnsFresh
<1>7. MayUse(t)'
  BY <1>1, <1>2, <1>4 DEF MayUse, OpenStages, OpenWorks
<1>8. FreshUntouched(t) /\ KeepsFresh(t)
  BY OpenNode DEF KeepsFresh
<1>. QED BY <1>5, <1>6, <1>7, <1>8 DEF Calls

\* A close or a read before or after which the device counts do not differ.
LEMMA WalkCloseStep ==
  ASSUME FileInv, NEW t \in Task, NEW n \in Fnode, Local(t), FilesSame,
         call'[t].stage \in CloseStages \cup {"read"},
         call'[t].fnode = n, fds[t][n] > 0,
         call'[t].stage \in CloseDevStages \cup {"read"} => IsDevice(n),
         CloseShape(t)', ~call[t].fresh,
         call'[t].stage \in CloseEnds /\ IsDevice(n) => call[t].stage \in CloseEnds,
         call[t].stage \in CloseEnds => call'[t].stage \in CloseEnds /\ call[t].fnode = n
  PROVE  FileInv'
<1>1. UNCHANGED <<vfsVars, fileVars>>
  BY DEF FilesSame
<1>2. Calls(t)' /\ FreshUntouched(t) /\ KeepsFresh(t)
  BY <1>1, WalkClose
<1>3. /\ UNCHANGED <<vfsVars, fileVars, starved>>
      /\ UNCHANGED <<vfsVars, fileVars, dev_refcnt>>
  BY DEF FilesSame
<1>4. dev_refcnt' \in [Device -> Nat] /\ DeviceRefcntExact'
  BY <1>3, LocalDeviceCounts
<1>. QED BY <1>2, <1>3, <1>4, LocalStep

-----------------------------------------------------------------------------
(***************************************************************************)
(* The steps of os_file_open up to the answer of the file system.          *)
(***************************************************************************)
LEMMA DeviceOfType ==
  ASSUME NEW n
  PROVE  DeviceOf(n) # NULL => DeviceOf(n) \in Device /\ mount[fnode[n].mp].path # <<>>
BY DEF DeviceOf

LEMMA StepOpen ==
  ASSUME FileInv, NEW t \in Task, NEW raw \in OpenPaths, NEW directory \in BOOLEAN,
         os_file_open(t, raw, directory)
  PROVE  FileInv'
<1>. DEFINE c == [Idle EXCEPT !.stage = "open", !.wants = VfsLock, !.path = raw, !.flag = directory]
<1>1. call \in [Task -> CallRec] /\ held \in [Task -> SUBSET Locks] /\ call[t] = Idle
  BY DEF FileInv, Types, os_file_open
<1>2. c \in CallRec
  BY LocksType DEF Idle, CallRec, Stages, OpenStages
<1>. HIDE DEF c
<1>3. call' = [call EXCEPT ![t] = c] /\ held' = [held EXCEPT ![t] = {FileLock}]
  BY DEF os_file_open, c
<1>4. Local(t) /\ call'[t] = c /\ held'[t] = {FileLock}
  <2>1. \A u \in Task \ {t} : FileLock \notin held[u]
    BY DEF os_file_open, Available
  <2>. QED BY <1>1, <1>2, <1>3, <2>1, LocksType DEF Local
<1>5. FilesSame /\ UNCHANGED <<vfsVars, fileVars>> /\ UNCHANGED <<vfsVars, fileVars, starved>>
      /\ UNCHANGED <<vfsVars, fileVars, dev_refcnt>> /\ fds' = fds
  BY DEF os_file_open, FilesSame, fileVars
<1>6. /\ c.stage = "open" /\ c.fnode = NULL /\ c.mp = NULL /\ c.fresh = FALSE /\ c.path = raw /\ c.wants = VfsLock
  BY DEF Idle, c
<1>7. OpenBy(t)' = OpenBy(t) /\ OpenBy(t) < MaxOpen
  BY <1>5 DEF OpenBy, Descriptors, os_file_open
<1>8. Calls(t)'
  BY <1>4, <1>6, <1>7 DEF Calls, OpenShape, CloseShape, OtherShape, MayUse, OwnsFresh, FoundBeneath, Has,
     OpenStages, OpenFinds, OpenWorks, CloseStages, CloseDevStages, CloseEnds
<1>9. FreshUntouched(t) /\ KeepsFresh(t)
  BY <1>1, <1>4, <1>5, <1>6, NoNode DEF KeepsFresh, Idle
<1>10. dev_refcnt' \in [Device -> Nat] /\ DeviceRefcntExact'
  <2>1. call'[t].stage \notin CloseEnds /\ call[t].stage \notin CloseEnds
    BY <1>1, <1>4, <1>6 DEF CloseEnds, Idle
  <2>. QED BY <1>4, <1>5, <2>1, LocalDeviceCounts
<1>. QED BY <1>4, <1>5, <1>8, <1>9, <1>10, LocalStep

LEMMA StepOpenRefused ==
  ASSUME FileInv, NEW t \in Task, OpenRefused(t)
  PROVE  FileInv'
<1>1. call[t].stage = "open" /\ Return(t) /\ FilesSame
  BY DEF OpenRefused, Reaches, FilesSame
<1>2. ~call[t].fresh /\ call[t].stage \notin CloseEnds
  BY <1>1 DEF FileInv, Calls, OpenShape, CloseEnds
<1>. QED BY <1>1, <1>2, ReturnStep

\* The stages these steps lead to.
LEMMA StageType ==
  /\ "open_node" \in Stages /\ "open_fs" \in Stages /\ "open_manager" \in Stages
  /\ "open_device" \in Stages /\ "open_init" \in Stages
  /\ "close_device" \in Stages /\ "close_init" \in Stages /\ "close_mp" \in Stages
  /\ "close_node" \in Stages /\ "stat" \in Stages
BY DEF Stages, OpenStages, OpenFinds, OpenWorks, CloseStages, CloseDevStages, CloseEnds

LEMMA StepOpenLockMount ==
  ASSUME FileInv, NEW t \in Task, OpenLockMount(t)
  PROVE  FileInv'
<1>. DEFINE l == NodeLock(call[t].fnode)
<1>1. /\ call[t].stage = "open_mp" /\ (call[t].wants # NULL => Available(call[t].wants, t))
      /\ TakeAndUnlock(t, {VfsLock}) /\ GoOn(t, "open_node", l) /\ FilesSame
  BY DEF OpenLockMount, Reaches, FilesSame
<1>2. /\ call[t] \in CallRec /\ call[t].fnode \in Fnode /\ call[t].mp \in MountPoint
      /\ Has(t, MpLock(call[t].mp), {FileLock, VfsLock})
  BY <1>1 DEF FileInv, Types, Calls, OpenShape, OpenFinds
<1>3. l \in Locks /\ l \notin {VfsLock} /\ MpLock(call[t].mp) \notin {VfsLock, NULL}
  BY <1>2, LocksType, LocksDiffer
<1>. HIDE DEF l
<1>4. /\ call'[t].stage = "open_node" /\ call'[t].wants = l
      /\ call'[t].fnode = call[t].fnode /\ call'[t].mp = call[t].mp /\ call'[t].fresh = call[t].fresh
      /\ held'[t] = (held[t] \cup ({call[t].wants} \ {NULL})) \ {VfsLock}
  BY <1>1, <1>3, StageType, GoesOn
<1>5. OpenShape(t)'
  <2>1. /\ call'[t].stage = "open_node" /\ call'[t].wants = l
        /\ call'[t].fnode = call[t].fnode /\ call'[t].mp = call[t].mp
    BY <1>2, <1>4 DEF CallRec
  <2>2. held'[t] = {FileLock, MpLock(call[t].mp)}
    BY <1>2, <1>3, <1>4, LocksDiffer DEF Has
  <2>. QED BY <1>2, <2>1, <2>2 DEF OpenShape, OpenFinds, OpenWorks, Has, l
<1>. QED BY <1>1, <1>3, <1>5, WalkOpen DEF OpenFinds, l

LEMMA StepOpenLockNode ==
  ASSUME FileInv, NEW t \in Task, OpenLockNode(t)
  PROVE  FileInv'
<1>1. PICK next \in {"open_fs", "open_manager"}, l \in {NULL, DeviceManager} :
        /\ GoOn(t, next, l)
        /\ l = IF next = "open_fs" THEN NULL ELSE DeviceManager
  BY DEF OpenLockNode
<1>. DEFINE U == {FileLock} \ Kept(t)
<1>2. /\ call[t].stage = "open_node" /\ (call[t].wants # NULL => Available(call[t].wants, t))
      /\ TakeAndUnlock(t, U) /\ FilesSame
  BY DEF OpenLockNode, Reaches, FilesSame
<1>3. /\ call[t] \in CallRec /\ call[t].fnode \in Fnode /\ call[t].mp \in MountPoint
      /\ Has(t, NodeLock(call[t].fnode), {FileLock, MpLock(call[t].mp)})
  BY <1>2 DEF FileInv, Types, Calls, OpenShape, OpenFinds
<1>4. /\ l \in Locks \cup {NULL} /\ NodeLock(call[t].fnode) \notin U
      /\ call[t].wants = NodeLock(call[t].fnode) /\ NodeLock(call[t].fnode) # NULL
  BY <1>1, <1>3, LocksType, LocksDiffer DEF Has
<1>5. /\ call'[t].stage = next /\ call'[t].wants = l
      /\ call'[t].fnode = call[t].fnode /\ call'[t].mp = call[t].mp /\ call'[t].fresh = call[t].fresh
      /\ held'[t] = (held[t] \cup ({call[t].wants} \ {NULL})) \ U
  <2>1. next \in Stages
    BY StageType
  <2>. HIDE DEF U
  <2>. QED BY <1>1, <1>2, <1>4, <2>1, GoesOn
<1>6. OpenShape(t)'
  <2>1. /\ call'[t].stage = next /\ call'[t].wants = l
        /\ call'[t].fnode = call[t].fnode /\ call'[t].mp = call[t].mp
    BY <1>3, <1>5 DEF CallRec
  <2>2. Kept(t)' = Kept(t) /\ Kept(t) \subseteq {FileLock}
    BY <1>2 DEF Kept, FilesSame
  <2>3. held'[t] = Kept(t)' \cup {MpLock(call[t].mp), NodeLock(call[t].fnode)}
    BY <1>3, <1>4, <1>5, <2>2, LocksDiffer DEF Has
  <2>. QED BY <1>1, <1>3, <2>1, <2>3 DEF OpenShape, OpenFinds, OpenWorks, Has
<1>. QED BY <1>1, <1>2, <1>4, <1>6, WalkOpen DEF OpenFinds, OpenWorks

LEMMA StepOpenLockManager ==
  ASSUME FileInv, NEW t \in Task, OpenLockManager(t)
  PROVE  FileInv'
<1>. DEFINE d == DeviceOf(call[t].fnode)
            l == DevLock(d)
<1>1. /\ call[t].stage = "open_manager" /\ (call[t].wants # NULL => Available(call[t].wants, t))
      /\ TakeAndUnlock(t, {}) /\ GoOn(t, "open_device", l) /\ FilesSame
  BY DEF OpenLockManager, LockManager, Reaches, FilesSame
<1>2. d \in Device
  BY DeviceOfType DEF OpenLockManager
<1>. HIDE DEF d
<1>3. /\ call[t] \in CallRec /\ call[t].fnode \in Fnode /\ call[t].mp \in MountPoint
      /\ Has(t, DeviceManager, Kept(t) \cup {MpLock(call[t].mp), NodeLock(call[t].fnode)})
  BY <1>1 DEF FileInv, Types, Calls, OpenShape, OpenWorks
<1>4. l \in Locks /\ DeviceManager # NULL
  BY <1>2, LocksType
<1>. HIDE DEF l
<1>5. /\ call'[t].stage = "open_device" /\ call'[t].wants = l
      /\ call'[t].fnode = call[t].fnode /\ call'[t].mp = call[t].mp /\ call'[t].fresh = call[t].fresh
      /\ held'[t] = (held[t] \cup ({call[t].wants} \ {NULL})) \ {}
  BY <1>1, <1>4, StageType, GoesOn
<1>6. OpenShape(t)'
  <2>1. /\ call'[t].stage = "open_device" /\ call'[t].wants = l
        /\ call'[t].fnode = call[t].fnode /\ call'[t].mp = call[t].mp
    BY <1>3, <1>5 DEF CallRec
  <2>2. Kept(t)' = Kept(t)
    BY <1>1 DEF Kept, FilesSame
  <2>3. held'[t] = Kept(t)' \cup {MpLock(call[t].mp), NodeLock(call[t].fnode)} \cup {DeviceManager}
    BY <1>3, <1>4, <1>5, <2>2 DEF Has
  <2>. QED BY <1>2, <1>3, <2>1, <2>3 DEF OpenShape, OpenFinds, OpenWorks, Has, l
<1>. QED BY <1>1, <1>2, <1>4, <1>6, WalkOpen DEF OpenFinds, OpenWorks, d, l

LEMMA StepOpenLockDevice ==
  ASSUME FileInv, NEW t \in Task, OpenLockDevice(t)
  PROVE  FileInv'
<1>1. /\ call[t].stage = "open_device" /\ (call[t].wants # NULL => Available(call[t].wants, t))
      /\ TakeAndUnlock(t, {DeviceManager}) /\ GoOn(t, "open_init", DeviceManager) /\ FilesSame
  BY DEF OpenLockDevice, LockDevice, Reaches, FilesSame
<1>2. call[t] \in CallRec /\ call[t].fnode \in Fnode /\ call[t].mp \in MountPoint
  BY <1>1 DEF FileInv, Types, Calls, OpenShape, OpenWorks
<1>3. PICK d \in Device :
        Has(t, DevLock(d), Kept(t) \cup {MpLock(call[t].mp), NodeLock(call[t].fnode)} \cup {DeviceManager})
  BY <1>1 DEF FileInv, Calls, OpenShape
<1>4. /\ DevLock(d) \in Locks /\ DevLock(d) # NULL /\ DevLock(d) # DeviceManager
      /\ DeviceManager \notin Kept(t) \cup {MpLock(call[t].mp), NodeLock(call[t].fnode)}
      /\ DeviceManager \in Locks /\ NodeLock(call[t].fnode) \notin {DeviceManager}
  BY LocksType, LocksDiffer DEF Kept
<1>5. /\ call'[t].stage = "open_init" /\ call'[t].wants = DeviceManager
      /\ call'[t].fnode = call[t].fnode /\ call'[t].mp = call[t].mp /\ call'[t].fresh = call[t].fresh
      /\ held'[t] = (held[t] \cup ({call[t].wants} \ {NULL})) \ {DeviceManager}
  BY <1>1, <1>4, StageType, GoesOn
<1>6. OpenShape(t)'
  <2>1. /\ call'[t].stage = "open_init" /\ call'[t].wants = DeviceManager
        /\ call'[t].fnode = call[t].fnode /\ call'[t].mp = call[t].mp
    BY <1>2, <1>5 DEF CallRec
  <2>2. Kept(t)' = Kept(t)
    BY <1>1 DEF Kept, FilesSame
  <2>3. held'[t] = Kept(t)' \cup {MpLock(call[t].mp), NodeLock(call[t].fnode)} \cup {DevLock(d)}
    BY <1>3, <1>4, <1>5, <2>2 DEF Has
  <2>. QED BY <1>2, <2>1, <2>3 DEF OpenShape, OpenFinds, OpenWorks, Has
<1>7. ~Dangling(t) => DeviceOf(call[t].fnode) \in Device
  BY <1>1 DEF FileInv, Calls, MayUse
<1>. QED BY <1>1, <1>4, <1>6, <1>7, WalkOpen DEF OpenFinds, OpenWorks

-----------------------------------------------------------------------------
(***************************************************************************)
(* The steps of os_file_close before it takes the descriptor, and reading. *)
(***************************************************************************)

\* What a close or a read is sure of.
LEMMA Closing ==
  ASSUME FileInv, NEW t \in Task, call[t].stage \in CloseStages \cup {"read"}
  PROVE  \E n \in Fnode : /\ call[t].fnode = n /\ fds[t][n] > 0 /\ ~call[t].fresh
                          /\ n \in Listed /\ fnode[n].refcnt > 0 /\ fnode[n].mp \in mount_list
                          /\ fnode[n].mp \in MountPoint
                          /\ IsDevice(n) => DeviceOf(n) \in Device
                          /\ call[t].stage \in CloseDevStages \cup {"read"} => IsDevice(n)
<1>1. call[t].fnode \in Fnode /\ ~call[t].fresh /\ fds[t][call[t].fnode] > 0
  BY DEF FileInv, Calls, CloseShape, MayUse
<1>2. call[t].stage \in CloseDevStages \cup {"read"} => IsDevice(call[t].fnode)
  BY DEF FileInv, Calls, MayUse
<1>3. PICK n \in Fnode : n = call[t].fnode
  BY <1>1
<1>4. n \in Listed /\ fnode[n].refcnt > 0 /\ fnode[n].mp \in mount_list
  BY <1>1, <1>3, OpenInPlace
<1>5. fnode[n].mp \in MountPoint
  BY <1>4 DEF FileInv, Types
<1>6. IsDevice(n) => DeviceOf(n) \in Device
  BY <1>4 DEF FileInv, NodesInPlace
<1>. QED BY <1>1, <1>2, <1>3, <1>4, <1>5, <1>6

\* A call that an idle task begins.
LEMMA Begins ==
  ASSUME FileInv, NEW t \in Task, NEW c \in CallRec, NEW h \in SUBSET Locks,
         call' = [call EXCEPT ![t] = c], held' = [held EXCEPT ![t] = h],
         \A u \in Task \ {t} : h \cap held[u] = {}
  PROVE  Local(t) /\ call'[t] = c /\ held'[t] = h
BY DEF FileInv, Types, Local

LEMMA StepClose ==
  ASSUME FileInv, NEW t \in Task, NEW n \in Listed, os_file_close(t, n)
  PROVE  FileInv'
<1>. DEFINE c == CloseAsk(t, n)
            d == DeviceOf(n)
            mp == MpLock(fnode[n].mp)
<1>1. n \in Fnode
  BY DEF FileInv, Types, Listed
<1>2. call[t] = Idle /\ fds[t][n] > 0 /\ FilesSame /\ UNCHANGED <<vfsVars, fileVars>>
  BY DEF os_file_close, FilesSame
<1>3. fnode[n].mp \in MountPoint /\ fnode[n].mp \in mount_list
  BY <1>1, <1>2, OpenInPlace DEF FileInv, Types
<1>4. c \in CallRec
  BY <1>1, <1>3, LocksType DEF Idle, CallRec, CloseAsk, Stages, CloseStages, CloseDevStages, CloseEnds
<1>5. /\ c.fnode = n /\ c.mp = NULL /\ c.fresh = FALSE
      /\ IsDevice(n) => c.stage = "close_manager" /\ c.wants = DeviceManager
      /\ ~IsDevice(n) => c.stage = "close_mp" /\ c.wants = mp
  BY DEF CloseAsk, Idle
<1>6. call' = [call EXCEPT ![t] = c] /\ held' = [held EXCEPT ![t] = {FileLock}]
  BY DEF os_file_close
<1>7. \A u \in Task \ {t} : {FileLock} \cap held[u] = {}
  BY DEF os_file_close, Available
<1>. HIDE DEF c
<1>8. Local(t) /\ call'[t] = c /\ held'[t] = {FileLock}
  <2>1. {FileLock} \in SUBSET Locks
    BY LocksType
  <2>. QED BY <1>4, <1>6, <1>7, <2>1, Begins
<1>9. CloseShape(t)'
  <2>1. fnode' = fnode
    BY <1>2 DEF fileVars
  <2>. QED BY <1>1, <1>5, <1>8, <2>1 DEF CloseShape, Has, CloseStages, CloseDevStages, CloseEnds
<1>10. call[t].fresh = FALSE /\ call[t].stage \notin CloseEnds
  BY <1>2 DEF Idle, CloseEnds
<1>11. /\ call'[t].stage \in CloseStages \cup {"read"} /\ call'[t].fnode = n
       /\ call'[t].stage \in CloseDevStages \cup {"read"} => IsDevice(n)
       /\ call'[t].stage \in CloseEnds /\ IsDevice(n) => call[t].stage \in CloseEnds
  BY <1>5, <1>8 DEF CloseStages, CloseDevStages, CloseEnds
<1>. QED BY <1>1, <1>2, <1>8, <1>9, <1>10, <1>11, WalkCloseStep

LEMMA StepCloseLockManager ==
  ASSUME FileInv, NEW t \in Task, CloseLockManager(t)
  PROVE  FileInv'
<1>1. /\ call[t].stage = "close_manager" /\ (call[t].wants # NULL => Available(call[t].wants, t))
      /\ TakeAndUnlock(t, {}) /\ GoOn(t, "close_device", DevLock(DeviceOf(call[t].fnode))) /\ FilesSame
  BY DEF CloseLockManager, LockManager, Reaches, FilesSame
<1>2. /\ call[t].stage \in CloseStages \cup {"read"} /\ call[t].stage \in CloseDevStages \cup {"read"}
      /\ call[t].stage \notin CloseEnds
  BY <1>1 DEF CloseStages, CloseDevStages, CloseEnds
<1>3. PICK n \in Fnode : /\ call[t].fnode = n /\ fds[t][n] > 0 /\ ~call[t].fresh
                         /\ DeviceOf(n) \in Device /\ IsDevice(n)
  BY <1>2, Closing
<1>. DEFINE l == DevLock(DeviceOf(n))
<1>4. l \in Locks /\ DeviceManager # NULL
  BY <1>3, LocksType
<1>5. Has(t, DeviceManager, {FileLock}) /\ call[t].mp = NULL
  BY <1>1, <1>2 DEF FileInv, Calls, CloseShape
<1>. HIDE DEF l
<1>6. /\ Local(t)
      /\ call'[t].stage = "close_device" /\ call'[t].wants = l
      /\ call'[t].fnode = call[t].fnode /\ call'[t].mp = call[t].mp /\ call'[t].fresh = call[t].fresh
      /\ held'[t] = (held[t] \cup ({call[t].wants} \ {NULL})) \ {}
  <2>1. GoOn(t, "close_device", l)
    BY <1>1, <1>3 DEF l
  <2>. QED BY <1>1, <1>4, <2>1, StageType, GoesOn
<1>7. CloseShape(t)'
  <2>1. held'[t] = {FileLock, DeviceManager}
    BY <1>4, <1>5, <1>6 DEF Has
  <2>2. UNCHANGED <<vfsVars, fileVars>>
    BY <1>1 DEF FilesSame
  <2>3. DeviceOf(n)' = DeviceOf(n)
    BY <2>2, SameFiles, Zenon
  <2>4. DeviceOf(call[t].fnode)' = DeviceOf(n)
    BY <1>3, <1>6, <2>3
  <2>. QED
    BY <1>3, <1>5, <1>6, <2>1, <2>4 DEF CloseShape, Has, CloseStages, CloseDevStages, CloseEnds, l
<1>8. call'[t].stage \in CloseStages \cup {"read"} /\ call'[t].stage \notin CloseEnds
  BY <1>6 DEF CloseStages, CloseDevStages, CloseEnds
<1>. QED BY <1>1, <1>2, <1>3, <1>6, <1>7, <1>8, WalkCloseStep

LEMMA StepCloseLockDevice ==
  ASSUME FileInv, NEW t \in Task, CloseLockDevice(t)
  PROVE  FileInv'
<1>1. /\ call[t].stage = "close_device" /\ (call[t].wants # NULL => Available(call[t].wants, t))
      /\ TakeAndUnlock(t, {DeviceManager}) /\ GoOn(t, "close_init", DeviceManager) /\ FilesSame
  BY DEF CloseLockDevice, LockDevice, Reaches, FilesSame
<1>2. /\ call[t].stage \in CloseStages \cup {"read"} /\ call[t].stage \in CloseDevStages \cup {"read"}
      /\ call[t].stage \notin CloseEnds
  BY <1>1 DEF CloseStages, CloseDevStages, CloseEnds
<1>3. PICK n \in Fnode : /\ call[t].fnode = n /\ fds[t][n] > 0 /\ ~call[t].fresh
                         /\ DeviceOf(n) \in Device /\ IsDevice(n)
  BY <1>2, Closing
<1>. DEFINE l == DevLock(DeviceOf(n))
<1>4. /\ l # NULL /\ l \notin {DeviceManager, FileLock} /\ DeviceManager \in Locks
      /\ FileLock # DeviceManager
  BY <1>3, LocksType, LocksDiffer
<1>5. Has(t, l, {FileLock, DeviceManager}) /\ call[t].mp = NULL
  BY <1>1, <1>2, <1>3 DEF FileInv, Calls, CloseShape
<1>6. /\ Local(t)
      /\ call'[t].stage = "close_init" /\ call'[t].wants = DeviceManager
      /\ call'[t].fnode = call[t].fnode /\ call'[t].mp = call[t].mp /\ call'[t].fresh = call[t].fresh
      /\ held'[t] = (held[t] \cup ({call[t].wants} \ {NULL})) \ {DeviceManager}
  BY <1>1, <1>4, StageType, GoesOn
<1>. HIDE DEF l
<1>7. CloseShape(t)'
  <2>1. held'[t] = {FileLock, l}
    BY <1>4, <1>5, <1>6 DEF Has
  <2>2. UNCHANGED <<vfsVars, fileVars>>
    BY <1>1 DEF FilesSame
  <2>3. DeviceOf(n)' = DeviceOf(n)
    BY <2>2, SameFiles, Zenon
  <2>4. DeviceOf(call[t].fnode)' = DeviceOf(n)
    BY <1>3, <1>6, <2>3
  <2>. QED
    BY <1>3, <1>5, <1>6, <2>1, <2>4 DEF CloseShape, Has, CloseStages, CloseDevStages, CloseEnds, l
<1>8. call'[t].stage \in CloseStages \cup {"read"} /\ call'[t].stage \notin CloseEnds
  BY <1>6 DEF CloseStages, CloseDevStages, CloseEnds
<1>. QED BY <1>1, <1>2, <1>3, <1>6, <1>7, <1>8, WalkCloseStep

LEMMA StepCloseLockMount ==
  ASSUME FileInv, NEW t \in Task, CloseLockMount(t)
  PROVE  FileInv'
<1>1. /\ call[t].stage = "close_mp" /\ (call[t].wants # NULL => Available(call[t].wants, t))
      /\ TakeAndUnlock(t, {}) /\ GoOn(t, "close_node", NodeLock(call[t].fnode)) /\ FilesSame
  BY DEF CloseLockMount, Reaches, FilesSame
<1>2. call[t].stage \in CloseStages \cup {"read"} /\ call[t].stage \in CloseEnds
  BY <1>1 DEF CloseStages, CloseEnds
<1>3. PICK n \in Fnode : /\ call[t].fnode = n /\ fds[t][n] > 0 /\ ~call[t].fresh
                         /\ fnode[n].mp \in MountPoint
  BY <1>2, Closing
<1>. DEFINE mp == MpLock(fnode[n].mp)
<1>4. mp # NULL /\ NodeLock(n) \in Locks
  BY <1>3, LocksType
<1>5. Has(t, mp, {FileLock}) /\ call[t].mp = NULL
  BY <1>1, <1>2, <1>3 DEF FileInv, Calls, CloseShape
<1>6. /\ Local(t)
      /\ call'[t].stage = "close_node" /\ call'[t].wants = NodeLock(n)
      /\ call'[t].fnode = call[t].fnode /\ call'[t].mp = call[t].mp /\ call'[t].fresh = call[t].fresh
      /\ held'[t] = (held[t] \cup ({call[t].wants} \ {NULL})) \ {}
  BY <1>1, <1>3, <1>4, StageType, GoesOn
<1>. HIDE DEF mp
<1>7. CloseShape(t)'
  <2>1. held'[t] = {FileLock, mp}
    BY <1>4, <1>5, <1>6 DEF Has
  <2>2. fnode' = fnode
    BY <1>1 DEF FilesSame, fileVars
  <2>. QED
    BY <1>3, <1>5, <1>6, <2>1, <2>2 DEF CloseShape, Has, CloseStages, CloseDevStages, CloseEnds, mp
<1>8. /\ call'[t].stage \in CloseStages \cup {"read"} /\ call'[t].stage \in CloseEnds
      /\ call'[t].stage \notin CloseDevStages \cup {"read"}
  BY <1>6 DEF CloseStages, CloseDevStages, CloseEnds
<1>. QED BY <1>1, <1>2, <1>3, <1>6, <1>7, <1>8, WalkCloseStep

LEMMA StepRead ==
  ASSUME FileInv, NEW t \in Task, NEW n \in Listed, os_file_read(t, n)
  PROVE  FileInv'
<1>. DEFINE c == [Idle EXCEPT !.stage = "read", !.wants = DevLock(DeviceOf(n)), !.fnode = n]
            h == held[t] \cup {NodeLock(n)}
<1>1. n \in Fnode
  BY DEF FileInv, Types, Listed
<1>2. /\ call[t] = Idle /\ fds[t][n] > 0 /\ IsDevice(n) /\ FilesSame /\ UNCHANGED <<vfsVars, fileVars>>
      /\ starved' = starved
  BY DEF os_file_read, FilesSame
<1>3. DeviceOf(n) \in Device
  BY <1>1, <1>2, OpenInPlace DEF FileInv, NodesInPlace
<1>4. c \in CallRec
  BY <1>1, <1>3, LocksType DEF Idle, CallRec, Stages
<1>5. /\ c.fnode = n /\ c.mp = NULL /\ c.fresh = FALSE /\ c.stage = "read" /\ c.wants = DevLock(DeviceOf(n))
  BY DEF Idle
<1>6. call' = [call EXCEPT ![t] = c] /\ held' = [held EXCEPT ![t] = h]
  BY DEF os_file_read, FileInv, Types
<1>7. h \in SUBSET Locks /\ \A u \in Task \ {t} : h \cap held[u] = {}
  BY <1>1, LocksType DEF os_file_read, Available, FileInv, Types, OneHolder
<1>8. held[t] = Kept(t)
  <2>1. OtherShape(t)
    BY DEF FileInv, Calls
  <2>2. call[t].stage = "idle"
    BY <1>2 DEF Idle
  <2>. QED BY <2>1, <2>2 DEF OtherShape
<1>. HIDE DEF c, h
<1>9. Local(t) /\ call'[t] = c /\ held'[t] = h
  BY <1>4, <1>6, <1>7, Begins
<1>10. CloseShape(t)'
  <2>1. DeviceOf(n)' = DeviceOf(n)
    BY <1>2, SameFiles, Zenon
  <2>2. DeviceOf(call[t].fnode)' = DeviceOf(n)
    BY <1>5, <1>9, <2>1
  <2>3. held'[t] = Kept(t)' \cup {NodeLock(n)}
    BY <1>2, <1>8, <1>9 DEF Kept, h
  <2>. QED
    BY <1>1, <1>5, <1>9, <2>2, <2>3 DEF CloseShape, Has, CloseStages, CloseDevStages, CloseEnds
<1>11. call[t].fresh = FALSE /\ call[t].stage \notin CloseEnds
  BY <1>2 DEF Idle, CloseEnds
<1>12. call'[t].fnode = n /\ call'[t].stage \in CloseStages \cup {"read"} /\ call'[t].stage \notin CloseEnds
  BY <1>5, <1>9 DEF CloseEnds
<1>. QED BY <1>1, <1>2, <1>9, <1>10, <1>11, <1>12, WalkCloseStep

LEMMA StepReadReturn ==
  ASSUME FileInv, NEW t \in Task, ReadReturn(t)
  PROVE  FileInv'
<1>1. call[t].stage = "read" /\ Return(t) /\ FilesSame
  BY DEF ReadReturn, Reaches, FilesSame
<1>2. ~call[t].fresh /\ call[t].stage \notin CloseEnds
  BY <1>1 DEF FileInv, Calls, CloseShape, CloseEnds
<1>. QED BY <1>1, <1>2, ReturnStep

-----------------------------------------------------------------------------
(***************************************************************************)
(* os_vfs_stat.                                                            *)
(***************************************************************************)

\* A mount point that a search finds is one of those searched.
LEMMA FoundMounted ==
  ASSUME FileInv, NEW M \in SUBSET mount_list, NEW path \in Path, FindMp(M, path) # NULL
  PROVE  /\ FindMp(M, path) \in M /\ FindMp(M, path) \in mount_list /\ FindMp(M, path) \in MountPoint
         /\ Beneath(mount[FindMp(M, path)].path, path)
         /\ \A o \in M : Beneath(mount[o].path, path)
                           => Len(mount[o].path) <= Len(mount[FindMp(M, path)].path)
<1>1. \A m \in M : mount[m].path \in Path /\ m \in MountPoint
  BY DEF FileInv, Types, MountRec
<1>. QED BY <1>1, FindMpLongest

LEMMA NormalizedPath ==
  ASSUME NEW raw \in Path
  PROVE  os_vfs_normalize_path(raw) \in Path
<1>1. Name \subseteq STRING
  BY DEF Name
<1>. QED BY <1>1, NormalizeType, SeqMonotonic DEF NormalPath, Path

\* A walk of os_vfs_stat points to no node and opens nothing.
LEMMA StatStep ==
  ASSUME FileInv, NEW t \in Task, Local(t), FilesSame,
         call[t].stage \in {"idle", "stat_mp"}, call'[t].stage \in {"stat_mp", "stat"}, OtherShape(t)'
  PROVE  FileInv'
<1>1. ~call[t].fresh /\ call[t].stage \notin CloseEnds
  <2>1. OtherShape(t)
    BY DEF FileInv, Calls
  <2>. QED BY <2>1 DEF OtherShape, Idle, CloseEnds
<1>2. call'[t].fnode = NULL /\ ~call'[t].fresh /\ call'[t].stage \notin CloseEnds
  BY DEF OtherShape, CloseEnds
<1>3. /\ UNCHANGED <<vfsVars, fileVars, starved>> /\ UNCHANGED <<vfsVars, fileVars>>
      /\ UNCHANGED <<vfsVars, fileVars, dev_refcnt>>
  BY DEF FilesSame
<1>4. Calls(t)'
  BY <1>2 DEF Calls, OpenShape, CloseShape, MayUse, OwnsFresh, FoundBeneath, OpenStages, OpenFinds, OpenWorks,
     CloseStages, CloseDevStages, CloseEnds
<1>5. FreshUntouched(t) /\ KeepsFresh(t)
  BY <1>1, <1>2, <1>3, NoNode DEF KeepsFresh
<1>6. dev_refcnt' \in [Device -> Nat] /\ DeviceRefcntExact'
  BY <1>1, <1>2, <1>3, LocalDeviceCounts
<1>. QED BY <1>3, <1>4, <1>5, <1>6, LocalStep

LEMMA StepStat ==
  ASSUME FileInv, NEW t \in Task, NEW raw \in StatPaths, os_vfs_stat(t, raw), UNCHANGED <<fileVars, starved>>
  PROVE  FileInv'
<1>1. PICK m : /\ m = os_vfs_find_mp_by_path(os_vfs_normalize_path(raw)) /\ m # NULL
               /\ call' = [call EXCEPT ![t] = [Idle EXCEPT !.stage = "stat_mp", !.wants = MpLock(m), !.mp = m]]
  BY DEF os_vfs_stat
<1>2. m \in MountPoint
  <2>1. raw \in Path
    BY VfsAssumption
  <2>. QED BY <1>1, <2>1, NormalizedPath, FoundMounted DEF os_vfs_find_mp_by_path
<1>. DEFINE c == [Idle EXCEPT !.stage = "stat_mp", !.wants = MpLock(m), !.mp = m]
            h == held[t] \cup {VfsLock}
<1>3. call[t] = Idle /\ FilesSame /\ starved' = starved
  BY DEF os_vfs_stat, FilesSame
<1>4. c \in CallRec
  BY <1>2, LocksType DEF Idle, CallRec, Stages
<1>5. c.fnode = NULL /\ c.mp = m /\ c.fresh = FALSE /\ c.stage = "stat_mp" /\ c.wants = MpLock(m)
  BY DEF Idle
<1>6. call' = [call EXCEPT ![t] = c] /\ held' = [held EXCEPT ![t] = h]
  BY <1>1 DEF os_vfs_stat, FileInv, Types
<1>7. h \in SUBSET Locks /\ \A u \in Task \ {t} : h \cap held[u] = {}
  BY LocksType DEF os_vfs_stat, Available, FileInv, Types, OneHolder
<1>8. held[t] = Kept(t) /\ call[t].stage = "idle"
  <2>1. OtherShape(t)
    BY DEF FileInv, Calls
  <2>2. call[t].stage = "idle"
    BY <1>3 DEF Idle
  <2>. QED BY <2>1, <2>2 DEF OtherShape
<1>. HIDE DEF c, h
<1>9. Local(t) /\ call'[t] = c /\ held'[t] = h
  BY <1>4, <1>6, <1>7, Begins
<1>10. OtherShape(t)'
  <2>1. held'[t] = Kept(t)' \cup {VfsLock}
    BY <1>3, <1>8, <1>9 DEF Kept, h
  <2>. QED BY <1>2, <1>5, <1>9, <2>1 DEF OtherShape, Has
<1>. QED BY <1>3, <1>5, <1>8, <1>9, <1>10, StatStep

LEMMA StepStatLock ==
  ASSUME FileInv, NEW t \in Task, StatLock(t), UNCHANGED <<fileVars, starved>>
  PROVE  FileInv'
<1>1. PICK l \in {DeviceManager, NULL} :
        /\ call[t].stage = "stat_mp" /\ (call[t].wants # NULL => Available(call[t].wants, t))
        /\ TakeAndUnlock(t, {VfsLock}) /\ GoOn(t, "stat", l) /\ FilesSame
  BY DEF StatLock, Reaches, FilesSame
<1>2. /\ call[t].fnode = NULL /\ call[t].mp \in MountPoint /\ ~call[t].fresh
      /\ Has(t, MpLock(call[t].mp), Kept(t) \cup {VfsLock})
  BY <1>1 DEF FileInv, Calls, OtherShape
<1>3. /\ MpLock(call[t].mp) # NULL /\ MpLock(call[t].mp) # VfsLock /\ VfsLock \notin Kept(t)
      /\ l \in Locks \cup {NULL}
  BY <1>2, LocksType, LocksDiffer DEF Kept
<1>4. /\ Local(t)
      /\ call'[t].stage = "stat" /\ call'[t].wants = l
      /\ call'[t].fnode = call[t].fnode /\ call'[t].mp = call[t].mp /\ call'[t].fresh = call[t].fresh
      /\ held'[t] = (held[t] \cup ({call[t].wants} \ {NULL})) \ {VfsLock}
  BY <1>1, <1>3, StageType, GoesOn
<1>5. OtherShape(t)'
  <2>1. held'[t] = Kept(t)' \cup {MpLock(call[t].mp)}
    BY <1>1, <1>2, <1>3, <1>4 DEF Has, Kept, FilesSame
  <2>. QED BY <1>1, <1>2, <1>4, <2>1 DEF OtherShape
<1>. QED BY <1>1, <1>4, <1>5, StatStep

LEMMA StepStatReturn ==
  ASSUME FileInv, NEW t \in Task, StatReturn(t), UNCHANGED <<fileVars, starved>>
  PROVE  FileInv'
<1>1. call[t].stage = "stat" /\ FilesSame
  BY DEF StatReturn, Reaches, FilesSame
<1>2. /\ ~call[t].fresh /\ call[t].wants \in {DeviceManager, NULL}
      /\ held[t] = Kept(t) \cup {MpLock(call[t].mp)}
  BY <1>1 DEF FileInv, Calls, OtherShape
<1>3. (held[t] \cup ({call[t].wants} \ {NULL})) \ {DeviceManager, MpLock(call[t].mp)} = Kept(t)
  BY <1>2, LocksDiffer DEF Kept
<1>4. Return(t)
  BY <1>3 DEF StatReturn, TakeAndUnlock, Return, FileInv, Types
<1>5. call[t].stage \notin CloseEnds
  BY <1>1 DEF CloseEnds
<1>. QED BY <1>1, <1>2, <1>4, <1>5, ReturnStep

-----------------------------------------------------------------------------
(***************************************************************************)
(* The driver's answer to a close.                                         *)
(***************************************************************************)

\* Counts over nodes that have the same descriptors are the same, and a descriptor
\* counts.
LEMMA SameDescriptors ==
  ASSUME NEW N, NEW M, \A d \in Descriptors : d[2] \in N <=> d[2] \in M
  PROVE  OpenOn(N) = OpenOn(M)
<1>1. {d \in Descriptors : d[2] \in N} = {d \in Descriptors : d[2] \in M}
  OBVIOUS
<1>. QED BY <1>1 DEF OpenOn

LEMMA DescriptorCounts ==
  ASSUME FdsType, NEW N, NEW n \in N, n \in Fnode, NEW t \in Task, fds[t][n] > 0
  PROVE  OpenOn(N) \in Nat \ {0}
<1>. DEFINE D == {d \in Descriptors : d[2] \in N}
<1>1. IsFiniteSet(D) /\ OpenOn(N) = Cardinality(D) /\ Cardinality(D) \in Nat
  BY OpenOnFinite DEF OpenOn
<1>2. fds[t][n] \in 0..MaxOpen /\ MaxOpen \in Nat
  BY FileAssumption DEF FdsType
<1>3. <<t, n, 1>> \in D
  BY <1>2 DEF Descriptors
<1>. HIDE DEF D
<1>4. Cardinality(D) # 0
  BY <1>1, <1>3, FS_EmptySet
<1>. QED BY <1>1, <1>4

\* Only one task closes at a time.
LEMMA OneCloser ==
  ASSUME FileInv, NEW t \in Task, NEW u \in Task,
         call[t].stage \in {"open"} \cup OpenFinds \cup CloseStages,
         call[u].stage \in {"open"} \cup OpenFinds \cup CloseStages
  PROVE  u = t
BY Holders DEF FileInv, OneHolder

LEMMA StepCloseByDriver ==
  ASSUME FileInv, NEW t \in Task, CloseByDriver(t)
  PROVE  FileInv'
<1>1. /\ call[t].stage = "close_init" /\ (call[t].wants # NULL => Available(call[t].wants, t))
      /\ UNCHANGED <<vfsVars, fileVars, starved>> /\ UNCHANGED <<vfsVars, fileVars>>
      /\ fnode' = fnode
  BY DEF CloseByDriver, Reaches, fileVars
<1>2. /\ call[t].stage \in CloseStages \cup {"read"} /\ call[t].stage \in CloseDevStages \cup {"read"}
      /\ call[t].stage \notin CloseEnds
  BY <1>1 DEF CloseStages, CloseDevStages, CloseEnds
<1>3. PICK n \in Fnode : /\ call[t].fnode = n /\ fds[t][n] > 0 /\ ~call[t].fresh
                         /\ n \in Listed /\ fnode[n].mp \in mount_list /\ fnode[n].mp \in MountPoint
                         /\ DeviceOf(n) \in Device /\ IsDevice(n)
  BY <1>2, Closing
<1>4. PICK d \in Device : d = DeviceOf(n)
  BY <1>3
<1>. DEFINE l == MpLock(fnode[n].mp)
<1>5. PICK ok \in BOOLEAN :
        /\ DeviceClosed(d, ok)
        /\ IF ok THEN held' = [held EXCEPT ![t] = @ \ {DevLock(d)}] /\ GoOn(t, "close_mp", l) ELSE Return(t)
  BY <1>3, <1>4 DEF CloseByDriver
<1>6. call \in [Task -> CallRec] /\ held \in [Task -> SUBSET Locks] /\ dev_refcnt \in [Device -> Nat]
  BY DEF FileInv, Types
<1>7. CASE ~ok
  <2>1. dev_refcnt' = dev_refcnt
    BY <1>5, <1>6, <1>7 DEF DeviceClosed
  <2>2. FilesSame
    BY <1>1, <2>1 DEF FilesSame
  <2>. QED BY <1>2, <1>3, <1>5, <1>7, <2>2, ReturnStep
<1>8. CASE ok
  <2>1. Has(t, DeviceManager, {FileLock, DevLock(d)}) /\ call[t].mp = NULL
    BY <1>1, <1>2, <1>3, <1>4 DEF FileInv, Calls, CloseShape
  <2>2. l \in Locks /\ DevLock(d) # FileLock
    BY <1>3, LocksType, LocksDiffer
  <2>3. held' = [held EXCEPT ![t] = @ \ {DevLock(d)}] /\ GoOn(t, "close_mp", l)
    BY <1>5, <1>8
  <2>. HIDE DEF l
  <2>4. call[t] \in CallRec
    BY <1>6
  <2>5. call'[t] = [call[t] EXCEPT !.stage = "close_mp", !.wants = l] /\ \A u \in Task \ {t} : call'[u] = call[u]
    BY <1>6, <2>3 DEF GoOn
  <2>6. call'[t] \in CallRec
    BY <2>2, <2>4, <2>5, StageType DEF CallRec
  <2>7. call' \in [Task -> CallRec]
    <3>1. call' = [u \in Task |-> call'[u]]
      BY <1>6, <2>3 DEF GoOn
    <3>. QED BY <1>6, <2>5, <2>6, <3>1
  <2>8. held'[t] = {FileLock} /\ \A u \in Task \ {t} : held'[u] = held[u]
    BY <1>6, <2>1, <2>2, <2>3 DEF Has
  <2>9. Local(t)
    <3>1. held' \in [Task -> SUBSET Locks]
      BY <1>6, <2>3
    <3>2. \A u \in Task \ {t} : held'[t] \cap held[u] = {}
      BY <2>1, <2>8 DEF Has, FileInv, OneHolder
    <3>. QED BY <2>5, <2>7, <2>8, <3>1, <3>2 DEF Local
  <2>10. call'[t].stage = "close_mp" /\ call'[t].wants = l /\ call'[t].fnode = n /\ call'[t].mp = NULL /\ ~call'[t].fresh
    BY <1>3, <2>1, <2>4, <2>5 DEF CallRec
  <2>11. CloseShape(t)'
    BY <1>1, <2>8, <2>10 DEF CloseShape, Has, CloseStages, CloseDevStages, CloseEnds, l
  <2>12. call'[t].stage \in CloseEnds /\ call'[t].stage \in CloseStages /\ call'[t].stage \notin CloseDevStages \cup {"read"}
    BY <2>10 DEF CloseStages, CloseDevStages, CloseEnds
  <2>13. Calls(t)' /\ FreshUntouched(t) /\ KeepsFresh(t)
    BY <1>1, <1>3, <2>10, <2>11, <2>12, WalkClose
  <2>14. \A e : NodesOf(e)' = NodesOf(e) /\ (n \in NodesOf(e) <=> e = d)
    BY <1>1, <1>3, <1>4, SameFiles DEF NodesOf
  <2>15. HalfClosed(d) = {} /\ HalfClosed(d)' = {t}
    <3>1. ASSUME NEW u \in HalfClosed(d) PROVE FALSE
      <4>1. u \in Task /\ call[u].stage \in {"open"} \cup OpenFinds \cup CloseStages /\ call[u].stage \in CloseEnds
        BY DEF HalfClosed, CloseStages, CloseEnds
      <4>2. call[t].stage \in {"open"} \cup OpenFinds \cup CloseStages
        BY <1>1 DEF CloseStages, CloseDevStages
      <4>. QED BY <1>2, <4>1, <4>2, OneCloser
    <3>2. ASSUME NEW u \in Task \ {t}, u \in HalfClosed(d)' PROVE FALSE
      BY <2>5, <2>14, <3>1, <3>2 DEF HalfClosed
    <3>3. t \in HalfClosed(d)'
      BY <2>10, <2>14 DEF HalfClosed
    <3>. QED BY <3>1, <3>2, <3>3 DEF HalfClosed
  <2>16. ASSUME NEW e \in Device, e # d PROVE HalfClosed(e)' = HalfClosed(e)
    <3>1. ASSUME NEW u \in Task PROVE u \in HalfClosed(e)' <=> u \in HalfClosed(e)
      <4>1. CASE u = t
        BY <1>1, <2>10, <2>14, <2>16, <4>1 DEF HalfClosed
      <4>2. CASE u # t
        BY <2>5, <2>14, <4>2 DEF HalfClosed
      <4>. QED BY <4>1, <4>2
    <3>. QED BY <3>1 DEF HalfClosed
  <2>17. \A e \in Device : dev_refcnt[e] + Cardinality(HalfClosed(e)) = OpenOn(NodesOf(e))
    BY DEF FileInv, CountsExact, DeviceRefcntExact
  <2>18. \A e \in Device : OpenOn(NodesOf(e))' = OpenOn(NodesOf(e))
    BY <1>1, <2>14, SameFiles DEF OpenOn
  <2>19. dev_refcnt[d] = OpenOn(NodesOf(d)) /\ OpenOn(NodesOf(d)) \in Nat \ {0}
    <3>1. FdsType
      BY DEF FileInv, Types, FdsType
    <3>2. n \in NodesOf(d)
      BY <2>14
    <3>3. OpenOn(NodesOf(d)) \in Nat \ {0}
      BY <1>3, <3>1, <3>2, DescriptorCounts
    <3>4. Cardinality(HalfClosed(d)) = 0
      BY <2>15, FS_EmptySet, Zenon
    <3>. QED BY <1>6, <2>17, <3>3, <3>4
  <2>20. dev_refcnt' = [dev_refcnt EXCEPT ![d] = @ - 1]
    BY <1>5, <1>8 DEF DeviceClosed
  <2>21. dev_refcnt' \in [Device -> Nat]
    BY <1>6, <2>19, <2>20
  <2>22. DeviceRefcntExact'
    <3>. SUFFICES ASSUME NEW e \in Device
                  PROVE  dev_refcnt'[e] + Cardinality(HalfClosed(e)') = OpenOn(NodesOf(e))'
      BY DEF DeviceRefcntExact
    <3>1. CASE e = d
      <4>1. Cardinality(HalfClosed(d)') = 1
        BY <2>15, FS_Singleton, Zenon
      <4>. QED BY <1>6, <2>18, <2>19, <2>20, <3>1, <4>1
    <3>2. CASE e # d
      BY <1>6, <2>16, <2>17, <2>18, <2>20, <3>2
    <3>. QED BY <3>1, <3>2
  <2>. QED BY <1>1, <2>9, <2>13, <2>21, <2>22, LocalStep
<1>. QED BY <1>7, <1>8

-----------------------------------------------------------------------------
(***************************************************************************)
(* The steps of os_file_open that look for a node.                         *)
(***************************************************************************)
LEMMA StepOpenWithoutMemory ==
  ASSUME FileInv, NEW t \in Task, OpenWithoutMemory(t)
  PROVE  FileInv'
<1>1. /\ call[t].stage = "open" /\ starved' = starved \cup {t}
      /\ held' = [held EXCEPT ![t] = {FileLock}] /\ call' = [call EXCEPT ![t] = Idle]
      /\ UNCHANGED <<vfsVars, fileVars>> /\ UNCHANGED <<vfsVars, fileVars, dev_refcnt>>
  BY DEF OpenWithoutMemory, Reaches
<1>2. FileLock \in held[t] /\ ~call[t].fresh /\ call[t].stage \notin CloseEnds
  BY <1>1, Holders DEF FileInv, Calls, OpenShape, CloseEnds
<1>3. {FileLock} \in SUBSET Locks /\ \A u \in Task \ {t} : {FileLock} \cap held[u] = {}
  BY <1>2, LocksType DEF FileInv, OneHolder
<1>4. Local(t) /\ call'[t] = Idle /\ held'[t] = {FileLock}
  BY <1>1, <1>3, IdleType, Begins
<1>5. Calls(t)'
  <2>1. held'[t] = Kept(t)'
    BY <1>1, <1>4 DEF Kept
  <2>. QED BY <1>4, <2>1, IdleCalls
<1>6. call'[t].fnode = NULL /\ call'[t].stage \notin CloseEnds
  BY <1>4 DEF Idle, CloseEnds
<1>7. FreshUntouched(t) /\ KeepsFresh(t)
  BY <1>1, <1>2, <1>6, NoNode DEF KeepsFresh
<1>8. dev_refcnt' \in [Device -> Nat] /\ DeviceRefcntExact'
  BY <1>1, <1>2, <1>4, <1>6, LocalDeviceCounts
<1>9. \A u \in Task \ {t} : u \in starved' <=> u \in starved
  BY <1>1
<1>. QED BY <1>1, <1>4, <1>5, <1>7, <1>8, <1>9, LocalStepOrStarve

\* The search finds the first node of that spelling, and misses none.
LEMMA FoundNode ==
  ASSUME FileInv, NEW raw
  PROVE  /\ os_file_fnode_find(raw) # NULL =>
              os_file_fnode_find(raw) \in Listed /\ PathOf(os_file_fnode_find(raw)) = raw
         /\ os_file_fnode_find(raw) = NULL => \A n \in Listed : PathOf(n) # raw
<1>. DEFINE same == {i \in DOMAIN os_file_list : PathOf(os_file_list[i]) = raw}
<1>1. os_file_list \in Seq(Fnode) /\ DOMAIN os_file_list \subseteq Nat
  BY DEF FileInv, Types
<1>2. CASE same = {}
  <2>1. \A n \in Listed : PathOf(n) # raw
    BY <1>2 DEF Listed
  <2>. QED BY <1>2, <2>1 DEF os_file_fnode_find
<1>3. CASE same # {}
  <2>1. \E i \in same : \A j \in same : i <= j
    BY <1>1, <1>3, LeastNumber
  <2>2. Min(same) \in same
    BY <2>1 DEF Min
  <2>3. os_file_fnode_find(raw) = os_file_list[Min(same)]
    BY <1>3 DEF os_file_fnode_find
  <2>4. os_file_fnode_find(raw) \in Listed /\ PathOf(os_file_fnode_find(raw)) = raw
    BY <2>2, <2>3 DEF Listed
  <2>5. os_file_fnode_find(raw) # NULL
    BY <1>1, <2>2, <2>3, FileAssumption
  <2>. QED BY <2>4, <2>5
<1>. QED BY <1>2, <1>3

\* A spelling that is the path of a node is normal.
LEMMA NodePathNormal ==
  ASSUME FileInv, NEW n \in Listed
  PROVE  /\ n \in Fnode /\ fnode[n].spelt \in Path /\ PathOf(n) \in NormalPath /\ PathOf(n) \in Path
         /\ os_vfs_normalize_path(PathOf(n)) = PathOf(n)
<1>1. n \in Fnode
  BY DEF FileInv, Types, Listed
<1>2. fnode[n].spelt \in Path
  BY FileAssumption DEF FileInv, Types, NodeRec
<1>3. PathOf(n) \in NormalPath /\ PathOf(n) \in Path
  BY <1>2, NormalizeType, NormalizedPath DEF PathOf
<1>. QED BY <1>1, <1>2, <1>3, NormalizeIdempotent

\* The open goes on with node n and mount point m.
LEMMA OpenGoesOn ==
  ASSUME FileInv, NEW t \in Task, Reaches(t, "open"), NEW n \in Fnode, NEW m \in MountPoint,
         NEW fresh \in BOOLEAN, OpenWith(t, n, m, fresh)
  PROVE  /\ Local(t)
         /\ call'[t].stage = "open_mp" /\ call'[t].fnode = n /\ call'[t].mp = m /\ call'[t].fresh = fresh
         /\ OpenShape(t)' /\ CloseShape(t)' /\ OtherShape(t)'
<1>1. call \in [Task -> CallRec] /\ held \in [Task -> SUBSET Locks] /\ call[t] \in CallRec
  BY DEF FileInv, Types
<1>2. /\ call[t].stage = "open" /\ Has(t, VfsLock, {FileLock}) /\ Available(VfsLock, t)
  <2>1. call[t].stage = "open" /\ (call[t].wants # NULL => Available(call[t].wants, t))
    BY DEF Reaches
  <2>2. Has(t, VfsLock, {FileLock})
    BY <2>1 DEF FileInv, Calls, OpenShape
  <2>. QED BY <2>1, <2>2, LocksType DEF Has
<1>. DEFINE c == [call[t] EXCEPT !.stage = "open_mp", !.wants = MpLock(m), !.fnode = n, !.mp = m,
                    !.fresh = fresh, !.path = NULL]
<1>3. c \in CallRec
  BY <1>1, LocksType DEF CallRec, Stages, OpenStages, OpenFinds
<1>4. /\ c.stage = "open_mp" /\ c.wants = MpLock(m) /\ c.fnode = n /\ c.mp = m /\ c.fresh = fresh
  BY <1>1 DEF CallRec
<1>5. call' = [call EXCEPT ![t] = c]
  BY <1>1 DEF OpenWith
<1>. HIDE DEF c
<1>6. held' = [held EXCEPT ![t] = {FileLock, VfsLock}]
  BY <1>1, <1>2, LocksType DEF OpenWith, TakeAndUnlock, Has
<1>7. {FileLock, VfsLock} \in SUBSET Locks /\ \A u \in Task \ {t} : {FileLock, VfsLock} \cap held[u] = {}
  BY <1>2, LocksType DEF Has, Available, FileInv, OneHolder
<1>8. Local(t) /\ call'[t] = c /\ held'[t] = {FileLock, VfsLock}
  BY <1>3, <1>5, <1>6, <1>7, Begins
<1>9. OpenShape(t)' /\ CloseShape(t)' /\ OtherShape(t)'
  BY <1>4, <1>8 DEF OpenShape, CloseShape, OtherShape, Has, OpenFinds, OpenWorks, CloseStages, CloseDevStages, CloseEnds
<1>. QED BY <1>4, <1>8, <1>9

\* An existing node is shared.
LEMMA StepOpenShares ==
  ASSUME FileInv, NEW t \in Task, Reaches(t, "open"), NEW raw, raw = call[t].path,
         NEW m, m = os_vfs_find_mp_by_path(os_vfs_normalize_path(raw)), m # NULL,
         NEW n, n = os_file_fnode_find(raw), n # NULL,
         OpenWith(t, n, m, FALSE), FilesSame
  PROVE  FileInv'
<1>1. n \in Listed /\ n \in Fnode /\ PathOf(n) = raw /\ raw \in Path /\ os_vfs_normalize_path(raw) = raw
  BY FoundNode, NodePathNormal
<1>2. /\ m \in MountPoint /\ m \in mount_list
      /\ \A o \in mount_list : Beneath(mount[o].path, raw) => Len(mount[o].path) <= Len(mount[m].path)
  BY <1>1, FoundMounted DEF os_vfs_find_mp_by_path
<1>3. /\ Local(t)
      /\ call'[t].stage = "open_mp" /\ call'[t].fnode = n /\ call'[t].mp = m /\ call'[t].fresh = FALSE
      /\ OpenShape(t)' /\ CloseShape(t)' /\ OtherShape(t)'
  BY <1>1, <1>2, OpenGoesOn
<1>4. /\ UNCHANGED <<vfsVars, fileVars, starved>> /\ UNCHANGED <<vfsVars, fileVars>>
      /\ UNCHANGED <<vfsVars, fileVars, dev_refcnt>>
      /\ fds' = fds /\ fnode' = fnode /\ mount' = mount /\ mount_list' = mount_list /\ Listed' = Listed
  BY SameFiles DEF FilesSame, fileVars, vfsVars
<1>5. call[t].stage = "open"
  BY DEF Reaches
<1>6. ~call[t].fresh /\ OpenBy(t) < MaxOpen
  BY <1>5 DEF FileInv, Calls, OpenShape, MayUse, OpenStages
<1>7. MayUse(t)'
  <2>1. OpenBy(t)' = OpenBy(t)
    BY <1>4 DEF OpenBy, Descriptors
  <2>. QED BY <1>3, <1>6, <2>1 DEF MayUse, CloseStages, CloseDevStages, CloseEnds
<1>8. OwnsFresh(t)'
  BY <1>3 DEF OwnsFresh
<1>9. FoundBeneath(t)'
  <2>1. fnode[n].mp \in mount_list => Beneath(mount[fnode[n].mp].path, raw)
    BY <1>1 DEF FileInv, NodesInPlace
  <2>. QED BY <1>2, <1>3, <1>4, <2>1 DEF FoundBeneath
<1>10. FreshUntouched(t)
  <2>1. ASSUME NEW u \in Task \ {t}, call[u].fresh PROVE NodeLock(call[u].fnode) \in held[u]
    BY <1>5, <2>1, Holders, FreshHolds DEF FileInv, OneHolder
  <2>. QED BY <1>3, <1>4, <2>1, FreshHolds DEF FreshUntouched, OpenFinds
<1>11. KeepsFresh(t) /\ Calls(t)'
  BY <1>3, <1>6, <1>7, <1>8, <1>9 DEF KeepsFresh, Calls
<1>12. dev_refcnt' \in [Device -> Nat] /\ DeviceRefcntExact'
  <2>1. call[t].stage \notin CloseEnds /\ call'[t].stage \notin CloseEnds
    BY <1>3, <1>5 DEF CloseEnds
  <2>. QED BY <1>3, <1>4, <2>1, LocalDeviceCounts
<1>. QED BY <1>3, <1>4, <1>10, <1>11, <1>12, LocalStep

\* A new node joins the list.
LEMMA StepOpenCreates ==
  ASSUME FileInv, NEW t \in Task, Reaches(t, "open"), NEW raw, raw = call[t].path,
         NEW m, m = os_vfs_find_mp_by_path(os_vfs_normalize_path(raw)), m # NULL,
         os_file_fnode_find(raw) = NULL,
         NEW n \in Fnode, FreshNode(n), OpenWith(t, n, m, TRUE),
         os_file_list' = Append(os_file_list, n),
         fnode' = [fnode EXCEPT ![n] = [spelt |-> raw, mp |-> m, refcnt |-> 0]],
         UNCHANGED <<dev_refcnt, vfsVars, fds, starved>>
  PROVE  FileInv'
<1>. DEFINE path == os_vfs_normalize_path(raw)
<1>1. call[t].stage = "open" /\ raw \in OpenPaths /\ raw \in Path /\ path \in Path
  <2>1. call[t].stage = "open"
    BY DEF Reaches
  <2>2. raw \in OpenPaths /\ raw \in Path
    BY <2>1, FileAssumption DEF FileInv, Calls, OpenShape
  <2>. QED BY <2>1, <2>2, NormalizedPath
<1>2. m \in MountPoint /\ m \in mount_list /\ Beneath(mount[m].path, path)
  BY <1>1, FoundMounted DEF os_vfs_find_mp_by_path
<1>. HIDE DEF path
<1>3. /\ Local(t)
      /\ call'[t].stage = "open_mp" /\ call'[t].fnode = n /\ call'[t].mp = m /\ call'[t].fresh = TRUE
      /\ OpenShape(t)' /\ CloseShape(t)' /\ OtherShape(t)'
  BY <1>2, OpenGoesOn
<1>4. /\ mount' = mount /\ mount_list' = mount_list /\ fds' = fds /\ dev_refcnt' = dev_refcnt
      /\ starved' = starved
  BY DEF vfsVars
<1>5. /\ n \notin Listed /\ \A u \in Task : call[u].fnode # n
  BY DEF FreshNode
<1>6. os_file_list' \in Seq(Fnode) /\ IsInjective(os_file_list') /\ Listed' = Listed \cup {n}
  <2>1. os_file_list \in Seq(Fnode) /\ IsInjective(os_file_list)
    BY DEF FileInv, Types
  <2>2. /\ os_file_list' \in Seq(Fnode) /\ Len(os_file_list') = Len(os_file_list) + 1
        /\ \A i \in 1..Len(os_file_list) : os_file_list'[i] = os_file_list[i]
        /\ os_file_list'[Len(os_file_list) + 1] = n
    BY <2>1, AppendProperties
  <2>3. /\ Len(os_file_list) \in Nat /\ DOMAIN os_file_list = 1..Len(os_file_list)
        /\ DOMAIN os_file_list' = 1..(Len(os_file_list) + 1)
    BY <2>1, <2>2, LenProperties
  <2>4. \A i \in 1..Len(os_file_list) : os_file_list[i] # n
    BY <1>5, <2>3 DEF Listed
  <2>5. IsInjective(os_file_list')
    <3>. SUFFICES ASSUME NEW i \in DOMAIN os_file_list', NEW j \in DOMAIN os_file_list',
                         os_file_list'[i] = os_file_list'[j]
                  PROVE  i = j
      BY DEF IsInjective
    <3>1. CASE i \in 1..Len(os_file_list) /\ j \in 1..Len(os_file_list)
      <4>1. os_file_list[i] = os_file_list[j] /\ i \in DOMAIN os_file_list /\ j \in DOMAIN os_file_list
        BY <2>2, <2>3, <3>1
      <4>. QED BY <2>1, <4>1 DEF IsInjective
    <3>2. CASE ~(i \in 1..Len(os_file_list) /\ j \in 1..Len(os_file_list))
      BY <2>2, <2>3, <2>4, <3>2
    <3>. QED BY <3>1, <3>2
  <2>6. \A k : k \in Listed' <=> k \in Listed \/ k = n
    <3>1. ASSUME NEW i \in DOMAIN os_file_list' PROVE os_file_list'[i] \in Listed \cup {n}
      BY <2>2, <2>3 DEF Listed
    <3>2. ASSUME NEW i \in DOMAIN os_file_list PROVE os_file_list[i] \in Listed'
      <4>1. i \in DOMAIN os_file_list' /\ os_file_list'[i] = os_file_list[i]
        BY <2>2, <2>3
      <4>. QED BY <4>1 DEF Listed
    <3>3. n \in Listed'
      <4>1. Len(os_file_list) + 1 \in DOMAIN os_file_list'
        BY <2>3
      <4>. QED BY <2>2, <4>1 DEF Listed
    <3>. QED BY <3>1, <3>2, <3>3 DEF Listed
  <2>. QED BY <2>2, <2>5, <2>6
<1>7. DOMAIN fnode = Fnode /\ \A k \in Listed : fnode[k] \in NodeRec /\ k \in Fnode
  BY DEF FileInv, Types, Listed
<1>8. fnode'[n] = [spelt |-> raw, mp |-> m, refcnt |-> 0] /\ \A k \in Listed : fnode'[k] = fnode[k]
  BY <1>5, <1>7
<1>9. Types'
  <2>1. fnode'[n] \in NodeRec
    BY <1>1, <1>2, <1>8 DEF NodeRec
  <2>2. DOMAIN fnode' = Fnode /\ \A k \in Listed' : fnode'[k] \in NodeRec
    BY <1>6, <1>7, <1>8, <2>1
  <2>. QED BY <1>3, <1>4, <1>6, <2>2 DEF FileInv, Types, Local
<1>10. OneHolder'
  BY <1>3, LocalOneHolder DEF FileInv
<1>11. NamesStay
  BY <1>4, <1>8 DEF NamesStay
<1>12. ~call[t].fresh /\ OpenBy(t) < MaxOpen
  BY <1>1 DEF FileInv, Calls, OpenShape, MayUse, OpenStages
<1>13. ASSUME NEW u \in Task PROVE Calls(u)'
  <2>1. CASE u # t
    <3>1. OthersUntouched(t) /\ NewUnused(t)
      BY <1>3, <1>4, <1>5, <1>6 DEF OthersUntouched, NewUnused, Local
    <3>2. FreshUntouched(t)
      BY <1>3, <1>5, <1>6, <1>8, FreshHolds DEF FreshUntouched
    <3>. QED BY <1>11, <2>1, <3>1, <3>2, OthersGoOn
  <2>2. CASE u = t
    <3>1. OpenBy(t)' = OpenBy(t)
      BY <1>4 DEF OpenBy, Descriptors
    <3>2. MayUse(t)'
      BY <1>3, <1>12, <3>1 DEF MayUse, CloseStages, CloseDevStages, CloseEnds
    <3>3. OwnsFresh(t)'
      <4>1. /\ call'[t].stage \in OpenFinds \cup OpenWorks
            /\ n \in Listed' /\ fnode'[n].refcnt = 0 /\ fnode'[n].mp = call'[t].mp
        BY <1>3, <1>6, <1>8 DEF OpenFinds
      <4>2. \A v \in Task \ {t} : call'[v].fnode # n
        BY <1>3, <1>5 DEF Local
      <4>. QED BY <1>3, <4>1, <4>2 DEF OwnsFresh
    <3>4. FoundBeneath(t)'
      <4>1. Len(mount[m].path) \in Nat
        BY <1>2 DEF FileInv, Types, MountRec, Path
      <4>. QED BY <1>3, <1>4, <1>8, <4>1 DEF FoundBeneath
    <3>. QED BY <1>3, <2>2, <3>2, <3>3, <3>4 DEF Calls
  <2>. QED BY <2>1, <2>2
<1>14. \A u \in Task : fds[u][n] = 0
  <2>1. \A u \in Task : fds[u][n] \in 0..MaxOpen
    BY DEF FileInv, Types
  <2>2. \A u \in Task : ~(fds[u][n] > 0)
    BY <1>5 DEF FileInv, NodesInPlace
  <2>. QED BY <2>1, <2>2, FileAssumption
<1>15. PathOf(n)' = path /\ \A k \in Listed : PathOf(k)' = PathOf(k)
  BY <1>8, <1>11, PathKept DEF PathOf, path
<1>16. \A k \in Listed : fnode[k].mp \in mount_list => DeviceOf(k)' = DeviceOf(k) /\ (IsDevice(k)' <=> IsDevice(k))
  BY <1>11, DeviceKept
<1>17. NodesInPlace'
  <2>1. NodesInPlace
    BY DEF FileInv
  <2>2. \A u \in Task, k \in Fnode : fds'[u][k] > 0 => k \in Listed'
    BY <1>4, <1>6, <2>1 DEF NodesInPlace
  <2>3. ASSUME NEW k \in Listed
        PROVE  /\ fnode'[k].mp \in mount_list' => Beneath(mount'[fnode'[k].mp].path, PathOf(k)')
               /\ fnode'[k].refcnt > 0 /\ IsDevice(k)' => DeviceOf(k)' \in Device
    <3>1. fnode[k].refcnt > 0 => fnode[k].mp \in mount_list
      BY DEF FileInv, OpenFilesKeepTheirMount
    <3>. QED BY <1>4, <1>8, <1>15, <1>16, <2>1, <3>1 DEF NodesInPlace
  <2>4. /\ fnode'[n].mp \in mount_list' => Beneath(mount'[fnode'[n].mp].path, PathOf(n)')
        /\ ~(fnode'[n].refcnt > 0)
    BY <1>2, <1>4, <1>8, <1>15
  <2>. QED BY <1>6, <2>2, <2>3, <2>4 DEF NodesInPlace
<1>18. RootIsRomfs'
  BY <1>4 DEF FileInv, RootIsRomfs
<1>19. OpenFilesKeepTheirMount'
  BY <1>4, <1>6, <1>8 DEF FileInv, OpenFilesKeepTheirMount
<1>20. SharedUnlessRespelt'
  <2>1. \A k \in Listed : PathOf(k) # raw
    BY FoundNode
  <2>2. \A k \in Listed : PathOf(k)' = PathOf(n)' => fnode'[n].spelt # PathOf(n)'
    BY <1>8, <1>15, <2>1
  <2>3. SharedUnlessRespelt
    BY DEF FileInv
  <2>. SUFFICES ASSUME NEW k \in Listed', NEW o \in Listed', k # o, PathOf(k)' = PathOf(o)'
                PROVE  \E x \in {k, o} : fnode'[x].spelt # PathOf(x)'
    BY DEF SharedUnlessRespelt
  <2>4. CASE k = n \/ o = n
    BY <1>6, <2>2, <2>4
  <2>5. CASE k # n /\ o # n
    <3>1. k \in Listed /\ o \in Listed /\ PathOf(k) = PathOf(o)
      BY <1>6, <1>15, <2>5
    <3>2. \E x \in {k, o} : fnode[x].spelt # PathOf(x)
      BY <2>3, <3>1 DEF SharedUnlessRespelt
    <3>. QED BY <1>8, <1>15, <3>1, <3>2
  <2>. QED BY <2>4, <2>5
<1>21. \A N : OpenOn(N)' = OpenOn(N)
  BY <1>4 DEF OpenOn, Descriptors
<1>22. RefcntExact'
  <2>1. RefcntExact
    BY DEF FileInv, CountsExact
  <2>2. OpenOn({n}) = 0
    <3>1. FdsType
      BY DEF FileInv, Types, FdsType
    <3>2. ~(OpenOn({n}) > 0)
      BY <1>14, <3>1, OpenNodes
    <3>3. OpenOn({n}) \in Nat
      BY OpenOnFinite
    <3>. QED BY <3>2, <3>3
  <2>3. ASSUME NEW k \in Listed
        PROVE  /\ fnode'[k].refcnt = OpenOn({k})'
               /\ fnode'[k].refcnt = 0 => \E u \in Task : call'[u].fnode = k /\ call'[u].fresh
    <3>1. ASSUME fnode[k].refcnt = 0 PROVE \E u \in Task : call'[u].fnode = k /\ call'[u].fresh
      <4>1. PICK u \in Task : call[u].fnode = k /\ call[u].fresh
        BY <2>1, <3>1 DEF RefcntExact
      <4>2. call'[u] = call[u]
        BY <1>3, <1>12, <4>1 DEF Local
      <4>. QED BY <4>1, <4>2
    <3>. QED BY <1>8, <1>21, <2>1, <3>1 DEF RefcntExact
  <2>4. fnode'[n].refcnt = OpenOn({n})' /\ call'[t].fnode = n /\ call'[t].fresh
    BY <1>3, <1>8, <1>21, <2>2
  <2>. QED BY <1>6, <2>3, <2>4 DEF RefcntExact
<1>23. OpenCountExact'
  <2>1. ASSUME NEW o \in mount_list PROVE OpenFiles(o)' = OpenFiles(o)
    <3>1. ASSUME NEW k PROVE k \in OpenFiles(o)' <=> k \in OpenFiles(o)
      BY <1>5, <1>6, <1>8 DEF OpenFiles
    <3>. QED BY <3>1 DEF OpenFiles
  <2>. QED BY <1>4, <2>1 DEF FileInv, CountsExact, OpenCountExact
<1>24. DeviceRefcntExact'
  <2>1. ASSUME NEW d, NEW k \in Listed PROVE k \in NodesOf(d)' <=> k \in NodesOf(d)
    BY <1>4, <1>6, <1>8, <1>16 DEF NodesOf
  <2>2. ASSUME NEW d PROVE HalfClosed(d)' = HalfClosed(d)
    <3>1. ASSUME NEW u \in Task PROVE u \in HalfClosed(d)' <=> u \in HalfClosed(d)
      <4>1. CASE u = t
        BY <1>1, <1>3, <4>1 DEF HalfClosed
      <4>2. CASE u # t
        <5>1. call'[u] = call[u] /\ call[u].fnode # n
          BY <1>3, <1>5, <4>2 DEF Local
        <5>2. call[u].fnode \in NodesOf(d)' <=> call[u].fnode \in NodesOf(d)
          BY <1>6, <2>1, <5>1 DEF NodesOf
        <5>. QED BY <5>1, <5>2 DEF HalfClosed
      <4>. QED BY <4>1, <4>2
    <3>. QED BY <3>1 DEF HalfClosed
  <2>3. ASSUME NEW d PROVE OpenOn(NodesOf(d))' = OpenOn(NodesOf(d))
    <3>1. PICK N : N = NodesOf(d)'
      OBVIOUS
    <3>2. ASSUME NEW x \in Descriptors PROVE x[2] \in N <=> x[2] \in NodesOf(d)
      <4>1. x[1] \in Task /\ x[2] \in Fnode /\ fds[x[1]][x[2]] > 0
        BY DEF Descriptors, FileInv, Types
      <4>2. x[2] \in Listed
        BY <4>1 DEF FileInv, NodesInPlace
      <4>. QED BY <2>1, <3>1, <4>2
    <3>3. OpenOn(N) = OpenOn(NodesOf(d))
      BY <3>2, SameDescriptors
    <3>4. OpenOn(N)' = OpenOn(N)
      BY <1>21
    <3>5. OpenOn(NodesOf(d))' = OpenOn(N)'
      BY <3>1 DEF OpenOn
    <3>. QED BY <3>3, <3>4, <3>5
  <2>. QED BY <1>4, <2>2, <2>3 DEF FileInv, CountsExact, DeviceRefcntExact
<1>. QED
  BY <1>9, <1>10, <1>13, <1>17, <1>18, <1>19, <1>20, <1>22, <1>23, <1>24 DEF FileInv, CountsExact

LEMMA StepOpenFindNode ==
  ASSUME FileInv, NEW t \in Task, OpenFindNode(t)
  PROVE  FileInv'
<1>1. PICK raw, m, found : /\ raw = call[t].path
                           /\ m = os_vfs_find_mp_by_path(os_vfs_normalize_path(raw))
                           /\ found = os_file_fnode_find(raw)
  OBVIOUS
<1>2. /\ m # NULL
      /\ \/ found # NULL /\ OpenWith(t, found, m, FALSE) /\ UNCHANGED <<os_file_list, fnode>>
         \/ /\ found = NULL
            /\ \E n \in Fnode :
                 /\ FreshNode(n)
                 /\ OpenWith(t, n, m, TRUE)
                 /\ os_file_list' = Append(os_file_list, n)
                 /\ fnode' = [fnode EXCEPT ![n] = [spelt |-> raw, mp |-> m, refcnt |-> 0]]
  BY <1>1 DEF OpenFindNode
<1>3. Reaches(t, "open") /\ UNCHANGED <<dev_refcnt, vfsVars, fds, starved>>
  BY DEF OpenFindNode
<1>4. CASE found # NULL
  <2>1. FilesSame
    BY <1>2, <1>3, <1>4 DEF FilesSame, fileVars
  <2>. QED BY <1>1, <1>2, <1>3, <1>4, <2>1, StepOpenShares
<1>5. CASE found = NULL
  <2>1. PICK n \in Fnode :
          /\ FreshNode(n)
          /\ OpenWith(t, n, m, TRUE)
          /\ os_file_list' = Append(os_file_list, n)
          /\ fnode' = [fnode EXCEPT ![n] = [spelt |-> raw, mp |-> m, refcnt |-> 0]]
    BY <1>2, <1>5
  <2>. QED BY <1>1, <1>2, <1>3, <1>5, <2>1, StepOpenCreates
<1>. QED BY <1>4, <1>5

-----------------------------------------------------------------------------
(***************************************************************************)
(* The file system refuses the file.                                       *)
(***************************************************************************)
LEMMA Unlisted ==
  ASSUME FileInv, NEW n, Unlist(n)
  PROVE  /\ os_file_list' \in Seq(Fnode) /\ IsInjective(os_file_list')
         /\ n \in Listed /\ Listed' = Listed \ {n}
<1>1. PICK i \in DOMAIN os_file_list : os_file_list[i] = n /\ os_file_list' = RemoveAt(os_file_list, i)
  BY DEF Unlist
<1>2. os_file_list \in Seq(Fnode) /\ IsInjective(os_file_list)
  BY DEF FileInv, Types
<1>3. /\ RemoveAt(os_file_list, i) \in Seq(Fnode) /\ IsInjective(RemoveAt(os_file_list, i))
      /\ {RemoveAt(os_file_list, i)[j] : j \in DOMAIN RemoveAt(os_file_list, i)}
           = {os_file_list[j] : j \in DOMAIN os_file_list} \ {os_file_list[i]}
  BY <1>2, RemoveAtTakesOut
<1>. QED BY <1>1, <1>3 DEF Listed

\* An open that works on a node.
LEMMA Opening ==
  ASSUME FileInv, NEW t \in Task, call[t].stage \in OpenWorks
  PROVE  \E n \in Fnode, m \in MountPoint :
           /\ call[t].fnode = n /\ call[t].mp = m
           /\ call[t].fresh => n \in Listed /\ fnode[n].refcnt = 0 /\ fnode[n].mp = m
           /\ ~Dangling(t) => n \in Listed /\ m \in mount_list
           /\ NodeLock(n) \in held[t]
           /\ OpenBy(t) < MaxOpen
           /\ call[t].stage \notin OpenFinds \cup CloseStages
           /\ \A u \in Task \ {t} : call[u].fresh => call[u].fnode # n
<1>1. call[t].stage \notin OpenFinds \cup CloseStages
  BY DEF OpenFinds, OpenWorks, CloseStages, CloseDevStages, CloseEnds
<1>2. call[t].fnode \in Fnode /\ call[t].mp \in MountPoint /\ OpenBy(t) < MaxOpen
  BY DEF FileInv, Calls, OpenShape, MayUse, OpenStages
<1>3. ~Dangling(t) => call[t].fnode \in Listed /\ call[t].mp \in mount_list
  BY <1>2, FileAssumption, VfsAssumption DEF Dangling
<1>4. NodeLock(call[t].fnode) \in held[t]
  BY Holders
<1>5. OwnsFresh(t) /\ \A u \in Task \ {t} : call[u].fresh => call[u].fnode # call[t].fnode
  BY <1>1 DEF FileInv, Calls, OwnsFresh
<1>. QED BY <1>1, <1>2, <1>3, <1>4, <1>5 DEF OwnsFresh

LEMMA StepOpenFails ==
  ASSUME FileInv, NEW t \in Task, call[t].stage \in OpenWorks, OpenFails(t), UNCHANGED <<dev_refcnt, starved>>
  PROVE  FileInv'
<1>1. PICK n \in Fnode, m \in MountPoint :
        /\ call[t].fnode = n /\ call[t].mp = m
        /\ call[t].fresh => n \in Listed /\ fnode[n].refcnt = 0 /\ fnode[n].mp = m
        /\ call[t].stage \notin OpenFinds \cup CloseStages
        /\ \A u \in Task \ {t} : call[u].fresh => call[u].fnode # n
  BY Opening
<1>2. Return(t) /\ fnode' = fnode /\ fds' = fds /\ mount' = mount /\ mount_list' = mount_list
  BY DEF OpenFails, vfsVars
<1>3. CASE ~call[t].fresh
  <2>1. FilesSame
    BY <1>2, <1>3 DEF OpenFails, FilesSame, fileVars, vfsVars
  <2>. QED BY <1>1, <1>2, <1>3, <2>1, ReturnStep DEF CloseStages
<1>4. CASE call[t].fresh
  <2>1. /\ os_file_list' \in Seq(Fnode) /\ IsInjective(os_file_list')
        /\ n \in Listed /\ Listed' = Listed \ {n}
    BY <1>1, <1>4, Unlisted DEF OpenFails
  <2>2. Local(t) /\ call'[t] = Idle /\ held'[t] = Kept(t)'
    BY <1>2, Returns DEF Kept
  <2>3. call'[t].fnode = NULL /\ call'[t].stage = "idle"
    BY <2>2 DEF Idle
  <2>4. NamesStay /\ \A k : DeviceOf(k)' = DeviceOf(k) /\ PathOf(k)' = PathOf(k) /\ (IsDevice(k)' <=> IsDevice(k))
    BY <1>2 DEF NamesStay, DeviceOf, PathOf, IsDevice
  <2>5. \A u \in Task : fds[u][n] = 0
    <3>1. OpenOn({n}) = 0
      BY <1>1, <1>4 DEF FileInv, CountsExact, RefcntExact
    <3>2. FdsType /\ MaxOpen \in Nat
      BY FileAssumption DEF FileInv, Types, FdsType
    <3>3. \A u \in Task : ~(fds[u][n] > 0)
      BY <3>1, <3>2, OpenNodes
    <3>. QED BY <3>2, <3>3 DEF FdsType
  <2>6. Types'
    BY <1>2, <2>1, <2>2 DEF FileInv, Types, Local
  <2>7. OneHolder'
    BY <2>2, LocalOneHolder DEF FileInv
  <2>8. ASSUME NEW u \in Task PROVE Calls(u)'
    <3>1. CASE u = t
      BY <2>2, <3>1, IdleCalls
    <3>2. CASE u # t
      <4>1. OthersUntouched(t) /\ NewUnused(t)
        BY <1>2, <2>1, <2>2 DEF OthersUntouched, NewUnused, Local
      <4>2. FreshUntouched(t)
        BY <1>1, <1>2, <2>1, <2>3, FreshHolds DEF FreshUntouched
      <4>. QED BY <2>4, <3>2, <4>1, <4>2, OthersGoOn
    <3>. QED BY <3>1, <3>2
  <2>9. NodesInPlace'
    <3>1. NodesInPlace
      BY DEF FileInv
    <3>. QED BY <1>2, <2>1, <2>4, <2>5, <3>1 DEF NodesInPlace
  <2>10. RootIsRomfs' /\ OpenFilesKeepTheirMount'
    BY <1>2, <2>1 DEF FileInv, RootIsRomfs, OpenFilesKeepTheirMount
  <2>11. SharedUnlessRespelt'
    <3>1. SharedUnlessRespelt
      BY DEF FileInv
    <3>. QED BY <1>2, <2>1, <2>4, <3>1 DEF SharedUnlessRespelt
  <2>12. \A N : OpenOn(N)' = OpenOn(N)
    BY <1>2 DEF OpenOn, Descriptors
  <2>13. RefcntExact'
    <3>1. RefcntExact
      BY DEF FileInv, CountsExact
    <3>2. ASSUME NEW k \in Listed, k # n, fnode[k].refcnt = 0
          PROVE  \E u \in Task : call'[u].fnode = k /\ call'[u].fresh
      <4>1. PICK u \in Task : call[u].fnode = k /\ call[u].fresh
        BY <3>1, <3>2 DEF RefcntExact
      <4>2. call'[u] = call[u]
        BY <1>1, <2>2, <3>2, <4>1 DEF Local
      <4>. QED BY <4>1, <4>2
    <3>. QED BY <1>2, <2>1, <2>12, <3>1, <3>2 DEF RefcntExact
  <2>14. OpenCountExact'
    <3>1. ASSUME NEW o \in mount_list PROVE OpenFiles(o)' = OpenFiles(o)
      BY <1>1, <1>2, <1>4, <2>1 DEF OpenFiles
    <3>. QED BY <1>2, <3>1 DEF FileInv, CountsExact, OpenCountExact
  <2>15. DeviceRefcntExact'
    <3>1. ASSUME NEW d PROVE NodesOf(d)' = NodesOf(d) \ {n}
      BY <1>2, <2>1, <2>4 DEF NodesOf
    <3>2. ASSUME NEW d PROVE HalfClosed(d)' = HalfClosed(d)
      <4>1. ASSUME NEW u \in Task PROVE u \in HalfClosed(d)' <=> u \in HalfClosed(d)
        <5>1. CASE u = t
          BY <1>1, <2>3, <5>1 DEF HalfClosed, CloseStages, CloseEnds
        <5>2. CASE u # t
          <6>1. call'[u] = call[u]
            BY <2>2, <5>2 DEF Local
          <6>2. call[u].stage \in CloseStages => call[u].fnode # n
            BY <2>5, Closing
          <6>. QED BY <3>1, <6>1, <6>2 DEF HalfClosed, CloseStages, CloseEnds
        <5>. QED BY <5>1, <5>2
      <4>. QED BY <4>1 DEF HalfClosed
    <3>3. ASSUME NEW d PROVE OpenOn(NodesOf(d))' = OpenOn(NodesOf(d))
      <4>1. PICK N : N = NodesOf(d)'
        OBVIOUS
      <4>2. ASSUME NEW x \in Descriptors PROVE x[2] \in N <=> x[2] \in NodesOf(d)
        <5>1. x[2] # n
          BY <2>5 DEF Descriptors
        <5>. QED BY <3>1, <4>1, <5>1
      <4>3. OpenOn(N) = OpenOn(NodesOf(d))
        BY <4>2, SameDescriptors
      <4>4. OpenOn(N)' = OpenOn(N)
        BY <2>12
      <4>5. OpenOn(NodesOf(d))' = OpenOn(N)'
        BY <4>1 DEF OpenOn
      <4>. QED BY <4>3, <4>4, <4>5
    <3>. QED BY <3>2, <3>3 DEF FileInv, CountsExact, DeviceRefcntExact
  <2>. QED
    BY <2>6, <2>7, <2>8, <2>9, <2>10, <2>11, <2>13, <2>14, <2>15 DEF FileInv, CountsExact
<1>. QED BY <1>3, <1>4

-----------------------------------------------------------------------------
(***************************************************************************)
(* The file system opens the file.                                         *)
(***************************************************************************)

\* The open that works on a node has made it exactly if it is not open yet.
LEMMA FreshIsUnopened ==
  ASSUME FileInv, NEW t \in Task, call[t].stage \in OpenWorks, ~Dangling(t)
  PROVE  call[t].fresh <=> fnode[call[t].fnode].refcnt = 0
<1>1. PICK n \in Fnode, m \in MountPoint :
        /\ call[t].fnode = n /\ n \in Listed
        /\ call[t].fresh => fnode[n].refcnt = 0
        /\ \A u \in Task \ {t} : call[u].fresh => call[u].fnode # n
  BY Opening
<1>2. fnode[n].refcnt = 0 => \E u \in Task : call[u].fnode = n /\ call[u].fresh
  BY <1>1 DEF FileInv, CountsExact, RefcntExact
<1>. QED BY <1>1, <1>2

\* There are no more open files than a counter can count.
LEMMA CounterSuffices ==
  ASSUME FileInv, NEW o, NEW n \in Fnode, n \notin OpenFiles(o)
  PROVE  /\ IsFiniteSet(OpenFiles(o)) /\ Cardinality(OpenFiles(o)) \in Nat
         /\ Cardinality(OpenFiles(o)) < SizeMax
         /\ Cardinality(OpenFiles(o) \cup {n}) = Cardinality(OpenFiles(o)) + 1
<1>1. IsFiniteSet(Fnode) /\ SizeMax \in Nat
  BY FileAssumption, VfsAssumption
<1>2. OpenFiles(o) \cup {n} \in SUBSET Fnode /\ OpenFiles(o) \in SUBSET Fnode
  BY DEF OpenFiles, Listed, FileInv, Types
<1>3. IsFiniteSet(OpenFiles(o))
  BY <1>1, <1>2, FS_Subset
<1>4. Cardinality(OpenFiles(o) \cup {n}) = Cardinality(OpenFiles(o)) + 1 /\ Cardinality(OpenFiles(o)) \in Nat
  BY <1>3, CountAdded
<1>5. Cardinality(OpenFiles(o) \cup {n}) <= Cardinality(Fnode) /\ Cardinality(Fnode) \in Nat
  BY <1>1, <1>2, FS_Subset, FS_CardinalityType
<1>. QED BY <1>1, <1>3, <1>4, <1>5, FileAssumption

LEMMA StepOpenSucceeds ==
  ASSUME FileInv, NEW t \in Task, call[t].stage \in OpenWorks, ~Dangling(t), OpenSucceeds(t), starved' = starved,
         NEW n, n = call[t].fnode,
         IsDevice(n) => DeviceOf(n) \in Device,
         dev_refcnt' \in [Device -> Nat],
         \A d \in Device : dev_refcnt'[d] = dev_refcnt[d] + (IF n \in NodesOf(d) THEN 1 ELSE 0)
  PROVE  FileInv'
<1>1. PICK m \in MountPoint :
        /\ call[t].mp = m
        /\ call[t].fresh => fnode[n].refcnt = 0 /\ fnode[n].mp = m
        /\ n \in Fnode /\ n \in Listed /\ m \in mount_list
        /\ OpenBy(t) < MaxOpen
        /\ call[t].stage \notin OpenFinds \cup CloseStages
        /\ \A u \in Task \ {t} : call[u].fresh => call[u].fnode # n
  BY Opening
<1>2. /\ fnode' = [fnode EXCEPT ![n].refcnt = @ + 1]
      /\ fds' = [fds EXCEPT ![t][n] = @ + 1]
      /\ mount' = [mount EXCEPT ![m].open_file_cnt = IF call[t].fresh THEN Incremented(@) ELSE @]
      /\ os_file_list' = os_file_list /\ mount_list' = mount_list /\ Return(t)
  BY <1>1 DEF OpenSucceeds
<1>3. call[t].fresh <=> fnode[n].refcnt = 0
  BY FreshIsUnopened
<1>4. Local(t) /\ call'[t] = Idle /\ held'[t] = Kept(t)'
  BY <1>2, Returns DEF Kept
<1>5. call'[t].fnode = NULL /\ call'[t].stage = "idle"
  BY <1>4 DEF Idle
<1>6. Listed' = Listed
  BY <1>2 DEF Listed
<1>7. /\ DOMAIN fnode = Fnode /\ \A k \in Listed : fnode[k] \in NodeRec /\ k \in Fnode
      /\ DOMAIN mount = MountPoint /\ \A o \in mount_list : mount[o] \in MountRec /\ o \in MountPoint
  BY DEF FileInv, Types, Listed
<1>8. /\ fnode'[n].refcnt = fnode[n].refcnt + 1
      /\ \A k \in Listed : /\ fnode'[k].spelt = fnode[k].spelt /\ fnode'[k].mp = fnode[k].mp
                           /\ k # n => fnode'[k] = fnode[k]
                           /\ fnode'[k] \in NodeRec
      /\ DOMAIN fnode' = Fnode
  BY <1>1, <1>2, <1>7 DEF NodeRec
<1>9. /\ \A o \in mount_list : /\ mount'[o].path = mount[o].path /\ mount'[o].fs = mount[o].fs
                               /\ o # m \/ ~call[t].fresh => mount'[o].open_file_cnt = mount[o].open_file_cnt
                               /\ mount'[o] \in MountRec
      /\ call[t].fresh => mount'[m].open_file_cnt = Incremented(mount[m].open_file_cnt)
      /\ DOMAIN mount' = MountPoint
  <2>1. \A x \in 0..SizeMax : Incremented(x) \in 0..SizeMax
    BY VfsAssumption DEF Incremented
  <2>2. DOMAIN mount' = MountPoint /\ \A o \in mount_list : o # m => mount'[o] = mount[o]
    BY <1>2, <1>7
  <2>3. mount'[m] = [mount[m] EXCEPT !.open_file_cnt = IF call[t].fresh THEN Incremented(@) ELSE @]
    BY <1>1, <1>2, <1>7
  <2>4. mount[m] \in MountRec
    BY <1>1, <1>7
  <2>5. /\ mount'[m].path = mount[m].path /\ mount'[m].fs = mount[m].fs /\ mount'[m] \in MountRec
        /\ mount'[m].open_file_cnt
             = IF call[t].fresh THEN Incremented(mount[m].open_file_cnt) ELSE mount[m].open_file_cnt
    BY <2>1, <2>3, <2>4 DEF MountRec
  <2>. QED BY <1>7, <2>2, <2>5
<1>10. NamesStay
  BY <1>8, <1>9 DEF NamesStay
<1>11. FdsType /\ fds[t][n] < MaxOpen
  <2>1. FdsType
    BY DEF FileInv, Types, FdsType
  <2>. QED BY <1>1, <2>1, RoomForOne
<1>12. FdsType'
  BY <1>1, <1>2, <1>11, DescriptorOpened
<1>13. PICK e : e[1] = t /\ e[2] = n /\ e \notin Descriptors /\ Descriptors' = Descriptors \cup {e}
  <2>1. \E e : e[1] = t /\ e[2] = n /\ e \notin Descriptors /\ Descriptors' = Descriptors \cup {e}
    <3>1. n \in Fnode
      BY <1>1
    <3>2. fds' = [fds EXCEPT ![t][n] = @ + 1]
      BY <1>2
    <3>. QED BY <1>11, <3>1, <3>2, DescriptorOpened, Zenon
  <2>. QED BY <2>1, Zenon
<1>14. \A N : OpenOn(N)' = OpenOn(N) + (IF n \in N THEN 1 ELSE 0)
  BY <1>13, OpenOnAdded DEF OpenOn
<1>15. Types'
  BY <1>2, <1>4, <1>6, <1>8, <1>9, <1>12 DEF FileInv, Types, Local, FdsType
<1>16. OneHolder'
  BY <1>4, LocalOneHolder DEF FileInv
<1>17. \A u \in Task \ {t} : fds'[u] = fds[u]
  BY <1>2, <1>11 DEF FdsType
<1>18. ASSUME NEW u \in Task PROVE Calls(u)'
  <2>1. CASE u = t
    BY <1>4, <2>1, IdleCalls
  <2>2. CASE u # t
    <3>1. OthersUntouched(t) /\ NewUnused(t)
      BY <1>2, <1>4, <1>6, <1>17 DEF OthersUntouched, NewUnused, Local
    <3>2. FreshUntouched(t)
      BY <1>1, <1>5, <1>6, <1>8, FreshHolds DEF FreshUntouched
    <3>. QED BY <1>10, <2>2, <3>1, <3>2, OthersGoOn
  <2>. QED BY <2>1, <2>2
<1>19. /\ \A k \in Listed : PathOf(k)' = PathOf(k)
       /\ \A k \in Listed : fnode[k].mp \in mount_list => DeviceOf(k)' = DeviceOf(k) /\ (IsDevice(k)' <=> IsDevice(k))
  BY <1>10, PathKept, DeviceKept
<1>20. fnode[n].mp \in mount_list
  <2>1. fnode[n].refcnt \in Nat
    BY <1>1, <1>7 DEF NodeRec
  <2>. QED BY <1>1, <1>3, <2>1 DEF FileInv, OpenFilesKeepTheirMount
<1>21. NodesInPlace'
  <2>1. NodesInPlace
    BY DEF FileInv
  <2>2. ASSUME NEW u \in Task, NEW k \in Fnode, fds'[u][k] > 0 PROVE k \in Listed'
    <3>1. k = n \/ fds'[u][k] = fds[u][k]
      BY <1>2, <1>11 DEF FdsType
    <3>. QED BY <1>1, <1>6, <2>1, <2>2, <3>1 DEF NodesInPlace
  <2>3. ASSUME NEW k \in Listed
        PROVE  /\ fnode'[k].mp \in mount_list' => Beneath(mount'[fnode'[k].mp].path, PathOf(k)')
               /\ fnode'[k].refcnt > 0 /\ IsDevice(k)' => DeviceOf(k)' \in Device
    <3>1. fnode[k].refcnt > 0 => fnode[k].mp \in mount_list
      BY DEF FileInv, OpenFilesKeepTheirMount
    <3>2. fnode'[k].mp \in mount_list' => Beneath(mount'[fnode'[k].mp].path, PathOf(k)')
      BY <1>2, <1>8, <1>9, <1>19, <2>1 DEF NodesInPlace
    <3>3. fnode'[k].refcnt > 0 /\ IsDevice(k)' => DeviceOf(k)' \in Device
      <4>1. CASE k = n
        BY <1>19, <1>20, <4>1
      <4>2. CASE k # n
        BY <1>8, <1>19, <2>1, <3>1, <4>2 DEF NodesInPlace
      <4>. QED BY <4>1, <4>2
    <3>. QED BY <3>2, <3>3
  <2>. QED BY <1>6, <2>2, <2>3 DEF NodesInPlace
<1>22. RootIsRomfs'
  BY <1>2, <1>9 DEF FileInv, RootIsRomfs
<1>23. OpenFilesKeepTheirMount'
  BY <1>2, <1>6, <1>8, <1>20 DEF FileInv, OpenFilesKeepTheirMount
<1>24. SharedUnlessRespelt'
  <2>1. SharedUnlessRespelt
    BY DEF FileInv
  <2>. QED BY <1>6, <1>8, <1>19, <2>1 DEF SharedUnlessRespelt
<1>25. RefcntExact'
  <2>1. RefcntExact
    BY DEF FileInv, CountsExact
  <2>2. ASSUME NEW k \in Listed PROVE fnode'[k].refcnt = OpenOn({k})'
    <3>1. fnode[k].refcnt = OpenOn({k}) /\ OpenOn({k}) \in Nat
      BY <2>1, OpenOnFinite DEF RefcntExact
    <3>2. OpenOn({k})' = OpenOn({k}) + (IF n = k THEN 1 ELSE 0)
      BY <1>14
    <3>. QED BY <1>8, <3>1, <3>2
  <2>3. ASSUME NEW k \in Listed, fnode'[k].refcnt = 0
        PROVE  \E u \in Task : call'[u].fnode = k /\ call'[u].fresh
    <3>1. k # n
      BY <1>1, <1>7, <1>8, <2>3 DEF NodeRec
    <3>2. fnode[k].refcnt = 0
      BY <1>8, <2>3, <3>1
    <3>3. PICK u \in Task : call[u].fnode = k /\ call[u].fresh
      BY <2>1, <3>2 DEF RefcntExact
    <3>4. call'[u] = call[u]
      BY <1>4, <3>1, <3>3 DEF Local
    <3>. QED BY <3>3, <3>4
  <2>. QED BY <1>6, <2>2, <2>3 DEF RefcntExact
<1>26. OpenCountExact'
  <2>1. OpenCountExact
    BY DEF FileInv, CountsExact
  <2>2. \A k \in Listed : fnode[k].refcnt \in Nat
    BY <1>7 DEF NodeRec
  <2>3. ASSUME NEW o \in mount_list PROVE mount'[o].open_file_cnt = Cardinality(OpenFiles(o)')
    <3>1. CASE o = m /\ call[t].fresh
      <4>1. OpenFiles(o)' = OpenFiles(o) \cup {n} /\ n \notin OpenFiles(o)
        BY <1>1, <1>6, <1>8, <2>2, <3>1 DEF OpenFiles
      <4>2. Cardinality(OpenFiles(o)') = Cardinality(OpenFiles(o)) + 1 /\ Cardinality(OpenFiles(o)) # SizeMax
        <5>1. /\ Cardinality(OpenFiles(o)) \in Nat /\ Cardinality(OpenFiles(o)) < SizeMax
              /\ Cardinality(OpenFiles(o) \cup {n}) = Cardinality(OpenFiles(o)) + 1
          BY <1>1, <4>1, CounterSuffices, Zenon
        <5>. QED BY <4>1, <5>1, VfsAssumption
      <4>3. mount'[o].open_file_cnt = Incremented(Cardinality(OpenFiles(o)))
        BY <1>9, <2>1, <3>1 DEF OpenCountExact
      <4>. QED BY <4>2, <4>3 DEF Incremented
    <3>2. CASE ~(o = m /\ call[t].fresh)
      <4>1. ASSUME NEW k PROVE k \in OpenFiles(o)' <=> k \in OpenFiles(o)
        BY <1>1, <1>3, <1>6, <1>8, <2>2, <3>2 DEF OpenFiles
      <4>2. OpenFiles(o)' = OpenFiles(o)
        BY <4>1 DEF OpenFiles
      <4>3. mount'[o].open_file_cnt = mount[o].open_file_cnt
        BY <1>9, <3>2
      <4>. QED BY <2>1, <4>2, <4>3 DEF OpenCountExact
    <3>. QED BY <3>1, <3>2
  <2>. QED BY <1>2, <2>3 DEF OpenCountExact
<1>27. DeviceRefcntExact'
  <2>1. ASSUME NEW d PROVE NodesOf(d)' = NodesOf(d)
    <3>1. ASSUME NEW k PROVE k \in NodesOf(d)' <=> k \in NodesOf(d)
      BY <1>2, <1>6, <1>8, <1>19 DEF NodesOf
    <3>. QED BY <3>1 DEF NodesOf
  <2>2. ASSUME NEW d PROVE HalfClosed(d)' = HalfClosed(d)
    <3>1. ASSUME NEW u \in Task PROVE u \in HalfClosed(d)' <=> u \in HalfClosed(d)
      <4>1. CASE u = t
        BY <1>1, <1>5, <4>1 DEF HalfClosed, CloseStages, CloseEnds
      <4>2. CASE u # t
        BY <1>4, <2>1, <4>2 DEF HalfClosed, Local
      <4>. QED BY <4>1, <4>2
    <3>. QED BY <3>1 DEF HalfClosed
  <2>3. ASSUME NEW d \in Device
        PROVE  dev_refcnt'[d] + Cardinality(HalfClosed(d)') = OpenOn(NodesOf(d))'
    <3>1. dev_refcnt[d] + Cardinality(HalfClosed(d)) = OpenOn(NodesOf(d))
      BY DEF FileInv, CountsExact, DeviceRefcntExact
    <3>2. PICK N : N = NodesOf(d)
      OBVIOUS
    <3>3. OpenOn(NodesOf(d))' = OpenOn(N)' /\ OpenOn(N)' = OpenOn(N) + (IF n \in N THEN 1 ELSE 0)
      <4>1. NodesOf(d)' = N
        BY <2>1, <3>2
      <4>2. OpenOn(NodesOf(d))' = OpenOn(N)'
        BY <4>1 DEF OpenOn
      <4>3. OpenOn(N)' = OpenOn(N) + (IF n \in N THEN 1 ELSE 0)
        BY <1>14, Zenon
      <4>. QED BY <4>2, <4>3
    <3>4. dev_refcnt[d] \in Nat /\ Cardinality(HalfClosed(d)) \in Nat
      <4>1. HalfClosed(d) \in SUBSET Task
        BY DEF HalfClosed
      <4>2. IsFiniteSet(HalfClosed(d))
        BY <4>1, FileAssumption, FS_Subset
      <4>. QED BY <4>2, FS_CardinalityType DEF FileInv, Types
    <3>. QED BY <2>2, <3>1, <3>2, <3>3, <3>4
  <2>. QED BY <2>3 DEF DeviceRefcntExact
<1>. QED
  BY <1>15, <1>16, <1>18, <1>21, <1>22, <1>23, <1>24, <1>25, <1>26, <1>27 DEF FileInv, CountsExact

\* A node that is being opened lies on a mounted mount point.
LEMMA OpeningMounted ==
  ASSUME FileInv, NEW t \in Task, call[t].stage \in OpenWorks, ~Dangling(t)
  PROVE  \E n \in Listed, m \in mount_list :
           /\ n = call[t].fnode /\ m = call[t].mp
           /\ fnode[n].mp \in mount_list
           /\ fnode[n].refcnt > 0 \/ fnode[n].mp = m
           /\ Len(mount[fnode[n].mp].path) <= Len(mount[m].path)
           /\ \A o \in mount_list : mount[o] \in MountRec
<1>1. PICK n \in Fnode, m \in MountPoint :
        /\ call[t].fnode = n /\ call[t].mp = m /\ n \in Listed /\ m \in mount_list
        /\ call[t].fresh => fnode[n].mp = m
  BY Opening
<1>2. fnode[n].refcnt \in Nat /\ \A o \in mount_list : mount[o] \in MountRec
  BY <1>1 DEF FileInv, Types, NodeRec
<1>3. fnode[n].refcnt > 0 \/ fnode[n].mp = m
  BY <1>1, <1>2, FreshIsUnopened
<1>4. fnode[n].mp \in mount_list
  BY <1>1, <1>3 DEF FileInv, OpenFilesKeepTheirMount
<1>5. Len(mount[fnode[n].mp].path) <= Len(mount[m].path)
  BY <1>1, <1>4 DEF FileInv, Calls, FoundBeneath
<1>. QED BY <1>1, <1>2, <1>3, <1>4, <1>5

LEMMA StepOpenByFs ==
  ASSUME FileInv, NEW t \in Task, ~Dangling(t), OpenByFs(t)
  PROVE  FileInv'
<1>1. call[t].stage \in OpenWorks /\ dev_refcnt' = dev_refcnt /\ starved' = starved
  BY DEF OpenByFs, Reaches, OpenWorks
<1>2. CASE OpenFails(t)
  BY <1>1, <1>2, StepOpenFails
<1>3. CASE OpenSucceeds(t) /\ mount[call[t].mp].fs = "romfs"
  <2>1. PICK n \in Listed, m \in mount_list :
           /\ n = call[t].fnode /\ m = call[t].mp
           /\ fnode[n].mp \in mount_list
           /\ fnode[n].refcnt > 0 \/ fnode[n].mp = m
           /\ Len(mount[fnode[n].mp].path) <= Len(mount[m].path)
           /\ \A o \in mount_list : mount[o] \in MountRec
    BY <1>1, OpeningMounted
  <2>2. mount[m].fs = "romfs" /\ mount[m].path = <<>>
    BY <1>3, <2>1 DEF FileInv, RootIsRomfs
  <2>3. mount[fnode[n].mp].path = <<>>
    <3>1. mount[fnode[n].mp].path \in Seq(STRING) /\ Len(mount[m].path) = 0
      BY <2>1, <2>2 DEF MountRec, Path
    <3>. QED BY <2>1, <3>1
  <2>4. DeviceOf(n) = NULL /\ NULL \notin Device
    BY <2>3, DeviceAssumption DEF DeviceOf
  <2>5. ~IsDevice(n)
    BY <2>1, <2>2, <2>4 DEF IsDevice, FileInv, NodesInPlace
  <2>6. \A d \in Device : n \notin NodesOf(d)
    BY <2>4 DEF NodesOf
  <2>7. dev_refcnt \in [Device -> Nat]
    BY DEF FileInv, Types
  <2>8. \A d \in Device : dev_refcnt'[d] = dev_refcnt[d] + (IF n \in NodesOf(d) THEN 1 ELSE 0)
    BY <1>1, <2>6, <2>7
  <2>. QED BY <1>1, <1>3, <2>1, <2>5, <2>7, <2>8, StepOpenSucceeds
<1>. QED BY <1>2, <1>3 DEF OpenByFs

LEMMA StepOpenNoDevice ==
  ASSUME FileInv, NEW t \in Task, OpenNoDevice(t)
  PROVE  FileInv'
BY StepOpenFails DEF OpenNoDevice, Reaches, OpenWorks

LEMMA StepOpenByDriver ==
  ASSUME FileInv, NEW t \in Task, ~Dangling(t), OpenByDriver(t)
  PROVE  FileInv'
<1>1. call[t].stage = "open_init" /\ call[t].stage \in OpenWorks /\ starved' = starved
  BY DEF OpenByDriver, Reaches, OpenWorks
<1>2. PICK n \in Listed, m \in mount_list :
         /\ n = call[t].fnode /\ m = call[t].mp
         /\ fnode[n].mp \in mount_list
         /\ \A o \in mount_list : mount[o] \in MountRec
  BY <1>1, OpeningMounted
<1>3. PICK d \in Device : d = DeviceOf(n)
  BY <1>1, <1>2 DEF FileInv, Calls, MayUse
<1>4. PICK ok \in BOOLEAN : DeviceOpened(d, ok) /\ IF ok THEN OpenSucceeds(t) ELSE OpenFails(t)
  BY <1>2, <1>3 DEF OpenByDriver
<1>5. dev_refcnt \in [Device -> Nat]
  BY DEF FileInv, Types
<1>6. CASE ~ok
  <2>1. dev_refcnt' = dev_refcnt
    BY <1>4, <1>5, <1>6 DEF DeviceOpened
  <2>. QED BY <1>1, <1>4, <1>6, <2>1, StepOpenFails
<1>7. CASE ok
  <2>1. mount[fnode[n].mp].path # <<>>
    BY <1>3, DeviceAssumption, DeviceOfType
  <2>2. IsDevice(n)
    BY <1>2, <2>1 DEF IsDevice, MountRec, FileInv, RootIsRomfs
  <2>3. \A e \in Device : n \in NodesOf(e) <=> e = d
    BY <1>2, <1>3, <2>2 DEF NodesOf
  <2>4. dev_refcnt' = [dev_refcnt EXCEPT ![d] = @ + 1]
    BY <1>4, <1>7 DEF DeviceOpened
  <2>5. /\ dev_refcnt' \in [Device -> Nat]
        /\ \A e \in Device : dev_refcnt'[e] = dev_refcnt[e] + (IF n \in NodesOf(e) THEN 1 ELSE 0)
    BY <1>5, <2>3, <2>4
  <2>6. OpenSucceeds(t) /\ (IsDevice(n) => DeviceOf(n) \in Device)
    BY <1>3, <1>4, <1>7
  <2>. QED BY <1>1, <1>2, <2>5, <2>6, StepOpenSucceeds
<1>. QED BY <1>6, <1>7

-----------------------------------------------------------------------------
(***************************************************************************)
(* The descriptor goes, and with the last one the node.                    *)
(***************************************************************************)
LEMMA StepCloseNode ==
  ASSUME FileInv, NEW t \in Task, CloseNode(t)
  PROVE  FileInv'
<1>1. call[t].stage = "close_node" /\ call[t].stage \in CloseStages /\ Return(t)
  BY DEF CloseNode, Reaches, CloseStages, CloseEnds
<1>2. PICK n \in Fnode : /\ call[t].fnode = n /\ fds[t][n] > 0 /\ ~call[t].fresh
                         /\ n \in Listed /\ fnode[n].refcnt > 0 /\ fnode[n].mp \in mount_list
  BY <1>1, Closing
<1>3. PICK m \in mount_list : m = fnode[n].mp
  BY <1>2
<1>. DEFINE last == fnode[n].refcnt = 1
<1>4. /\ fnode' = [fnode EXCEPT ![n].refcnt = @ - 1]
      /\ fds' = [fds EXCEPT ![t][n] = @ - 1]
      /\ IF last THEN Unlist(n) /\ mount' = [mount EXCEPT ![m].open_file_cnt = Decremented(@)]
                 ELSE os_file_list' = os_file_list /\ mount' = mount
      /\ dev_refcnt' = dev_refcnt /\ mount_list' = mount_list /\ starved' = starved
  BY <1>2, <1>3 DEF CloseNode
<1>5. Local(t) /\ call'[t] = Idle /\ held'[t] = Kept(t)'
  BY <1>1, <1>4, Returns DEF Kept
<1>6. call'[t].fnode = NULL /\ call'[t].stage = "idle"
  BY <1>5 DEF Idle
<1>7. /\ os_file_list' \in Seq(Fnode) /\ IsInjective(os_file_list')
      /\ last => Listed' = Listed \ {n}
      /\ ~last => Listed' = Listed
  <2>1. CASE last
    BY <1>4, <2>1, Unlisted
  <2>2. CASE ~last
    BY <1>4, <2>2 DEF Listed, FileInv, Types
  <2>. QED BY <2>1, <2>2
<1>8. /\ DOMAIN fnode = Fnode /\ \A k \in Listed : fnode[k] \in NodeRec /\ k \in Fnode
      /\ DOMAIN mount = MountPoint /\ \A o \in mount_list : mount[o] \in MountRec /\ o \in MountPoint
  BY DEF FileInv, Types, Listed
<1>9. /\ fnode'[n].refcnt = fnode[n].refcnt - 1
      /\ \A k \in Listed : /\ fnode'[k].spelt = fnode[k].spelt /\ fnode'[k].mp = fnode[k].mp
                           /\ k # n => fnode'[k] = fnode[k]
                           /\ fnode'[k] \in NodeRec
      /\ DOMAIN fnode' = Fnode
  BY <1>2, <1>4, <1>8 DEF NodeRec
<1>10. /\ \A o \in mount_list : /\ mount'[o].path = mount[o].path /\ mount'[o].fs = mount[o].fs
                                /\ o # m \/ ~last => mount'[o].open_file_cnt = mount[o].open_file_cnt
                                /\ mount'[o] \in MountRec
       /\ last => mount'[m].open_file_cnt = Decremented(mount[m].open_file_cnt)
       /\ DOMAIN mount' = MountPoint
  <2>1. CASE ~last
    BY <1>4, <1>8, <2>1
  <2>2. CASE last
    <3>1. \A x \in 0..SizeMax : Decremented(x) \in 0..SizeMax
      BY VfsAssumption DEF Decremented
    <3>2. mount' = [mount EXCEPT ![m].open_file_cnt = Decremented(@)]
      BY <1>4, <2>2
    <3>3. DOMAIN mount' = MountPoint /\ \A o \in mount_list : o # m => mount'[o] = mount[o]
      BY <1>8, <3>2
    <3>4. mount'[m] = [mount[m] EXCEPT !.open_file_cnt = Decremented(@)] /\ mount[m] \in MountRec
      BY <1>8, <3>2
    <3>5. /\ mount'[m].path = mount[m].path /\ mount'[m].fs = mount[m].fs /\ mount'[m] \in MountRec
          /\ mount'[m].open_file_cnt = Decremented(mount[m].open_file_cnt)
      BY <3>1, <3>4 DEF MountRec
    <3>. QED BY <1>8, <2>2, <3>3, <3>5
  <2>. QED BY <2>1, <2>2
<1>11. NamesStay
  BY <1>9, <1>10 DEF NamesStay
<1>12. FdsType /\ RefcntExact /\ \A k \in Listed : fnode[k].refcnt \in Nat
  BY <1>8 DEF FileInv, Types, FdsType, CountsExact, NodeRec
<1>13. last => fds[t][n] = 1 /\ \A u \in Task \ {t} : fds[u][n] = 0
  BY <1>2, <1>12, OnlyDescriptor DEF RefcntExact
<1>14. FdsType'
  BY <1>2, <1>4, <1>12, DescriptorClosed
<1>15. PICK e \in Descriptors : e[1] = t /\ e[2] = n /\ Descriptors' = Descriptors \ {e}
  <2>1. \E e \in Descriptors : e[1] = t /\ e[2] = n /\ Descriptors' = Descriptors \ {e}
    <3>1. fds' = [fds EXCEPT ![t][n] = @ - 1]
      BY <1>4
    <3>. QED BY <1>2, <1>12, <3>1, DescriptorClosed, ZenonT(30)
  <2>. QED BY <2>1, Zenon
<1>16. \A N : OpenOn(N)' = OpenOn(N) - (IF n \in N THEN 1 ELSE 0)
  BY <1>15, OpenOnRemoved DEF OpenOn
<1>17. /\ \A u \in Task \ {t} : fds'[u] = fds[u]
       /\ \A u \in Task, k \in Fnode : k # n => fds'[u][k] = fds[u][k]
       /\ fds'[t][n] = fds[t][n] - 1
  BY <1>2, <1>4, <1>12 DEF FdsType
<1>18. last => \A u \in Task : fds'[u][n] = 0
  BY <1>13, <1>17
<1>19. Types'
  BY <1>4, <1>5, <1>7, <1>9, <1>10, <1>14 DEF FileInv, Types, Local, FdsType
<1>20. OneHolder'
  BY <1>5, LocalOneHolder DEF FileInv
<1>21. ASSUME NEW u \in Task PROVE Calls(u)'
  <2>1. CASE u = t
    BY <1>5, <2>1, IdleCalls
  <2>2. CASE u # t
    <3>1. OthersUntouched(t) /\ NewUnused(t)
      BY <1>4, <1>5, <1>7, <1>17 DEF OthersUntouched, NewUnused, Local
    <3>2. FreshUntouched(t)
      BY <1>2, <1>6, <1>7, <1>9, FreshHolds DEF FreshUntouched
    <3>. QED BY <1>11, <2>2, <3>1, <3>2, OthersGoOn
  <2>. QED BY <2>1, <2>2
<1>22. /\ \A k \in Listed : PathOf(k)' = PathOf(k)
       /\ \A k \in Listed : fnode[k].mp \in mount_list => DeviceOf(k)' = DeviceOf(k) /\ (IsDevice(k)' <=> IsDevice(k))
  BY <1>11, PathKept, DeviceKept
<1>23. Listed' \subseteq Listed /\ \A k \in Listed : k # n => k \in Listed'
  BY <1>7
<1>24. \A k \in Listed' : fnode'[k].refcnt > 0 => fnode[k].refcnt > 0
  BY <1>2, <1>9, <1>23
<1>25. NodesInPlace'
  <2>1. NodesInPlace
    BY DEF FileInv
  <2>2. ASSUME NEW u \in Task, NEW k \in Fnode, fds'[u][k] > 0 PROVE k \in Listed'
    <3>1. CASE k = n
      BY <1>2, <1>7, <1>18, <2>2, <3>1
    <3>2. CASE k # n
      BY <1>17, <1>23, <2>1, <2>2, <3>2 DEF NodesInPlace
    <3>. QED BY <3>1, <3>2
  <2>3. ASSUME NEW k \in Listed'
        PROVE  /\ fnode'[k].mp \in mount_list' => Beneath(mount'[fnode'[k].mp].path, PathOf(k)')
               /\ fnode'[k].refcnt > 0 /\ IsDevice(k)' => DeviceOf(k)' \in Device
    <3>1. k \in Listed /\ (fnode[k].refcnt > 0 => fnode[k].mp \in mount_list)
      BY <1>23 DEF FileInv, OpenFilesKeepTheirMount
    <3>2. fnode'[k].mp \in mount_list' => Beneath(mount'[fnode'[k].mp].path, PathOf(k)')
      BY <1>4, <1>9, <1>10, <1>22, <2>1, <3>1 DEF NodesInPlace
    <3>3. fnode'[k].refcnt > 0 /\ IsDevice(k)' => DeviceOf(k)' \in Device
      BY <1>22, <1>24, <2>1, <3>1 DEF NodesInPlace
    <3>. QED BY <3>2, <3>3
  <2>. QED BY <2>2, <2>3 DEF NodesInPlace
<1>26. RootIsRomfs'
  BY <1>4, <1>10 DEF FileInv, RootIsRomfs
<1>27. OpenFilesKeepTheirMount'
  BY <1>4, <1>9, <1>23, <1>24 DEF FileInv, OpenFilesKeepTheirMount
<1>28. SharedUnlessRespelt'
  <2>1. SharedUnlessRespelt
    BY DEF FileInv
  <2>. QED BY <1>9, <1>22, <1>23, <2>1 DEF SharedUnlessRespelt
<1>29. RefcntExact'
  <2>1. ASSUME NEW k \in Listed PROVE fnode'[k].refcnt = OpenOn({k})'
    <3>1. fnode[k].refcnt = OpenOn({k}) /\ OpenOn({k}) \in Nat
      BY <1>12, OpenOnFinite DEF RefcntExact
    <3>2. OpenOn({k})' = OpenOn({k}) - (IF n = k THEN 1 ELSE 0)
      BY <1>16
    <3>. QED BY <1>9, <3>1, <3>2
  <2>2. ASSUME NEW k \in Listed', fnode'[k].refcnt = 0
        PROVE  \E u \in Task : call'[u].fnode = k /\ call'[u].fresh
    <3>1. k # n
      BY <1>7, <1>9, <1>12, <2>2
    <3>2. k \in Listed /\ fnode[k].refcnt = 0
      BY <1>9, <1>23, <2>2, <3>1
    <3>3. PICK u \in Task : call[u].fnode = k /\ call[u].fresh
      BY <1>12, <3>2 DEF RefcntExact
    <3>4. call'[u] = call[u]
      BY <1>2, <1>5, <3>3 DEF Local
    <3>. QED BY <3>3, <3>4
  <2>. QED BY <1>23, <2>1, <2>2 DEF RefcntExact
<1>30. OpenCountExact'
  <2>1. OpenCountExact
    BY DEF FileInv, CountsExact
  <2>2. ASSUME NEW o \in mount_list PROVE mount'[o].open_file_cnt = Cardinality(OpenFiles(o)')
    <3>1. CASE o = m /\ last
      <4>1. OpenFiles(o)' = OpenFiles(o) \ {n} /\ n \in OpenFiles(o)
        BY <1>2, <1>3, <1>7, <1>9, <3>1 DEF OpenFiles
      <4>2. IsFiniteSet(OpenFiles(o))
        <5>1. OpenFiles(o) \in SUBSET Fnode
          BY <1>8 DEF OpenFiles
        <5>. QED BY <5>1, FileAssumption, FS_Subset
      <4>3. Cardinality(OpenFiles(o) \ {n}) = Cardinality(OpenFiles(o)) - 1 /\ Cardinality(OpenFiles(o)) \in Nat \ {0}
        BY <4>1, <4>2, CountRemoved
      <4>4. mount'[o].open_file_cnt = Decremented(Cardinality(OpenFiles(o)))
        BY <1>10, <2>1, <3>1 DEF OpenCountExact
      <4>. QED BY <4>1, <4>3, <4>4 DEF Decremented
    <3>2. CASE ~(o = m /\ last)
      <4>1. ASSUME NEW k PROVE k \in OpenFiles(o)' <=> k \in OpenFiles(o)
        BY <1>2, <1>3, <1>7, <1>9, <1>12, <3>2 DEF OpenFiles
      <4>2. OpenFiles(o)' = OpenFiles(o)
        BY <4>1 DEF OpenFiles
      <4>3. mount'[o].open_file_cnt = mount[o].open_file_cnt
        BY <1>10, <3>2
      <4>. QED BY <2>1, <4>2, <4>3 DEF OpenCountExact
    <3>. QED BY <3>1, <3>2
  <2>. QED BY <1>4, <2>2 DEF OpenCountExact
<1>31. DeviceRefcntExact'
  <2>1. ASSUME NEW d \in Device
        PROVE  dev_refcnt'[d] + Cardinality(HalfClosed(d)') = OpenOn(NodesOf(d))'
    <3>. DEFINE N == NodesOf(d)
    <3>1. dev_refcnt[d] + Cardinality(HalfClosed(d)) = OpenOn(N) /\ dev_refcnt[d] \in Nat /\ OpenOn(N) \in Nat
      BY OpenOnFinite DEF FileInv, CountsExact, DeviceRefcntExact, Types
    <3>2. ASSUME NEW k \in Listed' PROVE k \in NodesOf(d)' <=> k \in N
      BY <1>4, <1>9, <1>22, <1>23 DEF NodesOf
    <3>3. ASSUME NEW u \in Task, call[u].stage \in CloseEnds PROVE u = t
      BY <1>1, <3>3, OneCloser DEF CloseStages
    <3>4. HalfClosed(d)' = {}
      BY <1>5, <1>6, <3>3 DEF HalfClosed, CloseEnds, Local
    <3>5. Cardinality(HalfClosed(d)') = 0
      BY <3>4, FS_EmptySet, Zenon
    <3>6. Cardinality(HalfClosed(d)) = IF n \in N THEN 1 ELSE 0
      <4>1. HalfClosed(d) = IF n \in N THEN {t} ELSE {}
        BY <1>1, <1>2, <3>3 DEF HalfClosed, CloseEnds
      <4>. QED BY <4>1, FS_EmptySet, FS_Singleton
    <3>7. OpenOn(NodesOf(d))' = OpenOn(N) - (IF n \in N THEN 1 ELSE 0)
      <4>1. PICK M : M = N
        OBVIOUS
      <4>2. ASSUME NEW x \in Descriptors' PROVE x[2] \in NodesOf(d)' <=> x[2] \in M
        <5>1. x[1] \in Task /\ x[2] \in Fnode /\ fds'[x[1]][x[2]] > 0
          BY <1>14, FileAssumption DEF Descriptors, FdsType
        <5>2. x[2] \in Listed'
          BY <1>25, <5>1 DEF NodesInPlace
        <5>. QED BY <3>2, <4>1, <5>2
      <4>3. {x \in Descriptors' : x[2] \in NodesOf(d)'} = {x \in Descriptors' : x[2] \in M}
        BY <4>2
      <4>4. OpenOn(NodesOf(d))' = OpenOn(M)'
        BY <4>3 DEF OpenOn
      <4>5. OpenOn(M)' = OpenOn(M) - (IF n \in M THEN 1 ELSE 0)
        BY <1>16, Zenon
      <4>. QED BY <4>1, <4>4, <4>5
    <3>. HIDE DEF N
    <3>. QED BY <1>4, <3>1, <3>5, <3>6, <3>7
  <2>. QED BY <2>1 DEF DeviceRefcntExact
<1>. QED
  BY <1>19, <1>20, <1>21, <1>25, <1>26, <1>27, <1>28, <1>29, <1>30, <1>31 DEF FileInv, CountsExact

-----------------------------------------------------------------------------
(***************************************************************************)
(* Mounting and unmounting.                                                *)
(***************************************************************************)

\* A change of the mount table that gives no node a mount point and takes none from an
\* open file changes nothing for the nodes, the devices and the other calls.
LEMMA MountsChange ==
  ASSUME FileInv, NEW t \in Task, Local(t), UNCHANGED <<fileVars, starved, dev_refcnt>>,
         mount_list' \in SUBSET MountPoint, DOMAIN mount' = MountPoint,
         \A m \in mount_list' : mount'[m] \in MountRec,
         NamesStay, OpenCountExact', RootIsRomfs',
         \A n \in Listed : fnode[n].mp \in mount_list' => fnode[n].mp \in mount_list,
         \A n \in Listed : fnode[n].refcnt > 0 => fnode[n].mp \in mount_list',
         \A u \in Task : call[u].mp \notin mount_list' \ mount_list,
         Calls(t)', call[t].stage = "idle", call'[t].stage \notin CloseEnds, call'[t].fnode = NULL
  PROVE  FileInv'
<1>1. /\ os_file_list' = os_file_list /\ fnode' = fnode /\ fds' = fds /\ starved' = starved
      /\ dev_refcnt' = dev_refcnt
  BY DEF fileVars
<1>2. Listed' = Listed
  BY <1>1 DEF Listed
<1>3. Types'
  BY <1>1, <1>2 DEF FileInv, Types, Local
<1>4. OneHolder'
  BY LocalOneHolder DEF FileInv
<1>5. ASSUME NEW u \in Task PROVE Calls(u)'
  <2>1. OthersUntouched(t) /\ NewUnused(t)
    BY <1>1, <1>2 DEF OthersUntouched, NewUnused, Local
  <2>2. FreshUntouched(t)
    BY <1>1, <1>2, FreshHolds DEF FreshUntouched
  <2>. QED BY <2>1, <2>2, OthersGoOn
<1>6. ASSUME NEW n \in Listed, fnode[n].mp \in mount_list
      PROVE  DeviceOf(n)' = DeviceOf(n) /\ (IsDevice(n)' <=> IsDevice(n))
  BY <1>6, DeviceKept
<1>7. ASSUME NEW n \in Listed PROVE PathOf(n)' = PathOf(n)
  BY PathKept
<1>8. NodesInPlace'
  <2>1. \A u \in Task, n \in Fnode : fds'[u][n] > 0 => n \in Listed'
    BY <1>1, <1>2 DEF FileInv, NodesInPlace
  <2>2. ASSUME NEW n \in Listed, fnode[n].mp \in mount_list'
        PROVE  Beneath(mount'[fnode[n].mp].path, PathOf(n)')
    BY <1>7, <2>2 DEF FileInv, NodesInPlace, NamesStay
  <2>3. ASSUME NEW n \in Listed, fnode[n].refcnt > 0, IsDevice(n)' PROVE DeviceOf(n)' \in Device
    <3>1. fnode[n].mp \in mount_list
      BY <2>3
    <3>2. IsDevice(n) /\ DeviceOf(n)' = DeviceOf(n)
      BY <1>6, <2>3, <3>1
    <3>. QED BY <2>3, <3>2 DEF FileInv, NodesInPlace
  <2>. QED BY <1>1, <1>2, <2>1, <2>2, <2>3 DEF NodesInPlace
<1>9. OpenFilesKeepTheirMount'
  BY <1>1, <1>2 DEF OpenFilesKeepTheirMount
<1>10. SharedUnlessRespelt'
  BY <1>1, <1>2, <1>7 DEF FileInv, SharedUnlessRespelt
<1>11. RefcntExact'
  <2>1. RefcntExact
    BY DEF FileInv, CountsExact
  <2>2. \A N : OpenOn(N)' = OpenOn(N)
    BY <1>1 DEF OpenOn, Descriptors
  <2>3. ASSUME NEW n \in Listed, fnode[n].refcnt = 0
        PROVE  \E u \in Task : call'[u].fnode = n /\ call'[u].fresh
    <3>1. PICK u \in Task : call[u].fnode = n /\ call[u].fresh
      BY <2>1, <2>3 DEF RefcntExact
    <3>2. u # t
      BY <3>1 DEF FileInv, Calls, OwnsFresh, OpenFinds, OpenWorks
    <3>. QED BY <3>1, <3>2 DEF Local
  <2>. QED BY <1>1, <1>2, <2>1, <2>2, <2>3 DEF RefcntExact
<1>12. DeviceRefcntExact'
  <2>. SUFFICES ASSUME NEW d \in Device
                PROVE  dev_refcnt[d] + Cardinality(HalfClosed(d)') = OpenOn(NodesOf(d))'
    BY <1>1 DEF DeviceRefcntExact
  <2>1. NodesOf(d)' = {n \in NodesOf(d) : fnode[n].mp \in mount_list'}
    BY <1>1, <1>2, <1>6 DEF NodesOf
  <2>2. ASSUME NEW u \in Task, NEW n \in Fnode, fds[u][n] > 0
        PROVE  n \in NodesOf(d)' <=> n \in NodesOf(d)
    BY <2>1, <2>2, OpenInPlace
  <2>3. OpenOn(NodesOf(d))' = OpenOn(NodesOf(d))
    <3>1. ASSUME NEW x \in Descriptors PROVE x[2] \in NodesOf(d)' <=> x[2] \in NodesOf(d)
      <4>1. x[1] \in Task /\ x[2] \in Fnode /\ x[3] \in 1..MaxOpen /\ x[3] <= fds[x[1]][x[2]]
        BY DEF Descriptors
      <4>2. fds[x[1]][x[2]] \in 0..MaxOpen /\ MaxOpen \in Nat
        <5>1. fds \in [Task -> [Fnode -> 0..MaxOpen]]
          BY DEF FileInv, Types
        <5>. QED BY <4>1, <5>1, FileAssumption
      <4>3. fds[x[1]][x[2]] > 0
        BY <4>1, <4>2
      <4>. QED BY <2>2, <4>1, <4>3
    <3>2. Descriptors' = Descriptors
      BY <1>1 DEF Descriptors
    <3>3. {x \in Descriptors' : x[2] \in NodesOf(d)'} = {x \in Descriptors : x[2] \in NodesOf(d)}
      BY <3>1, <3>2
    <3>. QED BY <3>3 DEF OpenOn
  <2>4. HalfClosed(d)' = HalfClosed(d)
    <3>1. ASSUME NEW u \in Task, call[u].stage \in CloseEnds
          PROVE  call'[u] = call[u] /\ (call[u].fnode \in NodesOf(d)' <=> call[u].fnode \in NodesOf(d))
      <4>1. u # t
        BY <3>1 DEF CloseEnds
      <4>2. call[u].fnode \in Fnode /\ fds[u][call[u].fnode] > 0
        BY <3>1, Closing DEF CloseStages
      <4>. QED BY <2>2, <4>1, <4>2 DEF Local
    <3>2. ASSUME NEW u \in Task, call'[u].stage \in CloseEnds PROVE call[u].stage \in CloseEnds
      BY <3>2 DEF Local
    <3>. QED BY <3>1, <3>2 DEF HalfClosed, CloseEnds
  <2>5. dev_refcnt[d] + Cardinality(HalfClosed(d)) = OpenOn(NodesOf(d))
    BY DEF FileInv, CountsExact, DeviceRefcntExact
  <2>. QED BY <2>3, <2>4, <2>5
<1>. QED
  BY <1>3, <1>4, <1>5, <1>8, <1>9, <1>10, <1>11, <1>12 DEF FileInv, CountsExact

\* An idle call that goes on being idle.
LEMMA StaysIdle ==
  ASSUME FileInv, NEW t \in Task, call[t] = Idle, UNCHANGED <<call, held, starved>>
  PROVE  /\ Local(t) /\ Calls(t)' /\ call[t].stage = "idle"
         /\ call'[t].stage \notin CloseEnds /\ call'[t].fnode = NULL
<1>1. call[t].stage = "idle" /\ call[t].fnode = NULL
  BY DEF Idle
<1>2. held[t] = Kept(t)
  BY <1>1 DEF FileInv, Calls, OtherShape
<1>3. Calls(t)'
  BY <1>2, IdleCalls DEF Kept
<1>4. Local(t)
  BY DEF Local, FileInv, Types, OneHolder
<1>. QED BY <1>1, <1>3, <1>4 DEF CloseEnds

\* A node without descriptors lies where the open that made it points to.
LEMMA NodeMounted ==
  ASSUME FileInv, NEW n \in Listed
  PROVE  fnode[n].mp \in mount_list \/ \E w \in Task : call[w].mp = fnode[n].mp
<1>1. fnode[n].refcnt \in Nat
  BY DEF FileInv, Types, NodeRec
<1>2. CASE fnode[n].refcnt > 0
  BY <1>2 DEF FileInv, OpenFilesKeepTheirMount
<1>3. CASE fnode[n].refcnt = 0
  <2>1. PICK w \in Task : call[w].fnode = n /\ call[w].fresh
    BY <1>3 DEF FileInv, CountsExact, RefcntExact
  <2>. QED BY <2>1 DEF FileInv, Calls, OwnsFresh
<1>. QED BY <1>1, <1>2, <1>3

LEMMA StepMount ==
  ASSUME FileInv, NEW t \in Task, NEW raw \in MountPaths, os_vfs_mount(t, raw), UNCHANGED <<fileVars, starved>>
  PROVE  FileInv'
<1>1. PICK path, parent, m :
        /\ path = os_vfs_normalize_path(raw) /\ parent = os_vfs_find_mp_by_path(path) /\ parent # NULL
        /\ m \in MountPoint /\ FreshMount(m)
        /\ mount_list' = mount_list \cup {m}
        /\ mount' = [mount EXCEPT ![parent].mp_cnt = Incremented(@), ![m] = NewMount(path, "devfs")]
  BY DEF os_vfs_mount
<1>2. UNCHANGED <<call, held, starved>> /\ UNCHANGED <<fileVars, starved, dev_refcnt>> /\ call[t] = Idle
      /\ fnode' = fnode /\ os_file_list' = os_file_list
  BY DEF os_vfs_mount, fileVars
<1>3. path \in Path
  BY <1>1, VfsAssumption, NormalizedPath
<1>4. parent \in mount_list /\ parent \in MountPoint
  BY <1>1, <1>3, FoundMounted DEF os_vfs_find_mp_by_path
<1>5. m \notin mount_list /\ \A u \in Task : call[u].mp # m
  BY <1>1 DEF FreshMount
<1>6. /\ DOMAIN mount = MountPoint
      /\ \A o \in mount_list : mount[o] \in MountRec
      /\ mount_list \in SUBSET MountPoint
  BY DEF FileInv, Types
<1>7. /\ DOMAIN mount' = MountPoint
      /\ mount'[m] = NewMount(path, "devfs")
      /\ mount'[parent] = [mount[parent] EXCEPT !.mp_cnt = Incremented(@)]
      /\ \A o \in mount_list \ {parent} : mount'[o] = mount[o]
  BY <1>1, <1>4, <1>5, <1>6
<1>8. mount'[m] \in MountRec /\ mount'[m].fs = "devfs" /\ mount'[m].open_file_cnt = 0
  BY <1>3, <1>7, VfsAssumption DEF NewMount, MountRec
<1>9. /\ mount'[parent] \in MountRec
      /\ mount'[parent].path = mount[parent].path /\ mount'[parent].fs = mount[parent].fs
      /\ mount'[parent].open_file_cnt = mount[parent].open_file_cnt
  <2>1. mount[parent] \in MountRec /\ Incremented(mount[parent].mp_cnt) \in 0..SizeMax
    BY <1>4, <1>6, VfsAssumption DEF MountRec, Incremented
  <2>. QED BY <1>7, <2>1 DEF MountRec
<1>10. /\ \A o \in mount_list' : mount'[o] \in MountRec
       /\ NamesStay
       /\ \A o \in mount_list : mount'[o].open_file_cnt = mount[o].open_file_cnt
  BY <1>1, <1>2, <1>6, <1>7, <1>8, <1>9 DEF NamesStay
<1>11. mount_list' \in SUBSET MountPoint /\ \A u \in Task : call[u].mp \notin mount_list' \ mount_list
  BY <1>1, <1>5, <1>6
<1>12. \A n \in Listed : fnode[n].mp # m
  BY <1>5, NodeMounted
<1>13. \A n \in Listed : /\ fnode[n].mp \in mount_list' => fnode[n].mp \in mount_list
                         /\ fnode[n].refcnt > 0 => fnode[n].mp \in mount_list'
  BY <1>1, <1>12 DEF FileInv, OpenFilesKeepTheirMount
<1>14. OpenCountExact'
  <2>1. \A o : OpenFiles(o)' = OpenFiles(o)
    BY <1>2 DEF OpenFiles, Listed
  <2>2. OpenFiles(m) = {} /\ Cardinality({}) = 0
    BY <1>12, FS_EmptySet DEF OpenFiles
  <2>3. \A o \in mount_list : mount[o].open_file_cnt = Cardinality(OpenFiles(o))
    BY DEF FileInv, CountsExact, OpenCountExact
  <2>. QED BY <1>1, <1>8, <1>10, <2>1, <2>2, <2>3 DEF OpenCountExact
<1>15. RootIsRomfs'
  <2>1. \A o \in mount_list : mount'[o].path = mount[o].path /\ mount'[o].fs = mount[o].fs
    BY <1>10 DEF NamesStay
  <2>. QED BY <1>1, <1>8, <2>1 DEF FileInv, RootIsRomfs
<1>16. /\ Local(t) /\ Calls(t)' /\ call[t].stage = "idle"
       /\ call'[t].stage \notin CloseEnds /\ call'[t].fnode = NULL
  BY <1>2, StaysIdle
<1>. QED BY <1>2, <1>7, <1>10, <1>11, <1>13, <1>14, <1>15, <1>16, MountsChange

LEMMA StepUnmount ==
  ASSUME FileInv, NEW t \in Task, NEW raw \in UnmountPaths, os_vfs_unmount(t, raw), UNCHANGED <<fileVars, starved>>
  PROVE  FileInv'
<1>1. PICK path, m, parent :
        /\ path = os_vfs_normalize_path(raw) /\ m = os_vfs_find_mp_by_path(path)
        /\ parent = FindMp(mount_list \ {m}, path)
        /\ m # NULL /\ MayUnmount(m)
        /\ mount_list' = mount_list \ {m}
        /\ \/ /\ parent # NULL
              /\ mount' = [mount EXCEPT ![parent].mp_cnt = Decremented(@)]
              /\ UNCHANGED <<call, held>>
           \/ /\ held' = [held EXCEPT ![t] = @ \cup {VfsLock}]
              /\ call' = [call EXCEPT ![t].stage = "asserted"]
              /\ UNCHANGED mount
  BY DEF os_vfs_unmount
<1>2. /\ UNCHANGED <<fileVars, starved, dev_refcnt>> /\ UNCHANGED <<fileVars, starved>> /\ call[t] = Idle
      /\ fnode' = fnode /\ os_file_list' = os_file_list /\ Available(VfsLock, t) /\ starved' = starved
  BY DEF os_vfs_unmount, fileVars
<1>3. path \in Path
  BY <1>1, VfsAssumption, NormalizedPath
<1>4. m \in mount_list /\ (parent # NULL => parent \in mount_list)
  <2>1. mount_list \ {m} \in SUBSET mount_list
    OBVIOUS
  <2>. QED BY <1>1, <1>3, <2>1, FoundMounted DEF os_vfs_find_mp_by_path
<1>5. /\ DOMAIN mount = MountPoint
      /\ \A o \in mount_list : mount[o] \in MountRec
      /\ mount_list \in SUBSET MountPoint
  BY DEF FileInv, Types
<1>6. /\ DOMAIN mount' = MountPoint
      /\ \A o \in mount_list : /\ mount'[o] \in MountRec
                               /\ mount'[o].path = mount[o].path /\ mount'[o].fs = mount[o].fs
                               /\ mount'[o].open_file_cnt = mount[o].open_file_cnt
  <2>1. CASE mount' = mount
    BY <1>5, <2>1
  <2>2. CASE parent # NULL /\ mount' = [mount EXCEPT ![parent].mp_cnt = Decremented(@)]
    <3>1. mount[parent] \in MountRec /\ Decremented(mount[parent].mp_cnt) \in 0..SizeMax
      BY <1>4, <1>5, <2>2, VfsAssumption DEF MountRec, Decremented
    <3>2. mount'[parent] = [mount[parent] EXCEPT !.mp_cnt = Decremented(@)]
      BY <1>4, <1>5, <2>2
    <3>3. /\ mount'[parent] \in MountRec
          /\ mount'[parent].path = mount[parent].path /\ mount'[parent].fs = mount[parent].fs
          /\ mount'[parent].open_file_cnt = mount[parent].open_file_cnt
      BY <3>1, <3>2 DEF MountRec
    <3>4. DOMAIN mount' = MountPoint /\ \A o \in mount_list \ {parent} : mount'[o] = mount[o]
      BY <1>5, <2>2
    <3>. QED BY <1>5, <3>3, <3>4
  <2>. QED BY <1>1, <2>1, <2>2
<1>7. mount_list' \in SUBSET MountPoint /\ mount_list' \subseteq mount_list
      /\ \A u \in Task : call[u].mp \notin mount_list' \ mount_list
  BY <1>1, <1>5
<1>8. NamesStay
  BY <1>2, <1>6 DEF NamesStay
<1>9. OpenFiles(m) = {}
  <2>1. Cardinality(OpenFiles(m)) = 0
    BY <1>1, <1>4 DEF MayUnmount, FileInv, CountsExact, OpenCountExact
  <2>2. IsFiniteSet(OpenFiles(m))
    <3>1. OpenFiles(m) \in SUBSET Fnode
      BY DEF OpenFiles, Listed, FileInv, Types
    <3>. QED BY <3>1, FileAssumption, FS_Subset
  <2>. QED BY <2>1, <2>2, FS_EmptySet
<1>10. \A n \in Listed : fnode[n].refcnt > 0 => fnode[n].mp \in mount_list'
  BY <1>1, <1>9 DEF OpenFiles, FileInv, OpenFilesKeepTheirMount
<1>11. OpenCountExact'
  <2>1. \A o : OpenFiles(o)' = OpenFiles(o)
    BY <1>2 DEF OpenFiles, Listed
  <2>2. \A o \in mount_list : mount[o].open_file_cnt = Cardinality(OpenFiles(o))
    BY DEF FileInv, CountsExact, OpenCountExact
  <2>. QED BY <1>6, <1>7, <2>1, <2>2 DEF OpenCountExact
<1>12. RootIsRomfs'
  BY <1>6, <1>7 DEF FileInv, RootIsRomfs
<1>13. /\ Local(t) /\ Calls(t)' /\ call[t].stage = "idle"
       /\ call'[t].stage \notin CloseEnds /\ call'[t].fnode = NULL
  <2>1. CASE UNCHANGED <<call, held>>
    BY <1>2, <2>1, StaysIdle
  <2>2. CASE /\ held' = [held EXCEPT ![t] = @ \cup {VfsLock}]
             /\ call' = [call EXCEPT ![t].stage = "asserted"]
    <3>. DEFINE c == [Idle EXCEPT !.stage = "asserted"]
                h == held[t] \cup {VfsLock}
    <3>1. call[t].stage = "idle" /\ c \in CallRec
      <4>1. call[t].stage = "idle"
        BY <1>2 DEF Idle
      <4>2. "asserted" \in Stages
        BY DEF Stages
      <4>. QED BY <4>1, <4>2, IdleType DEF CallRec
    <3>2. held[t] = Kept(t)
      BY <3>1 DEF FileInv, Calls, OtherShape
    <3>3. call' = [call EXCEPT ![t] = c] /\ held' = [held EXCEPT ![t] = h]
      BY <1>2, <2>2
    <3>4. h \in SUBSET Locks /\ \A u \in Task \ {t} : h \cap held[u] = {}
      BY <1>2, LocksType DEF Available, FileInv, Types, OneHolder
    <3>5. /\ c.stage = "asserted" /\ c.fnode = NULL /\ c.mp = NULL /\ ~c.fresh
      BY DEF Idle
    <3>6. c = [Idle EXCEPT !.stage = "asserted"] /\ h = Kept(t)' \cup {VfsLock}
      BY <1>2, <3>2 DEF Kept
    <3>. HIDE DEF c, h
    <3>7. Local(t) /\ call'[t] = c /\ held'[t] = h
      BY <3>1, <3>3, <3>4, Begins
    <3>8. Calls(t)'
      BY <3>5, <3>6, <3>7 DEF Calls, OpenShape, CloseShape, OtherShape, MayUse, OwnsFresh, FoundBeneath,
         OpenStages, OpenFinds, OpenWorks, CloseStages, CloseDevStages, CloseEnds
    <3>. QED BY <3>1, <3>5, <3>7, <3>8 DEF CloseEnds
  <2>. QED BY <1>1, <2>1, <2>2
<1>14. /\ \A o \in mount_list' : mount'[o] \in MountRec
       /\ \A n \in Listed : fnode[n].mp \in mount_list' => fnode[n].mp \in mount_list
  BY <1>6, <1>7
<1>. QED BY <1>2, <1>6, <1>7, <1>8, <1>10, <1>11, <1>12, <1>13, <1>14, MountsChange

-----------------------------------------------------------------------------
(***************************************************************************)
(* The invariant.                                                          *)
(***************************************************************************)
LEMMA InitInv ==
  ASSUME FileInit
  PROVE  FileInv
<1>1. /\ call = [t \in Task |-> Idle] /\ held = [t \in Task |-> {}] /\ dev_refcnt = [d \in Device |-> 0]
      /\ mount_list = {1, 2} /\ os_file_list = <<>>
      /\ fnode = [n \in Fnode |-> NULL] /\ fds = [t \in Task |-> [n \in Fnode |-> 0]] /\ starved = {}
  BY DEF FileInit, VfsInit
<1>2. /\ DOMAIN mount = MountPoint
      /\ mount[1] = [NewMount(<<>>, "romfs") EXCEPT !.mp_cnt = 1]
      /\ mount[2] = NewMount(BootMount, "devfs")
  BY VfsAssumption DEF FileInit, VfsInit
<1>3. /\ mount[1] \in MountRec /\ mount[1].path = <<>> /\ mount[1].open_file_cnt = 0
      /\ mount[2] \in MountRec /\ mount[2].fs = "devfs" /\ mount[2].open_file_cnt = 0
  <2>1. <<>> \in Path /\ BootMount \in Path /\ SizeMax \in Nat /\ 0 \in 0..SizeMax /\ 1 \in 0..SizeMax
    BY VfsAssumption
  <2>. QED BY <1>2, <2>1 DEF NewMount, MountRec
<1>4. Listed = {}
  BY <1>1 DEF Listed
<1>5. Types
  <2>1. call \in [Task -> CallRec] /\ held \in [Task -> SUBSET Locks]
    BY <1>1, IdleType
  <2>2. os_file_list \in Seq(Fnode) /\ IsInjective(os_file_list)
    BY <1>1 DEF IsInjective
  <2>3. fds \in [Task -> [Fnode -> 0..MaxOpen]]
    BY <1>1, FileAssumption
  <2>4. mount_list \in SUBSET MountPoint /\ \A m \in mount_list : mount[m] \in MountRec
    BY <1>1, <1>3, VfsAssumption
  <2>5. dev_refcnt \in [Device -> Nat] /\ DOMAIN fnode = Fnode
    BY <1>1
  <2>. QED BY <1>2, <1>4, <2>1, <2>2, <2>3, <2>4, <2>5 DEF Types
<1>6. OneHolder
  BY <1>1 DEF OneHolder
<1>7. ASSUME NEW t \in Task PROVE Calls(t)
  <2>1. call[t] = Idle /\ held[t] = Kept(t)
    BY <1>1 DEF Kept
  <2>2. call[t].stage = "idle" /\ ~call[t].fresh
    BY <2>1 DEF Idle
  <2>. QED
    BY <2>1, <2>2 DEF Calls, OpenShape, CloseShape, OtherShape, MayUse, OwnsFresh, FoundBeneath, OpenStages,
       OpenFinds, OpenWorks, CloseStages, CloseDevStages, CloseEnds
<1>8. NodesInPlace /\ RefcntExact /\ OpenFilesKeepTheirMount /\ SharedUnlessRespelt
  BY <1>1, <1>4 DEF NodesInPlace, RefcntExact, OpenFilesKeepTheirMount, SharedUnlessRespelt
<1>9. RootIsRomfs
  BY <1>1, <1>3 DEF RootIsRomfs
<1>10. OpenCountExact
  <2>1. \A m : OpenFiles(m) = {} /\ Cardinality({}) = 0
    BY <1>4, FS_EmptySet DEF OpenFiles
  <2>. QED BY <1>1, <1>3, <2>1 DEF OpenCountExact
<1>11. DeviceRefcntExact
  <2>1. \A d \in Device : NodesOf(d) = {} /\ HalfClosed(d) = {}
    BY <1>4 DEF NodesOf, HalfClosed
  <2>2. OpenOn({}) = 0 /\ Cardinality({}) = 0
    <3>1. {d \in Descriptors : d[2] \in {}} = {}
      OBVIOUS
    <3>. QED BY <3>1, FS_EmptySet DEF OpenOn
  <2>. SUFFICES ASSUME NEW d \in Device
                PROVE  dev_refcnt[d] + Cardinality(HalfClosed(d)) = OpenOn(NodesOf(d))
    BY DEF DeviceRefcntExact
  <2>3. NodesOf(d) = {} /\ HalfClosed(d) = {}
    BY <2>1
  <2>4. dev_refcnt[d] = 0
    BY <1>1
  <2>. QED BY <2>2, <2>3, <2>4
<1>. QED
  BY <1>5, <1>6, <1>7, <1>8, <1>9, <1>10, <1>11 DEF FileInv, CountsExact

\* Nothing that the invariant speaks of changes: the end of the model, or a stutter.
LEMMA NothingChanges ==
  ASSUME FileInv, UNCHANGED <<call, held, dev_refcnt, vfsVars, fileVars, starved>>
  PROVE  FileInv'
<1>1. /\ call' = call /\ held' = held /\ dev_refcnt' = dev_refcnt /\ mount_list' = mount_list /\ mount' = mount
      /\ os_file_list' = os_file_list /\ fnode' = fnode /\ fds' = fds /\ starved' = starved
  BY DEF vfsVars, fileVars
<1>2. Listed' = Listed /\ Descriptors' = Descriptors /\ (\A n : PathOf(n)' = PathOf(n))
  BY <1>1 DEF Listed, Descriptors, PathOf
<1>3. \A n : DeviceOf(n)' = DeviceOf(n) /\ (IsDevice(n)' <=> IsDevice(n))
  BY <1>1, <1>2 DEF DeviceOf, IsDevice
<1>4. Types' /\ OneHolder'
  BY <1>1, <1>2 DEF FileInv, Types, OneHolder
<1>5. ASSUME NEW t \in Task PROVE Calls(t)'
  <2>1. PICK n : n = call[t].fnode
    OBVIOUS
  <2>2. Calls(t) /\ call'[t] = call[t] /\ held'[t] = held[t] /\ Kept(t)' = Kept(t)
    BY <1>1 DEF FileInv, Kept
  <2>3. DeviceOf(n)' = DeviceOf(n) /\ (IsDevice(n)' <=> IsDevice(n)) /\ OpenBy(t)' = OpenBy(t)
    BY <1>2, <1>3 DEF OpenBy
  <2>4. OpenShape(t)' /\ OtherShape(t)'
    BY <2>2 DEF Calls, OpenShape, OtherShape, Has
  <2>5. CloseShape(t)'
    BY <1>1, <2>1, <2>2, <2>3 DEF Calls, CloseShape, Has
  <2>6. MayUse(t)'
    BY <1>1, <1>2, <2>1, <2>2, <2>3 DEF Calls, MayUse, Dangling
  <2>7. OwnsFresh(t)' /\ FoundBeneath(t)'
    BY <1>1, <1>2, <2>2 DEF Calls, OwnsFresh, FoundBeneath
  <2>. QED BY <2>4, <2>5, <2>6, <2>7 DEF Calls
<1>6. NodesInPlace' /\ RootIsRomfs' /\ OpenFilesKeepTheirMount' /\ SharedUnlessRespelt'
  BY <1>1, <1>2, <1>3 DEF FileInv, NodesInPlace, RootIsRomfs, OpenFilesKeepTheirMount, SharedUnlessRespelt
<1>7. CountsExact'
  <2>1. \A N : OpenOn(N)' = OpenOn(N)
    BY <1>2 DEF OpenOn
  <2>2. \A m : OpenFiles(m)' = OpenFiles(m)
    BY <1>1, <1>2 DEF OpenFiles
  <2>3. \A d : NodesOf(d)' = NodesOf(d)
    BY <1>1, <1>2, <1>3 DEF NodesOf
  <2>4. \A d : HalfClosed(d)' = HalfClosed(d)
    BY <1>1, <2>3 DEF HalfClosed
  <2>5. RefcntExact'
    BY <1>1, <1>2, <2>1 DEF FileInv, CountsExact, RefcntExact
  <2>6. OpenCountExact'
    BY <1>1, <2>2 DEF FileInv, CountsExact, OpenCountExact
  <2>7. DeviceRefcntExact'
    <3>. SUFFICES ASSUME NEW d \in Device
                  PROVE  dev_refcnt[d] + Cardinality(HalfClosed(d)') = OpenOn(NodesOf(d))'
      BY <1>1 DEF DeviceRefcntExact
    <3>1. OpenOn(NodesOf(d))' = OpenOn(NodesOf(d))
      BY <1>2, <2>3 DEF OpenOn
    <3>2. HalfClosed(d)' = HalfClosed(d)
      BY <2>4, Zenon
    <3>. QED BY <3>1, <3>2 DEF FileInv, CountsExact, DeviceRefcntExact
  <2>. QED BY <2>5, <2>6, <2>7 DEF CountsExact
<1>. QED BY <1>4, <1>5, <1>6, <1>7 DEF FileInv

\* Every step of the specification preserves the invariant.
LEMMA NextInv ==
  ASSUME FileInv, [Next]_vars
  PROVE  FileInv'
<1>1. CASE UNCHANGED vars
  BY <1>1, NothingChanges DEF vars
<1>2. ASSUME NEW t \in Task, use_freed_memory(t) \/ CloseNodeReused(t) PROVE FileInv'
  BY <1>2, NothingChanges DEF use_freed_memory, CloseNodeReused
<1>3. ASSUME NEW t \in Task, Vfs(t) PROVE FileInv'
  BY <1>3, StepMount, StepUnmount, StepStat, StepStatLock, StepStatReturn DEF Vfs
<1>4. ASSUME NEW t \in Task, ~Dangling(t), Open(t) PROVE FileInv'
  BY <1>4, StepOpen, StepOpenRefused, StepOpenFindNode, StepOpenWithoutMemory, StepOpenLockMount,
     StepOpenLockNode, StepOpenByFs, StepOpenNoDevice, StepOpenLockManager, StepOpenLockDevice,
     StepOpenByDriver DEF Open
<1>5. ASSUME NEW t \in Task, Close(t) PROVE FileInv'
  BY <1>5, StepClose, StepCloseLockManager, StepCloseLockDevice, StepCloseByDriver, StepCloseLockMount,
     StepCloseNode DEF Close
<1>6. ASSUME NEW t \in Task, Read(t) PROVE FileInv'
  BY <1>6, StepRead, StepReadReturn DEF Read
<1>. QED BY <1>1, <1>2, <1>3, <1>4, <1>5, <1>6 DEF Next

\* The invariant holds in every state the calls of any number of tasks can reach, also
\* where a call has come to point to freed memory.
THEOREM FilesInvariant == Spec => []FileInv
<1>1. FileInit => FileInv
  BY InitInv
<1>2. FileInv /\ [Next]_vars => FileInv'
  BY NextInv
<1>. QED BY <1>1, <1>2, PTL DEF Spec

\* What the locks of a call at each stage mean for the order of locks: it wants only what
\* comes after all it holds, and when it is over it holds nothing but a leaked lock.
LEMMA ShapesDisciplined ==
  ASSUME FileInv
  PROVE  LocksAreDisciplined
<1>1. FileTypeOK
  <2>1. \A t \in Task : held[t] \subseteq Locks /\ call[t].wants \in Locks \cup {NULL}
    BY DEF FileInv, Types, CallRec
  <2>2. \A m \in mount_list : mount[m].mp_cnt \in 0..SizeMax /\ mount[m].open_file_cnt \in 0..SizeMax
    BY DEF FileInv, Types, MountRec
  <2>3. Listed \subseteq Fnode
    BY DEF FileInv, Types, Listed
  <2>4. \A n \in Listed : fnode[n].mp \in MountPoint /\ fnode[n].refcnt \in Nat
    BY DEF FileInv, Types, NodeRec
  <2>. QED BY <2>1, <2>2, <2>3, <2>4 DEF FileTypeOK, FileInv, OneHolder, Types
<1>2. LocksInOrder
  <2>. SUFFICES ASSUME NEW t \in Task, call[t].wants # NULL, call[t].stage \notin {"open_init", "close_init"},
                       NEW l \in held[t]
                PROVE  Rank(l) < Rank(call[t].wants)
    BY DEF LocksInOrder
  <2>1. /\ Rank(FileLock) = 1 /\ Rank(VfsLock) = 2 /\ Rank(DeviceManager) = 5
        /\ \A x : Rank(MpLock(x)) = 3 /\ Rank(NodeLock(x)) = 4 /\ Rank(DevLock(x)) = 6
    BY DEF Rank, FileLock, VfsLock, DeviceManager, MpLock, NodeLock, DevLock
  <2>2. OpenShape(t) /\ CloseShape(t) /\ OtherShape(t) /\ call[t].stage \in Stages
    BY DEF FileInv, Calls, Types, CallRec
  <2>3. Kept(t) \subseteq {FileLock}
    BY DEF Kept
  <2>4. call[t].stage \notin {"idle", "asserted"}
    BY <2>2 DEF OtherShape, Idle
  <2>5. CASE call[t].stage \in OpenStages
    BY <2>1, <2>2, <2>3, <2>5 DEF OpenShape, Has, OpenStages, OpenFinds, OpenWorks
  <2>6. CASE call[t].stage \in CloseStages \cup {"read"}
    BY <2>1, <2>2, <2>3, <2>6 DEF CloseShape, Has, CloseStages, CloseDevStages, CloseEnds
  <2>7. CASE call[t].stage \in {"stat_mp", "stat"}
    BY <2>1, <2>2, <2>3, <2>7 DEF OtherShape, Has
  <2>. QED BY <2>2, <2>4, <2>5, <2>6, <2>7 DEF Stages
<1>3. LocksEndWithCalls
  <2>. SUFFICES ASSUME NEW t \in Task, call[t] = Idle PROVE held[t] = Kept(t)
    BY DEF LocksEndWithCalls, Kept
  <2>1. call[t].stage = "idle"
    BY DEF Idle
  <2>. QED BY <2>1 DEF FileInv, Calls, OtherShape
<1>. QED BY <1>1, <1>2, <1>3 DEF LocksAreDisciplined

\* The file manager and the VFS take their mutexes in one order, whatever tasks call,
\* fail or close; a mutex has one holder and outlives a call only where os_file_open
\* leaves without memory for a node.
THEOREM LocksDisciplined == Spec => []LocksAreDisciplined
<1>1. FileInv => LocksAreDisciplined
  BY ShapesDisciplined
<1>. QED BY <1>1, FilesInvariant, PTL

\* A node counts its descriptors, a mount point its open files and a device the
\* descriptors of its shared nodes, exactly, although no lock spans all three.
THEOREM CountsAreExact == Spec => []CountsExact
<1>1. FileInv => CountsExact
  BY DEF FileInv
<1>. QED BY <1>1, FilesInvariant, PTL

\* os_vfs_unmount never takes the file system of an open file away.
THEOREM OpenFilesStayMounted == Spec => []OpenFilesKeepTheirMount
<1>1. FileInv => OpenFilesKeepTheirMount
  BY DEF FileInv
<1>. QED BY <1>1, FilesInvariant, PTL

\* os_file_open makes a second node for a file only under a spelling of its path that is
\* not the normal form.
THEOREM NodesAreShared == Spec => []SharedUnlessRespelt
<1>1. FileInv => SharedUnlessRespelt
  BY DEF FileInv
<1>. QED BY <1>1, FilesInvariant, PTL

\* os_vfs_normalize_path leaves alone what it has normalised.
THEOREM NormalizeTwice ==
  ASSUME NEW raw \in Path
  PROVE  os_vfs_normalize_path(os_vfs_normalize_path(raw)) = os_vfs_normalize_path(raw)
BY NormalizeType, NormalizeIdempotent
=============================================================================
