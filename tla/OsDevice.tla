------------------------------ MODULE OsDevice ------------------------------
(***************************************************************************)
(* The device manager: src/os_device.c, called by the file systems.        *)
(*                                                                         *)
(* Calls of several tasks interleave wherever one waits for a mutex.  A    *)
(* call in progress is a record: the stage it has reached, the mutex it    *)
(* wants next, and the objects its local variables point to.  A step       *)
(* takes that mutex and runs to the next one; what it unlocks on the way   *)
(* it unlocks at once.  Mutexes behave as RecursiveLock promises, except   *)
(* that any waiter may be the next.                                        *)
(*                                                                         *)
(* Registration happens once, at boot; it also sets "initialized", so that *)
(* os_device_op_init never finds anything to do.                           *)
(***************************************************************************)
EXTENDS Naturals, Sequences, FiniteSets

CONSTANTS
  Task,
  Device,        \* the names of the registered devices
  FaultyDevice,  \* those whose driver may refuse to be opened or closed
  NULL

ASSUME DeviceAssumption == NULL \notin Task \cup Device /\ FaultyDevice \subseteq Device

VARIABLES
  call,       \* task -> the call it is in
  held,       \* task -> the mutexes it holds
  dev_refcnt  \* device -> refcnt

Idle == [stage |-> "idle", wants |-> NULL, fnode |-> NULL, mp |-> NULL, flag |-> NULL,
         fresh |-> FALSE, path |-> NULL]

DeviceManager == <<"os_device_global_lock", 0>>
DevLock(d) == <<"os_device_t", d>>

\* Nobody else holds the mutex: a lock call returns at once.
Available(l, t) == \A u \in Task \ {t} : l \notin held[u]

\* Task t is at this stage of a call and the mutex it waits for is there.
Reaches(t, stage) ==
  /\ call[t].stage = stage
  /\ call[t].wants # NULL => Available(call[t].wants, t)

\* The call of t goes on to a stage that wants mutex l next.
GoOn(t, stage, l) == call' = [call EXCEPT ![t].stage = stage, ![t].wants = l]

\* Task t takes what its call waited for and unlocks the mutexes U.
TakeAndUnlock(t, U) ==
  held' = [held EXCEPT ![t] = (@ \cup ({call[t].wants} \ {NULL})) \ U]

-----------------------------------------------------------------------------
\* os_device_op_open and os_device_op_close: lock the manager, lock the device,
\* unlock the manager.  "next" is the stage that follows.
LockManager(t, stage, next, d) ==
  /\ Reaches(t, stage)
  /\ TakeAndUnlock(t, {})
  /\ GoOn(t, next, DevLock(d))

\* Both then call os_device_op_init, which locks the manager again.
LockDevice(t, stage, next) ==
  /\ Reaches(t, stage)
  /\ TakeAndUnlock(t, {DeviceManager})
  /\ GoOn(t, next, DeviceManager)

\* The driver's answer: only a faulty one may refuse.
DriverAgrees(d, ok) == ok \/ d \in FaultyDevice

\* Mutant: the device is counted before the driver is asked.
DeviceOpened_TooEarly(d, ok) == dev_refcnt' = [dev_refcnt EXCEPT ![d] = @ + 1]

DeviceOpened(d, ok) == dev_refcnt' = [dev_refcnt EXCEPT ![d] = IF ok THEN @ + 1 ELSE @]

\* Mutant: a refused close is counted too.
DeviceClosed_Anyway(d, ok) == dev_refcnt' = [dev_refcnt EXCEPT ![d] = @ - 1]

DeviceClosed(d, ok) == dev_refcnt' = [dev_refcnt EXCEPT ![d] = IF ok THEN @ - 1 ELSE @]
=============================================================================
