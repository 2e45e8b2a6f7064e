------------------------------ MODULE MCOsMutex ------------------------------
(***************************************************************************)
(* Small instances of OsMutex: the main thread and two workers share       *)
(* mutexes, on three priorities or on one.                                 *)
(***************************************************************************)
EXTENDS OsMutex, TLC

CONSTANTS worker1, worker2

MCPriority == task_idle :> 2 @@ task_main :> 1 @@ worker1 :> 1 @@ worker2 :> 0
MCTickInit == [t \in Task |-> 0]

\* All users of the mutex have one priority, for liveness.
MCSamePriority == [t \in Task |-> IF t = task_idle THEN 2 ELSE 1]
=============================================================================
