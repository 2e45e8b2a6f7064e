------------------------------ MODULE MCOsTask ------------------------------
(***************************************************************************)
(* A small instance of OsTask: the idle and main threads and two workers,  *)
(* on three priorities.                                                    *)
(***************************************************************************)
EXTENDS OsTask, TLC

CONSTANTS worker1, worker2

MCPriority == task_idle :> 2 @@ task_main :> 1 @@ worker1 :> 1 @@ worker2 :> 0
MCTickInit == task_idle :> 1 @@ task_main :> 1 @@ worker1 :> 0 @@ worker2 :> 1
=============================================================================
