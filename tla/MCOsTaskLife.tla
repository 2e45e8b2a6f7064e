---------------------------- MODULE MCOsTaskLife ----------------------------
(***************************************************************************)
(* Three kernel tasks, two children, five pids, and descriptor tables one  *)
(* descriptor larger than what execve opens.                               *)
(***************************************************************************)
EXTENDS OsTaskLife

CONSTANTS program, console

MCFile == {program, console}
MCMaxOpen == [f \in MCFile |-> IF f = program THEN 2 ELSE 6]
MCPid == 0..4
MCVtable == 1..4
MCTable == 1..5
=============================================================================
