----------------------------- MODULE MCOsMemory -----------------------------
(***************************************************************************)
(* A heap of five pages and two caches: slubs of two objects, and slubs of *)
(* one object as for sizes above 1 KiB.                                    *)
(***************************************************************************)
EXTENDS OsMemory, TLC

CONSTANTS small, big

ASSUME HeapEndsAligned

MCObjects == small :> 2 @@ big :> 1
=============================================================================
