---------------------------- MODULE HeapAllocator ----------------------------
(***************************************************************************)
(* What os_memory_alloc and os_memory_free promise: a region of memory is  *)
(* in use by one owner at a time, and stays so until that owner gives it   *)
(* back.                                                                   *)
(***************************************************************************)
CONSTANT Region       \* the regions of memory, sets of cells
VARIABLE in_use       \* the regions in use

Init == in_use = {}

Allocate(r) == r \cap UNION in_use = {} /\ in_use' = in_use \cup {r}

\* The allocator may take back space of its own together with what is released.
Release(R) == R \subseteq in_use /\ in_use' = in_use \ R

Next == \/ \E r \in Region : Allocate(r)
        \/ \E R \in SUBSET in_use : Release(R)

Spec == Init /\ [][Next]_in_use

\* No cell has two owners.
Disjoint == \A r, s \in in_use : r = s \/ r \cap s = {}
=============================================================================
