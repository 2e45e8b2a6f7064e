---------------------------- MODULE RecursiveLock ----------------------------
(***************************************************************************)
(* What mutexes promise their callers: each is a recursive lock with one   *)
(* holder, granted in the order it was asked for, whatever happens to the  *)
(* others.                                                                 *)
(***************************************************************************)
EXTENDS Naturals, Sequences

CONSTANTS Task, Lock

VARIABLES
  holds,  \* lock -> task -> lock calls that have returned and are not yet unlocked
  line    \* lock -> the tasks whose call found the lock taken and has not returned

lockVars == <<holds, line>>

Init ==
  /\ holds = [l \in Lock |-> [t \in Task |-> 0]]
  /\ line = [l \in Lock |-> <<>>]

Free(l) == \A t \in Task : holds[l][t] = 0

\* The lock is free and nobody waits for it, or the caller already has it.
Enter(l, t) ==
  /\ holds[l][t] > 0 \/ (Free(l) /\ line[l] = <<>>)
  /\ holds' = [holds EXCEPT ![l][t] = @ + 1]
  /\ UNCHANGED line

\* Somebody else has it, or is about to.
Ask(l, t) ==
  /\ holds[l][t] = 0
  /\ \A i \in DOMAIN line[l] : line[l][i] # t
  /\ ~Free(l) \/ line[l] # <<>>
  /\ line' = [line EXCEPT ![l] = Append(@, t)]
  /\ UNCHANGED holds

\* The task that has waited longest gets the lock once it is free.
Grant(l) ==
  /\ Free(l)
  /\ line[l] # <<>>
  /\ holds' = [holds EXCEPT ![l][Head(line[l])] = 1]
  /\ line' = [line EXCEPT ![l] = Tail(@)]

Leave(l, t) ==
  /\ holds[l][t] > 0
  /\ holds' = [holds EXCEPT ![l][t] = @ - 1]
  /\ UNCHANGED line

Next ==
  \E l \in Lock :
    \/ Grant(l)
    \/ \E t \in Task : Enter(l, t) \/ Ask(l, t) \/ Leave(l, t)

Spec == Init /\ [][Next]_lockVars

\* Mutual exclusion: at most one task is inside a lock.
OneHolder == \A l \in Lock : \A t, u \in Task : holds[l][t] > 0 /\ holds[l][u] > 0 => t = u
=============================================================================
