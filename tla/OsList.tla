------------------------------- MODULE OsList -------------------------------
(***************************************************************************)
(* The circular doubly linked lists of src/include/os_list.h, pointer by   *)
(* pointer.  "links" maps a node to its two pointers; a list is a node of  *)
(* its own, on which the chain begins and ends.                            *)
(***************************************************************************)
EXTENDS Integers, Sequences, SequencesExt

CONSTANT ListEntry  \* the nodes that can be on the list

ASSUME ListAssumption == ListEntry \subseteq Nat \ {0}

VARIABLES
  links,  \* node -> prev, next
  listed  \* the entries in their order, as the callers see it; not in the code

listVars == <<links, listed>>

ListNull == 0
TheList == -1

\* os_list_node_init and os_list_init.
os_list_node_init == [prev |-> ListNull, next |-> ListNull]
os_list_init(list) == [prev |-> list, next |-> list]

os_list_node_empty(L, n) == L[n] = os_list_node_init
os_list_empty(L, list) == L[list] = os_list_init(list)

os_list_node_insert_before(L, n, reference) ==
  LET linked == [L EXCEPT ![n] = [prev |-> L[reference].prev, next |-> reference],
                          ![reference].prev = n]
  IN IF linked[n].prev = ListNull THEN linked ELSE [linked EXCEPT ![linked[n].prev].next = n]

os_list_node_insert_after(L, n, reference) ==
  LET linked == [L EXCEPT ![n] = [prev |-> reference, next |-> L[reference].next],
                          ![reference].next = n]
  IN IF linked[n].next = ListNull THEN linked ELSE [linked EXCEPT ![linked[n].next].prev = n]

\* Mutant: the node behind the removed one keeps pointing to it.
os_list_node_remove_OneWay(L, n) ==
  LET before == IF L[n].prev = ListNull THEN L ELSE [L EXCEPT ![L[n].prev].next = L[n].next]
  IN [before EXCEPT ![n] = os_list_node_init]

os_list_node_remove(L, n) ==
  LET before == IF L[n].prev = ListNull THEN L ELSE [L EXCEPT ![L[n].prev].next = L[n].next]
      after == IF before[n].next = ListNull THEN before
               ELSE [before EXCEPT ![before[n].next].prev = before[n].prev]
  IN [after EXCEPT ![n] = os_list_node_init]

os_list_insert_head(L, list, n) == os_list_node_insert_after(L, n, list)
os_list_insert_tail(L, list, n) == os_list_node_insert_before(L, n, list)

\* os_list_entry_foreach: the entries it visits until it is back at the list, up to n
\* of them.
os_list_entry_foreach(L, list, n) ==
  LET pos[k \in 0..n] == IF k = 0 THEN L[list].next ELSE L[pos[k - 1]].next
      visited == CHOOSE k \in 0..n : (pos[k] = list \/ k = n) /\ \A j \in 0..(k - 1) : pos[j] # list
  IN [i \in 1..visited |-> pos[i - 1]]

\* os_list_entry_foreach_safe with a body that removes the entry it is given.
RemoveEach(L, list, n) ==
  LET entries == os_list_entry_foreach(L, list, n)
      rest[k \in 0..Len(entries)] ==
        IF k = 0 THEN L ELSE os_list_node_remove(rest[k - 1], entries[k])
  IN rest[Len(entries)]

-----------------------------------------------------------------------------
ListInit ==
  /\ links = [n \in ListEntry \cup {TheList} |->
                IF n = TheList THEN os_list_init(TheList) ELSE os_list_node_init]
  /\ listed = <<>>

\* Callers insert nodes that are on no list, and remove a node whether it is on one or
\* not, as os_task_wakeup and os_file_fdid_remove do.
ListInsert(n) ==
  /\ os_list_node_empty(links, n)
  /\ \/ links' = os_list_insert_head(links, TheList, n) /\ listed' = <<n>> \o listed
     \/ links' = os_list_insert_tail(links, TheList, n) /\ listed' = Append(listed, n)
     \/ \E i \in DOMAIN listed :
          \/ /\ links' = os_list_node_insert_before(links, n, listed[i])
             /\ listed' = InsertAt(listed, i, n)
          \/ /\ links' = os_list_node_insert_after(links, n, listed[i])
             /\ listed' = InsertAt(listed, i + 1, n)

ListRemove(n) ==
  /\ links' = os_list_node_remove(links, n)
  /\ listed' = RemoveFirst(listed, n)

ListClear ==
  /\ ~os_list_empty(links, TheList)
  /\ links' = RemoveEach(links, TheList, Len(listed))
  /\ listed' = <<>>

ListNext ==
  \/ \E n \in ListEntry : ListInsert(n) \/ ListRemove(n)
  \/ ListClear

-----------------------------------------------------------------------------
\* The pointers are the sequence: forwards and backwards, with every other node off the
\* list, whatever is inserted where and removed, and however often.
PointersAreTheSequence ==
  LET chain == <<TheList>> \o listed \o <<TheList>>
  IN /\ \A i \in 1..(Len(chain) - 1) :
          links[chain[i]].next = chain[i + 1] /\ links[chain[i + 1]].prev = chain[i]
     /\ \A n \in ListEntry : os_list_node_empty(links, n) <=> n \notin ToSet(listed)
=============================================================================
