----------------------------- MODULE OsHashmap -----------------------------
(***************************************************************************)
(* The chained hash map of src/os_hashmap.c on the lists of OsList: pids   *)
(* to tasks, descriptor ids to descriptors.  The list of bucket b is the   *)
(* node -(b + 2).                                                          *)
(***************************************************************************)
EXTENDS OsList, FiniteSetsExt

CONSTANTS
  HashKey, HashValue,  \* keys are numbers
  HashItem,            \* memory for items: more run out
  HashCount            \* the counts maps are created with

ASSUME HashmapAssumption ==
  /\ HashKey \subseteq Nat /\ HashItem \subseteq Nat \ {0} /\ HashCount \subseteq Nat \ {0}
  /\ IsFiniteSet(HashItem)

VARIABLES
  hashmap,  \* count_bit and list heads, with the links of its items; 0 buckets: none
  items,    \* item -> key, value; or NoItem when its memory is free
  mapped    \* key -> value as the callers have set it; not in the code

hashVars == <<hashmap, items, mapped>>

NoItem == [key |-> -1, value |-> -1]
ListOf(b) == -(b + 2)

\* SIZE of os_def.h: bit -> 1 << bit, for bits up to n.
Shifted(n) == LET size[bit \in 0..n] == IF bit = 0 THEN 1 ELSE 2 * size[bit - 1] IN size

\* ALIGN_UP_MIN: the bits of the smallest power of two that is not smaller.
ALIGN_UP_MIN(n) ==
  CHOOSE k \in 0..n : Shifted(n)[k] >= n /\ \A j \in 0..(k - 1) : Shifted(n)[j] < n

Buckets == 0..(hashmap.count - 1)
NoHashmap == [count |-> 0, links |-> [n \in HashItem |-> os_list_node_init]]

os_hashmap_default_hash_function(key) == key % hashmap.count

os_hashmap_create(count) ==
  LET size == Shifted(count)[ALIGN_UP_MIN(count)]
  IN /\ hashmap.count = 0
     /\ hashmap' = [count |-> size,
                    links |-> [n \in HashItem \cup {ListOf(b) : b \in 0..(size - 1)} |->
                                 IF n > 0 THEN os_list_node_init ELSE os_list_init(n)]]
     /\ UNCHANGED <<items, mapped>>

Chain(b) == os_list_entry_foreach(hashmap.links, ListOf(b), Cardinality(HashItem))

\* os_hashmap_remove frees every item of every bucket.
os_hashmap_remove ==
  /\ hashmap.count # 0
  /\ hashmap' = NoHashmap
  /\ items' = [i \in HashItem |->
                 IF \E b \in Buckets : Contains(Chain(b), i) THEN NoItem ELSE items[i]]
  /\ mapped' = [k \in {} |-> -1]

\* Mutant: any item of the bucket will do.
os_hashmap_find_AnyKey(key) ==
  LET chain == Chain(os_hashmap_default_hash_function(key))
  IN IF chain = <<>> THEN 0 ELSE Head(chain)

\* __os_hashmap_find: an item, or 0.
os_hashmap_find(key) ==
  LET chain == Chain(os_hashmap_default_hash_function(key))
      matching == {j \in DOMAIN chain : items[chain[j]].key = key}
  IN IF matching = {} THEN 0 ELSE chain[Min(matching)]

os_hashmap_set_existing(key, value) ==
  /\ os_hashmap_find(key) # 0
  /\ items' = [items EXCEPT ![os_hashmap_find(key)].value = value]
  /\ mapped' = [mapped EXCEPT ![key] = value]
  /\ UNCHANGED hashmap

\* Without memory for an item the call returns -OS_ERR_ENOMEM and changes nothing.
os_hashmap_set_new(key, value) ==
  /\ os_hashmap_find(key) = 0
  /\ \E i \in HashItem :
       /\ items[i] = NoItem /\ \A j \in HashItem : items[j] = NoItem => i <= j
       /\ items' = [items EXCEPT ![i] = [key |-> key, value |-> value]]
       /\ hashmap' = [hashmap EXCEPT !.links =
                        os_list_insert_tail(@, ListOf(os_hashmap_default_hash_function(key)), i)]
  /\ mapped' = [k \in DOMAIN mapped \cup {key} |-> IF k = key THEN value ELSE mapped[k]]

os_hashmap_set(key, value) ==
  /\ hashmap.count # 0
  /\ os_hashmap_set_existing(key, value) \/ os_hashmap_set_new(key, value)

os_hashmap_remove_item(key) ==
  /\ hashmap.count # 0 /\ os_hashmap_find(key) # 0
  /\ hashmap' = [hashmap EXCEPT !.links = os_list_node_remove(@, os_hashmap_find(key))]
  /\ items' = [items EXCEPT ![os_hashmap_find(key)] = NoItem]
  /\ mapped' = [k \in DOMAIN mapped \ {key} |-> mapped[k]]

\* os_hashmap_get: -1 stands for OS_FALSE and OS_NULL.
os_hashmap_get(key) == IF os_hashmap_find(key) = 0 THEN -1 ELSE items[os_hashmap_find(key)].value

HashmapInit ==
  /\ hashmap = NoHashmap
  /\ items = [i \in HashItem |-> NoItem]
  /\ mapped = [k \in {} |-> -1]

HashmapNext ==
  \/ \E count \in HashCount : os_hashmap_create(count)
  \/ os_hashmap_remove
  \/ \E key \in HashKey :
       \/ os_hashmap_remove_item(key)
       \/ \E value \in HashValue : os_hashmap_set(key, value)

-----------------------------------------------------------------------------
\* The map is the function its callers have built: every key finds the value set last,
\* colliding or not, and the items in memory are exactly those of the keys set.
HashmapIsTheMapping ==
  /\ hashmap.count # 0 =>
       \A key \in HashKey :
         os_hashmap_get(key) = IF key \in DOMAIN mapped THEN mapped[key] ELSE -1
  /\ Cardinality({i \in HashItem : items[i] # NoItem}) = Cardinality(DOMAIN mapped)

\* Chains of both kinds hold what was put in, whatever was taken out before.
ChainsExact == HashmapIsTheMapping /\ PointersAreTheSequence
=============================================================================
