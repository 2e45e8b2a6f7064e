------------------------------ MODULE OsMemory ------------------------------
(***************************************************************************)
(* os_memory_alloc and os_memory_free: the slub caches of                  *)
(* src/memory/os_memory_slub.c on top of the buddy system, and the choice  *)
(* between the two in src/os_memory.c.                                     *)
(*                                                                         *)
(* A call is one critical area.  One that has to expand a cache takes      *)
(* several pages and is several actions; "call" keeps every other call out *)
(* meanwhile, as the masked interrupts do.                                 *)
(*                                                                         *)
(* A slub is a page: a header, then the objects 1..object_total_nr[c].     *)
(* Lists are sequences from the head.                                      *)
(***************************************************************************)
EXTENDS OsMemoryPage

CONSTANTS
  Cache,             \* the slub caches, one per object size
  object_total_nr,   \* cache -> objects in one of its slubs
  SLUB_MIN_PARTIAL,  \* slubs a cache is expanded by, and keeps
  NULL

ASSUME SlubAssumption ==
  /\ NULL \notin Cache
  /\ object_total_nr \in [Cache -> Nat \ {0}]
  /\ SLUB_MIN_PARTIAL \in Nat \ {0}

VARIABLES
  cache,          \* page -> cache, in the header of a slub
  free_item,      \* page -> sequence of the free objects of a slub
  object_cur_nr,  \* page -> number of free objects, in the header of a slub
  partial,        \* cache -> sequence of the slubs that have free objects
  partial_nr,     \* cache -> their number, as the cache counts it
  call,           \* the slub_expand under way: its cache and the pages tried, or NULL
  faulted,        \* os_memory_slub_alloc has followed a null pointer
  blocks,         \* blocks of pages held by callers of os_memory_alloc; not in the code
  objects         \* slub objects held by callers, <<page, object>>; not in the code

slubVars == <<cache, free_item, object_cur_nr, partial, partial_nr>>
heldVars == <<blocks, objects>>
memoryVars == <<pageVars, slubVars, call, faulted, heldVars>>

\* os_memory_init: the buddy system, then the caches.  The buddy system's own
\* initialisation is that of OsMemoryPage; here it has already been carried out.
MemoryInit ==
  /\ PageInit
  /\ cache = [p \in Page |-> NULL]
  /\ free_item = [p \in Page |-> <<>>]
  /\ object_cur_nr = [p \in Page |-> 0]
  /\ partial = [c \in Cache |-> <<>>]
  /\ partial_nr = [c \in Cache |-> 0]
  /\ call = NULL
  /\ faulted = FALSE
  /\ blocks = {}
  /\ objects = {}

\* The memory subsystem can be called.
Ready == init_state = "done" /\ call = NULL /\ ~faulted

os_memory_page_init ==
  /\ os_memory_page_init_block \/ os_memory_page_init_end
  /\ UNCHANGED <<slubVars, call, faulted, heldVars>>

-----------------------------------------------------------------------------
\* os_memory_slub_alloc finds no slub and expands the cache: the list starts
\* afresh.
slub_expand(c) ==
  /\ Ready
  /\ partial_nr[c] = 0
  /\ partial' = [partial EXCEPT ![c] = <<>>]
  /\ call' = [cache |-> c, tried |-> 0]
  /\ UNCHANGED <<pageVars, cache, free_item, object_cur_nr, partial_nr, faulted, heldVars>>

\* Mutant: the free list lacks the slub's last object.
slub_page_init_Short(p, c) ==
  /\ cache' = [cache EXCEPT ![p] = c]
  /\ free_item' = [free_item EXCEPT ![p] = [i \in 1..(object_total_nr[c] - 1) |-> i]]
  /\ object_cur_nr' = [object_cur_nr EXCEPT ![p] = object_total_nr[c]]

slub_page_init(p, c) ==
  /\ cache' = [cache EXCEPT ![p] = c]
  /\ free_item' = [free_item EXCEPT ![p] = [i \in 1..object_total_nr[c] |-> i]]
  /\ object_cur_nr' = [object_cur_nr EXCEPT ![p] = object_total_nr[c]]

\* It gets one page more, which becomes an empty slub ...
slub_expand_page ==
  /\ call # NULL
  /\ call.tried < SLUB_MIN_PARTIAL
  /\ \E p \in Page :
       /\ PageAlloc(0, p)
       /\ slub_page_init(p, call.cache)
       /\ partial' = [partial EXCEPT ![call.cache] = <<p>> \o @]
  /\ partial_nr' = [partial_nr EXCEPT ![call.cache] = @ + 1]
  /\ call' = [call EXCEPT !.tried = @ + 1]
  /\ UNCHANGED <<initVars, faulted, heldVars>>

\* ... or none, and it stops trying.
slub_expand_fails ==
  /\ call # NULL
  /\ call.tried < SLUB_MIN_PARTIAL
  /\ PageAllocFails(0)
  /\ call' = [call EXCEPT !.tried = SLUB_MIN_PARTIAL]
  /\ UNCHANGED <<pageVars, slubVars, faulted, heldVars>>

\* Mutant: a slub that has just become full stays on the list.
TakeObject_KeepFull(c) ==
  LET p == Head(partial[c])
      full == Tail(free_item[p]) = <<>>
  IN  /\ partial[c] # <<>>
      /\ free_item' = [free_item EXCEPT ![p] = Tail(@)]
      /\ object_cur_nr' = [object_cur_nr EXCEPT ![p] = @ - 1]
      /\ partial_nr' = [partial_nr EXCEPT ![c] = IF full THEN @ - 1 ELSE @]
      /\ objects' = objects \cup {<<p, Head(free_item[p])>>}
      /\ UNCHANGED <<cache, partial, faulted>>

\* Mutant: the object stays on the slub's free list.
TakeObject_KeepItem(c) ==
  LET p == Head(partial[c])
  IN  /\ partial[c] # <<>>
      /\ object_cur_nr' = [object_cur_nr EXCEPT ![p] = @ - 1]
      /\ objects' = objects \cup {<<p, Head(free_item[p])>>}
      /\ UNCHANGED <<cache, partial, partial_nr, free_item, faulted>>

\* The first free object of the first slub.  The slub leaves the list when this
\* was its last one.
TakeObject(c) ==
  LET p == Head(partial[c])
      full == Tail(free_item[p]) = <<>>
  IN  /\ partial[c] # <<>>
      /\ free_item' = [free_item EXCEPT ![p] = Tail(@)]
      /\ object_cur_nr' = [object_cur_nr EXCEPT ![p] = @ - 1]
      /\ partial' = [partial EXCEPT ![c] = IF full THEN Tail(@) ELSE @]
      /\ partial_nr' = [partial_nr EXCEPT ![c] = IF full THEN @ - 1 ELSE @]
      /\ objects' = objects \cup {<<p, Head(free_item[p])>>}
      /\ UNCHANGED <<cache, faulted>>

\* partial_nr promised a slub and the list is empty: cache->partial->free_item.
FollowNull(c) ==
  /\ partial[c] = <<>>
  /\ faulted' = TRUE
  /\ UNCHANGED <<slubVars, objects>>

\* The rest of os_memory_slub_alloc, straight away or after the expansion.
os_memory_slub_alloc(c) ==
  /\ \/ Ready /\ partial_nr[c] # 0
     \/ call # NULL /\ call.cache = c /\ call.tried = SLUB_MIN_PARTIAL
  /\ \/ partial_nr[c] # 0 /\ (TakeObject(c) \/ FollowNull(c))
     \/ partial_nr[c] = 0 /\ UNCHANGED <<slubVars, faulted, objects>>
  /\ call' = NULL
  /\ UNCHANGED <<pageVars, blocks>>

-----------------------------------------------------------------------------
\* Mutant: the slub is given back while one of its objects is in use.
Surplus_OneShort(p, nr) ==
  /\ object_cur_nr[p] + 2 >= object_total_nr[cache[p]]
  /\ nr > SLUB_MIN_PARTIAL

\* With one more free object the slub is empty, and the cache has slubs to spare;
\* nr is the cache's count.
Surplus(p, nr) ==
  /\ object_cur_nr[p] + 1 = object_total_nr[cache[p]]
  /\ nr > SLUB_MIN_PARTIAL

\* Mutant: a slub that was full is put back and not counted.
Regained_NotCounted(p) == partial_nr[cache[p]]

\* The count of the cache once slub p has a free object.
Regained(p) == IF free_item[p] = <<>> THEN partial_nr[cache[p]] + 1 ELSE partial_nr[cache[p]]

\* A slub that was full goes to the front of the list; the object goes to the
\* front of the slub's free list; a surplus empty slub leaves the list, though
\* not the count, and is given back.
os_memory_slub_free(p, i) ==
  LET c == cache[p]
      list == IF free_item[p] = <<>> THEN <<p>> \o partial[c] ELSE partial[c]
      nr == Regained(p)
  IN  /\ Ready
      /\ <<p, i>> \in objects
      /\ objects' = objects \ {<<p, i>>}
      /\ free_item' = [free_item EXCEPT ![p] = <<i>> \o @]
      /\ object_cur_nr' = [object_cur_nr EXCEPT ![p] = @ + 1]
      /\ partial_nr' = [partial_nr EXCEPT ![c] = nr]
      /\ \/ /\ Surplus(p, nr)
            /\ partial' = [partial EXCEPT ![c] = page_remove(list, p)]
            /\ PageFree(p)
         \/ /\ ~Surplus(p, nr)
            /\ partial' = [partial EXCEPT ![c] = list]
            /\ UNCHANGED <<buddyVars, given>>
      /\ UNCHANGED <<initVars, cache, call, faulted, blocks>>

-----------------------------------------------------------------------------
\* os_memory_alloc of half a page or more, and the release of such a block.
AllocPages(n) ==
  /\ Ready
  /\ os_memory_page_alloc(n)
  /\ blocks' = blocks \cup (given' \ given)
  /\ UNCHANGED <<slubVars, call, faulted, objects>>

FreePages(a) ==
  /\ Ready
  /\ a \in blocks
  /\ os_memory_page_free(a)
  /\ blocks' = blocks \ {a}
  /\ UNCHANGED <<slubVars, call, faulted, objects>>

AllocObject ==
  \/ \E c \in Cache : slub_expand(c) \/ os_memory_slub_alloc(c)
  \/ slub_expand_page
  \/ slub_expand_fails

os_memory_alloc == AllocObject \/ \E n \in 1..MaxRequest : AllocPages(n)

\* A page boundary tells a block from an object: no object starts at one.
os_memory_free ==
  \/ \E a \in Page : FreePages(a)
  \/ \E o \in objects : os_memory_slub_free(o[1], o[2])

MemoryNext == os_memory_page_init \/ os_memory_alloc \/ os_memory_free

MemorySpec == MemoryInit /\ [][MemoryNext]_memoryVars

-----------------------------------------------------------------------------
\* The pages the caches hold.
Slubs == given \ blocks

ObjectsPerPage == UNION {1..object_total_nr[c] : c \in Cache}

SlubTypeOK ==
  /\ PageTypeOK
  /\ cache \in [Page -> Cache \cup {NULL}]
  /\ free_item \in [Page -> Seq(ObjectsPerPage)]
  /\ object_cur_nr \in [Page -> Nat]
  /\ partial \in [Cache -> Seq(Page)]
  /\ partial_nr \in [Cache -> Nat]
  /\ call \in {NULL} \cup [cache : Cache, tried : 0..SLUB_MIN_PARTIAL]
  /\ faulted \in BOOLEAN
  /\ blocks \in SUBSET given
  /\ objects \in SUBSET (Page \X ObjectsPerPage)

\* Every object of a slub is either on its free list, once, or in use, and the
\* header's count is right: no object is handed out twice, none is lost, and no
\* page with an object in use has gone back to the buddy system.
ObjectsAccounted ==
  /\ \A o \in objects : o[1] \in Slubs
  /\ \A p \in Slubs :
       LET inUse == {i \in ObjectsPerPage : <<p, i>> \in objects}
           free == ToSet(free_item[p])
       IN  /\ IsInjective(free_item[p])
           /\ object_cur_nr[p] = Len(free_item[p])
           /\ inUse \cap free = {}
           /\ inUse \cup free = 1..object_total_nr[cache[p]]

\* A cache's list holds exactly its slubs that have a free object, each once; so
\* a full slub is in no list and the free_item test in os_memory_slub_free sees
\* every slub that has to be put back.
PartialListsExact ==
  \A c \in Cache :
    /\ IsInjective(partial[c])
    /\ \A p \in Page : Contains(partial[c], p) <=>
         p \in Slubs /\ cache[p] = c /\ free_item[p] # <<>>

\* The count never promises less than the list holds: slub_expand, which forgets
\* the list, forgets no slub.
CountCoversList == \A c \in Cache : partial_nr[c] >= Len(partial[c])

\* A cache finds every slub it can take an object from, and the fields it reads have
\* their ranges.
CachesExact == SlubTypeOK /\ PartialListsExact /\ CountCoversList

(***************************************************************************)
(* Memory in use as regions of cells: cell 0 of a slub is its header, cell *)
(* i its object i; a block is all the cells of its pages.                  *)
(***************************************************************************)
Cells(p) == {p} \X (ObjectsPerPage \cup {0})
Header(p) == {<<p, 0>>}
BlockCells(a, o) == UNION {Cells(q) : q \in Block(a, o)}

HeapRegion ==
  {BlockCells(p, o) : p \in Page, o \in Order}
    \cup {{<<p, i>>} : p \in Page, i \in ObjectsPerPage \cup {0}}
InUse ==
  {Header(p) : p \in Slubs} \cup {{o} : o \in objects}
    \cup {BlockCells(a, order_allocated[a]) : a \in blocks}

Heap == INSTANCE HeapAllocator WITH Region <- HeapRegion, in_use <- InUse

\* Whatever mixture of pages and objects is allocated and freed, no cell is ever
\* in the hands of two owners, one of which may be the allocator itself.
ImplementsHeapAllocator == Heap!Spec

\* "Returns the block's address, or OS_NULL": an allocation never fails otherwise.
AllocReturns == ~faulted
=============================================================================
